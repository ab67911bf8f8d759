---------------------------- MODULE MCAgentFiles ----------------------------
(***************************************************************************)
(* The instance of AgentNames with three names, of which the first two     *)
(* collide.                                                                *)
(***************************************************************************)
EXTENDS MCAgent, AgentNames

MCRune == {"A", "a", "b", "K", "ö", " ", "-"}
MCLetter == {"a", "b"}
MCForeign == {"K", "ö"}
\* Like the Kelvin sign, K is no ASCII letter, and its lower case is one.
MCLower == "A" :> "a" @@ "K" :> "b"
MCMaxLength == 4
MCFallback == <<"b", "-", "b">>
MCReserved == {<<"a", "b">>}
MCPrefix == <<"b", "-">>

MCSpelled == nA :> <<"A", "ö", "K">> @@ nB :> <<"a", "b">> @@ nC :> <<"a", " ", "b">>

\* Nicknames of up to five runes.
MCChecked == UNION {[1..n -> Rune] : n \in 0..5}
=============================================================================
