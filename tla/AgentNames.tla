----------------------------- MODULE AgentNames -----------------------------
(***************************************************************************)
(* An agent that makes the aliases of machines from their nicknames, which *)
(* are spelled out.                                                        *)
(***************************************************************************)
EXTENDS Agent, AliasName

CONSTANTS
  Spelled,     \* the runes of a nickname
  Checked      \* the nicknames, machines' or not, of which an alias is made

SpelledAliasOf == [n \in Nickname |-> AliasFor(Spelled[n])]
SpelledAlias == {SpelledAliasOf[n] : n \in Nickname}

ASSUME AgentNamesAssumption ==
  /\ \A n \in Nickname : Spelled[n] \in Seq(Rune)
  /\ Checked \subseteq Seq(Rune)
  /\ AliasOf = SpelledAliasOf /\ Alias = SpelledAlias

\* These are constants, which TLC evaluates once.
AllUsable == \A n \in Checked : Usable(AliasFor(n))
AllStable == \A n \in Checked : Stable(AliasFor(n))
AllFaithful == \A n \in Checked : Faithful(n)

\* Every alias may stand in a hosts file, and what stands there may.
AliasesUsable == AllUsable /\ \A e \in hosts : Usable(e.alias)

\* A machine may be renamed to its alias, or to one in the hosts file, and has it.
AliasesStable == AllStable /\ \A e \in hosts : Stable(e.alias)

\* Every alias is the one the definition by words gives, those of the machines
\* in the map included.
AliasesFaithful ==
  AllFaithful /\ \A id \in DOMAIN peers : Faithful(Spelled[peers[id].nickname])
=============================================================================
