---------------------------- MODULE MCManagedFile ---------------------------
(***************************************************************************)
(* A small instance of ManagedFile: no peer, one, or one whose nickname    *)
(* spells an end, and a file that is empty, or has a line and a blank one. *)
(***************************************************************************)
EXTENDS ManagedFile

CONSTANTS u, v

MCUserLine == {u, v}
MCBody == {<<>>, <<"a">>, <<"a", "end">>}
MCFound == {<<>>, <<u, "blank">>}
=============================================================================
