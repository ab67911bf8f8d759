------------------------------- MODULE MCLan -------------------------------
(***************************************************************************)
(* Small instances of Lan.  Machines are told apart by nothing but their   *)
(* IDs, and names by nothing but their aliases.                            *)
(***************************************************************************)
EXTENDS Lan, TLC

MCAliasOf == [n \in Nickname |-> n]
MCAddressOf == [m \in MachineID |-> m]

Interchangeable == Permutations(MachineID) \cup Permutations(Nickname)
=============================================================================
