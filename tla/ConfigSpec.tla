----------------------------- MODULE ConfigSpec -----------------------------
(***************************************************************************)
(* What the commands promise about a machine's configuration, as if it     *)
(* were one variable: it is created once, keeps its ID for ever, and every *)
(* later change is one `rename` or one `group` of the current value.       *)
(***************************************************************************)
CONSTANTS MachineID, Nickname, Group, NoGroup, Hostname, Missing

VARIABLE config

Config == [id : MachineID, nickname : Nickname, group : Group \cup {NoGroup}]

Created(id) == [id |-> id, nickname |-> Hostname, group |-> NoGroup]

Init == config \in Config \cup {Missing}

Create ==
  /\ config = Missing
  /\ \E id \in MachineID : config' = Created(id)

Rename ==
  /\ config # Missing
  /\ \E n \in Nickname : config' = [config EXCEPT !.nickname = n]

SetGroup ==
  /\ config # Missing
  /\ \E g \in Group : config' = [config EXCEPT !.group = g]

Next == Create \/ Rename \/ SetGroup

Spec == Init /\ [][Next]_config
=============================================================================
