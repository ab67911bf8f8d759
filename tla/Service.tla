------------------------------ MODULE Service ------------------------------
(***************************************************************************)
(* What the service commands of all platforms have in common: the service  *)
(* and its files, a command that goes through its steps one by one, and    *)
(* what can happen between two steps.  Any step may fail, the command may  *)
(* be killed, the agent may fail, and the machine may reboot.              *)
(*                                                                         *)
(* The service manager is external: each platform module has what its      *)
(* commands rely on.                                                       *)
(***************************************************************************)
EXTENDS Naturals

CONSTANTS
  Version,     \* the builds of lan-nick a user installs
  None,        \* no binary, no process
  MaxFaults    \* bound on failed steps, kills and reboots

ASSUME ServiceAssumption == None \notin Version /\ MaxFaults \in Nat

VARIABLES
  machine,     \* the files of the service, and the service
  pc,          \* the next step of the running command, or "idle"
  version,     \* the build that runs the command
  failed,      \* the error Uninstall has recorded
  outcome,     \* how the last command ended
  faults

command == <<version, failed, outcome>>
vars == <<machine, pc, command, faults>>

Machine == [
  unit     : BOOLEAN,              \* the service is defined
  enabled  : BOOLEAN,              \* it starts at boot
  binary   : Version \cup {None},  \* what is at InstallPath
  agent    : Version \cup {None},  \* the version of the running service
  aliases  : BOOLEAN,              \* the hosts or SSH files have entries
  survived : BOOLEAN]              \* the agent outlived a failed stop

TypeOK ==
  /\ machine \in Machine
  /\ pc \in {"idle", "stat", "stop", "copy", "write", "reload", "enable",
             "disable?", "disable", "unit", "binary", "reload after", "clean"}
             \cup {"bootout", "bootstrap", "bootout for good", "result"}
             \cup {"open", "query", "control", "stopping", "delete", "deleting",
                   "event source", "create", "source", "firewall", "start",
                   "undo all", "undo rule", "undo source", "undo service",
                   "undone", "rule"}
  /\ version \in Version
  /\ failed \in BOOLEAN
  /\ outcome \in {"none", "installed", "uninstalled", "failed"}
  /\ faults \in 0..MaxFaults

Init ==
  /\ machine = [unit |-> FALSE, enabled |-> FALSE, binary |-> None, agent |-> None,
                aliases |-> FALSE, survived |-> FALSE]
  /\ pc = "idle" /\ version \in Version /\ failed = FALSE
  /\ outcome = "none" /\ faults = 0

-----------------------------------------------------------------------------
(* How the steps of a command follow each other.                           *)

Fault == faults < MaxFaults /\ faults' = faults + 1

\* The step succeeds and the command goes on.
Step(this, next) ==
  pc = this /\ pc' = next /\ UNCHANGED <<command, faults>>

Ends(how) ==
  pc' = "idle" /\ outcome' = how /\ failed' = FALSE /\ UNCHANGED version

Begin(v, first) ==
  /\ pc = "idle" /\ pc' = first
  /\ version' = v /\ outcome' = "none"
  /\ UNCHANGED <<machine, failed, faults>>

\* A stopped agent clears its entries, unless it has to be killed.
Stopped ==
  {[machine EXCEPT !.agent = None, !.survived = FALSE, !.aliases = a] :
     a \in {machine.aliases, FALSE}}

-----------------------------------------------------------------------------
(* Steps that are the same on several platforms.                           *)

\* Sync of an empty snapshot to the hosts file and the SSH files, once the
\* service is gone.
UninstallClean ==
  /\ pc = "clean"
  /\ Ends("uninstalled")
  /\ machine' = [machine EXCEPT !.aliases = FALSE]
  /\ UNCHANGED faults

\* The running agent writes what it has heard.
AgentPublishes ==
  /\ machine.agent # None
  /\ machine' = [machine EXCEPT !.aliases = TRUE]
  /\ UNCHANGED <<pc, command, faults>>

\* The agent fails and the manager restarts what is at the path by then.
AgentRestarts ==
  /\ machine.agent # None
  /\ machine' = [machine EXCEPT !.agent = machine.binary]
  /\ Fault
  /\ UNCHANGED <<pc, command>>

KillCommand == pc # "idle" /\ Ends("failed") /\ Fault /\ UNCHANGED machine

-----------------------------------------------------------------------------
(* Properties.                                                             *)

\* No agent runs without a unit file through which it can be stopped, except
\* one that an uninstall already failed to stop: killing any command at any
\* step, and any other failure, leaves none.
NoOrphan == machine.agent # None /\ ~machine.unit => machine.survived

Complete ==
  /\ machine.agent = None /\ ~machine.unit /\ machine.binary = None
  /\ ~machine.aliases

\* "Uninstallation stops the service, removes its installed system binary and
\* service definition, and clears the managed ... mappings."  The code breaks
\* this: an uninstall repeated after one whose `disable --now` failed finds no
\* unit file, stops nothing and reports success.
UninstallIsComplete == outcome = "uninstalled" => Complete

\* That is the only way: every other uninstall that reports success is
\* complete at that moment, whatever failed or was killed before it.
UninstallCompletes ==
  [][outcome' = "uninstalled" /\ outcome # "uninstalled" /\ ~machine.survived
       => Complete']_vars

\* "Re-running install from a newer binary upgrades and restarts an existing
\* service": what runs after a successful install is what was installed,
\* under the same exception.
InstallRuns ==
  outcome = "installed" /\ ~machine.survived =>
    /\ machine.agent = version /\ machine.binary = version
    /\ machine.unit /\ machine.enabled
=============================================================================
