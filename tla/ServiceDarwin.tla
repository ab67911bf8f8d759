---------------------------- MODULE ServiceDarwin ---------------------------
(***************************************************************************)
(* `lan-nick install` and `lan-nick uninstall` on macOS, step by step.     *)
(*                                                                         *)
(* launchd is external.  `bootout` goes by the label: it stops the service *)
(* whether or not the plist still exists, and reports a service that is    *)
(* not loaded in words the code recognises.  At boot launchd loads every   *)
(* plist of the directory.                                                 *)
(***************************************************************************)
EXTENDS Service

-----------------------------------------------------------------------------
(* Install: every error ends the command.                                  *)

\* bootoutLaunchd before the executable is replaced; none loaded is no error.
InstallBootout == Step("bootout", "copy") /\ machine' \in Stopped

InstallCopy == Step("copy", "write") /\ machine' = [machine EXCEPT !.binary = version]

\* The plist has RunAtLoad: with it the service starts at boot.
InstallWrite ==
  Step("write", "bootstrap") /\ machine' = [machine EXCEPT !.unit = TRUE, !.enabled = TRUE]

\* `launchctl enable`, whose error is ignored, then `launchctl bootstrap`, which
\* loads nothing twice.
InstallBootstrap ==
  /\ pc = "bootstrap" /\ machine.agent = None
  /\ Ends("installed")
  /\ machine' = [machine EXCEPT !.agent = machine.binary]
  /\ UNCHANGED faults

InstallFails ==
  /\ pc \in {"bootout", "copy", "write", "bootstrap"}
  /\ Ends("failed")
  /\ Fault
  /\ UNCHANGED machine

-----------------------------------------------------------------------------
(* Uninstall, then the cleanup of uninstallBackgroundService.              *)

\* MUTANT: the plist decides whether there is something to stop.
UninstallIfDefined ==
  /\ Step("bootout for good", "unit")
  /\ IF machine.unit THEN machine' \in Stopped ELSE UNCHANGED machine

UninstallBootout == Step("bootout for good", "unit") /\ machine' \in Stopped

\* The error is recorded and the files are removed all the same.
UninstallBootoutFails ==
  /\ pc = "bootout for good" /\ pc' = "unit" /\ failed' = TRUE
  /\ machine' = [machine EXCEPT !.survived = machine.agent # None]
  /\ Fault
  /\ UNCHANGED <<version, outcome>>

UninstallRemovePlist ==
  Step("unit", "binary") /\ machine' = [machine EXCEPT !.unit = FALSE, !.enabled = FALSE]

UninstallRemoveBinary ==
  Step("binary", "result") /\ machine' = [machine EXCEPT !.binary = None]

UninstallRemoveFails ==
  /\ pc \in {"unit", "binary"}
  /\ pc' = IF pc = "unit" THEN "binary" ELSE "result"
  /\ failed' = TRUE
  /\ Fault
  /\ UNCHANGED <<machine, version, outcome>>

\* MUTANT: the managed files are cleared whatever Uninstall returned.
UninstallResultIgnored == Step("result", "clean") /\ UNCHANGED machine

\* The first error is the result; the cleanup follows only without one.
UninstallResult ==
  /\ pc = "result"
  /\ \/ ~failed /\ Step("result", "clean")
     \/ failed /\ Ends("failed") /\ UNCHANGED faults
  /\ UNCHANGED machine

UninstallCleanFails == pc = "clean" /\ Ends("failed") /\ Fault /\ UNCHANGED machine

-----------------------------------------------------------------------------
(* The machine; the agent and launchd's KeepAlive are in Service.          *)

Reboot ==
  /\ machine' = [machine EXCEPT !.survived = FALSE,
       !.agent = IF machine.unit THEN machine.binary ELSE None]
  /\ Ends(IF pc = "idle" THEN outcome ELSE "failed")
  /\ Fault

Install ==
  \/ \E v \in Version : Begin(v, "bootout")
  \/ InstallBootout \/ InstallCopy \/ InstallWrite \/ InstallBootstrap \/ InstallFails

Uninstall ==
  \/ \E v \in Version : Begin(v, "bootout for good")
  \/ UninstallBootout \/ UninstallBootoutFails
  \/ UninstallRemovePlist \/ UninstallRemoveBinary \/ UninstallRemoveFails
  \/ UninstallResult \/ UninstallClean \/ UninstallCleanFails

Next == Install \/ Uninstall \/ AgentPublishes \/ AgentRestarts \/ KillCommand \/ Reboot

Spec == Init /\ [][Next]_vars
=============================================================================
