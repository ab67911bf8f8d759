---------------------------- MODULE ServiceLinux ----------------------------
(***************************************************************************)
(* `lan-nick install` and `lan-nick uninstall` on Linux, step by step, and *)
(* what systemd does with the service they manage.  Any step may fail, the *)
(* command may be killed between two steps, and the machine may reboot.    *)
(*                                                                         *)
(* systemd is external: the model has what the commands rely on.  A        *)
(* service whose unit file is removed keeps running, and `enable --now`    *)
(* starts a service only if it is not running.                             *)
(***************************************************************************)
EXTENDS Service

-----------------------------------------------------------------------------
(* Install: every error ends the command.                                  *)

\* MUTANT: a service that is already installed is not stopped first.
InstallWithoutStop == Step("stat", "copy") /\ UNCHANGED machine

InstallStat ==
  /\ Step("stat", IF machine.unit THEN "stop" ELSE "copy")
  /\ UNCHANGED machine

InstallStop == Step("stop", "copy") /\ machine' \in Stopped
InstallCopy == Step("copy", "write") /\ machine' = [machine EXCEPT !.binary = version]
InstallWrite == Step("write", "reload") /\ machine' = [machine EXCEPT !.unit = TRUE]
InstallReload == Step("reload", "enable") /\ UNCHANGED machine

InstallEnable ==
  /\ pc = "enable"
  /\ Ends("installed")
  /\ machine' = [machine EXCEPT !.enabled = TRUE,
                   !.agent = IF machine.agent = None THEN machine.binary ELSE @]
  /\ UNCHANGED faults

\* enable --now may fail before or after it has enabled the service.
InstallFails ==
  /\ pc \in {"stop", "copy", "write", "reload", "enable"}
  /\ Ends("failed")
  /\ machine' \in {machine} \cup
       {[machine EXCEPT !.enabled = e] : e \in IF pc = "enable" THEN {TRUE} ELSE {}}
  /\ Fault

-----------------------------------------------------------------------------
(* Uninstall, then the cleanup of uninstallBackgroundService.              *)

\* MUTANT: a service that is already installed is not stopped first.
UninstallWithoutStop == Step("disable?", "unit") /\ UNCHANGED machine

UninstallStat ==
  /\ Step("disable?", IF machine.unit THEN "disable" ELSE "unit")
  /\ UNCHANGED machine

UninstallDisable ==
  /\ Step("disable", "unit")
  /\ machine' \in {[m EXCEPT !.enabled = FALSE] : m \in Stopped}

\* The error is recorded and the files are removed all the same.
UninstallDisableFails ==
  /\ pc = "disable" /\ pc' = "unit" /\ failed' = TRUE
  /\ \E e \in {machine.enabled, FALSE} :
       machine' = [machine EXCEPT !.enabled = e, !.survived = machine.agent # None]
  /\ Fault
  /\ UNCHANGED <<version, outcome>>

UninstallRemoveUnit == Step("unit", "binary") /\ machine' = [machine EXCEPT !.unit = FALSE]

UninstallRemoveBinary ==
  Step("binary", "reload after") /\ machine' = [machine EXCEPT !.binary = None]

UninstallRemoveFails ==
  /\ pc \in {"unit", "binary"}
  /\ pc' = IF pc = "unit" THEN "binary" ELSE "reload after"
  /\ failed' = TRUE
  /\ Fault
  /\ UNCHANGED <<machine, version, outcome>>

\* MUTANT: the error of an earlier step is overwritten by a later success.
UninstallForgetsError == Step("reload after", "clean") /\ UNCHANGED machine

\* Uninstall returns the error it has recorded.
UninstallReload ==
  /\ pc = "reload after"
  /\ \/ ~failed /\ Step("reload after", "clean")
     \/ failed /\ Ends("failed") /\ UNCHANGED faults
  /\ UNCHANGED machine

UninstallFails ==
  /\ pc \in {"reload after", "clean"}
  /\ Ends("failed")
  /\ Fault
  /\ UNCHANGED machine

-----------------------------------------------------------------------------
(* The machine; the agent and systemd are in Service.                      *)

\* The services that are enabled start; entries of the files survive.
Reboot ==
  /\ machine' = [machine EXCEPT !.survived = FALSE,
       !.agent = IF machine.unit /\ machine.enabled THEN machine.binary ELSE None]
  /\ Ends(IF pc = "idle" THEN outcome ELSE "failed")
  /\ Fault

Install ==
  \/ \E v \in Version : Begin(v, "stat")
  \/ InstallStat \/ InstallStop \/ InstallCopy \/ InstallWrite \/ InstallReload
  \/ InstallEnable \/ InstallFails

Uninstall ==
  \/ \E v \in Version : Begin(v, "disable?")
  \/ UninstallStat \/ UninstallDisable \/ UninstallDisableFails
  \/ UninstallRemoveUnit \/ UninstallRemoveBinary \/ UninstallRemoveFails
  \/ UninstallReload \/ UninstallClean \/ UninstallFails

Next == Install \/ Uninstall \/ AgentPublishes \/ AgentRestarts \/ KillCommand \/ Reboot

Spec == Init /\ [][Next]_vars
=============================================================================
