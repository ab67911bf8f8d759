--------------------------- MODULE ServiceWindows ---------------------------
(***************************************************************************)
(* `lan-nick install` and `lan-nick uninstall` on Windows, and the handler *)
(* that runs the agent as a service.                                       *)
(*                                                                         *)
(* The service control manager (SCM) is external.  It deletes a service    *)
(* that is marked only when the service has stopped and no handle is open, *)
(* starts automatic services some time after boot, and restarts nothing    *)
(* that failed.  The image of a process can be neither replaced nor        *)
(* removed until the process is gone, which is after its service has       *)
(* reported that it stopped.                                               *)
(***************************************************************************)
EXTENDS Service

VARIABLE scm

windowsVars == <<vars, scm>>

Extras == {"source", "rule"}   \* the event log source, the firewall rule

SCM == [
  state     : {"stopped", "running", "stopping"},
  marked    : BOOLEAN,              \* for deletion
  pending   : BOOLEAN,              \* the delayed start after boot is to come
  lingering : BOOLEAN,              \* a stopped service's process still exists
  extras    : SUBSET Extras,
  caller    : {"install", "uninstall"},
  inPlace   : BOOLEAN,              \* the command runs the installed executable
  before    : Version \cup {None},  \* the binary when the command began
  slipped   : BOOLEAN]              \* an ignored error, or the command was killed

WindowsTypeOK == TypeOK /\ scm \in SCM

SCMInit == [state |-> "stopped", marked |-> FALSE, pending |-> FALSE,
            lingering |-> FALSE, extras |-> {}, caller |-> "install",
            inPlace |-> FALSE, before |-> None, slipped |-> FALSE]

WindowsInit == Init /\ scm = SCMInit

-----------------------------------------------------------------------------
(* Shapes of steps.                                                        *)

BeginWindows(caller) ==
  \E v \in Version, inPlace \in BOOLEAN :
    /\ inPlace => machine.binary = v
    /\ Begin(v, "open")
    /\ scm' = [scm EXCEPT !.caller = caller, !.inPlace = inPlace,
                          !.before = machine.binary, !.slipped = FALSE]

\* The step at `this` goes wrong and ends the command.
Fails(this) == pc = this /\ Ends("failed") /\ Fault /\ UNCHANGED <<machine, scm>>

\* It fails because of the state of the system.
Refused(this) ==
  pc = this /\ Ends("failed") /\ UNCHANGED <<machine, scm, faults>>

\* Its error is ignored.
Slips(this, next) ==
  /\ pc = this /\ pc' = next /\ UNCHANGED <<machine, command>>
  /\ scm' = [scm EXCEPT !.slipped = TRUE]
  /\ Fault

\* A step on the event log source or the firewall rule.
SetExtras(this, next, extras) ==
  Step(this, next) /\ scm' = [scm EXCEPT !.extras = extras] /\ UNCHANGED machine

-----------------------------------------------------------------------------
(* removeWindowsService, the first part of both commands.                  *)

Open ==
  /\ Step("open", IF machine.unit THEN "query" ELSE "event source")
  /\ UNCHANGED <<machine, scm>>

Query ==
  /\ Step("query", IF scm.state = "stopped" THEN "delete" ELSE "control")
  /\ UNCHANGED <<machine, scm>>

\* A service that is stopping accepts no further control.
Control ==
  \/ /\ scm.state = "running"
     /\ Step("control", "stopping")
     /\ scm' = [scm EXCEPT !.state = "stopping"]
     /\ UNCHANGED machine
  \/ /\ scm.state = "stopped"
     /\ Step("control", "delete")
     /\ UNCHANGED <<machine, scm>>
  \/ scm.state = "stopping" /\ Refused("control")

\* At the deadline of 20 seconds the wait Fails.
AwaitStopped ==
  /\ scm.state = "stopped"
  /\ Step("stopping", "delete")
  /\ UNCHANGED <<machine, scm>>

Delete ==
  \/ /\ ~scm.marked
     /\ Step("delete", "deleting")
     /\ scm' = [scm EXCEPT !.marked = TRUE]
     /\ UNCHANGED machine
  \/ scm.marked /\ Refused("delete")

\* MUTANT: the deadline of the deletion is not an error.
AwaitDeletedOrDeadline == Step("deleting", "event source") /\ UNCHANGED <<machine, scm>>

\* At the deadline of 10 seconds the wait Fails.
AwaitDeleted ==
  /\ ~machine.unit
  /\ Step("deleting", "event source")
  /\ UNCHANGED <<machine, scm>>

\* eventlog.Remove, in both commands.
RemoveSource ==
  LET next == IF scm.caller = "install" THEN "copy" ELSE "rule"
  IN \/ SetExtras("event source", next, scm.extras \ {"source"})
     \/ Slips("event source", next)

RemoveService ==
  \/ Open \/ Query \/ Control \/ AwaitStopped \/ Delete \/ AwaitDeleted \/ RemoveSource
  \/ \E this \in {"open", "query", "control", "stopping", "delete", "deleting"} :
       Fails(this)

-----------------------------------------------------------------------------
(* The rest of Install, and its rollback.                                  *)

\* installExecutable: nothing to do for the installed executable itself, and
\* not possible while a process still uses the one that is there.
Copy ==
  \/ /\ scm.inPlace \/ ~scm.lingering
     /\ Step("copy", "create")
     /\ machine' = [machine EXCEPT !.binary = version]
     /\ UNCHANGED scm
  \/ ~scm.inPlace /\ scm.lingering /\ Refused("copy")

Create ==
  /\ Step("create", "source")
  /\ machine' = [machine EXCEPT !.unit = TRUE, !.enabled = TRUE]
  /\ scm' = [scm EXCEPT !.state = "stopped"]

InstallSource == SetExtras("source", "firewall", scm.extras \cup {"source"})

\* configureWindowsFirewall removes the rule, then adds it.
Firewall == SetExtras("firewall", "start", scm.extras \cup {"rule"})

StartService ==
  /\ pc = "start"
  /\ Ends("installed")
  /\ machine' = [machine EXCEPT !.agent = machine.binary]
  /\ scm' = [scm EXCEPT !.state = "running"]
  /\ UNCHANGED faults

\* MUTANT: when the rule cannot be added only the event log source is undone.
RollBackHalf ==
  \/ pc = "source" /\ pc' = "undo service" /\ UNCHANGED scm
  \/ /\ pc = "firewall" /\ pc' = "undone"
     /\ scm' = [scm EXCEPT !.extras = @ \ {"rule"}]
  \/ pc = "start" /\ pc' = "undo all" /\ UNCHANGED scm

\* What each error undoes; a failing `add rule` has removed the old rule.
RollBack ==
  \/ pc = "source" /\ pc' = "undo service" /\ UNCHANGED scm
  \/ /\ pc = "firewall" /\ pc' = "undo source"
     /\ scm' = [scm EXCEPT !.extras = @ \ {"rule"}]
  \/ pc = "start" /\ pc' = "undo all" /\ UNCHANGED scm

InstallFails ==
  \/ RollBack /\ Fault /\ UNCHANGED <<machine, command>>
  \/ \E this \in {"copy", "create"} : Fails(this)

Undo ==
  \/ SetExtras("undo all", "undo rule", scm.extras \ {"source"})
  \/ Slips("undo all", "undo rule")
  \/ SetExtras("undo rule", "undo service", scm.extras \ {"rule"})
  \/ Slips("undo rule", "undo service")
  \/ SetExtras("undo source", "undo service", scm.extras \ {"source"})
  \/ Slips("undo source", "undo service")
  \/ /\ Step("undo service", "undone")
     /\ scm' = [scm EXCEPT !.marked = TRUE]
     /\ UNCHANGED machine
  \/ Slips("undo service", "undone")
  \/ Refused("undone")

Install ==
  \/ BeginWindows("install")
  \/ Copy \/ Create \/ InstallSource \/ Firewall \/ StartService
  \/ InstallFails \/ Undo

-----------------------------------------------------------------------------
(* The rest of Uninstall, then the cleanup of uninstallBackgroundService.  *)

RemoveRule ==
  \/ SetExtras("rule", "binary", scm.extras \ {"rule"})
  \/ Slips("rule", "binary")

\* MUTANT: an executable that cannot be removed is left for later.
RemoveBinaryIfFree ==
  /\ Step("binary", "clean")
  /\ machine' = [machine EXCEPT !.binary =
                   IF scm.inPlace \/ scm.lingering THEN @ ELSE None]
  /\ UNCHANGED scm

RemoveBinary ==
  LET inUse == machine.binary # None /\ (scm.inPlace \/ scm.lingering)
  IN \/ /\ ~inUse
        /\ Step("binary", "clean")
        /\ machine' = [machine EXCEPT !.binary = None]
        /\ UNCHANGED scm
     \/ inUse /\ Refused("binary")

Uninstall ==
  \/ BeginWindows("uninstall")
  \/ RemoveRule \/ RemoveBinary
  \/ UninstallClean /\ UNCHANGED scm
  \/ \E this \in {"binary", "clean"} : Fails(this)

-----------------------------------------------------------------------------
(* The handler, the SCM and the machine.                                   *)

\* Execute answers a stop once the agent has returned; svc.Run tells the SCM.
HandlerStops ==
  /\ scm.state = "stopping"
  /\ scm' = [scm EXCEPT !.state = "stopped", !.lingering = TRUE]
  /\ machine' \in Stopped
  /\ UNCHANGED <<pc, command, faults>>

\* It gives up after 20 seconds while the agent still runs.
HandlerTimesOut ==
  /\ scm.state = "stopping"
  /\ scm' = [scm EXCEPT !.state = "stopped", !.lingering = TRUE]
  /\ machine' = [machine EXCEPT !.survived = TRUE]
  /\ Fault
  /\ UNCHANGED <<pc, command>>

\* The agent returns an error, and Execute with it.
AgentFails ==
  /\ scm.state = "running"
  /\ scm' = [scm EXCEPT !.state = "stopped", !.lingering = TRUE]
  /\ machine' = [machine EXCEPT !.agent = None]
  /\ Fault
  /\ UNCHANGED <<pc, command>>

\* The process whose service has stopped ends, and what it still ran.
ProcessExits ==
  /\ scm.lingering
  /\ scm' = [scm EXCEPT !.lingering = FALSE]
  /\ machine' = [machine EXCEPT !.survived = FALSE,
                   !.agent = IF scm.state = "stopped" THEN None ELSE @]
  /\ UNCHANGED <<pc, command, faults>>

\* The commands hold a handle from OpenService or CreateService until they
\* have deleted the service or return.
HandleOpen ==
  pc \in {"query", "control", "stopping", "delete", "source", "firewall", "start",
          "undo all", "undo rule", "undo source", "undo service", "undone"}

SCMDeletes ==
  /\ scm.marked /\ scm.state = "stopped" /\ ~HandleOpen
  /\ machine' = [machine EXCEPT !.unit = FALSE, !.enabled = FALSE]
  /\ scm' = [scm EXCEPT !.marked = FALSE, !.pending = FALSE]
  /\ UNCHANGED <<pc, command, faults>>

\* The start after boot finds the service as it is by then.
DelayedStart ==
  /\ scm.pending
  /\ scm' = [scm EXCEPT !.pending = FALSE,
               !.state = IF scm.marked THEN @ ELSE "running"]
  /\ machine' = [machine EXCEPT !.agent = IF scm.marked THEN @ ELSE machine.binary]
  /\ UNCHANGED <<pc, command, faults>>

\* A shutdown stops the agent, a power failure does not.
Reboot ==
  /\ LET unit == machine.unit /\ ~scm.marked
     IN /\ machine' \in {[m EXCEPT !.unit = unit, !.enabled = unit] : m \in Stopped}
        /\ scm' = [scm EXCEPT !.state = "stopped", !.marked = FALSE,
                              !.lingering = FALSE, !.pending = unit,
                              !.slipped = @ \/ pc # "idle"]
  /\ Ends(IF pc = "idle" THEN outcome ELSE "failed")
  /\ Fault

KillWindowsCommand == KillCommand /\ scm' = [scm EXCEPT !.slipped = TRUE]

WindowsNext ==
  \/ Install \/ Uninstall \/ RemoveService
  \/ HandlerStops \/ HandlerTimesOut \/ AgentFails \/ ProcessExits
  \/ SCMDeletes \/ DelayedStart \/ Reboot \/ KillWindowsCommand
  \/ AgentPublishes /\ UNCHANGED scm

WindowsSpec == WindowsInit /\ [][WindowsNext]_windowsVars

-----------------------------------------------------------------------------
(* Properties.                                                             *)

\* What the SCM may start has an executable: neither command replaces or
\* removes it before the service is gone for good, however the waits of
\* stopWindowsService and removeWindowsService end.
StartsSomething == machine.unit => machine.binary # None

\* An install that fails, and whose rollback went as written, leaves no service
\* that would start what it has put in place at the next boot.
RolledBack ==
  outcome = "failed" /\ scm.caller = "install" /\ ~scm.slipped =>
    \/ ~machine.unit \/ scm.marked
    \/ machine.binary = scm.before

\* An uninstall that reports success has removed everything, although it does
\* not look at the errors of two steps, and although a handler that gave up
\* lets the agent run on: its process then still holds the executable.
WindowsUninstallIsComplete ==
  outcome = "uninstalled" => Complete /\ (scm.slipped \/ scm.extras = {})

\* After a successful install the SCM runs, or would start, what was installed.
WindowsInstallRuns ==
  outcome = "installed" =>
    /\ machine.unit /\ ~scm.marked /\ machine.binary = version
    /\ machine.agent \in {version, None}
=============================================================================
