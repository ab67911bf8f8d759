------------------------ MODULE ServiceWindowsProofs ------------------------
(***************************************************************************)
(* What install and uninstall leave behind on Windows, for any number of   *)
(* versions, commands and faults, and whatever the handler and the SCM do  *)
(* between two steps of a command.                                         *)
(***************************************************************************)
EXTENDS ServiceWindows, TLAPS

\* How the service, its process and its executable belong together.
SCMInv ==
  /\ scm.state # "stopped" \/ scm.marked \/ scm.pending => machine.unit
  /\ scm.state = "stopped" /\ machine.agent # None =>
       machine.survived /\ scm.lingering
  /\ machine.unit \/ machine.agent # None => machine.binary # None

\* What a command has found or done so far is there.  The handle it holds on
\* the service keeps the SCM from deleting it.
ProgressInv ==
  /\ pc \in {"query", "control", "stopping", "delete", "source", "firewall", "start",
             "undo all", "undo rule", "undo source", "undo service"} => machine.unit
  /\ pc \in {"event source", "copy", "create", "rule", "binary", "clean"} => ~machine.unit
  /\ pc \in {"open", "query", "control", "stopping", "delete", "deleting",
             "event source", "copy"} => machine.binary = scm.before
  /\ pc \in {"create", "source", "firewall", "start"} => machine.binary = version
  /\ pc \in {"source", "firewall", "start"} => ~scm.marked
  /\ pc = "undone" => scm.slipped \/ scm.marked
  /\ pc = "rule" => scm.slipped \/ scm.extras \subseteq {"rule"}
  /\ pc \in {"binary", "clean"} => scm.slipped \/ scm.extras = {}
  /\ pc = "clean" => machine.agent = None /\ machine.binary = None

\* What a command has left stays until the next one.
OutcomeInv ==
  /\ outcome # "none" => pc = "idle"
  /\ RolledBack /\ WindowsUninstallIsComplete /\ WindowsInstallRuns

WindowsInv == WindowsTypeOK /\ SCMInv /\ ProgressInv /\ OutcomeInv

\* Nothing is installed at first.
LEMMA WindowsInitInv == WindowsInit => WindowsInv
<1>1. WindowsInit => WindowsTypeOK
  <2>1. WindowsInit => machine \in Machine /\ scm \in SCM /\ faults \in 0..MaxFaults
    BY ServiceAssumption DEF WindowsInit, Init, SCMInit, Machine, SCM
  <2>. QED BY <2>1 DEF WindowsInit, Init, WindowsTypeOK, TypeOK
<1>2. WindowsInit => SCMInv /\ ProgressInv /\ OutcomeInv
  BY DEF WindowsInit, Init, SCMInit, SCMInv, ProgressInv, OutcomeInv, RolledBack,
         WindowsUninstallIsComplete, WindowsInstallRuns
<1>. QED BY <1>1, <1>2 DEF WindowsInv

\* Stopping the agent changes nothing else, and leaves no agent.
LEMMA StoppedLemma ==
  ASSUME machine \in Machine
  PROVE  \A m \in Stopped :
           /\ m \in Machine /\ m.agent = None /\ m.survived = FALSE
           /\ m.unit = machine.unit /\ m.binary = machine.binary
           /\ m.enabled = machine.enabled
           /\ ~machine.aliases => ~m.aliases
  BY DEF Stopped, Machine

\* A fault that happens stays within the bound.
LEMMA FaultTyped == TypeOK /\ Fault => faults' \in 0..MaxFaults
<1>1. TypeOK => faults \in 0..MaxFaults
  BY DEF TypeOK
<1>2. MaxFaults \in Nat
  BY ServiceAssumption
<1>. QED BY <1>1, <1>2 DEF Fault

\* Neither command does anything before its first step.
LEMMA BeginStep ==
  ASSUME WindowsInv, NEW caller \in {"install", "uninstall"}, BeginWindows(caller)
  PROVE  WindowsInv'
<1>1. PICK v \in Version, inPlace \in BOOLEAN :
        /\ Begin(v, "open")
        /\ scm' = [scm EXCEPT !.caller = caller, !.inPlace = inPlace,
                              !.before = machine.binary, !.slipped = FALSE]
  BY DEF BeginWindows
<1>2. /\ pc = "idle" /\ pc' = "open" /\ version' = v /\ outcome' = "none"
      /\ UNCHANGED <<machine, failed, faults>>
  BY <1>1 DEF Begin
<1>3. machine \in Machine /\ machine.binary \in Version \cup {None} /\ scm \in SCM
  BY DEF WindowsInv, WindowsTypeOK, TypeOK, Machine
<1>4. scm' \in SCM
  BY <1>1, <1>3 DEF SCM
<1>5. WindowsTypeOK'
  BY <1>2, <1>4 DEF WindowsInv, WindowsTypeOK, TypeOK
<1>6. /\ scm'.state = scm.state /\ scm'.marked = scm.marked
      /\ scm'.pending = scm.pending /\ scm'.lingering = scm.lingering
      /\ scm'.before = machine.binary
  BY <1>1, <1>3 DEF SCM
<1>7. SCMInv'
  BY <1>2, <1>6 DEF WindowsInv, SCMInv
<1>8. ProgressInv'
  BY <1>2, <1>6 DEF ProgressInv
<1>9. OutcomeInv'
  BY <1>2 DEF OutcomeInv, RolledBack, WindowsUninstallIsComplete, WindowsInstallRuns
<1>. QED BY <1>5, <1>7, <1>8, <1>9 DEF WindowsInv

\* Each step of removeWindowsService keeps the invariant.
LEMMA RemoveServiceStep == WindowsInv /\ RemoveService => WindowsInv'
<1>. SUFFICES ASSUME WindowsInv, RemoveService PROVE WindowsInv'
  OBVIOUS
<1>. USE DEF WindowsInv, SCMInv, ProgressInv, OutcomeInv, RolledBack,
           WindowsUninstallIsComplete, WindowsInstallRuns, Complete
<1>1. CASE Open
  <2>1. machine' \in Machine
    BY <1>1, ServiceAssumption DEF Open, Step, command, WindowsTypeOK, TypeOK
  <2>2. scm' \in SCM
    BY <1>1 DEF Open, Step, command, WindowsTypeOK
  <2>3. WindowsTypeOK'
    BY <1>1, <2>1, <2>2 DEF Open, Step, command, WindowsTypeOK, TypeOK
  <2>. QED
    BY <1>1, <2>3, ServiceAssumption
    DEF Open, Step, command, WindowsTypeOK, TypeOK
<1>2. CASE Query
  <2>1. machine' \in Machine
    BY <1>2, ServiceAssumption DEF Query, Step, command, WindowsTypeOK, TypeOK
  <2>2. scm' \in SCM
    BY <1>2 DEF Query, Step, command, WindowsTypeOK
  <2>3. WindowsTypeOK'
    BY <1>2, <2>1, <2>2 DEF Query, Step, command, WindowsTypeOK, TypeOK
  <2>. QED
    BY <1>2, <2>3, ServiceAssumption
    DEF Query, Step, command, WindowsTypeOK, TypeOK
<1>3. CASE Control
  <2>1. machine' \in Machine
    BY <1>3, ServiceAssumption DEF Control, Step, command, Refused, Ends, WindowsTypeOK, TypeOK
  <2>2. scm' \in SCM
    BY <1>3 DEF Control, Step, command, Refused, Ends, WindowsTypeOK, SCM, Extras
  <2>3. WindowsTypeOK'
    BY <1>3, <2>1, <2>2 DEF Control, Step, command, Refused, Ends, WindowsTypeOK, TypeOK
  <2>4. CASE Refused("control")
    BY <1>3, <2>3, <2>4 DEF Refused, Ends
  <2>5. CASE /\ scm.state = "running" /\ Step("control", "stopping")
            /\ scm' = [scm EXCEPT !.state = "stopping"] /\ UNCHANGED machine
    <3>1. /\ scm'.state = "stopping"
          /\ scm'.marked = scm.marked /\ scm'.pending = scm.pending
          /\ scm'.extras = scm.extras /\ scm'.caller = scm.caller
          /\ scm'.before = scm.before /\ scm'.slipped = scm.slipped
      BY <2>5 DEF WindowsTypeOK, SCM
    <3>. QED BY <2>3, <2>5, <3>1 DEF Step, command
  <2>6. CASE scm.state = "stopped" /\ Step("control", "delete") /\ UNCHANGED <<machine, scm>>
    BY <2>3, <2>6 DEF Step, command
  <2>. QED BY <1>3, <2>4, <2>5, <2>6 DEF Control
<1>4. CASE AwaitStopped
  <2>1. machine' \in Machine
    BY <1>4, ServiceAssumption DEF AwaitStopped, Step, command, WindowsTypeOK, TypeOK
  <2>2. scm' \in SCM
    BY <1>4 DEF AwaitStopped, Step, command, WindowsTypeOK
  <2>3. WindowsTypeOK'
    BY <1>4, <2>1, <2>2 DEF AwaitStopped, Step, command, WindowsTypeOK, TypeOK
  <2>. QED
    BY <1>4, <2>3, ServiceAssumption
    DEF AwaitStopped, Step, command, WindowsTypeOK, TypeOK
<1>5. CASE Delete
  <2>1. CASE /\ ~scm.marked /\ Step("delete", "deleting")
            /\ scm' = [scm EXCEPT !.marked = TRUE] /\ UNCHANGED machine
    <3>1. machine' \in Machine
      BY <2>1, ServiceAssumption DEF Step, command, WindowsTypeOK, TypeOK
    <3>2. scm' \in SCM
      BY <2>1 DEF Step, command, WindowsTypeOK, SCM, Extras
    <3>3. WindowsTypeOK'
      BY <2>1, <3>1, <3>2 DEF Step, command, WindowsTypeOK, TypeOK
    <3>. QED
      BY <2>1, <3>3, ServiceAssumption
      DEF Step, command, WindowsTypeOK, TypeOK, SCM
  <2>2. CASE Refused("delete")
    <3>1. machine' \in Machine
      BY <2>2, ServiceAssumption DEF Refused, Ends, WindowsTypeOK, TypeOK
    <3>2. scm' \in SCM
      BY <2>2 DEF Refused, Ends, WindowsTypeOK
    <3>3. WindowsTypeOK'
      BY <2>2, <3>1, <3>2 DEF Refused, Ends, WindowsTypeOK, TypeOK
    <3>. QED
      BY <2>2, <3>3, ServiceAssumption
      DEF Refused, Ends, WindowsTypeOK, TypeOK
  <2>. QED BY <1>5, <2>1, <2>2 DEF Delete
<1>6. CASE AwaitDeleted
  <2>1. machine' \in Machine
    BY <1>6, ServiceAssumption DEF AwaitDeleted, Step, command, WindowsTypeOK, TypeOK
  <2>2. scm' \in SCM
    BY <1>6 DEF AwaitDeleted, Step, command, WindowsTypeOK
  <2>3. WindowsTypeOK'
    BY <1>6, <2>1, <2>2 DEF AwaitDeleted, Step, command, WindowsTypeOK, TypeOK
  <2>. QED
    BY <1>6, <2>3, ServiceAssumption
    DEF AwaitDeleted, Step, command, WindowsTypeOK, TypeOK
<1>7. CASE RemoveSource
  <2>1. CASE SetExtras("event source", IF scm.caller = "install" THEN "copy" ELSE "rule",
                   scm.extras \ {"source"})
    <3>1. machine' \in Machine
      BY <2>1, ServiceAssumption DEF SetExtras, Step, command, WindowsTypeOK, TypeOK
    <3>2. scm' \in SCM
      BY <2>1 DEF SetExtras, Step, command, WindowsTypeOK, SCM, Extras
    <3>3. WindowsTypeOK'
      BY <2>1, <3>1, <3>2 DEF SetExtras, Step, command, WindowsTypeOK, TypeOK
    <3>4. /\ scm'.extras = scm.extras \ {"source"} /\ scm'.state = scm.state
          /\ scm'.marked = scm.marked /\ scm'.pending = scm.pending
          /\ scm'.lingering = scm.lingering /\ scm'.caller = scm.caller
          /\ scm'.before = scm.before /\ scm'.slipped = scm.slipped
      BY <2>1 DEF SetExtras, WindowsTypeOK, SCM
    <3>5. scm.extras \subseteq {"source", "rule"}
      BY DEF WindowsTypeOK, SCM, Extras
    <3>6. pc = "event source" /\ UNCHANGED <<machine, version, failed, outcome>>
      BY <2>1 DEF SetExtras, Step, command
    <3>7. pc' = IF scm.caller = "install" THEN "copy" ELSE "rule"
      BY <2>1 DEF SetExtras, Step
    <3>. QED BY <3>3, <3>4, <3>5, <3>6, <3>7
  <2>2. CASE Slips("event source", IF scm.caller = "install" THEN "copy" ELSE "rule")
    <3>1. machine' \in Machine
      BY <2>2, ServiceAssumption DEF Slips, command, WindowsTypeOK, TypeOK
    <3>2. scm' \in SCM
      BY <2>2 DEF Slips, command, WindowsTypeOK, SCM, Extras
    <3>3. WindowsTypeOK'
      BY <2>2, <3>1, <3>2, FaultTyped DEF Slips, command, WindowsTypeOK, TypeOK
    <3>. QED
      BY <2>2, <3>3, ServiceAssumption
      DEF Slips, command, WindowsTypeOK, TypeOK, SCM
  <2>. QED BY <1>7, <2>1, <2>2 DEF RemoveSource
<1>8. ASSUME NEW this \in {"open", "query", "control", "stopping", "delete", "deleting"}, Fails(this) PROVE WindowsInv'
  <2>1. machine' \in Machine
    BY <1>8, ServiceAssumption DEF Fails, Ends, WindowsTypeOK, TypeOK
  <2>2. scm' \in SCM
    BY <1>8 DEF Fails, Ends, WindowsTypeOK
  <2>3. WindowsTypeOK'
    BY <1>8, <2>1, <2>2, FaultTyped DEF Fails, Ends, WindowsTypeOK, TypeOK
  <2>. QED
    BY <1>8, <2>3, ServiceAssumption
    DEF Fails, Ends, WindowsTypeOK, TypeOK
<1>. QED BY <1>1, <1>2, <1>3, <1>4, <1>5, <1>6, <1>7, <1>8 DEF RemoveService

\* So does each step of the rest of an install, and of its rollback.
LEMMA InstallStep == WindowsInv /\ Install => WindowsInv'
<1>. SUFFICES ASSUME WindowsInv, Install PROVE WindowsInv'
  OBVIOUS
<1>. USE DEF WindowsInv, SCMInv, ProgressInv, OutcomeInv, RolledBack,
           WindowsUninstallIsComplete, WindowsInstallRuns, Complete
<1>1. CASE BeginWindows("install")
  BY <1>1, BeginStep
<1>2. CASE Copy
  <2>1. CASE /\ ~machine.unit /\ Step("copy", "create")
            /\ machine' = [machine EXCEPT !.binary = version] /\ UNCHANGED scm
    <3>1. machine' \in Machine
      BY <2>1, ServiceAssumption DEF Step, command, WindowsTypeOK, TypeOK, Machine
    <3>2. scm' \in SCM
      BY <2>1 DEF Step, command, WindowsTypeOK
    <3>3. WindowsTypeOK'
      BY <2>1, <3>1, <3>2 DEF Step, command, WindowsTypeOK, TypeOK
    <3>. QED
      BY <2>1, <3>3, ServiceAssumption
      DEF Step, command, WindowsTypeOK, TypeOK, Machine
  <2>2. CASE Refused("copy")
    <3>1. machine' \in Machine
      BY <2>2, ServiceAssumption DEF Refused, Ends, WindowsTypeOK, TypeOK
    <3>2. scm' \in SCM
      BY <2>2 DEF Refused, Ends, WindowsTypeOK
    <3>3. WindowsTypeOK'
      BY <2>2, <3>1, <3>2 DEF Refused, Ends, WindowsTypeOK, TypeOK
    <3>. QED
      BY <2>2, <3>3, ServiceAssumption
      DEF Refused, Ends, WindowsTypeOK, TypeOK
  <2>3. pc = "copy" => ~machine.unit
    OBVIOUS
  <2>. QED BY <1>2, <2>1, <2>2, <2>3 DEF Copy, Step
<1>3. CASE Create
  <2>1. machine' \in Machine
    BY <1>3, ServiceAssumption DEF Create, Step, command, WindowsTypeOK, TypeOK, Machine
  <2>2. scm' \in SCM
    BY <1>3 DEF Create, Step, command, WindowsTypeOK, SCM, Extras
  <2>3. WindowsTypeOK'
    BY <1>3, <2>1, <2>2 DEF Create, Step, command, WindowsTypeOK, TypeOK
  <2>. QED
    BY <1>3, <2>3, ServiceAssumption
    DEF Create, Step, command, WindowsTypeOK, TypeOK, Machine, SCM
<1>4. CASE InstallSource
  <2>1. machine' \in Machine
    BY <1>4, ServiceAssumption DEF InstallSource, SetExtras, Step, command, WindowsTypeOK, TypeOK
  <2>2. scm' \in SCM
    BY <1>4 DEF InstallSource, SetExtras, Step, command, WindowsTypeOK, SCM, Extras
  <2>3. WindowsTypeOK'
    BY <1>4, <2>1, <2>2 DEF InstallSource, SetExtras, Step, command, WindowsTypeOK, TypeOK
  <2>. QED
    BY <1>4, <2>3, ServiceAssumption
    DEF InstallSource, SetExtras, Step, command, WindowsTypeOK, TypeOK, SCM
<1>5. CASE Firewall
  <2>1. machine' \in Machine
    BY <1>5, ServiceAssumption DEF Firewall, SetExtras, Step, command, WindowsTypeOK, TypeOK
  <2>2. scm' \in SCM
    BY <1>5 DEF Firewall, SetExtras, Step, command, WindowsTypeOK, SCM, Extras
  <2>3. WindowsTypeOK'
    BY <1>5, <2>1, <2>2 DEF Firewall, SetExtras, Step, command, WindowsTypeOK, TypeOK
  <2>. QED
    BY <1>5, <2>3, ServiceAssumption
    DEF Firewall, SetExtras, Step, command, WindowsTypeOK, TypeOK, SCM
<1>6. CASE StartService
  <2>1. machine' \in Machine
    BY <1>6, ServiceAssumption DEF StartService, Ends, WindowsTypeOK, TypeOK, Machine
  <2>2. scm' \in SCM
    BY <1>6 DEF StartService, Ends, WindowsTypeOK, SCM, Extras
  <2>3. WindowsTypeOK'
    BY <1>6, <2>1, <2>2 DEF StartService, Ends, WindowsTypeOK, TypeOK
  <2>. QED
    BY <1>6, <2>3, ServiceAssumption
    DEF StartService, Ends, WindowsTypeOK, TypeOK, Machine, SCM
<1>7. CASE RollBack /\ Fault /\ UNCHANGED <<machine, command>>
  <2>1. machine' \in Machine
    BY <1>7, ServiceAssumption DEF RollBack, command, WindowsTypeOK, TypeOK
  <2>2. scm' \in SCM
    <3>1. scm' = scm \/ scm' = [scm EXCEPT !.extras = @ \ {"rule"}]
      BY <1>7 DEF RollBack
    <3>2. scm \in SCM /\ scm.extras \ {"rule"} \in SUBSET Extras
      BY DEF WindowsTypeOK, SCM
    <3>. QED BY <3>1, <3>2 DEF SCM
  <2>3. WindowsTypeOK'
    BY <1>7, <2>1, <2>2, FaultTyped DEF RollBack, command, WindowsTypeOK, TypeOK
  <2>. QED
    BY <1>7, <2>3, ServiceAssumption
    DEF RollBack, command, WindowsTypeOK, TypeOK, SCM
<1>8. ASSUME NEW this \in {"copy", "create"}, Fails(this) PROVE WindowsInv'
  <2>1. machine' \in Machine
    BY <1>8, ServiceAssumption DEF Fails, Ends, WindowsTypeOK, TypeOK
  <2>2. scm' \in SCM
    BY <1>8 DEF Fails, Ends, WindowsTypeOK
  <2>3. WindowsTypeOK'
    BY <1>8, <2>1, <2>2, FaultTyped DEF Fails, Ends, WindowsTypeOK, TypeOK
  <2>. QED
    BY <1>8, <2>3, ServiceAssumption
    DEF Fails, Ends, WindowsTypeOK, TypeOK
<1>9. CASE Undo
  <2>1. CASE SetExtras("undo all", "undo rule", scm.extras \ {"source"})
    <3>1. machine' \in Machine
      BY <2>1, ServiceAssumption DEF SetExtras, Step, command, WindowsTypeOK, TypeOK
    <3>2. scm' \in SCM
      BY <2>1 DEF SetExtras, Step, command, WindowsTypeOK, SCM, Extras
    <3>3. WindowsTypeOK'
      BY <2>1, <3>1, <3>2 DEF SetExtras, Step, command, WindowsTypeOK, TypeOK
    <3>. QED
      BY <2>1, <3>3, ServiceAssumption
      DEF SetExtras, Step, command, WindowsTypeOK, TypeOK, SCM
  <2>2. CASE Slips("undo all", "undo rule")
    <3>1. machine' \in Machine
      BY <2>2, ServiceAssumption DEF Slips, command, WindowsTypeOK, TypeOK
    <3>2. scm' \in SCM
      BY <2>2 DEF Slips, command, WindowsTypeOK, SCM, Extras
    <3>3. WindowsTypeOK'
      BY <2>2, <3>1, <3>2, FaultTyped DEF Slips, command, WindowsTypeOK, TypeOK
    <3>. QED
      BY <2>2, <3>3, ServiceAssumption
      DEF Slips, command, WindowsTypeOK, TypeOK, SCM
  <2>3. CASE SetExtras("undo rule", "undo service", scm.extras \ {"rule"})
    <3>1. machine' \in Machine
      BY <2>3, ServiceAssumption DEF SetExtras, Step, command, WindowsTypeOK, TypeOK
    <3>2. scm' \in SCM
      BY <2>3 DEF SetExtras, Step, command, WindowsTypeOK, SCM, Extras
    <3>3. WindowsTypeOK'
      BY <2>3, <3>1, <3>2 DEF SetExtras, Step, command, WindowsTypeOK, TypeOK
    <3>. QED
      BY <2>3, <3>3, ServiceAssumption
      DEF SetExtras, Step, command, WindowsTypeOK, TypeOK, SCM
  <2>4. CASE Slips("undo rule", "undo service")
    <3>1. machine' \in Machine
      BY <2>4, ServiceAssumption DEF Slips, command, WindowsTypeOK, TypeOK
    <3>2. scm' \in SCM
      BY <2>4 DEF Slips, command, WindowsTypeOK, SCM, Extras
    <3>3. WindowsTypeOK'
      BY <2>4, <3>1, <3>2, FaultTyped DEF Slips, command, WindowsTypeOK, TypeOK
    <3>. QED
      BY <2>4, <3>3, ServiceAssumption
      DEF Slips, command, WindowsTypeOK, TypeOK, SCM
  <2>5. CASE SetExtras("undo source", "undo service", scm.extras \ {"source"})
    <3>1. machine' \in Machine
      BY <2>5, ServiceAssumption DEF SetExtras, Step, command, WindowsTypeOK, TypeOK
    <3>2. scm' \in SCM
      BY <2>5 DEF SetExtras, Step, command, WindowsTypeOK, SCM, Extras
    <3>3. WindowsTypeOK'
      BY <2>5, <3>1, <3>2 DEF SetExtras, Step, command, WindowsTypeOK, TypeOK
    <3>. QED
      BY <2>5, <3>3, ServiceAssumption
      DEF SetExtras, Step, command, WindowsTypeOK, TypeOK, SCM
  <2>6. CASE Slips("undo source", "undo service")
    <3>1. machine' \in Machine
      BY <2>6, ServiceAssumption DEF Slips, command, WindowsTypeOK, TypeOK
    <3>2. scm' \in SCM
      BY <2>6 DEF Slips, command, WindowsTypeOK, SCM, Extras
    <3>3. WindowsTypeOK'
      BY <2>6, <3>1, <3>2, FaultTyped DEF Slips, command, WindowsTypeOK, TypeOK
    <3>. QED
      BY <2>6, <3>3, ServiceAssumption
      DEF Slips, command, WindowsTypeOK, TypeOK, SCM
  <2>7. CASE /\ Step("undo service", "undone")
            /\ scm' = [scm EXCEPT !.marked = TRUE] /\ UNCHANGED machine
    <3>1. machine' \in Machine
      BY <2>7, ServiceAssumption DEF Step, command, WindowsTypeOK, TypeOK
    <3>2. scm' \in SCM
      BY <2>7 DEF Step, command, WindowsTypeOK, SCM, Extras
    <3>3. WindowsTypeOK'
      BY <2>7, <3>1, <3>2 DEF Step, command, WindowsTypeOK, TypeOK
    <3>. QED
      BY <2>7, <3>3, ServiceAssumption
      DEF Step, command, WindowsTypeOK, TypeOK, SCM
  <2>8. CASE Slips("undo service", "undone")
    <3>1. machine' \in Machine
      BY <2>8, ServiceAssumption DEF Slips, command, WindowsTypeOK, TypeOK
    <3>2. scm' \in SCM
      BY <2>8 DEF Slips, command, WindowsTypeOK, SCM, Extras
    <3>3. WindowsTypeOK'
      BY <2>8, <3>1, <3>2, FaultTyped DEF Slips, command, WindowsTypeOK, TypeOK
    <3>. QED
      BY <2>8, <3>3, ServiceAssumption
      DEF Slips, command, WindowsTypeOK, TypeOK, SCM
  <2>9. CASE Refused("undone")
    <3>1. machine' \in Machine
      BY <2>9, ServiceAssumption DEF Refused, Ends, WindowsTypeOK, TypeOK
    <3>2. scm' \in SCM
      BY <2>9 DEF Refused, Ends, WindowsTypeOK
    <3>3. WindowsTypeOK'
      BY <2>9, <3>1, <3>2 DEF Refused, Ends, WindowsTypeOK, TypeOK
    <3>. QED
      BY <2>9, <3>3, ServiceAssumption
      DEF Refused, Ends, WindowsTypeOK, TypeOK
  <2>. QED BY <1>9, <2>1, <2>2, <2>3, <2>4, <2>5, <2>6, <2>7, <2>8, <2>9 DEF Undo
<1>. QED BY <1>1, <1>2, <1>3, <1>4, <1>5, <1>6, <1>7, <1>8, <1>9 DEF Install, InstallFails

\* So does each step of the rest of an uninstall.
LEMMA UninstallStep == WindowsInv /\ Uninstall => WindowsInv'
<1>. SUFFICES ASSUME WindowsInv, Uninstall PROVE WindowsInv'
  OBVIOUS
<1>. USE DEF WindowsInv, SCMInv, ProgressInv, OutcomeInv, RolledBack,
           WindowsUninstallIsComplete, WindowsInstallRuns, Complete
<1>1. CASE BeginWindows("uninstall")
  BY <1>1, BeginStep
<1>2. CASE RemoveRule
  <2>1. CASE SetExtras("rule", "binary", scm.extras \ {"rule"})
    <3>1. machine' \in Machine
      BY <2>1, ServiceAssumption DEF SetExtras, Step, command, WindowsTypeOK, TypeOK
    <3>2. scm' \in SCM
      BY <2>1 DEF SetExtras, Step, command, WindowsTypeOK, SCM, Extras
    <3>3. WindowsTypeOK'
      BY <2>1, <3>1, <3>2 DEF SetExtras, Step, command, WindowsTypeOK, TypeOK
    <3>. QED
      BY <2>1, <3>3, ServiceAssumption
      DEF SetExtras, Step, command, WindowsTypeOK, TypeOK, SCM
  <2>2. CASE Slips("rule", "binary")
    <3>1. machine' \in Machine
      BY <2>2, ServiceAssumption DEF Slips, command, WindowsTypeOK, TypeOK
    <3>2. scm' \in SCM
      BY <2>2 DEF Slips, command, WindowsTypeOK, SCM, Extras
    <3>3. WindowsTypeOK'
      BY <2>2, <3>1, <3>2, FaultTyped DEF Slips, command, WindowsTypeOK, TypeOK
    <3>4. /\ scm'.slipped /\ scm'.state = scm.state /\ scm'.marked = scm.marked
          /\ scm'.pending = scm.pending /\ scm'.lingering = scm.lingering
          /\ scm'.before = scm.before
      BY <2>2 DEF Slips, WindowsTypeOK, SCM
    <3>5. /\ pc = "rule" /\ pc' = "binary"
          /\ UNCHANGED <<machine, version, failed, outcome>>
      BY <2>2 DEF Slips, command
    <3>. QED BY <3>3, <3>4, <3>5
  <2>. QED BY <1>2, <2>1, <2>2 DEF RemoveRule
<1>3. CASE RemoveBinary
  <2>1. machine' \in Machine
    <3>1. machine' = machine \/ machine' = [machine EXCEPT !.binary = None]
      BY <1>3 DEF RemoveBinary, Refused
    <3>. QED BY <3>1 DEF WindowsTypeOK, TypeOK, Machine
  <2>2. scm' \in SCM
    BY <1>3 DEF RemoveBinary, Step, command, Refused, Ends, WindowsTypeOK
  <2>3. WindowsTypeOK'
    BY <1>3, <2>1, <2>2 DEF RemoveBinary, Step, command, Refused, Ends, WindowsTypeOK, TypeOK
  <2>. QED
    BY <1>3, <2>3, ServiceAssumption
    DEF RemoveBinary, Step, command, Refused, Ends, WindowsTypeOK, TypeOK, Machine
<1>4. CASE UninstallClean /\ UNCHANGED scm
  <2>1. machine' \in Machine
    BY <1>4, ServiceAssumption DEF UninstallClean, Ends, WindowsTypeOK, TypeOK, Machine
  <2>2. scm' \in SCM
    BY <1>4 DEF UninstallClean, Ends, WindowsTypeOK
  <2>3. WindowsTypeOK'
    BY <1>4, <2>1, <2>2 DEF UninstallClean, Ends, WindowsTypeOK, TypeOK
  <2>. QED
    BY <1>4, <2>3, ServiceAssumption
    DEF UninstallClean, Ends, WindowsTypeOK, TypeOK, Machine
<1>5. ASSUME NEW this \in {"binary", "clean"}, Fails(this) PROVE WindowsInv'
  <2>1. machine' \in Machine
    BY <1>5, ServiceAssumption DEF Fails, Ends, WindowsTypeOK, TypeOK
  <2>2. scm' \in SCM
    BY <1>5 DEF Fails, Ends, WindowsTypeOK
  <2>3. WindowsTypeOK'
    BY <1>5, <2>1, <2>2, FaultTyped DEF Fails, Ends, WindowsTypeOK, TypeOK
  <2>. QED
    BY <1>5, <2>3, ServiceAssumption
    DEF Fails, Ends, WindowsTypeOK, TypeOK
<1>. QED BY <1>1, <1>2, <1>3, <1>4, <1>5 DEF Uninstall

\* What happens beside a command.
Outside ==
  \/ HandlerStops \/ HandlerTimesOut \/ AgentFails \/ ProcessExits
  \/ SCMDeletes \/ DelayedStart \/ Reboot \/ KillWindowsCommand
  \/ AgentPublishes /\ UNCHANGED scm

\* So do the handler, the SCM, the agent, a kill of the command and a reboot.
LEMMA OutsideStep == WindowsInv /\ Outside => WindowsInv'
<1>. SUFFICES ASSUME WindowsInv, Outside PROVE WindowsInv'
  OBVIOUS
<1>. USE DEF WindowsInv, SCMInv, ProgressInv, OutcomeInv, RolledBack,
           WindowsUninstallIsComplete, WindowsInstallRuns, Complete
<1>1. CASE HandlerStops
  <2>1. machine' \in Machine
    BY <1>1, StoppedLemma, ServiceAssumption DEF HandlerStops, command, WindowsTypeOK, TypeOK
  <2>2. scm' \in SCM
    BY <1>1 DEF HandlerStops, command, WindowsTypeOK, SCM, Extras
  <2>3. WindowsTypeOK'
    BY <1>1, <2>1, <2>2 DEF HandlerStops, command, WindowsTypeOK, TypeOK
  <2>4. /\ machine'.unit = machine.unit /\ machine'.binary = machine.binary
        /\ machine'.agent = None
        /\ ~machine.aliases => ~machine'.aliases
    BY <1>1, StoppedLemma DEF HandlerStops, WindowsTypeOK, TypeOK
  <2>5. /\ scm.state = "stopping" /\ scm'.state = "stopped"
        /\ scm'.marked = scm.marked /\ scm'.pending = scm.pending
        /\ scm'.extras = scm.extras /\ scm'.caller = scm.caller
        /\ scm'.before = scm.before /\ scm'.slipped = scm.slipped
    BY <1>1 DEF HandlerStops, WindowsTypeOK, SCM
  <2>6. UNCHANGED <<pc, version, failed, outcome>>
    BY <1>1 DEF HandlerStops, command
  <2>. QED BY <2>3, <2>4, <2>5, <2>6
<1>2. CASE HandlerTimesOut
  <2>1. machine' \in Machine
    BY <1>2, ServiceAssumption DEF HandlerTimesOut, command, WindowsTypeOK, TypeOK, Machine
  <2>2. scm' \in SCM
    BY <1>2 DEF HandlerTimesOut, command, WindowsTypeOK, SCM, Extras
  <2>3. WindowsTypeOK'
    BY <1>2, <2>1, <2>2, FaultTyped DEF HandlerTimesOut, command, WindowsTypeOK, TypeOK
  <2>4. /\ machine'.unit = machine.unit /\ machine'.binary = machine.binary
        /\ machine'.agent = machine.agent /\ machine'.survived
        /\ machine'.aliases = machine.aliases
    BY <1>2 DEF HandlerTimesOut, WindowsTypeOK, TypeOK, Machine
  <2>5. /\ scm.state = "stopping" /\ scm'.state = "stopped" /\ scm'.lingering
        /\ scm'.marked = scm.marked /\ scm'.pending = scm.pending
        /\ scm'.extras = scm.extras /\ scm'.caller = scm.caller
        /\ scm'.before = scm.before /\ scm'.slipped = scm.slipped
    BY <1>2 DEF HandlerTimesOut, WindowsTypeOK, SCM
  <2>6. UNCHANGED <<pc, version, failed, outcome>>
    BY <1>2 DEF HandlerTimesOut, command
  <2>. QED BY <2>3, <2>4, <2>5, <2>6
<1>3. CASE AgentFails
  <2>1. machine' \in Machine
    BY <1>3, ServiceAssumption DEF AgentFails, command, WindowsTypeOK, TypeOK, Machine
  <2>2. scm' \in SCM
    BY <1>3 DEF AgentFails, command, WindowsTypeOK, SCM, Extras
  <2>3. WindowsTypeOK'
    BY <1>3, <2>1, <2>2, FaultTyped DEF AgentFails, command, WindowsTypeOK, TypeOK
  <2>4. /\ machine'.unit = machine.unit /\ machine'.binary = machine.binary
        /\ machine'.agent = None /\ machine'.aliases = machine.aliases
    BY <1>3 DEF AgentFails, WindowsTypeOK, TypeOK, Machine
  <2>5. /\ scm.state = "running" /\ scm'.state = "stopped"
        /\ scm'.marked = scm.marked /\ scm'.pending = scm.pending
        /\ scm'.extras = scm.extras /\ scm'.caller = scm.caller
        /\ scm'.before = scm.before /\ scm'.slipped = scm.slipped
    BY <1>3 DEF AgentFails, WindowsTypeOK, SCM
  <2>6. UNCHANGED <<pc, version, failed, outcome>>
    BY <1>3 DEF AgentFails, command
  <2>. QED BY <2>3, <2>4, <2>5, <2>6
<1>4. CASE ProcessExits
  <2>1. machine' \in Machine
    BY <1>4, ServiceAssumption DEF ProcessExits, command, WindowsTypeOK, TypeOK, Machine
  <2>2. scm' \in SCM
    BY <1>4 DEF ProcessExits, command, WindowsTypeOK, SCM, Extras
  <2>3. WindowsTypeOK'
    BY <1>4, <2>1, <2>2 DEF ProcessExits, command, WindowsTypeOK, TypeOK
  <2>4. /\ machine'.unit = machine.unit /\ machine'.binary = machine.binary
        /\ machine'.agent = (IF scm.state = "stopped" THEN None ELSE machine.agent)
        /\ machine'.aliases = machine.aliases
    BY <1>4 DEF ProcessExits, WindowsTypeOK, TypeOK, Machine
  <2>5. /\ scm'.state = scm.state /\ scm'.marked = scm.marked /\ scm'.pending = scm.pending
        /\ scm'.extras = scm.extras /\ scm'.caller = scm.caller
        /\ scm'.before = scm.before /\ scm'.slipped = scm.slipped
    BY <1>4 DEF ProcessExits, WindowsTypeOK, SCM
  <2>6. UNCHANGED <<pc, version, failed, outcome>>
    BY <1>4 DEF ProcessExits, command
  <2>. QED BY <2>3, <2>4, <2>5, <2>6
<1>5. CASE SCMDeletes
  <2>1. machine' \in Machine
    BY <1>5, ServiceAssumption DEF SCMDeletes, HandleOpen, command, WindowsTypeOK, TypeOK, Machine
  <2>2. scm' \in SCM
    BY <1>5 DEF SCMDeletes, HandleOpen, command, WindowsTypeOK, SCM, Extras
  <2>3. WindowsTypeOK'
    BY <1>5, <2>1, <2>2 DEF SCMDeletes, HandleOpen, command, WindowsTypeOK, TypeOK
  <2>4. /\ ~machine'.unit /\ machine'.binary = machine.binary
        /\ machine'.agent = machine.agent /\ machine'.survived = machine.survived
        /\ machine'.aliases = machine.aliases
    BY <1>5 DEF SCMDeletes, WindowsTypeOK, TypeOK, Machine
  <2>5. /\ scm.marked /\ scm.state = "stopped" /\ scm'.state = scm.state
        /\ ~scm'.marked /\ ~scm'.pending /\ scm'.lingering = scm.lingering
        /\ scm'.extras = scm.extras /\ scm'.caller = scm.caller
        /\ scm'.before = scm.before /\ scm'.slipped = scm.slipped
    BY <1>5 DEF SCMDeletes, WindowsTypeOK, SCM
  <2>6. ~HandleOpen /\ UNCHANGED <<pc, version, failed, outcome>>
    BY <1>5 DEF SCMDeletes, command
  <2>. QED BY <2>3, <2>4, <2>5, <2>6 DEF HandleOpen
<1>6. CASE DelayedStart
  <2>1. machine' \in Machine
    BY <1>6, ServiceAssumption DEF DelayedStart, command, WindowsTypeOK, TypeOK, Machine
  <2>2. scm' \in SCM
    BY <1>6 DEF DelayedStart, command, WindowsTypeOK, SCM, Extras
  <2>3. WindowsTypeOK'
    BY <1>6, <2>1, <2>2 DEF DelayedStart, command, WindowsTypeOK, TypeOK
  <2>4. /\ machine'.unit = machine.unit /\ machine'.binary = machine.binary
        /\ machine'.agent = (IF scm.marked THEN machine.agent ELSE machine.binary)
        /\ machine'.aliases = machine.aliases /\ machine'.survived = machine.survived
    BY <1>6 DEF DelayedStart, WindowsTypeOK, TypeOK, Machine
  <2>5. /\ scm'.state = (IF scm.marked THEN scm.state ELSE "running")
        /\ scm'.marked = scm.marked /\ ~scm'.pending /\ scm'.lingering = scm.lingering
        /\ scm'.extras = scm.extras /\ scm'.caller = scm.caller
        /\ scm'.before = scm.before /\ scm'.slipped = scm.slipped
    BY <1>6 DEF DelayedStart, WindowsTypeOK, SCM
  <2>6. UNCHANGED <<pc, version, failed, outcome>>
    BY <1>6 DEF DelayedStart, command
  <2>7. machine.unit /\ machine.binary # None
    BY <1>6 DEF DelayedStart
  <2>. QED BY <2>3, <2>4, <2>5, <2>6, <2>7
<1>7. CASE Reboot
  <2> DEFINE unit == machine.unit /\ ~scm.marked
  <2>1. PICK m \in Stopped : machine' = [m EXCEPT !.unit = unit, !.enabled = unit]
    BY <1>7 DEF Reboot
  <2>2. /\ m \in Machine /\ m.agent = None /\ m.binary = machine.binary
        /\ ~machine.aliases => ~m.aliases
    BY StoppedLemma DEF WindowsTypeOK, TypeOK
  <2>3. machine.unit \in BOOLEAN /\ scm.marked \in BOOLEAN /\ scm.slipped \in BOOLEAN
    BY DEF WindowsTypeOK, TypeOK, Machine, SCM
  <2>4. machine' \in Machine
    BY <2>1, <2>2, <2>3 DEF Machine
  <2>5. scm' = [scm EXCEPT !.state = "stopped", !.marked = FALSE, !.lingering = FALSE,
                           !.pending = unit, !.slipped = @ \/ pc # "idle"]
    BY <1>7 DEF Reboot
  <2>6. scm' \in SCM
    BY <2>3, <2>5 DEF WindowsTypeOK, SCM
  <2>7. /\ pc' = "idle" /\ version' = version /\ failed' = FALSE
        /\ outcome' = IF pc = "idle" THEN outcome ELSE "failed"
    BY <1>7 DEF Reboot, Ends
  <2>8. faults' \in 0..MaxFaults
    BY <1>7, FaultTyped DEF Reboot, WindowsTypeOK
  <2>9. WindowsTypeOK'
    BY <2>4, <2>6, <2>7, <2>8 DEF WindowsTypeOK, TypeOK
  <2>10. /\ machine'.unit = unit /\ machine'.agent = None /\ machine'.binary = machine.binary
         /\ ~machine.aliases => ~machine'.aliases
    BY <2>1, <2>2 DEF Machine
  <2>11. /\ scm'.state = "stopped" /\ ~scm'.marked /\ scm'.pending = unit
         /\ scm'.slipped = (scm.slipped \/ pc # "idle") /\ scm'.extras = scm.extras
         /\ scm'.caller = scm.caller /\ scm'.before = scm.before
    BY <2>5 DEF WindowsTypeOK, SCM
  <2>12. SCMInv' /\ ProgressInv'
    BY <2>7, <2>10, <2>11
  <2>13. OutcomeInv'
    BY <2>7, <2>10, <2>11
  <2>. QED BY <2>9, <2>12, <2>13
<1>8. CASE KillWindowsCommand
  <2>1. machine' \in Machine
    BY <1>8, ServiceAssumption DEF KillWindowsCommand, KillCommand, Ends, WindowsTypeOK, TypeOK
  <2>2. scm' \in SCM
    BY <1>8 DEF KillWindowsCommand, KillCommand, Ends, WindowsTypeOK, SCM, Extras
  <2>3. WindowsTypeOK'
    BY <1>8, <2>1, <2>2, FaultTyped DEF KillWindowsCommand, KillCommand, Ends, WindowsTypeOK, TypeOK
  <2>. QED
    BY <1>8, <2>3, ServiceAssumption
    DEF KillWindowsCommand, KillCommand, Ends, WindowsTypeOK, TypeOK, SCM
<1>9. CASE AgentPublishes /\ UNCHANGED scm
  <2>1. machine' \in Machine
    BY <1>9, ServiceAssumption DEF AgentPublishes, command, WindowsTypeOK, TypeOK, Machine
  <2>2. scm' \in SCM
    BY <1>9 DEF AgentPublishes, command, WindowsTypeOK
  <2>3. WindowsTypeOK'
    BY <1>9, <2>1, <2>2 DEF AgentPublishes, command, WindowsTypeOK, TypeOK
  <2>4. /\ machine.agent # None /\ machine'.agent = machine.agent
        /\ machine'.unit = machine.unit /\ machine'.binary = machine.binary
        /\ machine'.survived = machine.survived
    BY <1>9 DEF AgentPublishes, WindowsTypeOK, TypeOK, Machine
  <2>5. UNCHANGED <<pc, version, failed, outcome, scm>>
    BY <1>9 DEF AgentPublishes, command
  <2>. QED BY <2>3, <2>4, <2>5
<1>. QED BY <1>1, <1>2, <1>3, <1>4, <1>5, <1>6, <1>7, <1>8, <1>9 DEF Outside

\* Every step keeps the invariant.
LEMMA WindowsStep == WindowsInv /\ [WindowsNext]_windowsVars => WindowsInv'
<1>1. ASSUME WindowsInv, UNCHANGED windowsVars PROVE WindowsInv'
  <2>1. UNCHANGED <<machine, pc, version, failed, outcome, faults, scm>>
    BY <1>1 DEF windowsVars, vars, command
  <2>2. WindowsTypeOK'
    BY <1>1, <2>1 DEF WindowsInv, WindowsTypeOK, TypeOK
  <2>3. SCMInv' /\ ProgressInv'
    BY <1>1, <2>1 DEF WindowsInv, SCMInv, ProgressInv
  <2>4. OutcomeInv'
    BY <1>1, <2>1 DEF WindowsInv, OutcomeInv, RolledBack, WindowsUninstallIsComplete,
                      WindowsInstallRuns, Complete
  <2>. QED BY <2>2, <2>3, <2>4 DEF WindowsInv
<1>. QED BY <1>1, RemoveServiceStep, InstallStep, UninstallStep, OutsideStep
     DEF WindowsNext, Outside

\* The invariant holds in every reachable state.
LEMMA WindowsAlways == WindowsSpec => []WindowsInv
  BY WindowsInitInv, WindowsStep, PTL DEF WindowsSpec

\* Every variable keeps its type.
THEOREM WindowsTypeCorrect == WindowsSpec => []WindowsTypeOK
  BY WindowsAlways, PTL DEF WindowsInv

\* An agent whose service is gone is one its handler gave up on.
THEOREM NoOrphanEver == WindowsSpec => []NoOrphan
<1>1. WindowsInv => NoOrphan
  BY DEF WindowsInv, WindowsTypeOK, SCM, SCMInv, NoOrphan
<1>. QED BY <1>1, WindowsAlways, PTL

\* The SCM never has a service to start that has no executable.
THEOREM AlwaysStartsSomething == WindowsSpec => []StartsSomething
<1>1. WindowsInv => StartsSomething
  BY DEF WindowsInv, SCMInv, StartsSomething
<1>. QED BY <1>1, WindowsAlways, PTL

\* A failed install leaves no service for what it has put in place.
THEOREM AlwaysRolledBack == WindowsSpec => []RolledBack
  BY WindowsAlways, PTL DEF WindowsInv, OutcomeInv

\* An uninstall that reports success has removed everything.
THEOREM UninstallAlwaysComplete == WindowsSpec => []WindowsUninstallIsComplete
  BY WindowsAlways, PTL DEF WindowsInv, OutcomeInv

\* After a successful install the SCM runs, or would start, what was installed.
THEOREM InstallAlwaysRuns == WindowsSpec => []WindowsInstallRuns
  BY WindowsAlways, PTL DEF WindowsInv, OutcomeInv
=============================================================================
