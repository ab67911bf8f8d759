--------------------------- MODULE MCServiceProofs --------------------------
(***************************************************************************)
(* What install and uninstall leave behind on Linux and macOS, for any     *)
(* number of versions, commands and faults, and the theorems of the three  *)
(* platforms put together for the specification that the run Services      *)
(* checks, whichever platform the machine has.                             *)
(***************************************************************************)
EXTENDS MCService, TLAPS

WindowsProofs == INSTANCE ServiceWindowsProofs

-----------------------------------------------------------------------------
(* Install and uninstall on Linux.                                         *)

\* What a command is in the middle of.
LinuxInstalling == pc \in {"copy", "write", "reload", "enable"}
LinuxUninstalling == pc \in {"unit", "binary", "reload after", "clean"}

\* A command that is past its first step has stopped the agent, unless it
\* survived, and what it has done so far is there.
LinuxProgress ==
  /\ LinuxInstalling \/ LinuxUninstalling => machine.agent = None \/ machine.survived
  /\ pc \in {"write", "reload", "enable"} => machine.binary = version
  /\ pc \in {"reload", "enable"} => machine.unit
  /\ pc \in {"binary", "reload after"} /\ ~failed => ~machine.unit
  /\ pc = "reload after" /\ ~failed => machine.binary = None
  /\ failed => pc \in {"unit", "binary", "reload after"}
  /\ pc = "clean" => ~machine.unit /\ machine.binary = None

\* What a successful install has put in place stays until the next command.
LinuxInstalled ==
  outcome = "installed" =>
    /\ pc = "idle"
    /\ machine.binary = version /\ machine.unit /\ machine.enabled
    /\ machine.agent = version \/ machine.survived

LinuxInv == TypeOK /\ NoOrphan /\ LinuxProgress /\ LinuxInstalled

\* Nothing is installed at first.
LEMMA LinuxInit == Linux!Init => LinuxInv
<1>1. Linux!Init => TypeOK
  <2>1. Linux!Init => machine \in Machine /\ faults \in 0..MaxFaults
    BY ServiceAssumption DEF Linux!Init, Machine
  <2>. QED BY <2>1 DEF Linux!Init, TypeOK
<1>2. Linux!Init => NoOrphan /\ LinuxProgress /\ LinuxInstalled
  BY DEF Linux!Init, NoOrphan, LinuxProgress, LinuxInstalled, LinuxInstalling,
         LinuxUninstalling
<1>. QED BY <1>1, <1>2 DEF LinuxInv

\* Stopping the agent changes nothing else, and leaves no agent.
LEMMA LinuxStopped ==
  ASSUME machine \in Machine
  PROVE  \A m \in Linux!Stopped :
           /\ m \in Machine /\ m.agent = None /\ m.survived = FALSE
           /\ m.unit = machine.unit /\ m.binary = machine.binary
           /\ m.enabled = machine.enabled
  BY DEF Linux!Stopped, Machine

\* A fault that happens stays within the bound.
LEMMA LinuxFault == TypeOK /\ Linux!Fault => faults' \in 0..MaxFaults
<1>1. TypeOK => faults \in 0..MaxFaults
  BY DEF TypeOK
<1>2. MaxFaults \in Nat
  BY ServiceAssumption
<1>. QED BY <1>1, <1>2 DEF Linux!Fault

\* Each step of install keeps the invariant.
LEMMA LinuxInstall == LinuxInv /\ Linux!Install => LinuxInv'
<1>. SUFFICES ASSUME LinuxInv, Linux!Install PROVE LinuxInv'
  OBVIOUS
<1>. USE DEF LinuxInv, NoOrphan, LinuxProgress, LinuxInstalled, LinuxInstalling,
             LinuxUninstalling, Linux!Step, Linux!Ends, Linux!command
<1>1. ASSUME NEW v \in Version, Linux!Begin(v, "stat") PROVE LinuxInv'
  <2>1. machine' \in Machine /\ faults' \in 0..MaxFaults
    BY <1>1, ServiceAssumption DEF Linux!Begin, TypeOK, Machine
  <2>2. TypeOK'
    BY <1>1, <2>1 DEF Linux!Begin, TypeOK
  <2>. QED BY <1>1, <2>2 DEF Linux!Begin, TypeOK, Machine
<1>2. CASE Linux!InstallStat
  <2>1. machine' \in Machine /\ faults' \in 0..MaxFaults
    BY <1>2, ServiceAssumption DEF Linux!InstallStat, TypeOK, Machine
  <2>2. TypeOK'
    BY <1>2, <2>1 DEF Linux!InstallStat, TypeOK
  <2>. QED BY <1>2, <2>2 DEF Linux!InstallStat, TypeOK, Machine
<1>3. CASE Linux!InstallStop
  <2>1. machine' \in Machine /\ faults' \in 0..MaxFaults
    BY <1>3, LinuxStopped, ServiceAssumption DEF Linux!InstallStop, TypeOK
  <2>2. TypeOK'
    BY <1>3, <2>1 DEF Linux!InstallStop, TypeOK
  <2>. QED BY <1>3, LinuxStopped, <2>2 DEF Linux!InstallStop, TypeOK, Machine
<1>4. CASE Linux!InstallCopy
  <2>1. machine' \in Machine /\ faults' \in 0..MaxFaults
    BY <1>4, ServiceAssumption DEF Linux!InstallCopy, TypeOK, Machine
  <2>2. TypeOK'
    BY <1>4, <2>1 DEF Linux!InstallCopy, TypeOK
  <2>. QED BY <1>4, <2>2 DEF Linux!InstallCopy, TypeOK, Machine
<1>5. CASE Linux!InstallWrite
  <2>1. machine' \in Machine /\ faults' \in 0..MaxFaults
    BY <1>5, ServiceAssumption DEF Linux!InstallWrite, TypeOK, Machine
  <2>2. TypeOK'
    BY <1>5, <2>1 DEF Linux!InstallWrite, TypeOK
  <2>. QED BY <1>5, <2>2 DEF Linux!InstallWrite, TypeOK, Machine
<1>6. CASE Linux!InstallReload
  <2>1. machine' \in Machine /\ faults' \in 0..MaxFaults
    BY <1>6, ServiceAssumption DEF Linux!InstallReload, TypeOK, Machine
  <2>2. TypeOK'
    BY <1>6, <2>1 DEF Linux!InstallReload, TypeOK
  <2>. QED BY <1>6, <2>2 DEF Linux!InstallReload, TypeOK, Machine
<1>7. CASE Linux!InstallEnable
  <2>1. machine' \in Machine /\ faults' \in 0..MaxFaults
    BY <1>7, ServiceAssumption DEF Linux!InstallEnable, TypeOK, Machine
  <2>2. TypeOK'
    BY <1>7, <2>1 DEF Linux!InstallEnable, TypeOK
  <2>. QED BY <1>7, <2>2 DEF Linux!InstallEnable, TypeOK, Machine
<1>8. CASE Linux!InstallFails
  <2>1. machine' \in Machine
    <3>1. machine' = machine \/ machine' = [machine EXCEPT !.enabled = TRUE]
      BY <1>8 DEF Linux!InstallFails
    <3>. QED BY <3>1 DEF TypeOK, Machine
  <2>2. faults' \in 0..MaxFaults
    BY <1>8, LinuxFault DEF Linux!InstallFails
  <2>3. TypeOK'
    BY <1>8, <2>1, <2>2 DEF Linux!InstallFails, TypeOK
  <2>4. /\ machine'.agent = machine.agent /\ machine'.unit = machine.unit
        /\ machine'.survived = machine.survived
    BY <1>8 DEF Linux!InstallFails, TypeOK, Machine
  <2>5. pc' = "idle" /\ outcome' = "failed" /\ failed' = FALSE
    BY <1>8 DEF Linux!InstallFails
  <2>. QED BY <2>3, <2>4, <2>5
<1>. QED BY <1>1, <1>2, <1>3, <1>4, <1>5, <1>6, <1>7, <1>8 DEF Linux!Install

\* Each step of uninstall keeps the invariant.
LEMMA LinuxUninstall == LinuxInv /\ Linux!Uninstall => LinuxInv'
<1>. SUFFICES ASSUME LinuxInv, Linux!Uninstall PROVE LinuxInv'
  OBVIOUS
<1>. USE DEF LinuxInv, NoOrphan, LinuxProgress, LinuxInstalled, LinuxInstalling,
             LinuxUninstalling, Linux!Step, Linux!Ends, Linux!command
<1>1. ASSUME NEW v \in Version, Linux!Begin(v, "disable?") PROVE LinuxInv'
  <2>1. machine' \in Machine /\ faults' \in 0..MaxFaults
    BY <1>1, ServiceAssumption DEF Linux!Begin, TypeOK, Machine
  <2>2. TypeOK'
    BY <1>1, <2>1 DEF Linux!Begin, TypeOK
  <2>. QED BY <1>1, <2>2 DEF Linux!Begin, TypeOK, Machine
<1>2. CASE Linux!UninstallStat
  <2>1. machine' \in Machine /\ faults' \in 0..MaxFaults
    BY <1>2, ServiceAssumption DEF Linux!UninstallStat, TypeOK, Machine
  <2>2. TypeOK'
    BY <1>2, <2>1 DEF Linux!UninstallStat, TypeOK
  <2>. QED BY <1>2, <2>2 DEF Linux!UninstallStat, TypeOK, Machine
<1>3. CASE Linux!UninstallDisable
  <2>1. PICK m \in Linux!Stopped : machine' = [m EXCEPT !.enabled = FALSE]
    BY <1>3 DEF Linux!UninstallDisable
  <2>2. /\ m \in Machine /\ m.agent = None
        /\ m.unit = machine.unit /\ m.binary = machine.binary
    BY LinuxStopped DEF TypeOK
  <2>3. machine' \in Machine
    BY <2>1, <2>2 DEF Machine
  <2>4. TypeOK'
    BY <1>3, <2>3 DEF Linux!UninstallDisable, TypeOK
  <2>. QED BY <1>3, <2>1, <2>2, <2>4 DEF Linux!UninstallDisable, TypeOK, Machine
<1>4. CASE Linux!UninstallDisableFails
  <2>1. machine' \in Machine
    BY <1>4 DEF Linux!UninstallDisableFails, TypeOK, Machine
  <2>2. faults' \in 0..MaxFaults
    BY <1>4, LinuxFault DEF Linux!UninstallDisableFails
  <2>3. TypeOK'
    BY <1>4, <2>1, <2>2 DEF Linux!UninstallDisableFails, TypeOK
  <2>. QED BY <1>4, <2>3 DEF Linux!UninstallDisableFails, TypeOK, Machine
<1>5. CASE Linux!UninstallRemoveUnit
  <2>1. machine' \in Machine /\ faults' \in 0..MaxFaults
    BY <1>5, ServiceAssumption DEF Linux!UninstallRemoveUnit, TypeOK, Machine
  <2>2. TypeOK'
    BY <1>5, <2>1 DEF Linux!UninstallRemoveUnit, TypeOK
  <2>. QED BY <1>5, <2>2 DEF Linux!UninstallRemoveUnit, TypeOK, Machine
<1>6. CASE Linux!UninstallRemoveBinary
  <2>1. machine' \in Machine /\ faults' \in 0..MaxFaults
    BY <1>6, ServiceAssumption DEF Linux!UninstallRemoveBinary, TypeOK, Machine
  <2>2. TypeOK'
    BY <1>6, <2>1 DEF Linux!UninstallRemoveBinary, TypeOK
  <2>. QED BY <1>6, <2>2 DEF Linux!UninstallRemoveBinary, TypeOK, Machine
<1>7. CASE Linux!UninstallRemoveFails
  <2>1. machine' \in Machine
    BY <1>7 DEF Linux!UninstallRemoveFails, TypeOK, Machine
  <2>2. faults' \in 0..MaxFaults
    BY <1>7, LinuxFault DEF Linux!UninstallRemoveFails
  <2>3. TypeOK'
    BY <1>7, <2>1, <2>2 DEF Linux!UninstallRemoveFails, TypeOK
  <2>. QED BY <1>7, <2>3 DEF Linux!UninstallRemoveFails, TypeOK, Machine
<1>8. CASE Linux!UninstallReload
  <2>1. machine' \in Machine /\ faults' \in 0..MaxFaults
    BY <1>8, ServiceAssumption DEF Linux!UninstallReload, TypeOK, Machine
  <2>2. TypeOK'
    BY <1>8, <2>1 DEF Linux!UninstallReload, TypeOK
  <2>. QED BY <1>8, <2>2 DEF Linux!UninstallReload, TypeOK, Machine
<1>9. CASE Linux!UninstallClean
  <2>1. machine' \in Machine /\ faults' \in 0..MaxFaults
    BY <1>9, ServiceAssumption DEF Linux!UninstallClean, TypeOK, Machine
  <2>2. TypeOK'
    BY <1>9, <2>1 DEF Linux!UninstallClean, TypeOK
  <2>. QED BY <1>9, <2>2 DEF Linux!UninstallClean, TypeOK, Machine
<1>10. CASE Linux!UninstallFails
  <2>1. machine' \in Machine
    BY <1>10 DEF Linux!UninstallFails, TypeOK, Machine
  <2>2. faults' \in 0..MaxFaults
    BY <1>10, LinuxFault DEF Linux!UninstallFails
  <2>3. TypeOK'
    BY <1>10, <2>1, <2>2 DEF Linux!UninstallFails, TypeOK
  <2>. QED BY <1>10, <2>3 DEF Linux!UninstallFails, TypeOK, Machine
<1>. QED
  BY <1>1, <1>2, <1>3, <1>4, <1>5, <1>6, <1>7, <1>8, <1>9, <1>10 DEF Linux!Uninstall

\* So do the agent, systemd, a kill of the command and a reboot.
LEMMA LinuxStep == LinuxInv /\ [Linux!Next]_vars => LinuxInv'
<1>. SUFFICES ASSUME LinuxInv, [Linux!Next]_vars PROVE LinuxInv'
  OBVIOUS
<1>. USE DEF LinuxInv, NoOrphan, LinuxProgress, LinuxInstalled, LinuxInstalling,
             LinuxUninstalling, Linux!Step, Linux!Ends, Linux!command
<1>1. CASE Linux!Install
  BY <1>1, LinuxInstall
<1>2. CASE Linux!Uninstall
  BY <1>2, LinuxUninstall
<1>3. CASE Linux!AgentPublishes
  <2>1. machine' \in Machine /\ faults' \in 0..MaxFaults
    BY <1>3, ServiceAssumption DEF Linux!AgentPublishes, TypeOK, Machine
  <2>2. TypeOK'
    BY <1>3, <2>1 DEF Linux!AgentPublishes, TypeOK
  <2>3. /\ machine'.agent = machine.agent /\ machine'.unit = machine.unit
        /\ machine'.survived = machine.survived /\ machine'.binary = machine.binary
        /\ machine'.enabled = machine.enabled
    BY <1>3 DEF Linux!AgentPublishes, TypeOK, Machine
  <2>4. UNCHANGED <<pc, version, failed, outcome>>
    BY <1>3 DEF Linux!AgentPublishes
  <2>. QED BY <2>2, <2>3, <2>4
<1>4. CASE Linux!AgentRestarts
  <2>1. machine' \in Machine
    BY <1>4 DEF Linux!AgentRestarts, TypeOK, Machine
  <2>2. faults' \in 0..MaxFaults
    BY <1>4, LinuxFault DEF Linux!AgentRestarts
  <2>3. TypeOK'
    BY <1>4, <2>1, <2>2 DEF Linux!AgentRestarts, TypeOK
  <2>4. /\ machine.agent # None /\ machine'.agent = machine.binary
        /\ machine'.unit = machine.unit /\ machine'.survived = machine.survived
        /\ machine'.binary = machine.binary /\ machine'.enabled = machine.enabled
    BY <1>4 DEF Linux!AgentRestarts, TypeOK, Machine
  <2>5. UNCHANGED <<pc, version, failed, outcome>>
    BY <1>4 DEF Linux!AgentRestarts
  <2>. QED BY <2>3, <2>4, <2>5
<1>5. CASE Linux!KillCommand
  <2>1. machine' \in Machine
    BY <1>5 DEF Linux!KillCommand, TypeOK, Machine
  <2>2. faults' \in 0..MaxFaults
    BY <1>5, LinuxFault DEF Linux!KillCommand
  <2>3. TypeOK'
    BY <1>5, <2>1, <2>2 DEF Linux!KillCommand, TypeOK
  <2>. QED BY <1>5, <2>3 DEF Linux!KillCommand, TypeOK, Machine
<1>6. CASE Linux!Reboot
  <2>1. machine' \in Machine
    BY <1>6 DEF Linux!Reboot, TypeOK, Machine
  <2>2. faults' \in 0..MaxFaults
    BY <1>6, LinuxFault DEF Linux!Reboot
  <2>3. TypeOK'
    BY <1>6, <2>1, <2>2 DEF Linux!Reboot, TypeOK
  <2>4. /\ machine'.agent = (IF machine.unit /\ machine.enabled
                              THEN machine.binary ELSE None)
        /\ machine'.unit = machine.unit /\ machine'.binary = machine.binary
        /\ machine'.enabled = machine.enabled
    BY <1>6 DEF Linux!Reboot, TypeOK, Machine
  <2>5. /\ pc' = "idle" /\ version' = version /\ failed' = FALSE
        /\ outcome' = IF pc = "idle" THEN outcome ELSE "failed"
    BY <1>6 DEF Linux!Reboot
  <2>. QED BY <2>3, <2>4, <2>5
<1>7. CASE UNCHANGED vars
  <2>1. machine' \in Machine /\ faults' \in 0..MaxFaults
    BY <1>7, ServiceAssumption DEF vars, command, TypeOK, Machine
  <2>2. TypeOK'
    BY <1>7, <2>1 DEF vars, command, TypeOK
  <2>3. UNCHANGED <<machine, pc, version, failed, outcome>>
    BY <1>7 DEF vars, command
  <2>. QED BY <2>2, <2>3
<1>. QED BY <1>1, <1>2, <1>3, <1>4, <1>5, <1>6, <1>7 DEF Linux!Next

\* The instance has the variables of Service.
LEMMA LinuxVars == [Linux!Next]_(Linux!vars) => [Linux!Next]_vars
  BY DEF Linux!vars, Linux!command, vars, command

\* The invariant holds in every reachable state of Linux.
LEMMA LinuxAlways == Linux!Spec => []LinuxInv
  BY LinuxInit, LinuxStep, LinuxVars, PTL DEF Linux!Spec

\* An agent without a unit file outlived a `disable --now` that failed.
THEOREM LinuxNoOrphan == Linux!Spec => []NoOrphan
  BY LinuxAlways, PTL DEF LinuxInv

\* After a successful install the version that was installed runs, unless an
\* earlier agent could not be stopped.
THEOREM LinuxInstallRuns == Linux!Spec => []InstallRuns
<1>1. LinuxInv => InstallRuns
  BY DEF LinuxInv, LinuxInstalled, InstallRuns
<1>. QED BY <1>1, LinuxAlways, PTL

\* The step in which an uninstall reports success leaves nothing behind,
\* unless there was an agent that could not be stopped.
LEMMA LinuxUninstallCompletes ==
  ASSUME LinuxInv, [Linux!Next]_vars, outcome' = "uninstalled",
         outcome # "uninstalled", ~machine.survived
  PROVE  Complete'
<1>1. Linux!UninstallClean
  BY DEF Linux!Next, Linux!Install, Linux!Uninstall, Linux!Begin, Linux!InstallStat,
         Linux!InstallStop, Linux!InstallCopy, Linux!InstallWrite, Linux!InstallReload,
         Linux!InstallEnable, Linux!InstallFails, Linux!UninstallStat,
         Linux!UninstallDisable, Linux!UninstallDisableFails,
         Linux!UninstallRemoveUnit, Linux!UninstallRemoveBinary,
         Linux!UninstallRemoveFails, Linux!UninstallReload, Linux!UninstallFails,
         Linux!AgentPublishes, Linux!AgentRestarts, Linux!KillCommand, Linux!Reboot,
         Linux!Step, Linux!Ends, Linux!command, vars, command
<1>. QED
  BY <1>1 DEF Linux!UninstallClean, Linux!Ends, Complete, LinuxInv, LinuxProgress,
              LinuxUninstalling, TypeOK, Machine

\* An uninstall that reports success is complete, under the same exception.
THEOREM LinuxUninstallAlwaysCompletes == Linux!Spec => UninstallCompletes
<1> DEFINE Completes ==
      outcome' = "uninstalled" /\ outcome # "uninstalled" /\ ~machine.survived => Complete'
<1>1. LinuxInv /\ [Linux!Next]_vars => [Completes]_vars
  BY LinuxUninstallCompletes
<1>. QED BY <1>1, LinuxAlways, LinuxVars, PTL DEF Linux!Spec, UninstallCompletes

-----------------------------------------------------------------------------
(* Install and uninstall on macOS.                                         *)

\* A command that is past its bootout has no agent beside it, unless that
\* failed, and what it has done so far is there.
DarwinProgress ==
  /\ pc \in {"copy", "write", "bootstrap", "clean"} => machine.agent = None
  /\ pc \in {"unit", "binary", "result"} =>
       /\ machine.agent = None \/ machine.survived
       /\ ~failed => machine.agent = None
  /\ pc \in {"write", "bootstrap"} => machine.binary = version
  /\ pc = "bootstrap" => machine.unit /\ machine.enabled
  /\ pc \in {"binary", "result"} /\ ~failed => ~machine.unit
  /\ pc = "result" /\ ~failed => machine.binary = None
  /\ failed => pc \in {"unit", "binary", "result"}
  /\ pc = "clean" => ~machine.unit /\ machine.binary = None

\* What a successful command has left stays until the next command.
DarwinOutcome ==
  /\ outcome = "installed" =>
       /\ pc = "idle"
       /\ machine.binary = version /\ machine.agent = version
       /\ machine.unit /\ machine.enabled
  /\ outcome = "uninstalled" => pc = "idle" /\ Complete

DarwinInv == TypeOK /\ NoOrphan /\ DarwinProgress /\ DarwinOutcome

\* Nothing is installed at first.
LEMMA DarwinInit == Darwin!Init => DarwinInv
<1>1. Darwin!Init => TypeOK
  <2>1. Darwin!Init => machine \in Machine /\ faults \in 0..MaxFaults
    BY ServiceAssumption DEF Darwin!Init, Machine
  <2>. QED BY <2>1 DEF Darwin!Init, TypeOK
<1>2. Darwin!Init => NoOrphan /\ DarwinProgress /\ DarwinOutcome
  BY DEF Darwin!Init, NoOrphan, DarwinProgress, DarwinOutcome
<1>. QED BY <1>1, <1>2 DEF DarwinInv

\* Stopping the agent changes nothing else, and leaves no agent.
LEMMA DarwinStopped ==
  ASSUME machine \in Machine
  PROVE  \A m \in Darwin!Stopped :
           /\ m \in Machine /\ m.agent = None /\ m.survived = FALSE
           /\ m.unit = machine.unit /\ m.binary = machine.binary
           /\ m.enabled = machine.enabled
  BY DEF Darwin!Stopped, Machine

\* A fault that happens stays within the bound.
LEMMA DarwinFault == TypeOK /\ Darwin!Fault => faults' \in 0..MaxFaults
<1>1. TypeOK => faults \in 0..MaxFaults
  BY DEF TypeOK
<1>2. MaxFaults \in Nat
  BY ServiceAssumption
<1>. QED BY <1>1, <1>2 DEF Darwin!Fault

\* Each step of install keeps the invariant.
LEMMA DarwinInstall == DarwinInv /\ Darwin!Install => DarwinInv'
<1>. SUFFICES ASSUME DarwinInv, Darwin!Install PROVE DarwinInv'
  OBVIOUS
<1>. USE DEF DarwinInv, NoOrphan, DarwinProgress, DarwinOutcome, Complete,
             Darwin!Step, Darwin!Ends, Darwin!command
<1>1. ASSUME NEW v \in Version, Darwin!Begin(v, "bootout") PROVE DarwinInv'
  <2>1. machine' \in Machine /\ faults' \in 0..MaxFaults
    BY <1>1, ServiceAssumption DEF Darwin!Begin, TypeOK, Machine
  <2>2. TypeOK'
    BY <1>1, <2>1 DEF Darwin!Begin, TypeOK
  <2>. QED BY <1>1, <2>2 DEF Darwin!Begin, TypeOK, Machine
<1>2. CASE Darwin!InstallBootout
  <2>1. machine' \in Machine /\ faults' \in 0..MaxFaults
    BY <1>2, DarwinStopped, ServiceAssumption DEF Darwin!InstallBootout, TypeOK
  <2>2. TypeOK'
    BY <1>2, <2>1 DEF Darwin!InstallBootout, TypeOK
  <2>. QED BY <1>2, DarwinStopped, <2>2 DEF Darwin!InstallBootout, TypeOK, Machine
<1>3. CASE Darwin!InstallCopy
  <2>1. machine' \in Machine /\ faults' \in 0..MaxFaults
    BY <1>3, ServiceAssumption DEF Darwin!InstallCopy, TypeOK, Machine
  <2>2. TypeOK'
    BY <1>3, <2>1 DEF Darwin!InstallCopy, TypeOK
  <2>. QED BY <1>3, <2>2 DEF Darwin!InstallCopy, TypeOK, Machine
<1>4. CASE Darwin!InstallWrite
  <2>1. machine' \in Machine /\ faults' \in 0..MaxFaults
    BY <1>4, ServiceAssumption DEF Darwin!InstallWrite, TypeOK, Machine
  <2>2. TypeOK'
    BY <1>4, <2>1 DEF Darwin!InstallWrite, TypeOK
  <2>. QED BY <1>4, <2>2 DEF Darwin!InstallWrite, TypeOK, Machine
<1>5. CASE Darwin!InstallBootstrap
  <2>1. machine' \in Machine /\ faults' \in 0..MaxFaults
    BY <1>5, ServiceAssumption DEF Darwin!InstallBootstrap, TypeOK, Machine
  <2>2. TypeOK'
    BY <1>5, <2>1 DEF Darwin!InstallBootstrap, TypeOK
  <2>. QED BY <1>5, <2>2 DEF Darwin!InstallBootstrap, TypeOK, Machine
<1>6. CASE Darwin!InstallFails
  <2>1. machine' \in Machine
    BY <1>6 DEF Darwin!InstallFails, TypeOK, Machine
  <2>2. faults' \in 0..MaxFaults
    BY <1>6, DarwinFault DEF Darwin!InstallFails
  <2>3. TypeOK'
    BY <1>6, <2>1, <2>2 DEF Darwin!InstallFails, TypeOK
  <2>. QED BY <1>6, <2>3 DEF Darwin!InstallFails, TypeOK, Machine
<1>. QED BY <1>1, <1>2, <1>3, <1>4, <1>5, <1>6 DEF Darwin!Install

\* Each step of uninstall keeps the invariant.
LEMMA DarwinUninstall == DarwinInv /\ Darwin!Uninstall => DarwinInv'
<1>. SUFFICES ASSUME DarwinInv, Darwin!Uninstall PROVE DarwinInv'
  OBVIOUS
<1>. USE DEF DarwinInv, NoOrphan, DarwinProgress, DarwinOutcome, Complete,
             Darwin!Step, Darwin!Ends, Darwin!command
<1>1. ASSUME NEW v \in Version, Darwin!Begin(v, "bootout for good") PROVE DarwinInv'
  <2>1. machine' \in Machine /\ faults' \in 0..MaxFaults
    BY <1>1, ServiceAssumption DEF Darwin!Begin, TypeOK, Machine
  <2>2. TypeOK'
    BY <1>1, <2>1 DEF Darwin!Begin, TypeOK
  <2>. QED BY <1>1, <2>2 DEF Darwin!Begin, TypeOK, Machine
<1>2. CASE Darwin!UninstallBootout
  <2>1. machine' \in Machine /\ faults' \in 0..MaxFaults
    BY <1>2, DarwinStopped, ServiceAssumption DEF Darwin!UninstallBootout, TypeOK
  <2>2. TypeOK'
    BY <1>2, <2>1 DEF Darwin!UninstallBootout, TypeOK
  <2>. QED BY <1>2, DarwinStopped, <2>2 DEF Darwin!UninstallBootout, TypeOK, Machine
<1>3. CASE Darwin!UninstallBootoutFails
  <2>1. machine' \in Machine
    BY <1>3 DEF Darwin!UninstallBootoutFails, TypeOK, Machine
  <2>2. faults' \in 0..MaxFaults
    BY <1>3, DarwinFault DEF Darwin!UninstallBootoutFails
  <2>3. TypeOK'
    BY <1>3, <2>1, <2>2 DEF Darwin!UninstallBootoutFails, TypeOK
  <2>. QED BY <1>3, <2>3 DEF Darwin!UninstallBootoutFails, TypeOK, Machine
<1>4. CASE Darwin!UninstallRemovePlist
  <2>1. machine' \in Machine /\ faults' \in 0..MaxFaults
    BY <1>4, ServiceAssumption DEF Darwin!UninstallRemovePlist, TypeOK, Machine
  <2>2. TypeOK'
    BY <1>4, <2>1 DEF Darwin!UninstallRemovePlist, TypeOK
  <2>. QED BY <1>4, <2>2 DEF Darwin!UninstallRemovePlist, TypeOK, Machine
<1>5. CASE Darwin!UninstallRemoveBinary
  <2>1. machine' \in Machine /\ faults' \in 0..MaxFaults
    BY <1>5, ServiceAssumption DEF Darwin!UninstallRemoveBinary, TypeOK, Machine
  <2>2. TypeOK'
    BY <1>5, <2>1 DEF Darwin!UninstallRemoveBinary, TypeOK
  <2>. QED BY <1>5, <2>2 DEF Darwin!UninstallRemoveBinary, TypeOK, Machine
<1>6. CASE Darwin!UninstallRemoveFails
  <2>1. machine' \in Machine
    BY <1>6 DEF Darwin!UninstallRemoveFails, TypeOK, Machine
  <2>2. faults' \in 0..MaxFaults
    BY <1>6, DarwinFault DEF Darwin!UninstallRemoveFails
  <2>3. TypeOK'
    BY <1>6, <2>1, <2>2 DEF Darwin!UninstallRemoveFails, TypeOK
  <2>. QED BY <1>6, <2>3 DEF Darwin!UninstallRemoveFails, TypeOK, Machine
<1>7. CASE Darwin!UninstallResult
  <2>1. machine' \in Machine /\ faults' \in 0..MaxFaults
    BY <1>7, ServiceAssumption DEF Darwin!UninstallResult, TypeOK, Machine
  <2>2. TypeOK'
    BY <1>7, <2>1 DEF Darwin!UninstallResult, TypeOK
  <2>. QED BY <1>7, <2>2 DEF Darwin!UninstallResult, TypeOK, Machine
<1>8. CASE Darwin!UninstallClean
  <2>1. machine' \in Machine /\ faults' \in 0..MaxFaults
    BY <1>8, ServiceAssumption DEF Darwin!UninstallClean, TypeOK, Machine
  <2>2. TypeOK'
    BY <1>8, <2>1 DEF Darwin!UninstallClean, TypeOK
  <2>. QED BY <1>8, <2>2 DEF Darwin!UninstallClean, TypeOK, Machine
<1>9. CASE Darwin!UninstallCleanFails
  <2>1. machine' \in Machine
    BY <1>9 DEF Darwin!UninstallCleanFails, TypeOK, Machine
  <2>2. faults' \in 0..MaxFaults
    BY <1>9, DarwinFault DEF Darwin!UninstallCleanFails
  <2>3. TypeOK'
    BY <1>9, <2>1, <2>2 DEF Darwin!UninstallCleanFails, TypeOK
  <2>. QED BY <1>9, <2>3 DEF Darwin!UninstallCleanFails, TypeOK, Machine
<1>. QED BY <1>1, <1>2, <1>3, <1>4, <1>5, <1>6, <1>7, <1>8, <1>9 DEF Darwin!Uninstall

\* So do the agent, launchd, a kill of the command and a reboot.
LEMMA DarwinStep == DarwinInv /\ [Darwin!Next]_vars => DarwinInv'
<1>. SUFFICES ASSUME DarwinInv, [Darwin!Next]_vars PROVE DarwinInv'
  OBVIOUS
<1>. USE DEF DarwinInv, NoOrphan, DarwinProgress, DarwinOutcome, Complete,
             Darwin!Step, Darwin!Ends, Darwin!command
<1>1. CASE Darwin!Install
  BY <1>1, DarwinInstall
<1>2. CASE Darwin!Uninstall
  BY <1>2, DarwinUninstall
<1>3. CASE Darwin!AgentPublishes
  <2>1. machine' \in Machine /\ faults' \in 0..MaxFaults
    BY <1>3, ServiceAssumption DEF Darwin!AgentPublishes, TypeOK, Machine
  <2>2. TypeOK'
    BY <1>3, <2>1 DEF Darwin!AgentPublishes, TypeOK
  <2>. QED BY <1>3, <2>2 DEF Darwin!AgentPublishes, TypeOK, Machine
<1>4. CASE Darwin!AgentRestarts
  <2>1. machine' \in Machine
    BY <1>4 DEF Darwin!AgentRestarts, TypeOK, Machine
  <2>2. faults' \in 0..MaxFaults
    BY <1>4, DarwinFault DEF Darwin!AgentRestarts
  <2>3. TypeOK'
    BY <1>4, <2>1, <2>2 DEF Darwin!AgentRestarts, TypeOK
  <2>. QED BY <1>4, <2>3 DEF Darwin!AgentRestarts, TypeOK, Machine
<1>5. CASE Darwin!KillCommand
  <2>1. machine' \in Machine
    BY <1>5 DEF Darwin!KillCommand, TypeOK, Machine
  <2>2. faults' \in 0..MaxFaults
    BY <1>5, DarwinFault DEF Darwin!KillCommand
  <2>3. TypeOK'
    BY <1>5, <2>1, <2>2 DEF Darwin!KillCommand, TypeOK
  <2>. QED BY <1>5, <2>3 DEF Darwin!KillCommand, TypeOK, Machine
<1>6. CASE Darwin!Reboot
  <2>1. machine' \in Machine
    BY <1>6 DEF Darwin!Reboot, TypeOK, Machine
  <2>2. faults' \in 0..MaxFaults
    BY <1>6, DarwinFault DEF Darwin!Reboot
  <2>3. TypeOK'
    BY <1>6, <2>1, <2>2 DEF Darwin!Reboot, TypeOK
  <2>. QED BY <1>6, <2>3 DEF Darwin!Reboot, TypeOK, Machine
<1>7. CASE UNCHANGED vars
  <2>1. UNCHANGED <<machine, pc, version, failed, outcome, faults>>
    BY <1>7 DEF vars, command
  <2>2. TypeOK'
    BY <2>1 DEF TypeOK
  <2>. QED BY <2>1, <2>2
<1>. QED BY <1>1, <1>2, <1>3, <1>4, <1>5, <1>6, <1>7 DEF Darwin!Next

-----------------------------------------------------------------------------
(* All platforms.                                                          *)

\* The inductive invariant of the platform the machine has.
PlatformInv ==
  /\ platform \in {"linux", "darwin", "windows"}
  /\ scm \in Windows!SCM
  /\ platform = "linux" => LinuxInv
  /\ platform = "darwin" => DarwinInv
  /\ platform = "windows" => WindowsProofs!WindowsInv /\ ~failed

-----------------------------------------------------------------------------
(* The instance of MCService and that of the proofs are the same.          *)

\* A step on Windows is a step of the specification ServiceWindowsProofs is about.
LEMMA WindowsStep == Windows!WindowsNext <=> WindowsProofs!WindowsNext
  BY
  DEF Windows!WindowsNext, WindowsProofs!WindowsNext, Windows!Install,
      WindowsProofs!Install, Windows!Uninstall, WindowsProofs!Uninstall,
      Windows!RemoveService, WindowsProofs!RemoveService, Windows!BeginWindows,
      WindowsProofs!BeginWindows, Windows!Fails, WindowsProofs!Fails,
      Windows!Refused, WindowsProofs!Refused, Windows!Slips, WindowsProofs!Slips,
      Windows!SetExtras, WindowsProofs!SetExtras, Windows!Open, WindowsProofs!Open,
      Windows!Query, WindowsProofs!Query, Windows!Control, WindowsProofs!Control,
      Windows!AwaitStopped, WindowsProofs!AwaitStopped, Windows!Delete,
      WindowsProofs!Delete, Windows!AwaitDeleted, WindowsProofs!AwaitDeleted,
      Windows!RemoveSource, WindowsProofs!RemoveSource, Windows!Copy,
      WindowsProofs!Copy, Windows!Create, WindowsProofs!Create,
      Windows!InstallSource, WindowsProofs!InstallSource, Windows!Firewall,
      WindowsProofs!Firewall, Windows!StartService, WindowsProofs!StartService,
      Windows!RollBack, WindowsProofs!RollBack, Windows!InstallFails,
      WindowsProofs!InstallFails, Windows!Undo, WindowsProofs!Undo,
      Windows!RemoveRule, WindowsProofs!RemoveRule, Windows!RemoveBinary,
      WindowsProofs!RemoveBinary, Windows!HandlerStops, WindowsProofs!HandlerStops,
      Windows!HandlerTimesOut, WindowsProofs!HandlerTimesOut, Windows!AgentFails,
      WindowsProofs!AgentFails, Windows!ProcessExits, WindowsProofs!ProcessExits,
      Windows!HandleOpen, WindowsProofs!HandleOpen, Windows!SCMDeletes,
      WindowsProofs!SCMDeletes, Windows!DelayedStart, WindowsProofs!DelayedStart,
      Windows!Reboot, WindowsProofs!Reboot, Windows!KillWindowsCommand,
      WindowsProofs!KillWindowsCommand, Windows!Begin, WindowsProofs!Begin,
      Windows!Step, WindowsProofs!Step, Windows!Ends, WindowsProofs!Ends,
      Windows!Stopped, WindowsProofs!Stopped, Windows!command,
      WindowsProofs!command, Windows!Fault, WindowsProofs!Fault,
      Windows!UninstallClean, WindowsProofs!UninstallClean, Windows!AgentPublishes,
      WindowsProofs!AgentPublishes, Windows!KillCommand, WindowsProofs!KillCommand

\* Uninstall on Windows records no error: it returns the first.
LEMMA WindowsRecordsNothing == ~failed /\ Windows!WindowsNext => ~failed'
  BY
  DEF Windows!WindowsNext, Windows!Install, Windows!Uninstall, Windows!RemoveService,
      Windows!BeginWindows, Windows!Fails, Windows!Refused, Windows!Slips,
      Windows!SetExtras, Windows!Open, Windows!Query, Windows!Control,
      Windows!AwaitStopped, Windows!Delete, Windows!AwaitDeleted,
      Windows!RemoveSource, Windows!Copy, Windows!Create, Windows!InstallSource,
      Windows!Firewall, Windows!StartService, Windows!RollBack,
      Windows!InstallFails, Windows!Undo, Windows!RemoveRule, Windows!RemoveBinary,
      Windows!HandlerStops, Windows!HandlerTimesOut, Windows!AgentFails,
      Windows!ProcessExits, Windows!SCMDeletes, Windows!DelayedStart,
      Windows!Reboot, Windows!KillWindowsCommand, Windows!Begin, Windows!Step,
      Windows!Ends, Windows!command, Windows!UninstallClean,
      Windows!AgentPublishes, Windows!KillCommand

-----------------------------------------------------------------------------

\* Nothing is installed at first.
LEMMA PlatformInit == MCInit => PlatformInv
<1>1. MCInit => Linux!Init /\ Darwin!Init /\ WindowsProofs!WindowsInit
  BY DEF MCInit, Windows!WindowsInit, Windows!Init, Windows!SCMInit,
         WindowsProofs!WindowsInit, WindowsProofs!Init, WindowsProofs!SCMInit,
         Linux!Init, Darwin!Init
<1>2. MCInit => scm \in Windows!SCM /\ ~failed
  BY DEF MCInit, Windows!WindowsInit, Windows!Init, Windows!SCMInit, Windows!SCM
<1>. QED
  BY <1>1, <1>2, ServiceAssumption, LinuxInit, DarwinInit,
     WindowsProofs!WindowsInitInv
  DEF PlatformInv, MCInit

\* Every step of a platform keeps its invariant, and the platform.
LEMMA PlatformStep ==
  PlatformInv /\ [MCNext]_<<vars, platform, scm>> => PlatformInv'
<1> SUFFICES ASSUME PlatformInv, [MCNext]_<<vars, platform, scm>> PROVE PlatformInv'
  OBVIOUS
<1>1. platform' = platform
  BY DEF MCNext
<1>2. CASE platform = "linux"
  <2>1. [Linux!Next]_vars /\ scm' = scm
    BY <1>2 DEF MCNext, vars, command
  <2>. QED
    BY <1>1, <1>2, <2>1, LinuxStep, ServiceAssumption DEF PlatformInv
<1>3. CASE platform = "darwin"
  <2>1. [Darwin!Next]_vars /\ scm' = scm
    BY <1>3 DEF MCNext, vars, command
  <2>. QED
    BY <1>1, <1>3, <2>1, DarwinStep, ServiceAssumption DEF PlatformInv
<1>4. CASE platform = "windows"
  <2>1. [WindowsProofs!WindowsNext]_(WindowsProofs!windowsVars)
    BY <1>4, WindowsStep
    DEF MCNext, vars, command, WindowsProofs!windowsVars, WindowsProofs!vars,
        WindowsProofs!command
  <2>2. WindowsProofs!WindowsInv'
    BY <1>4, <2>1, WindowsProofs!WindowsStep, ServiceAssumption DEF PlatformInv
  <2>3. scm' \in Windows!SCM
    BY <2>2 DEF WindowsProofs!WindowsInv, WindowsProofs!WindowsTypeOK, WindowsProofs!SCM,
                Windows!SCM, WindowsProofs!Extras, Windows!Extras
  <2>4. ~failed'
    BY <1>4, WindowsRecordsNothing DEF PlatformInv, MCNext, vars, command
  <2>. QED BY <1>1, <1>4, <2>2, <2>3, <2>4 DEF PlatformInv
<1>. QED BY <1>2, <1>3, <1>4 DEF PlatformInv

\* The invariant holds in every reachable state.
LEMMA PlatformAlways == MCSpec => []PlatformInv
  BY PlatformInit, PlatformStep, PTL DEF MCSpec

\* Every variable keeps its type, on each platform, and no error that an
\* uninstall recorded outlives the steps of Uninstall.
THEOREM EveryPlatformTyped == MCSpec => []MCTypeOK
<1>1. PlatformInv => MCTypeOK
  BY DEF PlatformInv, MCTypeOK, Windows!WindowsTypeOK, Windows!TypeOK, Windows!Machine,
         LinuxInv, LinuxProgress, DarwinInv, DarwinProgress, TypeOK, Machine,
         WindowsProofs!WindowsInv, WindowsProofs!WindowsTypeOK, WindowsProofs!TypeOK,
         WindowsProofs!Machine
<1>. QED BY <1>1, PlatformAlways, PTL

\* No platform ever has an agent that nothing can stop, except one that an
\* uninstall or a handler already failed to stop.
THEOREM NoOrphanAnywhere == MCSpec => []NoOrphan
<1>1. WindowsProofs!WindowsInv => NoOrphan
  BY DEF WindowsProofs!WindowsInv, WindowsProofs!WindowsTypeOK, WindowsProofs!SCM,
         WindowsProofs!SCMInv, NoOrphan
<1>2. PlatformInv => NoOrphan
  BY <1>1 DEF PlatformInv, NoOrphan, LinuxInv, DarwinInv
<1>. QED BY <1>2, PlatformAlways, PTL

\* What runs, or is to be started, after a successful install is what it
\* installed, on each platform.
THEOREM InstallRunsOnEveryPlatform == MCSpec => []InstallRunsEverywhere
<1>1. PlatformInv => InstallRunsEverywhere
  BY DEF PlatformInv, InstallRunsEverywhere, InstallRuns, Windows!WindowsInstallRuns,
         LinuxInv, LinuxInstalled,
         DarwinInv, DarwinOutcome,
         WindowsProofs!WindowsInv, WindowsProofs!OutcomeInv, WindowsProofs!WindowsInstallRuns
<1>. QED BY <1>1, PlatformAlways, PTL

\* On macOS and Windows an uninstall reports success only when it is complete.
THEOREM UninstallCompleteElsewhere == MCSpec => []UninstallIsCompleteElsewhere
<1>1. PlatformInv => UninstallIsCompleteElsewhere
  BY DEF PlatformInv, UninstallIsCompleteElsewhere, UninstallIsComplete, Complete,
         Windows!WindowsUninstallIsComplete, Windows!Complete,
         DarwinInv, DarwinOutcome,
         WindowsProofs!WindowsInv, WindowsProofs!OutcomeInv,
         WindowsProofs!WindowsUninstallIsComplete, WindowsProofs!Complete
<1>. QED BY <1>1, PlatformAlways, PTL

\* The SCM never has a service to start that has no executable.
THEOREM AlwaysStartsSomething == MCSpec => []StartsSomething
<1>1. PlatformInv => StartsSomething
  BY DEF PlatformInv, StartsSomething, Windows!StartsSomething,
         WindowsProofs!WindowsInv, WindowsProofs!SCMInv
<1>. QED BY <1>1, PlatformAlways, PTL

\* A Windows install that fails and rolls back as written leaves no service for
\* what it has put in place.
THEOREM AlwaysRolledBack == MCSpec => []RolledBack
<1>1. PlatformInv => RolledBack
  BY DEF PlatformInv, RolledBack, Windows!RolledBack, WindowsProofs!WindowsInv,
         WindowsProofs!OutcomeInv, WindowsProofs!RolledBack
<1>. QED BY <1>1, PlatformAlways, PTL

\* The step in which an uninstall reports success leaves nothing behind, on
\* each platform, unless there was an agent that could not be stopped.
THEOREM UninstallCompletesOnEveryPlatform == MCSpec => UninstallCompletes
<1> DEFINE Completes ==
      outcome' = "uninstalled" /\ outcome # "uninstalled" /\ ~machine.survived => Complete'
<1>1. ASSUME PlatformInv, PlatformInv', [MCNext]_<<vars, platform, scm>>
      PROVE  [Completes]_vars
  <2> SUFFICES ASSUME outcome' = "uninstalled", outcome # "uninstalled", ~machine.survived
               PROVE  Complete'
    OBVIOUS
  <2>1. platform' = platform
    BY <1>1 DEF MCNext
  <2>2. CASE platform = "linux"
    <3>1. LinuxInv /\ [Linux!Next]_vars
      BY <1>1, <2>2 DEF PlatformInv, MCNext, vars, command
    <3>2. Complete'
      BY <3>1, LinuxUninstallCompletes, ServiceAssumption
    <3>. QED BY <3>2
  <2>3. CASE platform # "linux"
    <3>1. UninstallIsCompleteElsewhere'
      BY <1>1 DEF PlatformInv, UninstallIsCompleteElsewhere, UninstallIsComplete, Complete,
         Windows!WindowsUninstallIsComplete, Windows!Complete,
         DarwinInv, DarwinOutcome,
         WindowsProofs!WindowsInv, WindowsProofs!OutcomeInv,
         WindowsProofs!WindowsUninstallIsComplete, WindowsProofs!Complete
    <3>. QED
      BY <1>1, <2>1, <2>3, <3>1
      DEF PlatformInv, UninstallIsCompleteElsewhere, UninstallIsComplete, Complete,
          Windows!WindowsUninstallIsComplete, Windows!Complete
  <2>. QED BY <2>2, <2>3
<1>2. PlatformInv /\ PlatformInv' /\ [MCNext]_<<vars, platform, scm>> => [Completes]_vars
  BY <1>1
<1>. QED BY <1>2, PlatformAlways, PTL DEF MCSpec, UninstallCompletes
=============================================================================
