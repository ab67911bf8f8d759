------------------------------ MODULE MCService -----------------------------
(***************************************************************************)
(* The services of the three platforms, one of which a machine has.        *)
(***************************************************************************)
EXTENDS Service

VARIABLES platform, scm

Linux == INSTANCE ServiceLinux
Darwin == INSTANCE ServiceDarwin
Windows == INSTANCE ServiceWindows

MCInit == Windows!WindowsInit /\ platform \in {"linux", "darwin", "windows"}

MCNext ==
  /\ \/ platform = "linux" /\ Linux!Next /\ UNCHANGED scm
     \/ platform = "darwin" /\ Darwin!Next /\ UNCHANGED scm
     \/ platform = "windows" /\ Windows!WindowsNext
  /\ UNCHANGED platform

MCSpec == MCInit /\ [][MCNext]_<<vars, platform, scm>>

\* Every variable has its type, on each platform, and an error that Uninstall
\* has recorded is pending only in its own steps: it is returned, and the next
\* command starts without it, before the managed files are cleared.
MCTypeOK ==
  /\ Windows!WindowsTypeOK
  /\ failed => pc \in {"unit", "binary", "reload after", "result"}

\* "Re-running install from a newer binary upgrades and restarts an existing
\* service", on each platform.
InstallRunsEverywhere ==
  IF platform = "windows" THEN Windows!WindowsInstallRuns ELSE InstallRuns

\* Only the uninstall of Linux can report success when it is not complete: on
\* macOS one that is repeated stops an agent that survived the first.
UninstallIsCompleteElsewhere ==
  /\ platform = "darwin" => UninstallIsComplete
  /\ platform = "windows" => Windows!WindowsUninstallIsComplete

\* What the Windows service manager may start has an executable, however the
\* waits for a service to stop and to be deleted end.
StartsSomething == platform = "windows" => Windows!StartsSomething
\* A Windows install that fails leaves no service for what it has put in place,
\* if its rollback went as written.
RolledBack == platform = "windows" => Windows!RolledBack
=============================================================================
