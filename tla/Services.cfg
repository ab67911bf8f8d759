\* Install, upgrade and uninstall on each platform; three steps may fail or be
\* cut short.
SPECIFICATION MCSpec
CONSTANTS
  Version = {v1, v2}
  None = None
  MaxFaults = 3
INVARIANTS MCTypeOK NoOrphan InstallRunsEverywhere UninstallIsCompleteElsewhere
           StartsSomething RolledBack
PROPERTIES UninstallCompletes
