\* Uninstall after one that could not stop the service.
SPECIFICATION Spec
CONSTANTS
  Version = {v1, v2}
  None = None
  MaxFaults = 1
INVARIANTS UninstallIsComplete
