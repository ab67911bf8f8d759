\* Each of the three files, two edits or changes of the snapshot, and a fault.
SPECIFICATION Spec
CONSTANTS
  u = u
  v = v
  UserLine <- MCUserLine
  Body <- MCBody
  Found <- MCFound
  Absent = Absent
  MaxEdits = 2
  MaxFaults = 1
INVARIANTS TypeOK UserLinesSurvive SyncedAsAsked Idempotent
PROPERTIES ReplacedWhole DamagedLeftAlone Repaired
