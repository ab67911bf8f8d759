\* Two machines; announcements that are late, repeated, reordered or lost.
SPECIFICATION Spec
CONSTANTS
  MachineID = {p, q}
  Nickname = {nA, nB}
  Alias = {nA, nB}
  Address = {p, q}
  HostKey = {}
  NoKey = NoKey
  AliasOf <- MCAliasOf
  AddressOf <- MCAddressOf
  Interval = 1
  TTL = 3
  MaxLag = 0
  MaxDelay = 1
  MaxFaults = 2
INVARIANTS TypeOK Settled GhostsExpire Agreed
SYMMETRY Interchangeable
