\* Expiry and flush cadence: one other machine, every ticker may be late.
SPECIFICATION Spec
CONSTANTS
  self = self
  p = p
  q = q
  nA = nA
  nB = nB
  nC = nC
  ip0 = ip0
  ip1 = ip1
  ip2 = ip2
  k0 = k0
  k1 = k1
  NoKey = NoKey
  MachineID = {self, p}
  Nickname = {nA, nB, nC}
  Address = {ip0, ip1, ip2}
  HostKey = {k0, k1}
  Alias <- MCAlias
  AliasOf <- MCAliasOf
  Self = self
  OwnNickname = {nA}
  OwnKey = NoKey
  OwnAddress = {}
  Heard <- HeardOne
  Interval = 3
  TTL = 7
  DefaultTTL = 7
  FlushEvery = 2
  Hour = 2
  MaxLag = 1
  QueueSize = 1
  SyncHosts = TRUE
  MaxTime = 20
  MaxFaults = 1
INVARIANTS TypeOK FlushesInTime BoundedStaleness CleanMeansPublished MapShowsPublished
PROPERTIES NoEarlyExpiry
