\* An agent whose --ttl is longer than the built-in one.
SPECIFICATION Spec
CONSTANTS
  self = self
  p = p
  q = q
  nA = nA
  nB = nB
  nC = nC
  ip0 = ip0
  ip1 = ip1
  ip2 = ip2
  k0 = k0
  k1 = k1
  NoKey = NoKey
  MachineID = {self, p}
  Nickname = {nA, nB, nC}
  Address = {ip0, ip1, ip2}
  HostKey = {k0, k1}
  Alias <- MCAlias
  AliasOf <- MCAliasOf
  Self = self
  OwnNickname = {nA}
  OwnKey = NoKey
  OwnAddress = {}
  Heard <- HeardOne
  Interval = 2
  TTL = 5
  DefaultTTL = 1
  FlushEvery = 2
  Hour = 2
  MaxLag = 1
  QueueSize = 1
  SyncHosts = TRUE
  MaxTime = 12
  MaxFaults = 0
INVARIANTS MapShowsPublished
