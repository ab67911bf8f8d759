\* Stopping under endless traffic, with --no-hosts and renames.
SPECIFICATION FairSpec
CONSTANTS
  self = self
  p = p
  q = q
  nA = nA
  nB = nB
  nC = nC
  ip0 = ip0
  ip1 = ip1
  ip2 = ip2
  k0 = k0
  k1 = k1
  NoKey = NoKey
  MachineID = {self}
  Nickname = {nA, nB, nC}
  Address = {ip0, ip1, ip2}
  HostKey = {k0, k1}
  Alias <- MCAlias
  AliasOf <- MCAliasOf
  Self = self
  OwnNickname = {nA, nC}
  OwnKey = k0
  OwnAddress = {ip0}
  Heard <- HeardLoopback
  Interval = 1
  TTL = 3
  DefaultTTL = 3
  FlushEvery = 1
  Hour = 2
  MaxLag = 0
  QueueSize = 2
  SyncHosts = FALSE
  MaxTime = 2
  MaxFaults = 2
PROPERTIES StopTerminates
