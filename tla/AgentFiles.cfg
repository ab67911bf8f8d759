\* The four files: two other machines, renames, collisions, two faults.
SPECIFICATION Spec
CONSTANTS
  self = self
  p = p
  q = q
  nA = nA
  nB = nB
  nC = nC
  ip0 = ip0
  ip1 = ip1
  ip2 = ip2
  k0 = k0
  k1 = k1
  NoKey = NoKey
  MachineID = {self, p, q}
  Nickname = {nA, nB, nC}
  Address = {ip0, ip1, ip2}
  HostKey = {k0, k1}
  Alias <- SpelledAlias
  AliasOf <- SpelledAliasOf
  Rune <- MCRune
  Letter <- MCLetter
  Foreign <- MCForeign
  Lower <- MCLower
  MaxLength <- MCMaxLength
  Fallback <- MCFallback
  Reserved <- MCReserved
  Prefix <- MCPrefix
  Spelled <- MCSpelled
  Checked <- MCChecked
  Self = self
  OwnNickname = {nA}
  OwnKey = k0
  OwnAddress = {ip0}
  Heard <- HeardFiles
  Interval = 1
  TTL = 3
  DefaultTTL = 3
  FlushEvery = 1
  Hour = 2
  MaxLag = 0
  QueueSize = 1
  SyncHosts = TRUE
  MaxTime = 2
  MaxFaults = 2
INVARIANTS FilesAgree StopCleansUp AliasesUsable AliasesStable AliasesFaithful
PROPERTIES KeyBeforeBlock
