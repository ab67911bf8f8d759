\* A configured machine: two commands that write at once, one fault.
SPECIFICATION ConfiguredSpec
CONSTANTS
  Process = {agent, cli}
  Sudo = {agent}
  agent = agent
  cli = cli
  MachineID = {id1, id2}
  Nickname = {host, n1}
  Group = {g1}
  NoGroup = NoGroup
  Hostname = host
  host = host
  Missing = Missing
  Empty = Empty
  Torn = Torn
  None = None
  Inode = {i1, i2, i3, i4}
  MaxWriters = 2
  MaxFaults = 1
SYMMETRY Inodes
INVARIANTS StableID
