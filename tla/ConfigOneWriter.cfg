\* One command that may write at a time, beside an agent that only loads.
SPECIFICATION Spec
CONSTANTS
  Process = {agent, cli}
  Sudo = {agent}
  agent = agent
  cli = cli
  MachineID = {id1, id2, id3}
  Nickname = {host, n1}
  Group = {g1}
  NoGroup = NoGroup
  Hostname = host
  host = host
  Missing = Missing
  Empty = Empty
  Torn = Torn
  None = None
  Inode = {i1, i2, i3, i4}
  MaxWriters = 1
  MaxFaults = 2
SYMMETRY Inodes
INVARIANTS TypeOK AlwaysReadable
PROPERTIES ActsAtomically
