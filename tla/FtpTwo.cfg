\* Two clients at once, two commands between them, every command.
SPECIFICATION Spec
CONSTANTS
  c1 = c1
  c2 = c2
  root = root
  sub = sub
  deep = deep
  NoDir = nodir
  Free = free
  Runners <- TwoClients
  Dirs <- TwoDirectories
  Home = root
  Resolve <- SmallTree
  Deep <- Nothing
  Refused <- Nothing
  Fleeting <- OnlySub
  InitialFiles <- SmallFiles
  Commands <- AllCommands
  MaxCommands = 2
  MaxBlocks = 1
INVARIANTS
  LockConsistent
  WorksInOwnDirectory
  UploadsKeptApart
  GetKeepsPromise
SYMMETRY Symmetric
CHECK_DEADLOCK FALSE
