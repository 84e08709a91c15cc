\* Two clients at once: one of them gets the answer to a command of the other.
SPECIFICATION Spec
CONSTANTS
  c1 = c1
  c2 = c2
  root = root
  sub = sub
  deep = deep
  NoDir = nodir
  Free = free
  Runners <- TwoClients
  Dirs <- TwoDirectories
  Home = root
  Resolve <- SmallTree
  Deep <- Nothing
  Refused <- Nothing
  Fleeting <- Nothing
  InitialFiles <- SmallFiles
  Commands <- ContendedCommands
  MaxCommands = 2
  MaxBlocks = 1
INVARIANT
  AnswersOwnCommand
CHECK_DEADLOCK FALSE
