\* One client, every command, three commands in a row.
SPECIFICATION FairSpec
CONSTANTS
  c1 = c1
  c2 = c2
  root = root
  sub = sub
  deep = deep
  NoDir = nodir
  Free = free
  Runners <- OneClient
  Dirs <- ThreeDirectories
  Home = root
  Resolve <- Tree
  Deep <- OnlyDeep
  Refused <- NotInDeep
  Fleeting <- OnlySub
  InitialFiles <- Files
  Commands <- AllCommands
  MaxCommands = 3
  MaxBlocks = 1
INVARIANTS
  RepliesAreExpected
  AnswersOwnCommand
  SessionKeepsItsPlace
PROPERTY
  CommandsFinish
CHECK_DEADLOCK FALSE
