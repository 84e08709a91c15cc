\* Either shell, four lines of every kind.
SPECIFICATION Spec
CONSTANTS
  d1 = d1
  d2 = d2
  d3 = d3
  n1 = n1
  n2 = n2
  n3 = n3
  n4 = n4
  f = f
  g = g
  s = s
  cf = cf
  cg = cg
  folder = folder
  Dirs <- ThreeDirs
  Names <- PathNames
  Fleeting <- OneFleeting
  Deep <- OneDeep
  Holders <- TwoHolders
  Home = d1
  FileNames <- ThreeFiles
  InitialFile <- Contents
  Absent = absent
  Empty = empty
  Torn = torn
  Folder = folder
  Program = program
  Null = null
  Nowhere = nowhere
  Junk = junk
  MaxTokens = 4
  MaxPaths = 3
  Capacity = 2
  Leftovers <- OneLeft
  Lines <- AllLines
  MaxLines = 4
INVARIANT
  FilesKept
PROPERTIES
  ImplementsShell
  PathLinesObeyed
CHECK_DEADLOCK FALSE
