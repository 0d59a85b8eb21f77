SPECIFICATION FairSpec
CONSTANTS
  x1 = x1
  x2 = x2
  MaxLines = 2
  MAX_THREADS = 2
  MAX_COMMANDS = 3
  Name <- MCName
  NoName = NoName
  Other = Other
  File <- MCFile
PROPERTY TakenOnce
