SPECIFICATION Spec
CONSTANTS
  f1 = f1
  f2 = f2
  f3 = f3
  s1 = s1
  s2 = s2
  u1 = u1
  u2 = u2
  Session = {s1, s2}
  User = {u1, u2}
  userOf <- MCUserOf
  Name = {f1}
  Hash <- MCHash
  Content = {v}
  NULL = NULL
  CreateModes = {10, 13}
  Requests <- MCRequests
  OpenModes = {3}
  MAX_TABLE_SIZE = 1
  INODE_TABLE_SIZE = 1
  FREE_INODE = FREE_INODE
  CloseFirst = FALSE
PROPERTY WritesArePermitted
CONSTRAINT ReadsAreDefined
