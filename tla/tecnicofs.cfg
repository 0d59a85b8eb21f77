SPECIFICATION FairSpec
CONSTANTS
  a = a
  b = b
  c = c
  Kinds = {"create", "delete", "rename"}
  MaxLines = 3
  Producer = Producer
  Consumer = {c1, c2}
  MAX_COMMANDS = 2
  Mech = "MUTEX"
  Comment = Comment
  Invalid = Invalid
  End = End
  Nothing = Nothing
  Nobody = Nobody
  Name <- MCName
  Bucket <- MCBucket
  Hash <- MCHash
  MaxINumber = 3
  File <- MCRacingFile
INVARIANTS INumbersFollowFile NothingLost NeverStuck
PROPERTY Termination
