SPECIFICATION FairSpec
CONSTANTS
  put = put
  get = get
  MaxLines = 1
  Producer = Producer
  Consumer = {c1, c2, c3}
  MAX_COMMANDS = 2
  Mech = "RWLOCK"
  Command <- MCCommand
  Comment = Comment
  Invalid = Invalid
  End = End
  Nothing = Nothing
  Nobody = Nobody
  File <- MCFile
PROPERTY EveryConsumerEnds
CHECK_DEADLOCK FALSE
