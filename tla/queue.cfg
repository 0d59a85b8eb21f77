SPECIFICATION FairSpec
CONSTANTS
  put = put
  get = get
  MaxLines = 4
  Producer = Producer
  Consumer = {c1, c2}
  MAX_COMMANDS = 2
  Mech = "RWLOCK"
  Command <- MCCommand
  Comment = Comment
  Invalid = Invalid
  End = End
  Nothing = Nothing
  Nobody = Nobody
  File <- MCFile
INVARIANTS TypeOK SemaphoresAgree MutualExclusion NoSlotRace TakenInOrder NeverStuck
PROPERTIES ImplementsBoundedQueue Termination EveryStepCounts
