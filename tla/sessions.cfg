SPECIFICATION FairSpec
CONSTANTS
  Client = {c1, c2, c3}
  MAX_CLIENTS = 2
INVARIANTS TypeOK SocketsRunAhead NoSessionAtShutdown
PROPERTIES RequestsAnswered ShutdownEnds
