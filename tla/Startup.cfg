SPECIFICATION Spec
CONSTANTS
  Clients = {0, 1, 2}
  Servers = {0}
  addresses <- SomeOrders
  fresh_memory <- Memories
INVARIANTS
  TypeOK
  SocketsPairUp
  ForgetsOnlyEchoes
  OneThreadPerClient
  StrategyBeforeRequest
PROPERTIES
  AllGetStarted
CHECK_DEADLOCK FALSE
