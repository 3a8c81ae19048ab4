SPECIFICATION Spec
CONSTANTS
  N = 3
  n_requests <- LastTwice
  quorum <- Hub
  fresh_memory = {FALSE, TRUE}
INVARIANTS
  TypeOK
  ExclusiveUnlessFouled
  RequestKept
  LockAccounted
  RelinquishedForEarlier
  InquiryConcernsLocker
  QueueIsASet
PROPERTIES
  KeepsPromise
CHECK_DEADLOCK FALSE
