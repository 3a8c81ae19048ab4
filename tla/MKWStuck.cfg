SPECIFICATION FairSpec
CONSTANTS
  N = 3
  n_requests <- One
  quorum <- Ring
  fresh_memory = {FALSE}
PROPERTIES
  RequestServed
CHECK_DEADLOCK FALSE
