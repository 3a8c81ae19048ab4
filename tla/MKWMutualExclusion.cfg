SPECIFICATION Spec
CONSTANTS
  N = 3
  n_requests <- One
  quorum <- Ring
  fresh_memory = {FALSE}
INVARIANTS
  MutualExclusion
CHECK_DEADLOCK FALSE
