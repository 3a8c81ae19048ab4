SPECIFICATION Spec
CONSTANTS
  N = 2
  n_requests = 2
INVARIANTS
  MutualExclusion
