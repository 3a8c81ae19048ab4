SPECIFICATION FairSpec
CONSTANTS
  Clients = {c1, c2}
  Servers = {s1, s2}
  inputs <- OneWrite
  n_requests = 1
INVARIANTS
  RepliesAreCurrent
  StopsAfterAll
PROPERTIES
  Termination
