SPECIFICATION Spec
CONSTANTS
  Clients = {c1, c2}
  Servers = {s1, s2}
  inputs <- AllPairs
  n_requests = 3
SYMMETRY Symmetry
INVARIANTS
  TypeOK
  ReplicasAgree
  ReadsLastLine
  WrittenOnce
CHECK_DEADLOCK FALSE
