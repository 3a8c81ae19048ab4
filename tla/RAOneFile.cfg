SPECIFICATION FairSpec
CONSTANTS
  N = 3
  n_requests = 2
INVARIANTS
  TypeOK
  ExclusiveUnlessOvertaken
  PermissionUnique
  RequestAccounted
  IInv
PROPERTIES
  EntryOrder
  KeepsPromise
  RequestServed
