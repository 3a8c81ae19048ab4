SPECIFICATION FairSpec
CONSTANTS
  N = 3
  n_requests <- One
  quorum <- Hub
  fresh_memory = {FALSE}
PROPERTIES
  ServedUnlessInquiryFails
CHECK_DEADLOCK FALSE
