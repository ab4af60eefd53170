SPECIFICATION FairSpec
CONSTANTS
  j1 = j1
  j2 = j2
  w1 = w1
  w3 = w3
  host = host
  NoOwner = NoOwner
  Job = {j1, j2}
  Worker = {w1, w3}
  Poller = {w1}
  Owner = {host}
  OwnerOf <- MCOwnerOf
  MaxAttempts = 2
INVARIANTS
  TypeOK
  OneHolder
  DoneByLastAttempt
PROPERTIES
  ImplementsDurableJobs
  
CHECK_DEADLOCK FALSE
