\* Two sessions, one reload and one trouble of any kind, under fairness.
CONSTANTS
  Sessions = {1, 2}
  None = None
  MaxReloads = 1
  Requests = {"accept", "discard", "steer"}
  Troubles = {"post", "agent", "fetch", "stream"}
SPECIFICATION FairSpec
INVARIANTS
  TypeOK
  DiscardedIsNotResumed

  
CHECK_DEADLOCK FALSE
