\* One batch, one request that may fail.
CONSTANTS
  Batches = {b1}
  Loops = {l1, l2}
  None = None
  MaxFaults = 1
SPECIFICATION FairSpec
PROPERTIES
  BatchContinues
CHECK_DEADLOCK FALSE
