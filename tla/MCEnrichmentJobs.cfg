\* A worker and two requests (one of the page, one of anybody), two attempts, one
\* fault or other request, two calls.
CONSTANTS
  Workers = {w1}
  WebRequests = {q1, q2}
  None = None
  max_attempts = 2
  MaxPolls = 1
  MaxFaults = 1
  BlockSets = {b1}
  max_retries = 1
SPECIFICATION ExecFairSpec
INVARIANTS
  OneCallerAtATime
  RunsAreOnRecord
PROPERTIES
  EndedStaysEnded
  StartsAreAlone
  OutcomeIsFinal
  JobEnds
CHECK_DEADLOCK FALSE
