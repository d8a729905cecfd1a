\* Two accounts in turn, two calls at once, one expiry, one fault, one reload.
CONSTANTS
  Users = {u1, u2}
  Calls = {c1, c2}
  None = None
  Limits <- MCLimits
  Hasty = FALSE
SPECIFICATION FairSpec
INVARIANTS
  TypeOK
  SessionIsKept
  SignedOutStaysOut
  ShownIsSignedIn
PROPERTIES
  BootEnds
\* A user may stop.
CHECK_DEADLOCK FALSE
