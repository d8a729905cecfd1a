\* The wallet with two administrators.
CONSTANTS
  MaxReservations = 2
  MaxDeposited = 3
  Amounts <- MCAmounts
  INITIAL_CREDIT_BONUS = 2
  InitialCredits <- MCInitialCredits
  TenantKinds = {TRUE, FALSE}
  Admins = {a1, a2}
SPECIFICATION AdminSpec
INVARIANTS
  CancelReleasesReservation
\* A wallet whose reservations and deposits are used up takes no more steps.
CHECK_DEADLOCK FALSE
