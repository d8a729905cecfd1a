\* Limited and unlimited wallets, three reservations.
CONSTANTS
  MaxReservations = 3
  MaxDeposited = 3
  Amounts <- MCAmounts
  INITIAL_CREDIT_BONUS = 3
  InitialCredits <- MCInitialCredits
  TenantKinds = {TRUE, FALSE}
SPECIFICATION Spec
INVARIANTS
  FundsNonNegative
  ReservedIsSumOfActive
  LedgerReproducesWallet
  ChargesMatchSettlements
PROPERTIES
  SettledOnce
  ImplementsAccount
\* A wallet whose reservations and deposits are used up takes no more steps.
CHECK_DEADLOCK FALSE
