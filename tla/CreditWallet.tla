---------------------------- MODULE CreditWallet ----------------------------
(***************************************************************************)
(* The credit wallet of one tenant (leadstream.billing): the wallet row,   *)
(* its reservations and the append-only ledger, and the four services that *)
(* write them.  Every service runs in one database transaction that first  *)
(* takes the row locks it needs (select_for_update), so each is one action.*)
(*                                                                         *)
(* The ledger is kept as SUM(amount) GROUP BY transaction_type together    *)
(* with the balance_after of its newest row: the rows themselves are never *)
(* read back by any of the services.                                       *)
(***************************************************************************)
EXTENDS Integers

CONSTANTS
  MaxReservations,     \* bound: reservations ever made
  MaxDeposited,        \* bound: credits ever deposited
  Amounts,             \* amounts a caller may pass, the rejected ones included
  INITIAL_CREDIT_BONUS,\* courtesy credits of a new tenant
  InitialCredits,      \* balances a tenant may be provisioned with
  TenantKinds          \* the values is_internal may have

ASSUME BoundsAssumption ==
  /\ MaxReservations \in Nat
  /\ MaxDeposited \in Nat

ASSUME AmountsAssumption ==
  /\ Amounts \subseteq Int
  /\ INITIAL_CREDIT_BONUS \in Nat \ {0}
  /\ InitialCredits \subseteq Int
  /\ TenantKinds \subseteq BOOLEAN

VARIABLES
  wallet,        \* the CreditWallet row, absent until exists
  reservations,  \* the CreditReservation rows, "NONE" until created
  ledger,        \* CreditTransaction: sum of amount per transaction_type
  newest         \* balance_after of the newest CreditTransaction

vars == <<wallet, reservations, ledger, newest>>

ReservationIds == 1..MaxReservations

Statuses == {"NONE", "ACTIVE", "SETTLED", "CANCELLED"}

TransactionTypes == {"BONUS", "DEPOSIT", "HOLD", "CAPTURE", "RELEASE"}

CreditWalletRow ==
  [exists : BOOLEAN, balance : Int, reserved_balance : Int,
   is_unlimited : BOOLEAN]

CreditReservation ==
  [status : Statuses, amount : Nat, captured : Nat, released : Nat]

NoReservation == [status |-> "NONE", amount |-> 0, captured |-> 0, released |-> 0]

TypeOK ==
  /\ wallet \in CreditWalletRow
  /\ reservations \in [ReservationIds -> CreditReservation]
  /\ ledger \in [TransactionTypes -> Int]
  /\ newest \in Int

Init ==
  /\ wallet = [exists |-> FALSE, balance |-> 0, reserved_balance |-> 0,
               is_unlimited |-> FALSE]
  /\ reservations = [r \in ReservationIds |-> NoReservation]
  /\ ledger = [t \in TransactionTypes |-> 0]
  /\ newest = 0

-----------------------------------------------------------------------------
(* Operations *)

Minimum(a, b) == IF a < b THEN a ELSE b

\* Mutant: the clipping bound is taken instead of the value.
MaximumSwapped(a, b) == Minimum(a, b)

Maximum(a, b) == IF a < b THEN b ELSE a

\* Mutant: the unlimited wallet is not exempt.
ChargedAlways(amount) == amount

\* The amount a ledger row carries: operations of an unlimited wallet are free.
Charged(amount) == IF wallet.is_unlimited THEN 0 ELSE amount

\* The first use of a wallet creates it, with the bonus unless it is internal.
\* The unique constraint on tenant makes the loser of a race write nothing.
get_or_create_wallet(is_internal) ==
  LET initial_balance == IF is_internal THEN 0 ELSE INITIAL_CREDIT_BONUS IN
  /\ ~wallet.exists
  /\ wallet' = [exists |-> TRUE, balance |-> initial_balance,
                reserved_balance |-> 0, is_unlimited |-> is_internal]
  /\ ledger' = [ledger EXCEPT !["BONUS"] = @ + initial_balance]
  /\ newest' = initial_balance
  /\ UNCHANGED reservations

\* Mutant: the courtesy credits are given without their BONUS row.
ProvisionTenantUnrecorded(initial_credits) ==
  /\ ~wallet.exists
  /\ initial_credits >= 0
  /\ wallet' = [exists |-> TRUE, balance |-> initial_credits,
                reserved_balance |-> 0, is_unlimited |-> FALSE]
  /\ newest' = initial_credits
  /\ UNCHANGED <<reservations, ledger>>

\* An administrator provisions the tenant, wallet included.  A negative
\* balance is refused by the CHECK constraint and rolls everything back.
ProvisionTenant(initial_credits) ==
  /\ ~wallet.exists
  /\ initial_credits >= 0
  /\ wallet' = [exists |-> TRUE, balance |-> initial_credits,
                reserved_balance |-> 0, is_unlimited |-> FALSE]
  /\ ledger' = [ledger EXCEPT !["BONUS"] = @ + initial_credits]
  /\ newest' = initial_credits
  /\ UNCHANGED reservations

deposit_credits(amount) ==
  /\ amount > 0
  /\ wallet.exists
  /\ ledger["DEPOSIT"] + amount <= MaxDeposited
  /\ wallet' = [wallet EXCEPT !.balance = @ + amount]
  /\ ledger' = [ledger EXCEPT !["DEPOSIT"] = @ + amount]
  /\ newest' = wallet.balance + amount
  /\ UNCHANGED reservations

\* The next unused reservation id.
Fresh(r) ==
  /\ reservations[r].status = "NONE"
  /\ \A q \in 1..(r - 1) : reservations[q].status # "NONE"

hold_credits(r, amount) ==
  LET balance == wallet.balance - Charged(amount) IN
  /\ amount > 0
  /\ wallet.exists
  /\ wallet.is_unlimited \/ wallet.balance >= amount
  /\ Fresh(r)
  /\ wallet' = [wallet EXCEPT !.balance = balance,
                              !.reserved_balance = @ + amount]
  /\ reservations' = [reservations EXCEPT
                        ![r] = [status |-> "ACTIVE", amount |-> amount,
                                captured |-> 0, released |-> 0]]
  /\ ledger' = [ledger EXCEPT !["HOLD"] = @ - Charged(amount)]
  /\ newest' = balance

\* A reservation is closed: capture_val is charged, release_val given back,
\* and the custody of both ends.
Settle(r, capture_val, release_val) ==
  LET balance == wallet.balance + Charged(release_val) IN
  /\ wallet' = [wallet EXCEPT
                  !.balance = balance,
                  !.reserved_balance = Maximum(0, @ - reservations[r].amount)]
  /\ reservations' = [reservations EXCEPT ![r].status = "SETTLED",
                                          ![r].captured = capture_val,
                                          ![r].released = release_val]
  /\ ledger' = [ledger EXCEPT !["CAPTURE"] = @ - Charged(capture_val),
                              !["RELEASE"] = @ + Charged(release_val)]
  /\ newest' = balance

Active(r) == reservations[r].status = "ACTIVE"

\* Mutants: the capture is not capped; the excess is not given back; the
\* status is not checked again under the lock.
capture_and_releaseUncapped(r, actual_amount) ==
  /\ actual_amount >= 0 /\ Active(r)
  /\ Settle(r, actual_amount, Maximum(0, reservations[r].amount - actual_amount))

capture_and_releaseKeep(r, actual_amount) ==
  /\ actual_amount >= 0 /\ Active(r)
  /\ Settle(r, Minimum(actual_amount, reservations[r].amount), 0)

capture_and_releaseUnchecked(r, actual_amount) ==
  LET reserved == reservations[r].amount
      capture_val == Minimum(actual_amount, reserved)
  IN
  /\ actual_amount >= 0 /\ reservations[r].status # "NONE"
  /\ Settle(r, capture_val, Maximum(0, reserved - capture_val))

capture_and_release(r, actual_amount) ==
  LET reserved == reservations[r].amount
      capture_val == Minimum(actual_amount, reserved)
      release_val == Maximum(0, reserved - capture_val)
  IN
  /\ actual_amount >= 0
  /\ Active(r)
  /\ Settle(r, capture_val, release_val)

Next ==
  \/ \E is_internal \in TenantKinds : get_or_create_wallet(is_internal)
  \/ \E initial_credits \in InitialCredits : ProvisionTenant(initial_credits)
  \/ \E amount \in Amounts : deposit_credits(amount)
  \/ \E r \in ReservationIds, amount \in Amounts : hold_credits(r, amount)
  \/ \E r \in ReservationIds, actual \in Amounts : capture_and_release(r, actual)

Spec == Init /\ [][Next]_vars

-----------------------------------------------------------------------------
(* Properties *)

\* Total of f over the reservations, added up in the order of their ids.
Total(f) ==
  LET upTo[n \in 0..MaxReservations] ==
        IF n = 0 THEN 0 ELSE upTo[n - 1] + f[n]
  IN  upTo[MaxReservations]

InStatus(r, status) ==
  IF reservations[r].status = status THEN reservations[r].amount ELSE 0

\* The credits a limited tenant can still spend are never negative, nor is
\* what is in custody: the CHECK constraints of CreditWallet never refuse
\* a write of one of the four services.
FundsNonNegative ==
  /\ wallet.balance >= 0
  /\ wallet.reserved_balance >= 0

\* reserved_balance, a column updated by arithmetic, is the sum of the
\* amounts of the ACTIVE reservations: no credit stays in custody for a
\* reservation that is over.
ReservedIsSumOfActive ==
  wallet.reserved_balance = Total([r \in ReservationIds |-> InStatus(r, "ACTIVE")])

\* The append-only ledger reproduces the balance: BONUS, DEPOSIT, HOLD and
\* RELEASE rows add up to it.  (A CAPTURE row moves no balance: its credits
\* left with the HOLD.)
LedgerReproducesBalance ==
  wallet.balance = ledger["BONUS"] + ledger["DEPOSIT"]
                     + ledger["HOLD"] + ledger["RELEASE"]

\* The ledger reproduces the custody of a limited wallet too: what was held
\* and neither captured nor released is reserved_balance.
LedgerReproducesCustody ==
  wallet.is_unlimited \/
    wallet.reserved_balance =
      ledger["CAPTURE"] - ledger["HOLD"] - ledger["RELEASE"]

\* Nothing of the wallet is known only to its row: the append-only ledger
\* reproduces the balance and the custody after any sequence of calls.
LedgerReproducesWallet == LedgerReproducesBalance /\ LedgerReproducesCustody

\* The statement a client reads ends with the balance the wallet has.
StatementShowsBalance == newest = wallet.balance

\* A settled reservation is split without loss into captured and released
\* credits, and a limited tenant is charged exactly the captured ones: never
\* more than was reserved, never twice.
ChargesMatchSettlements ==
  /\ \A r \in ReservationIds :
       reservations[r].status = "SETTLED" =>
         reservations[r].captured + reservations[r].released
           = reservations[r].amount
  /\ wallet.is_unlimited \/
       0 - ledger["CAPTURE"] = Total([r \in ReservationIds |-> reservations[r].captured])

\* A reservation that left ACTIVE is never written again: no second capture,
\* no second refund, whatever order callers come in.
SettledOnce ==
  [][\A r \in ReservationIds :
       reservations[r].status \in {"SETTLED", "CANCELLED"} =>
         reservations'[r] = reservations[r]]_vars

\* The account a wallet stands for: the operations of an unlimited wallet are
\* free, so that nothing of it is ever in custody or charged.
Account == INSTANCE CreditAccount WITH
             available <- wallet.balance,
             custody   <- IF wallet.is_unlimited THEN 0 ELSE wallet.reserved_balance,
             charged   <- 0 - ledger["CAPTURE"]

\* Every step of the services is a funding, a reservation or a settlement of
\* the abstract account, or leaves it alone.
ImplementsAccount == Account!Spec
=============================================================================
