-------------------------- MODULE CreditWalletAdmin --------------------------
(***************************************************************************)
(* The credit wallet together with the two administrative commands that    *)
(* write the same rows without going through the billing services:         *)
(*   - AdminWalletCreditInjectionView reads the wallet row without a lock  *)
(*     and later writes back the balance it computed from what it read     *)
(*     (READ COMMITTED: the write waits for a lock, not for a fresh read); *)
(*   - AdminBatchActionView, action "cancel", marks the ACTIVE reservation *)
(*     of a batch CANCELLED and leaves the wallet row alone.               *)
(***************************************************************************)
EXTENDS CreditWallet

CONSTANT Admins   \* administrators with a request in progress

VARIABLE
  injection       \* what each administrator's request holds in memory

adminVars == <<wallet, reservations, ledger, newest, injection>>

Idle == [reading |-> FALSE, balance |-> 0, amount |-> 0]

AdminInit == Init /\ injection = [a \in Admins |-> Idle]

\* get_or_create finds the wallet: the request keeps the balance it read.
InjectRead(a, amount) ==
  /\ amount > 0
  /\ ~injection[a].reading
  /\ wallet.exists
  /\ ledger["DEPOSIT"] + amount <= MaxDeposited
  /\ injection' = [injection EXCEPT
                     ![a] = [reading |-> TRUE, balance |-> wallet.balance,
                             amount |-> amount]]
  /\ UNCHANGED vars

\* save(update_fields=["balance"]) writes the sum computed from that reading.
InjectWrite(a) ==
  LET new_balance == injection[a].balance + injection[a].amount IN
  /\ injection[a].reading
  /\ wallet' = [wallet EXCEPT !.balance = new_balance]
  /\ ledger' = [ledger EXCEPT !["DEPOSIT"] = @ + injection[a].amount]
  /\ newest' = new_balance
  /\ injection' = [injection EXCEPT ![a] = Idle]
  /\ UNCHANGED reservations

\* get_or_create finds no wallet: the row is created with the model's
\* defaults (no bonus, limited) and credited in one transaction.
InjectCreate(amount) ==
  /\ amount > 0
  /\ ~wallet.exists
  /\ ledger["DEPOSIT"] + amount <= MaxDeposited
  /\ wallet' = [exists |-> TRUE, balance |-> amount, reserved_balance |-> 0,
                is_unlimited |-> FALSE]
  /\ ledger' = [ledger EXCEPT !["DEPOSIT"] = @ + amount]
  /\ newest' = amount
  /\ UNCHANGED <<reservations, injection>>

\* The batch of reservation r is cancelled by an administrator.
CancelReservation(r) ==
  /\ reservations[r].status = "ACTIVE"
  /\ reservations' = [reservations EXCEPT ![r].status = "CANCELLED"]
  /\ UNCHANGED <<wallet, ledger, newest, injection>>

AdminNext ==
  \/ Next /\ UNCHANGED injection
  \/ \E a \in Admins, amount \in Amounts : InjectRead(a, amount)
  \/ \E a \in Admins : InjectWrite(a)
  \/ \E amount \in Amounts : InjectCreate(amount)
  \/ \E r \in ReservationIds : CancelReservation(r)

AdminSpec == AdminInit /\ [][AdminNext]_adminVars

-----------------------------------------------------------------------------
(* Properties *)

\* What the comment of the administrator's cancel says: "Libera reservas
\* financeiras pendentes vinculadas ao lote".  A cancelled reservation is
\* released, so that no credits stay in custody once none is pending.  They do:
\* the command writes the reservation and not the wallet.
CancelReleasesReservation ==
  (\A r \in ReservationIds : reservations[r].status # "ACTIVE") =>
    wallet.reserved_balance = 0

\* What the code does keep, with lost updates too: custody is the ACTIVE
\* reservations and what cancelling has stranded, so a settlement still finds
\* its own credits there and takes none of another reservation.
CustodyIsActivePlusCancelled ==
  wallet.reserved_balance =
    Total([r \in ReservationIds |->
             InStatus(r, "ACTIVE") + InStatus(r, "CANCELLED")])

=============================================================================
