---------------------------- MODULE CreditAccount ----------------------------
(***************************************************************************)
(* What the credit wallet of a limited tenant promises, without tables,    *)
(* reservations or ledger: credits enter an account, move into custody     *)
(* when work is commissioned, and leave custody partly as a charge and     *)
(* partly back into the account.  Nothing else ever moves a credit.        *)
(* CreditWallet implements this specification.                             *)
(***************************************************************************)
EXTENDS Integers

VARIABLES available,  \* credits that can be reserved
          custody,    \* credits set aside for work in progress
          charged     \* credits charged so far for delivered work

vars == <<available, custody, charged>>

Init == available = 0 /\ custody = 0 /\ charged = 0

\* A deposit or a courtesy bonus.
Fund ==
  /\ available' > available
  /\ UNCHANGED <<custody, charged>>

\* A reservation takes from what is available, never more than there is.
Reserve ==
  /\ available' \in 0..(available - 1)
  /\ custody' = custody + (available - available')
  /\ UNCHANGED charged

\* A settlement splits part of the custody into a charge and a refund.
Settle ==
  /\ custody' \in 0..(custody - 1)
  /\ charged' \in charged..(charged + (custody - custody'))
  /\ available' = available + (custody - custody') - (charged' - charged)

Next == Fund \/ Reserve \/ Settle

Spec == Init /\ [][Next]_vars
=============================================================================
