--------------------------- MODULE MCCreditWallet ---------------------------
(* A small instance of CreditWallet for TLC. *)
EXTENDS CreditWallet

MCAmounts == -1..3
MCInitialCredits == {-1, 0, 2}
=============================================================================
