------------------------ MODULE MCCreditWalletAdmin ------------------------
(* A small instance of CreditWalletAdmin for TLC. *)
EXTENDS CreditWalletAdmin

MCAmounts == 0..2
MCInitialCredits == {0, 2}
=============================================================================
