--------------------------- MODULE MCPaymentRestart ----------------------------
(***************************************************************************)
(* Instances of PaymentRestart for TLC: those of MCPaymentService.         *)
(***************************************************************************)
EXTENDS PaymentRestart, MCPaymentService

\* The payee spends what it was paid, or keeps another currency.
Troubled == ThereAndBack \cup {Request("k2", "u", "d", INR(4))}
=============================================================================
