--------------------------- MODULE ValidationChain ---------------------------
(***************************************************************************)
(* patterns/ValidationChain.hpp.  A chain is a sequence of handlers in the *)
(* order they were added; run() returns the first verdict that is not ok.  *)
(* A bound in another currency than the amount makes the comparison throw. *)
(***************************************************************************)
EXTENDS Sequences, Money, Result, FiniteSetsExt

Handler == [kind: {"Basic", "Limit", "Fraud"}, bound: Money]

BasicCheck(txn) ==
    IF ~IsPositive(txn.amount) \/ txn.payer = txn.payee
    THEN "VALIDATION_FAILED" ELSE "NONE"

LimitCheck(limit, txn) ==
    IF ~SameCcy(txn.amount, limit) THEN Thrown
    ELSE IF Exceeds(txn.amount, limit) THEN "VALIDATION_FAILED" ELSE "NONE"

FraudCheck(threshold, txn) ==
    IF ~SameCcy(txn.amount, threshold) THEN Thrown
    ELSE IF AtLeast(txn.amount, threshold) THEN "FRAUD_REJECTED" ELSE "NONE"

Check(h, txn) ==
    CASE h.kind = "Basic" -> BasicCheck(txn)
      [] h.kind = "Limit" -> LimitCheck(h.bound, txn)
      [] h.kind = "Fraud" -> FraudCheck(h.bound, txn)

Run(chain, txn) ==
    LET stops == {i \in DOMAIN chain : Check(chain[i], txn) # "NONE"}
    IN  IF stops = {} THEN "NONE" ELSE Check(chain[Min(stops)], txn)
=============================================================================
