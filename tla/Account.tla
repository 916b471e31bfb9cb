------------------------------- MODULE Account -------------------------------
(***************************************************************************)
(* domain/Account.hpp.  credit and debit each run under the account's own  *)
(* mutex, so a caller applies one of them in a single step.  A call has a  *)
(* verdict (the Status it returns) and an effect on the balance, which is  *)
(* none at all unless the verdict is "NONE".                               *)
(***************************************************************************)
EXTENDS Money, Result

CreditVerdict(balance, amount) ==
    IF ~SameCcy(amount, balance) \/ IsNegative(amount)
    THEN "VALIDATION_FAILED" ELSE "NONE"

\* Mutant of DebitVerdict: the funds are not looked at.
DebitVerdictUnguarded(balance, amount) ==
    IF ~SameCcy(amount, balance) \/ IsNegative(amount)
    THEN "VALIDATION_FAILED" ELSE "NONE"

\* Mutant of DebitVerdict: >= for >, the last of the money cannot be spent.
DebitVerdictKeepsOne(balance, amount) ==
    IF ~SameCcy(amount, balance) \/ IsNegative(amount) THEN "VALIDATION_FAILED"
    ELSE IF AtLeast(amount, balance) THEN "INSUFFICIENT_FUNDS" ELSE "NONE"

DebitVerdict(balance, amount) ==
    IF ~SameCcy(amount, balance) \/ IsNegative(amount) THEN "VALIDATION_FAILED"
    ELSE IF Exceeds(amount, balance) THEN "INSUFFICIENT_FUNDS" ELSE "NONE"

AfterCredit(balance, amount) ==
    IF CreditVerdict(balance, amount) = "NONE" THEN Plus(balance, amount)
                                               ELSE balance

\* Mutant of AfterDebit: the difference is computed and not assigned.
AfterDebitDropped(balance, amount) == balance

AfterDebit(balance, amount) ==
    IF DebitVerdict(balance, amount) = "NONE" THEN Minus(balance, amount)
                                              ELSE balance
=============================================================================
