----------------------- MODULE TransactionStateMachine -----------------------
(***************************************************************************)
(* The lifecycle of a transaction: the statuses of common/Enums.hpp and    *)
(* the transition table of patterns/TransactionStateMachine.hpp.           *)
(***************************************************************************)
TxnStatus == {"INITIATED", "AUTHORIZED", "CAPTURED",
              "SETTLED", "FAILED", "REFUNDED"}

\* allowed_: what may follow each status.
Allowed == [s \in TxnStatus |->
              CASE s = "INITIATED"  -> {"AUTHORIZED", "FAILED"}
                [] s = "AUTHORIZED" -> {"CAPTURED", "FAILED"}
                [] s = "CAPTURED"   -> {"SETTLED", "REFUNDED"}
                [] OTHER            -> {}]

CanTransition(from, to) == to \in Allowed[from]

IsTerminal(s) == Allowed[s] = {}

\* PaymentService::advance: an illegal move is dropped without a word.
Advance(from, to) == IF CanTransition(from, to) THEN to ELSE from
=============================================================================
