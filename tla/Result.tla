------------------------------- MODULE Result -------------------------------
(***************************************************************************)
(* The outcomes of common/Result.hpp.  A Status, and the error half of a   *)
(* Result<T>, is an error code; "NONE" is Status::ok().  A C++ exception   *)
(* that leaves an operation is no error code: it is Thrown.                *)
(***************************************************************************)
ErrorCode == {"NONE", "VALIDATION_FAILED", "INSUFFICIENT_FUNDS",
              "ACCOUNT_NOT_FOUND", "DUPLICATE_REQUEST", "FRAUD_REJECTED",
              "INVALID_STATE_TRANSITION", "GATEWAY_ERROR", "INTERNAL_ERROR"}

Thrown == "THROWN"
=============================================================================
