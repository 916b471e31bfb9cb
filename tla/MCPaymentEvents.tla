---------------------------- MODULE MCPaymentEvents ----------------------------
(***************************************************************************)
(* Instances of PaymentEvents for TLC: those of MCPaymentService, with two *)
(* subscribers and one call made by a callback.                            *)
(***************************************************************************)
EXTENDS PaymentEvents, MCPaymentService

\* The early one throws and the late one listens, or the early one pays and the late one
\* throws, also out of what the early one pays.
MCEarly == <<CHOOSE s \in Subscribers : TRUE>>
MCConducts ==
    {[s \in Subscribers |-> IF s \in ToSet(Early) THEN pair[1] ELSE pair[2]] :
        pair \in {<<"throws", "listens">>, <<"pays", "throws">>}}

\* A payment, one from the same account that is held as fraud, one the chain throws on
\* with that account's lock held, and one the other way.
Noted ==
    {Request("k1", "u", "m", INR(6)),
     Request("k2", "u", "m", INR(8)),
     Request("k2", "u", "m", USD(6)),
     Request("k2", "m", "u", INR(5))}
=============================================================================
