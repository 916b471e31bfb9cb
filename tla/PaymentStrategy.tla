--------------------------- MODULE PaymentStrategy ----------------------------
(***************************************************************************)
(* patterns/PaymentStrategy.hpp and its factory.  To the service a payment *)
(* provider is what authorize() and capture() may answer: sets of verdicts *)
(* from which a call gets one.  refund() is called by nobody.              *)
(***************************************************************************)
EXTENDS Result

PaymentMethod == {"CARD", "UPI", "WALLET", "NET_BANKING"}

\* What the interface allows: success, or a typed error.
Provider ==
    {s \in [authorize: SUBSET ErrorCode, capture: SUBSET ErrorCode] :
        s.authorize # {} /\ s.capture # {}}

\* The four shipped strategies approve whatever they are asked.
Approves == [authorize |-> {"NONE"}, capture |-> {"NONE"}]

\* The factory has one strategy for each method, so create() finds one.
Shipped == [m \in PaymentMethod |-> Approves]
=============================================================================
