-------------------------------- MODULE MCDemo ---------------------------------
(***************************************************************************)
(* The demo for TLC, scaled down: the user's wallet u opens with 10, the   *)
(* wallet v of the burst covers two payments of four, as 1200 covers 12 of *)
(* 50, and payments of 8 are held as fraud and over 9 exceed the limit.    *)
(***************************************************************************)
EXTENDS Demo, TLC

INR(n) == [minor |-> n, ccy |-> "INR"]

MCAccounts == {"u", "m", "v"}
MCOpening  == [u |-> INR(10), m |-> INR(0), v |-> INR(8)]
MCChain    == <<[kind |-> "Basic", bound |-> INR(0)],
                [kind |-> "Limit", bound |-> INR(9)],
                [kind |-> "Fraud", bound |-> INR(8)]>>

MCScript == <<"happy", "retry", "big", "fraud">>
MCBurst  == <<"b1", "b2", "b3", "b4">>
MCCalls  == {MCScript[i] : i \in DOMAIN MCScript} \cup {MCBurst[i] : i \in DOMAIN MCBurst}

Ask(key, payer, amount, method) ==
    [key |-> key, payer |-> payer, payee |-> "m", amount |-> INR(amount), method |-> method]

MCAsks ==
    [c \in MCCalls |->
        CASE c \in {"happy", "retry"} -> Ask("idem-001", "u", 5, "UPI")
          [] c = "big"               -> Ask("idem-002", "u", 99, "CARD")
          [] c = "fraud"             -> Ask("idem-003", "u", 8, "CARD")
          [] OTHER                   -> Ask(c, "v", 4, "WALLET")]

MCRequests == {MCAsks[c] : c \in MCCalls}
MCKeys     == {MCAsks[c].key : c \in MCCalls}
=============================================================================
