-------------------------- MODULE MCPaymentService ---------------------------
(***************************************************************************)
(* Instances of PaymentService for TLC.  The wallet u opens with 10, the   *)
(* merchant m with 5, the late account v with nothing, and d keeps USD.    *)
(* Amounts of 8 are held as fraud and amounts over 9 exceed the limit.     *)
(***************************************************************************)
EXTENDS PaymentProperties, TLC

INR(n) == [minor |-> n, ccy |-> "INR"]
USD(n) == [minor |-> n, ccy |-> "USD"]

MCAccounts == {"u", "m", "v", "d"}
MCOpening  == [u |-> INR(10), m |-> INR(5), v |-> INR(0), d |-> USD(0)]
MCExisting == {"u", "m", "d"}
MCChain    == <<[kind |-> "Basic", bound |-> INR(0)],
                [kind |-> "Limit", bound |-> INR(9)],
                [kind |-> "Fraud", bound |-> INR(8)]>>
Symmetric  == Permutations(Calls)

\* A UPI provider that may decline a payment or refuse to capture it, each with an
\* error of its own.
Fussy == [m \in PaymentMethod |->
            IF m = "UPI" THEN [authorize |-> {"NONE", "FRAUD_REJECTED"},
                               capture   |-> {"NONE", "GATEWAY_ERROR"}]
            ELSE Approves]

Request(key, payer, payee, amount) ==
    [key |-> key, payer |-> payer, payee |-> payee, amount |-> amount,
     method |-> "UPI"]

\* One request of each kind pay() tells apart, over two keys.
EveryKind ==
    {Request("k1", "u", "m", INR(6)),       \* can be paid once
     Request("k2", "u", "m", INR(6)),       \* ... and not twice
     Request("k1", "u", "m", INR(4)),       \* a key used again for something else
     Request("k2", "m", "u", INR(5)),       \* the opposite direction
     Request("k2", "u", "v", INR(6)),       \* the payee may not be there yet
     Request("k1", "u", "u", INR(6)),       \* to oneself
     Request("k1", "u", "m", INR(0)),       \* nothing
     Request("k2", "u", "m", INR(8)),       \* fraud threshold
     Request("k1", "u", "m", INR(10)),      \* over the limit
     Request("k1", "u", "m", USD(6)),       \* the handlers cannot compare it
     Request("k2", "u", NoId, INR(6))}      \* build() throws

\* A race for one wallet: equal payments of which it covers two, a payment the other
\* way and one to the wallet itself.
Race == {Request(k, "u", "m", INR(5)) : k \in {"k1", "k2", "k3"}}
        \cup {Request("k3", "m", "u", INR(7)), Request("k2", "u", "u", INR(7))}

\* The payee spends nothing.
OneWay == {Request("k1", "u", "m", INR(6)), Request("k2", "u", "m", INR(4))}

\* The payee spends what it was paid.
ThereAndBack == {Request("k1", "u", "m", INR(6)), Request("k2", "m", "u", INR(7))}

\* The payee keeps another currency.
AcrossCurrencies == {Request("k1", "u", "d", INR(6)), Request("k2", "u", "d", INR(4))}

\* A currency the limits are not in.
Foreign == {Request("k1", "u", "m", USD(6)), Request("k2", "u", "m", INR(6))}
=============================================================================
