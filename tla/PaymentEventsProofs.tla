------------------------- MODULE PaymentEventsProofs --------------------------
(***************************************************************************)
(* What subscribers may rely on, for every set of calls and subscribers    *)
(* and whatever the callbacks do: listen, throw, subscribe others or pay.  *)
(***************************************************************************)
EXTENDS PaymentEvents, PaymentOutcomeProofs

-----------------------------------------------------------------------------
\* Why: the inductive invariant behind the proofs, on top of those of `pay()`.

EventsTypeOK ==
    /\ subscribed \in Seq(Subscribers) /\ IsInjective(subscribed)
    /\ callbacks \in [Calls -> Seq(Subscribers)]
    /\ inside \in [Calls -> Calls \cup {NoCall}]
    /\ heard \in [Subscribers -> Seq(Nat)]

\* Callbacks run in release, of a transaction that was saved; each subscriber of the
\* snapshot is called once, and one that made a call has been told.
CallbacksFollow(c) ==
    /\ InCallback(c) => pc[c] = "release" /\ Served(c)
    /\ IsInjective(callbacks[c])
    /\ inside[c] # NoCall => /\ InCallback(c)
                             /\ txnId[c] \in ToSet(heard[Head(callbacks[c])])
    /\ \A i \in DOMAIN callbacks[c] :
          i > 1 \/ inside[c] = NoCall => txnId[c] \notin ToSet(heard[callbacks[c][i]])

HeardFollow ==
    \A s \in Subscribers : \A id \in ToSet(heard[s]) :
        \E c \in Calls : Served(c) /\ id = txnId[c]

\* While a call holds its payer's lock after it has logged, nobody logs for that payer.
LastOfItsPayer ==
    \A c, d \in Calls : \A m, n \in DOMAIN log :
        /\ pc[c] = "release"
        /\ log[m].txn = txnId[c]
        /\ log[n].txn = txnId[d]
        /\ req[d].payer = req[c].payer
        => n <= m

\* Subscriber s was in the snapshot of the n-th event, and no exception kept it from s.
Reaches(n, s) ==
    \/ log[n].txn \in ToSet(heard[s])
    \/ \E c \in OwnersOf(log[n].txn) : s \in ToSet(callbacks[c])

SnapshotsFollow ==
    /\ ToSet(Early) \subseteq ToSet(subscribed)
    /\ \A n \in DOMAIN log, s \in Subscribers :
          /\ Reaches(n, s) => s \in ToSet(subscribed)
          /\ s \in ToSet(Early) \/ (\E m \in 1..(n - 1) : Reaches(m, s))
             => \A c \in OwnersOf(log[n].txn) : outcome[c].tag = "threw" \/ Reaches(n, s)

\* At every moment what is left of a call's callbacks and what the subscribers have heard
\* are the two parts of the snapshots the calls took, in the order they logged.
Delivery ==
    /\ \A c \in Calls : CallbacksFollow(c)
    /\ HeardFollow
    /\ LastOfItsPayer
    /\ SnapshotsFollow

-----------------------------------------------------------------------------
\* The operators on sequences.

LEMMA AppendToSeq ==
    ASSUME NEW S, NEW q \in Seq(S), NEW x \in S
    PROVE  /\ Append(q, x) \in Seq(S)
           /\ Len(q) \in Nat
           /\ DOMAIN q = 1..Len(q)
           /\ DOMAIN Append(q, x) = 1..(Len(q) + 1)
           /\ \A i \in 1..Len(q) : Append(q, x)[i] = q[i]
           /\ Append(q, x)[Len(q) + 1] = x
           /\ ToSet(Append(q, x)) = ToSet(q) \cup {x}
<1> DEFINE r == Append(q, x)
<1>1. /\ r \in Seq(S)
      /\ Len(q) \in Nat
      /\ DOMAIN q = 1..Len(q)
      /\ DOMAIN r = 1..(Len(q) + 1)
      /\ \A i \in 1..Len(q) : r[i] = q[i]
      /\ r[Len(q) + 1] = x
    OBVIOUS
<1> HIDE DEF r
<1>2. \A i \in DOMAIN r : i \in DOMAIN q \/ i = Len(q) + 1
    BY <1>1
<1>3. \A i \in DOMAIN q : i \in DOMAIN r /\ r[i] = q[i]
    BY <1>1
<1>4. Len(q) + 1 \in DOMAIN r
    BY <1>1
<1>5. ToSet(r) = ToSet(q) \cup {x}
    BY <1>1, <1>2, <1>3, <1>4, Zenon DEF ToSet
<1> QED
    BY <1>1, <1>5 DEF r

LEMMA TailOfSeq ==
    ASSUME NEW S, NEW q \in Seq(S), q # << >>
    PROVE  /\ Tail(q) \in Seq(S)
           /\ Head(q) = q[1] /\ Head(q) \in ToSet(q) /\ Head(q) \in S
           /\ 1 \in DOMAIN q
           /\ \A i \in DOMAIN Tail(q) : /\ i + 1 \in DOMAIN q /\ i + 1 > 1 /\ i \in Nat
                                        /\ Tail(q)[i] = q[i + 1]
           /\ ToSet(q) = ToSet(Tail(q)) \cup {Head(q)}
<1> DEFINE r == Tail(q)
<1>1. /\ r \in Seq(S) /\ Head(q) = q[1] /\ Head(q) \in S
      /\ Len(q) \in Nat /\ Len(q) >= 1
      /\ DOMAIN q = 1..Len(q)
      /\ DOMAIN r = 1..(Len(q) - 1)
      /\ \A i \in 1..(Len(q) - 1) : r[i] = q[i + 1]
    <2>1. Len(q) \in Nat /\ Len(q) >= 1
        BY EmptySeq
    <2> QED
        BY <2>1
<1> HIDE DEF r
<1>2. 1 \in DOMAIN q
    BY <1>1
<1>3. \A i \in DOMAIN r : i + 1 \in DOMAIN q /\ i + 1 > 1 /\ i \in Nat /\ r[i] = q[i + 1]
    BY <1>1
<1>4. \A j \in DOMAIN q : j = 1 \/ \E i \in DOMAIN r : j = i + 1
    <2> SUFFICES ASSUME NEW j \in DOMAIN q, j # 1 PROVE j - 1 \in DOMAIN r /\ j = (j - 1) + 1
        OBVIOUS
    <2> QED
        BY <1>1
<1>5. ToSet(q) = ToSet(r) \cup {Head(q)}
    BY <1>1, <1>2, <1>3, <1>4 DEF ToSet
<1> QED
    BY <1>1, <1>2, <1>3, <1>5 DEF r, ToSet

-----------------------------------------------------------------------------
\* The steps.

Service == TypeOK /\ Ownership /\ Bookkeeping /\ Settlement

\* A step that a call takes inside its loop over the callbacks: it goes on to the next
\* one, waits in this one for the call it has made, or leaves with an exception.
CallbackMoves(c) ==
    LET s == Head(callbacks[c])
    IN  /\ InCallback(c)
        /\ UNCHANGED vars \/ ThrowsOut(c)
        /\ subscribed' = subscribed
        /\ inside' \in [Calls -> Calls \cup {NoCall}]
        /\ \A d \in Calls \ {c} : callbacks'[d] = callbacks[d] /\ inside'[d] = inside[d]
        /\ \/ heard' = heard /\ txnId[c] \in ToSet(heard[s])
           \/ /\ heard' = [heard EXCEPT ![s] = Append(@, txnId[c])]
              /\ inside[c] = NoCall
        /\ \/ callbacks' = callbacks /\ inside'[c] # NoCall
           \/ /\ callbacks' = [callbacks EXCEPT ![c] = Tail(@)]
              /\ inside'[c] = NoCall
           \/ /\ callbacks' = [callbacks EXCEPT ![c] = << >>]
              /\ inside'[c] = NoCall
              /\ outcome'[c].tag = "threw"

\* What a step may be: one of pay() outside callbacks, a registration, or one of those.
LEMMA EventsSteps ==
    ASSUME TypeOK, EventsTypeOK, \A c \in Calls : CallbacksFollow(c), [EventsNext]_allvars
    PROVE  \/ \E c \in Calls : PayStep(c)
           \/ \E s \in Subscribers : Subscribe(s)
           \/ \E c \in Calls : CallbackMoves(c)
           \/ UNCHANGED <<vars, subscribed, callbacks, inside, heard>>
<1> USE DEF EventsTypeOK
<1>1. ASSUME NEW c \in Calls, ThrowsOut(c) PROVE outcome'[c].tag = "threw"
    BY <1>1 DEF ThrowsOut, Return, TypeOK
<1>2. ASSUME NEW c \in Calls, Hears(c) PROVE CallbackMoves(c)
    BY <1>2 DEF Hears, Called, CallbackMoves
<1>3. ASSUME NEW c \in Calls, Throws(c) PROVE CallbackMoves(c)
    <2>1. /\ InCallback(c) /\ inside[c] = NoCall
          /\ heard' = [heard EXCEPT ![Head(callbacks[c])] = Append(@, txnId[c])]
          /\ ThrowsOut(c) /\ UNCHANGED <<subscribed, inside>>
        BY <1>3 DEF Throws, Called
    <2>2. callbacks' = [callbacks EXCEPT ![c] = << >>] /\ outcome'[c].tag = "threw"
        BY <2>1, <1>1 DEF ThrowsOut
    <2> QED
        BY <2>1, <2>2 DEF CallbackMoves
<1>4. ASSUME NEW c \in Calls, Pays(c) PROVE CallbackMoves(c)
    <2>1. /\ InCallback(c) /\ inside[c] = NoCall
          /\ heard' = [heard EXCEPT ![Head(callbacks[c])] = Append(@, txnId[c])]
          /\ UNCHANGED <<vars, subscribed, callbacks>>
        BY <1>4 DEF Pays, Called
    <2>2. PICK n \in Nested : inside' = [inside EXCEPT ![c] = n]
        BY <1>4 DEF Pays
    <2>3. n # NoCall /\ n \in Calls
        BY ConstantsAssumption, EventsAssumption
    <2> QED
        BY <2>1, <2>2, <2>3 DEF CallbackMoves
<1>5. ASSUME NEW c \in Calls, PaidInside(c) PROVE CallbackMoves(c)
    <2>1. /\ inside[c] # NoCall /\ inside' = [inside EXCEPT ![c] = NoCall]
          /\ UNCHANGED <<subscribed, heard>>
        BY <1>5 DEF PaidInside
    <2>2. InCallback(c) /\ txnId[c] \in ToSet(heard[Head(callbacks[c])])
        BY <2>1 DEF CallbacksFollow
    <2>3. \/ ThrowsOut(c)
          \/ callbacks' = [callbacks EXCEPT ![c] = Tail(@)] /\ UNCHANGED vars
        BY <1>5 DEF PaidInside
    <2>4. CASE ThrowsOut(c)
        <3>1. callbacks' = [callbacks EXCEPT ![c] = << >>] /\ outcome'[c].tag = "threw"
            BY <2>4, <1>1 DEF ThrowsOut
        <3> QED
            BY <2>1, <2>2, <2>4, <3>1 DEF CallbackMoves
    <2> QED
        BY <2>1, <2>2, <2>3, <2>4 DEF CallbackMoves
<1> QED
    BY <1>2, <1>3, <1>4, <1>5
       DEF EventsNext, CallStep, AllReturned, LockedUp, allvars, evars

\* An exception of a callback takes from a call nothing but its answer.
LEMMA ServiceSurvivesThrow ==
    ASSUME Service, NEW c \in Calls, pc[c] = "release", ThrowsOut(c)
    PROVE  Service'
<1> USE DEF Service
<1>1. /\ UNCHANGED <<req, pc, txnId, status, error, seqs, nextTxn, nextSeq, claimed, holder,
                     opened, balance, journal, store, log>>
      /\ outcome' = [outcome EXCEPT ![c] = [tag |-> "threw", code |-> "NONE", value |-> {}]]
    BY DEF ThrowsOut, Return, shared
<1>2. /\ outcome' \in [Calls -> Outcome]
      /\ outcome'[c].tag = "threw"
      /\ \A d \in Calls \ {c} : outcome'[d] = outcome[d]
    BY <1>1 DEF TypeOK, Outcome, ErrorCode
<1>3. TypeOK' /\ Ownership'
    BY <1>1, <1>2 DEF TypeOK, Ownership, Reservations, IdsAreFresh, ClaimsAreKept,
       LocksAreKept, PostedByItsClaimant, DebitedOnce, SavedByItsOwner, Working
<1>4. \A d \in Calls : StatusFollows(d)' /\ MoneyFollows(d)'
    BY <1>1 DEF Bookkeeping, StatusFollows, MoneyFollows, Verdict, Posted, Find, TransactionOf
<1>5. \A d \in Calls : AnswerFollows(d)'
    BY <1>1, <1>2 DEF Bookkeeping, AnswerFollows
<1>6. Bookkeeping'
    BY <1>1, <1>4, <1>5 DEF Bookkeeping, StoreIsSettled, SavedUnderItsKey,
       ClaimedByItsCaller, Posted
<1>7. EventsFollow' /\ DebitsFollow'
    BY <1>1 DEF Settlement, EventsFollow, DebitsFollow, Served, Numbered
<1>8. AnswersFollow'
    BY <1>1, <1>2 DEF Settlement, AnswersFollow, Find
<1> QED
    BY <1>3, <1>6, <1>7, <1>8 DEF Settlement

\* What holds of the service goes on to hold, whatever its callbacks do.
LEMMA ServiceStep ==
    ASSUME Service, EventsTypeOK, \A c \in Calls : CallbacksFollow(c), [EventsNext]_allvars
    PROVE  Service'
<1>1. [Next]_vars => Service'
    BY NextTypeOK, NextOwnership, NextBookkeeping, NextSettlement DEF Service
<1>2. ASSUME NEW c \in Calls, PayStep(c) PROVE Service'
    BY <1>1, <1>2 DEF PayStep, Next
<1>3. ASSUME NEW c \in Calls, CallbackMoves(c) PROVE Service'
    BY <1>1, <1>3, ServiceSurvivesThrow DEF CallbackMoves, CallbacksFollow
<1> QED
    BY <1>1, <1>2, <1>3, EventsSteps DEF Service, Subscribe

-----------------------------------------------------------------------------
\* A step of pay() outside callbacks.

\* Whoever owns a logged transaction after the step has ended before it, and keeps its
\* place, its answer and its request, unless it releases its lock.
LEMMA LoggedBefore ==
    ASSUME Service, NEW c \in Calls, Pay(c), NEW d \in Calls, NEW n \in DOMAIN log,
           log[n].txn = txnId'[d] \/ log[n].txn = txnId[d]
    PROVE  /\ Served(d) /\ txnId'[d] = txnId[d] /\ outcome'[d] = outcome[d]
           /\ pc'[d] = "release" => d # c /\ pc[d] = "release"
<1> USE DEF Service
<1>1. PICK e \in Calls : Served(e) /\ log[n].txn = txnId[e]
    BY DEF Settlement, EventsFollow
<1>2. txnId'[e] = txnId[e] /\ txnId[e] # 0
    BY <1>1, EndedStep, HasId DEF Served, Ownership
<1>3. Ownership'
    BY NextOwnership DEF Next
<1>4. e = d
    BY <1>1, <1>2, <1>3 DEF Ownership, Reservations, IdsAreFresh
<1>5. CASE d = c
    <2>1. pc[c] \in {"release", "done"}
        BY <1>1, <1>4, <1>5 DEF Served
    <2>2. Release(c)
        BY <2>1 DEF Pay, MintId, ClaimKey, KeyTaken, Replay, Build, Acquire, Validate,
           FindAccounts, Authorize, Decline, DebitPayer, CreditPayee, SeqOfDebit,
           SeqOfCredit, PostAccepted, PostRejected, RefundPayer, ChargePayee, Capture,
           CaptureRefused, Save, Publish, Failing, Step
    <2>3. pc'[c] = "done" /\ outcome' = outcome
        BY <2>2 DEF Release, Step, TypeOK, stack
    <2> QED
        BY <1>1, <1>2, <1>4, <1>5, <2>3
<1>6. CASE d # c
    BY <1>1, <1>2, <1>4, <1>6, PayKeepsOthers DEF KeepsOthers
<1> QED
    BY <1>5, <1>6

\* What a call is about to publish nobody has logged or heard of.
LEMMA NotYetTold ==
    ASSUME Service, HeardFollow, NEW c \in Calls, pc[c] = "publish"
    PROVE  /\ \A n \in DOMAIN log : log[n].txn # txnId[c]
           /\ \A s \in Subscribers : txnId[c] \notin ToSet(heard[s])
<1> USE DEF Service
<1>1. \A d \in Calls : Served(d) => txnId[d] # txnId[c]
    BY HasId DEF Served, Ownership, Reservations, IdsAreFresh
<1>2. \A n \in DOMAIN log : log[n].txn # txnId[c]
    BY <1>1 DEF Settlement, EventsFollow
<1>3. \A s \in Subscribers : txnId[c] \notin ToSet(heard[s])
    BY <1>1, Zenon DEF HeardFollow
<1> QED
    BY <1>2, <1>3

LEMMA CallbacksAtPay ==
    ASSUME Service, EventsTypeOK, Delivery, NEW c \in Calls, PayStep(c)
    PROVE  \A d \in Calls : CallbacksFollow(d)'
<1> USE DEF Service, EventsTypeOK
<1>1. /\ Pay(c) /\ callbacks[c] = << >> /\ heard' = heard /\ inside' = inside
      /\ inside[c] = NoCall
      /\ \A d \in Calls \ {c} : callbacks'[d] = callbacks[d]
    BY DEF PayStep, Busy, InCallback, Delivery, CallbacksFollow
<1>2. ASSUME NEW d \in Calls, d # c PROVE CallbacksFollow(d)'
    <2>1. /\ CallbacksFollow(d)
          /\ UNCHANGED <<pc[d], status[d], txnId[d], callbacks[d], inside[d], heard>>
        BY <1>1, <1>2, PayKeepsOthers DEF KeepsOthers, Delivery
    <2> QED
        BY <2>1 DEF CallbacksFollow, InCallback, Served
<1>3. ASSUME pc[c] = "publish" PROVE CallbacksFollow(c)'
    <2>1. callbacks'[c] = subscribed
        BY <1>3 DEF PayStep
    <2>2. Publish(c)
        BY <1>1, <1>3 DEF Pay, MintId, ClaimKey, KeyTaken, Replay, Build, Acquire, Validate,
           FindAccounts, Authorize, Decline, DebitPayer, CreditPayee, SeqOfDebit,
           SeqOfCredit, PostAccepted, PostRejected, RefundPayer, ChargePayee, Capture,
           CaptureRefused, Save, Release, Failing, Step
    <2>3. pc'[c] = "release" /\ Served(c)' /\ txnId' = txnId
        BY <2>2, PublishAppends DEF Publish, Step, TypeOK
    <2>4. \A s \in Subscribers : txnId[c] \notin ToSet(heard[s])
        BY <1>3, NotYetTold DEF Delivery
    <2>5. \A i \in DOMAIN subscribed : subscribed[i] \in Subscribers
        OBVIOUS
    <2>6. \A i \in DOMAIN callbacks'[c] : txnId'[c] \notin ToSet(heard'[callbacks'[c][i]])
        BY <1>1, <2>1, <2>3, <2>4, <2>5, Zenon
    <2>7. IsInjective(callbacks'[c])
        BY <2>1
    <2> QED
        BY <1>1, <2>3, <2>6, <2>7 DEF CallbacksFollow
<1>4. ASSUME pc[c] # "publish" PROVE CallbacksFollow(c)'
    <2>1. callbacks'[c] = << >> /\ inside'[c] = NoCall
        BY <1>1, <1>4 DEF PayStep
    <2>2. DOMAIN callbacks'[c] = {} /\ ~InCallback(c)'
        BY <2>1 DEF InCallback
    <2>3. IsInjective(callbacks'[c])
        BY <2>2 DEF IsInjective
    <2> QED
        BY <2>1, <2>2, <2>3 DEF CallbacksFollow
<1> QED
    BY <1>2, <1>3, <1>4

LEMMA HeardAtPay ==
    ASSUME Service, EventsTypeOK, Delivery, NEW c \in Calls, PayStep(c)
    PROVE  HeardFollow'
BY EndedStep DEF Service, PayStep, Delivery, HeardFollow

LEMMA LastAtPay ==
    ASSUME Service, EventsTypeOK, Delivery, NEW c \in Calls, PayStep(c)
    PROVE  LastOfItsPayer'
<1> USE DEF Service
<1>1. Pay(c) /\ req' = req
    BY PayMoves DEF PayStep, Moves
<1> SUFFICES ASSUME NEW a \in Calls, NEW b \in Calls,
                    NEW m \in DOMAIN log', NEW n \in DOMAIN log',
                    pc'[a] = "release",
                    log'[m].txn = txnId'[a], log'[n].txn = txnId'[b],
                    req[a].payer = req[b].payer
             PROVE  n <= m
    BY <1>1 DEF LastOfItsPayer
<1>2. ASSUME m \in DOMAIN log, n \in DOMAIN log, log'[m] = log[m], log'[n] = log[n]
      PROVE  n <= m
    <2>1. pc[a] = "release" /\ log[m].txn = txnId[a] /\ log[n].txn = txnId[b]
        BY <1>1, <1>2, LoggedBefore
    <2> QED
        BY <1>2, <2>1 DEF Delivery, LastOfItsPayer
<1>3. CASE ~Publish(c)
    BY <1>1, <1>2, <1>3, EndedStep
<1>4. CASE Publish(c)
    <2>1. /\ Len(log) \in Nat /\ DOMAIN log = 1..Len(log)
          /\ DOMAIN log' = 1..(Len(log) + 1)
          /\ \A i \in 1..Len(log) : log'[i] = log[i]
          /\ log'[Len(log) + 1].txn = txnId[c]
          /\ txnId' = txnId
        BY <1>4, PublishAppends
    <2>2. CASE m = Len(log) + 1
        BY <2>1, <2>2
    <2>3. CASE m # Len(log) + 1
        <3>1. m \in DOMAIN log /\ log'[m] = log[m]
            BY <2>1, <2>3
        <3>2. a # c /\ pc[a] = "release"
            BY <1>1, <3>1, LoggedBefore
        <3>3. CASE n = Len(log) + 1
            <4>1. b = c
                BY <1>4, <2>1, <3>3, HasId DEF Publish, Step, Ownership, Reservations, IdsAreFresh
            <4>2. pc[c] \in Critical /\ pc[a] \in Critical
                BY <1>4, <3>2 DEF Publish, Step, Critical
            <4> QED
                BY <3>2, <4>1, <4>2, OnePayerAtATime DEF Ownership
        <3>4. CASE n # Len(log) + 1
            BY <1>2, <2>1, <3>1, <3>4
        <3> QED
            BY <3>3, <3>4
    <2> QED
        BY <2>2, <2>3
<1> QED
    BY <1>3, <1>4

\* No event logged before reaches anybody by a step of pay(), or ceases to.
LEMMA ReachesAtPay ==
    ASSUME Service, EventsTypeOK, Delivery, NEW c \in Calls, PayStep(c), NEW n \in DOMAIN log
    PROVE  /\ log'[n] = log[n] /\ n \in DOMAIN log'
           /\ OwnersOf(log[n].txn)' = OwnersOf(log[n].txn)
           /\ \A s \in Subscribers : Reaches(n, s)' <=> Reaches(n, s)
           /\ \A b \in OwnersOf(log[n].txn) : outcome'[b] = outcome[b]
<1> USE DEF Service
<1>1. Pay(c) /\ heard' = heard
    BY DEF PayStep
<1>2. log'[n] = log[n] /\ n \in DOMAIN log'
    <2>1. CASE Publish(c)
        BY <2>1, PublishAppends
    <2>2. CASE ~Publish(c)
        BY <1>1, <2>2, EndedStep
    <2> QED
        BY <2>1, <2>2
<1>3. \A b \in Calls : txnId'[b] = log[n].txn <=> txnId[b] = log[n].txn
    BY <1>1, LoggedBefore
<1>4. {b \in Calls : txnId'[b] = log'[n].txn} = {b \in Calls : txnId[b] = log[n].txn}
    BY <1>2, <1>3
<1>5. \A b \in OwnersOf(log[n].txn) : outcome'[b] = outcome[b] /\ Served(b)
    BY <1>1, LoggedBefore DEF OwnersOf
<1>6. \A b \in OwnersOf(log[n].txn) : callbacks'[b] = callbacks[b]
    <2> SUFFICES ASSUME NEW b \in OwnersOf(log[n].txn) PROVE callbacks'[b] = callbacks[b]
        OBVIOUS
    <2>1. b \in Calls /\ pc[b] # "publish"
        BY <1>5 DEF OwnersOf, Served
    <2> QED
        BY <2>1 DEF PayStep, EventsTypeOK
<1>7. \A s \in Subscribers : Reaches(n, s)' <=> Reaches(n, s)
    BY <1>1, <1>2, <1>4, <1>6 DEF Reaches, OwnersOf
<1> QED
    BY <1>2, <1>4, <1>5, <1>7 DEF OwnersOf

LEMMA SnapshotsAtPay ==
    ASSUME Service, EventsTypeOK, Delivery, NEW c \in Calls, PayStep(c)
    PROVE  SnapshotsFollow'
<1> USE DEF Service
<1>1. Pay(c) /\ subscribed' = subscribed /\ heard' = heard
    BY DEF PayStep
<1>2. Len(log) \in Nat /\ DOMAIN log = 1..Len(log)
    BY DEF TypeOK
<1>3. ASSUME NEW n \in DOMAIN log, NEW s \in Subscribers
      PROVE  /\ Reaches(n, s)' => s \in ToSet(subscribed')
             /\ s \in ToSet(Early) \/ (\E m \in 1..(n - 1) : Reaches(m, s)')
                => \A b \in OwnersOf(log[n].txn)' : outcome'[b].tag = "threw" \/ Reaches(n, s)'
    <2>1. /\ Reaches(n, s)' <=> Reaches(n, s)
          /\ OwnersOf(log[n].txn)' = OwnersOf(log[n].txn)
          /\ \A b \in OwnersOf(log[n].txn) : outcome'[b] = outcome[b]
        BY ReachesAtPay
    <2>2. \A m \in 1..(n - 1) : m \in DOMAIN log
        BY <1>2
    <2>3. \A m \in 1..(n - 1) : Reaches(m, s)' <=> Reaches(m, s)
        BY <2>2, ReachesAtPay
    <2> QED
        BY <1>1, <2>1, <2>3 DEF Delivery, SnapshotsFollow
<1>4. CASE ~Publish(c)
    <2>1. log' = log
        BY <1>1, <1>4, EndedStep
    <2> QED
        BY <1>1, <1>3, <2>1 DEF Delivery, SnapshotsFollow
<1>5. CASE Publish(c)
    <2> PICK n : n = Len(log) + 1
        OBVIOUS
    <2>1. /\ DOMAIN log' = 1..n /\ n \in DOMAIN log'
          /\ log'[n].txn = txnId[c] /\ txnId' = txnId
        BY <1>2, <1>5, PublishAppends
    <2>2. pc[c] = "publish" /\ callbacks' = [callbacks EXCEPT ![c] = subscribed]
        BY <1>5 DEF Publish, Step, PayStep
    <2>3. callbacks'[c] = subscribed
        BY <2>2 DEF EventsTypeOK
    <2>4. \A s \in Subscribers : txnId[c] \notin ToSet(heard[s])
        BY <2>2, NotYetTold DEF Delivery
    <2>5. \A b \in OwnersOf(log[n].txn)' : b = c
        BY <2>1, <2>2, HasId DEF OwnersOf, Ownership, Reservations, IdsAreFresh
    <2>6. c \in OwnersOf(log[n].txn)'
        BY <2>1 DEF OwnersOf
    <2>7. \A s \in Subscribers : Reaches(n, s)' <=> s \in ToSet(subscribed)
        BY <1>1, <2>1, <2>3, <2>4, <2>5, <2>6 DEF Reaches
    <2>8. ASSUME NEW s \in Subscribers, s \in ToSet(Early) \/ \E m \in 1..(n - 1) : Reaches(m, s)'
          PROVE  Reaches(n, s)'
        <3>1. \A m \in 1..(n - 1) : m \in DOMAIN log
            BY <1>2
        <3>2. s \in ToSet(Early) \/ \E m \in DOMAIN log : Reaches(m, s)
            BY <2>8, <3>1, ReachesAtPay
        <3>3. s \in ToSet(subscribed)
            BY <3>2 DEF Delivery, SnapshotsFollow
        <3> QED
            BY <2>7, <3>3
    <2>9. \A k \in DOMAIN log' : k \in DOMAIN log \/ k = n
        BY <1>2, <2>1
    <2>10. ToSet(Early) \subseteq ToSet(subscribed')
        BY <1>1 DEF Delivery, SnapshotsFollow
    <2> QED
        BY <1>1, <1>3, <2>7, <2>8, <2>9, <2>10 DEF SnapshotsFollow
<1> QED
    BY <1>4, <1>5

-----------------------------------------------------------------------------
\* A registration.

LEMMA SubscribeStep ==
    ASSUME EventsTypeOK, Delivery, NEW s \in Subscribers, Subscribe(s)
    PROVE  EventsTypeOK' /\ Delivery'
<1> USE DEF EventsTypeOK
<1>1. /\ s \notin ToSet(subscribed) /\ subscribed' = Append(subscribed, s)
      /\ UNCHANGED <<req, pc, txnId, status, outcome, log, callbacks, inside, heard>>
    BY DEF Subscribe, vars, stack, shared
<1>2. /\ subscribed' \in Seq(Subscribers)
      /\ Len(subscribed) \in Nat
      /\ DOMAIN subscribed = 1..Len(subscribed)
      /\ DOMAIN subscribed' = 1..(Len(subscribed) + 1)
      /\ \A i \in 1..Len(subscribed) : subscribed'[i] = subscribed[i]
      /\ subscribed'[Len(subscribed) + 1] = s
      /\ ToSet(subscribed') = ToSet(subscribed) \cup {s}
    BY <1>1, AppendToSeq
<1>3. \A i \in DOMAIN subscribed : subscribed[i] # s
    BY <1>1 DEF ToSet
<1>4. IsInjective(subscribed')
    <2>1. \A i \in DOMAIN subscribed' : i \in DOMAIN subscribed \/ i = Len(subscribed) + 1
        BY <1>2
    <2>2. \A i, j \in DOMAIN subscribed : subscribed[i] = subscribed[j] => i = j
        BY DEF IsInjective
    <2>3. \A i, j \in DOMAIN subscribed' : subscribed'[i] = subscribed'[j] => i = j
        BY <1>2, <1>3, <2>1, <2>2
    <2> QED
        BY <2>3 DEF IsInjective
<1>5. \A c \in Calls : CallbacksFollow(c)'
    BY <1>1 DEF Delivery, CallbacksFollow, InCallback, Served
<1>6. HeardFollow' /\ LastOfItsPayer'
    BY <1>1 DEF Delivery, HeardFollow, LastOfItsPayer, Served
<1>7. \A n, u : Reaches(n, u)' <=> Reaches(n, u)
    BY <1>1 DEF Reaches, OwnersOf
<1>8. \A n \in DOMAIN log : OwnersOf(log[n].txn)' = OwnersOf(log[n].txn)
    BY <1>1 DEF OwnersOf
<1>9. SnapshotsFollow'
    BY <1>1, <1>2, <1>7, <1>8 DEF Delivery, SnapshotsFollow
<1> QED
    BY <1>1, <1>2, <1>4, <1>5, <1>6, <1>9 DEF Delivery

-----------------------------------------------------------------------------
\* A step inside the callbacks.

\* What the subscribers have heard grows by the transaction of the call, for the subscriber
\* it calls back, if by anything; and what is left to call does not grow.
LEMMA CallbackEffect ==
    ASSUME TypeOK, EventsTypeOK, Delivery, NEW c \in Calls, CallbackMoves(c)
    PROVE  LET s == Head(callbacks[c])
           IN  /\ s \in Subscribers /\ s \in ToSet(callbacks[c])
               /\ pc[c] = "release" /\ Served(c)
               /\ \A u \in Subscribers :
                     ToSet(heard'[u]) = ToSet(heard[u]) \cup (IF u = s THEN {txnId[c]} ELSE {})
               /\ UNCHANGED <<req, pc, txnId, status, log, subscribed>>
               /\ \A d \in Calls : outcome'[d] = outcome[d] \/ outcome'[d].tag = "threw"
               /\ ToSet(callbacks'[c]) \subseteq ToSet(callbacks[c])
               /\ \/ outcome'[c].tag = "threw"
                  \/ ToSet(callbacks[c]) \subseteq ToSet(callbacks'[c]) \cup {s}
<1>0. ASSUME NEW h \in Seq(Nat), NEW x \in Nat
      PROVE  ToSet(Append(h, x)) = ToSet(h) \cup {x}
    BY AppendToSeq
<1> USE DEF EventsTypeOK, CallbackMoves, InCallback
<1> DEFINE q == callbacks[c]
           s == Head(q)
<1>1. q \in Seq(Subscribers) /\ q # << >>
    OBVIOUS
<1>2. /\ s \in Subscribers /\ s \in ToSet(q)
      /\ ToSet(q) = ToSet(Tail(q)) \cup {s}
    BY <1>1, TailOfSeq
<1>3. pc[c] = "release" /\ Served(c)
    BY DEF Delivery, CallbacksFollow
<1>4. /\ UNCHANGED <<req, pc, txnId, status, log, subscribed>>
      /\ \A d \in Calls : outcome'[d] = outcome[d] \/ outcome'[d].tag = "threw"
    BY DEF ThrowsOut, Return, TypeOK, vars, stack, shared
<1>5. ASSUME NEW u \in Subscribers
      PROVE  ToSet(heard'[u]) = ToSet(heard[u]) \cup (IF u = s THEN {txnId[c]} ELSE {})
    <2>1. CASE heard' = heard /\ txnId[c] \in ToSet(heard[s])
        BY <2>1
    <2>2. CASE heard' = [heard EXCEPT ![s] = Append(@, txnId[c])]
        <3>1. heard[u] \in Seq(Nat) /\ txnId[c] \in Nat
            BY DEF TypeOK
        <3>2. heard'[u] = IF u = s THEN Append(heard[u], txnId[c]) ELSE heard[u]
            BY <2>2
        <3>3. ToSet(Append(heard[u], txnId[c])) = ToSet(heard[u]) \cup {txnId[c]}
            BY <1>0, <3>1, Zenon
        <3> HIDE DEF q, s, CallbackMoves, EventsTypeOK
        <3> QED
            BY <3>2, <3>3
    <2> QED
        BY <2>1, <2>2
<1>6. \/ callbacks'[c] = q
      \/ callbacks'[c] = Tail(q)
      \/ callbacks'[c] = << >> /\ outcome'[c].tag = "threw"
    OBVIOUS
<1>7. ToSet(<< >>) = {}
    BY DEF ToSet
<1>8. /\ ToSet(callbacks'[c]) \subseteq ToSet(q)
      /\ outcome'[c].tag = "threw" \/ ToSet(q) \subseteq ToSet(callbacks'[c]) \cup {s}
    <2> HIDE DEF q, s, CallbackMoves
    <2> QED
        BY <1>2, <1>6, <1>7
<1> QED
    BY <1>2, <1>3, <1>4, <1>5, <1>8

LEMMA CallbacksAtCallback ==
    ASSUME Service, EventsTypeOK, Delivery, NEW c \in Calls, CallbackMoves(c)
    PROVE  \A d \in Calls : CallbacksFollow(d)'
<1> USE DEF Service
<1> DEFINE q == callbacks[c]
           s == Head(q)
<1>1. /\ s \in Subscribers /\ pc[c] = "release" /\ Served(c)
      /\ \A u \in Subscribers :
            ToSet(heard'[u]) = ToSet(heard[u]) \cup (IF u = s THEN {txnId[c]} ELSE {})
      /\ UNCHANGED <<req, pc, txnId, status, log>>
    BY CallbackEffect
<1>2. /\ q \in Seq(Subscribers) /\ q # << >>
    BY DEF EventsTypeOK, CallbackMoves, InCallback
<1>3. /\ q[1] = s /\ 1 \in DOMAIN q
      /\ \A i \in DOMAIN q : q[i] \in Subscribers
      /\ \A i \in DOMAIN Tail(q) : /\ i + 1 \in DOMAIN q /\ i + 1 > 1 /\ i \in Nat
                                   /\ Tail(q)[i] = q[i + 1]
    BY <1>2, TailOfSeq
<1>4. /\ \A i, j \in DOMAIN q : q[i] = q[j] => i = j
      /\ \A i \in DOMAIN q : i > 1 => txnId[c] \notin ToSet(heard[q[i]])
    BY DEF Delivery, CallbacksFollow, IsInjective
<1>5. ASSUME NEW d \in Calls, d # c PROVE CallbacksFollow(d)'
    <2>1. callbacks'[d] = callbacks[d] /\ inside'[d] = inside[d] /\ CallbacksFollow(d)
        BY <1>5 DEF CallbackMoves, Delivery
    <2>2. ASSUME InCallback(d) PROVE txnId[d] # txnId[c]
        <3>1. pc[c] # "mint"
            BY <1>1
        <3> QED
            BY <1>5, <3>1 DEF Ownership, Reservations, IdsAreFresh
    <2>3. \A i \in DOMAIN callbacks[d] : InCallback(d) /\ callbacks[d][i] \in Subscribers
        BY DEF InCallback, EventsTypeOK
    <2>4. InCallback(d) => Head(callbacks[d]) \in Subscribers
        BY TailOfSeq DEF InCallback, EventsTypeOK
    <2>5. ASSUME NEW i \in DOMAIN callbacks[d], i > 1 \/ inside[d] = NoCall
          PROVE  txnId[d] \notin ToSet(heard'[callbacks[d][i]])
        BY <1>1, <2>1, <2>2, <2>3, <2>5 DEF CallbacksFollow
    <2>6. inside[d] # NoCall => /\ InCallback(d)
                                /\ txnId[d] \in ToSet(heard'[Head(callbacks[d])])
        BY <1>1, <2>1, <2>4 DEF CallbacksFollow
    <2>7. InCallback(d) => pc[d] = "release" /\ Served(d) /\ IsInjective(callbacks[d])
        BY <2>1 DEF CallbacksFollow
    <2>8. IsInjective(callbacks[d])
        BY <2>1 DEF CallbacksFollow
    <2> QED
        BY <1>1, <2>1, <2>5, <2>6, <2>7, <2>8 DEF CallbacksFollow, InCallback, Served
<1>6. CallbacksFollow(c)'
    <2> HIDE DEF q, s
    <2>1. pc'[c] = "release" /\ Served(c)'
        BY <1>1 DEF Served
    <2>2. CASE callbacks' = callbacks /\ inside'[c] # NoCall
        <3>1. callbacks'[c] = q /\ Head(callbacks'[c]) = s
            BY <2>2 DEF q, s
        <3>2. InCallback(c)' /\ IsInjective(callbacks'[c])
            BY <1>2, <1>4, <3>1 DEF InCallback, IsInjective
        <3>3. txnId'[c] \in ToSet(heard'[Head(callbacks'[c])])
            BY <1>1, <3>1
        <3>4. \A i \in DOMAIN q : i > 1 => txnId'[c] \notin ToSet(heard'[q[i]])
            <4> SUFFICES ASSUME NEW i \in DOMAIN q, i > 1
                         PROVE  txnId[c] \notin ToSet(heard'[q[i]])
                BY <1>1
            <4>1. q[i] # s
                BY <1>3, <1>4
            <4> QED
                BY <1>1, <1>3, <1>4, <4>1
        <3> QED
            BY <2>1, <2>2, <3>1, <3>2, <3>3, <3>4 DEF CallbacksFollow
    <2>3. CASE callbacks' = [callbacks EXCEPT ![c] = Tail(@)] /\ inside'[c] = NoCall
        <3>1. callbacks'[c] = Tail(q)
            BY <2>3 DEF q, EventsTypeOK
        <3>2. \A i \in DOMAIN Tail(q) : txnId[c] \notin ToSet(heard'[Tail(q)[i]])
            <4> SUFFICES ASSUME NEW i \in DOMAIN Tail(q)
                         PROVE  txnId[c] \notin ToSet(heard'[Tail(q)[i]])
                OBVIOUS
            <4>1. i + 1 \in DOMAIN q /\ i + 1 > 1 /\ Tail(q)[i] = q[i + 1] /\ q[i + 1] # s
                BY <1>3, <1>4
            <4> QED
                BY <1>1, <1>3, <1>4, <4>1
        <3>3. \A i, j \in DOMAIN Tail(q) : Tail(q)[i] = Tail(q)[j] => i = j
            <4> SUFFICES ASSUME NEW i \in DOMAIN Tail(q), NEW j \in DOMAIN Tail(q),
                                Tail(q)[i] = Tail(q)[j]
                         PROVE  i = j
                OBVIOUS
            <4>1. i + 1 = j + 1 /\ i \in Nat /\ j \in Nat
                BY <1>3, <1>4
            <4> QED
                BY <4>1
        <3>4. IsInjective(callbacks'[c])
            BY <3>1, <3>3 DEF IsInjective
        <3> QED
            BY <1>1, <2>1, <2>3, <3>1, <3>2, <3>4 DEF CallbacksFollow
    <2>4. CASE callbacks' = [callbacks EXCEPT ![c] = << >>] /\ inside'[c] = NoCall
        <3>1. callbacks'[c] = << >>
            BY <2>4 DEF EventsTypeOK
        <3>2. DOMAIN callbacks'[c] = {} /\ ~InCallback(c)'
            BY <3>1 DEF InCallback
        <3>3. IsInjective(callbacks'[c])
            BY <3>2 DEF IsInjective
        <3> QED
            BY <2>4, <3>2, <3>3 DEF CallbacksFollow
    <2> QED
        BY <2>2, <2>3, <2>4 DEF CallbackMoves
<1> QED
    BY <1>5, <1>6

LEMMA SnapshotsAtCallback ==
    ASSUME Service, EventsTypeOK, Delivery, NEW c \in Calls, CallbackMoves(c)
    PROVE  SnapshotsFollow'
<1> USE DEF Service
<1> DEFINE s == Head(callbacks[c])
<1>1. /\ s \in Subscribers /\ s \in ToSet(callbacks[c]) /\ Served(c)
      /\ \A u \in Subscribers :
            ToSet(heard'[u]) = ToSet(heard[u]) \cup (IF u = s THEN {txnId[c]} ELSE {})
      /\ UNCHANGED <<txnId, log, subscribed>>
      /\ \A d \in Calls : outcome'[d] = outcome[d] \/ outcome'[d].tag = "threw"
      /\ ToSet(callbacks'[c]) \subseteq ToSet(callbacks[c])
      /\ \/ outcome'[c].tag = "threw"
         \/ ToSet(callbacks[c]) \subseteq ToSet(callbacks'[c]) \cup {s}
    BY CallbackEffect
<1>2. \A d \in Calls : d # c => callbacks'[d] = callbacks[d]
    BY DEF CallbackMoves
<1> HIDE DEF s
<1>3. \A id : OwnersOf(id)' = OwnersOf(id)
    BY <1>1 DEF OwnersOf
<1>4. \A id : \A b \in OwnersOf(id) : b \in Calls /\ txnId[b] = id
    BY DEF OwnersOf
<1>5. \A b \in Calls : txnId[b] = txnId[c] => b = c
    BY <1>1, HasId DEF Served, Ownership, Reservations, IdsAreFresh
<1>6. c \in OwnersOf(txnId[c])
    BY DEF OwnersOf
<1>7. ASSUME NEW n, NEW u \in Subscribers, Reaches(n, u)' PROVE Reaches(n, u)
    <2>1. CASE log[n].txn \in ToSet(heard'[u])
        BY <1>1, <1>6, <2>1 DEF Reaches
    <2>2. CASE \E b \in OwnersOf(log[n].txn) : u \in ToSet(callbacks'[b])
        BY <1>1, <1>2, <1>4, <2>2 DEF Reaches
    <2> QED
        BY <1>1, <1>3, <1>7, <2>1, <2>2 DEF Reaches
<1>8. ASSUME NEW n, NEW u \in Subscribers, Reaches(n, u),
             NEW b \in OwnersOf(log[n].txn), outcome'[b].tag # "threw"
      PROVE  Reaches(n, u)'
    <2>1. CASE log[n].txn \in ToSet(heard[u])
        BY <1>1, <2>1 DEF Reaches
    <2>2. CASE log[n].txn \notin ToSet(heard[u])
        <3>1. PICK d \in OwnersOf(log[n].txn) : u \in ToSet(callbacks[d])
            BY <1>8, <2>2 DEF Reaches
        <3>2. CASE d = c
            <4>1. b = c
                BY <1>4, <1>5, <3>2
            <4>2. u = s \/ u \in ToSet(callbacks'[c])
                BY <1>1, <1>8, <3>1, <3>2, <4>1
            <4>3. log[n].txn = txnId[c]
                BY <1>4, <3>2
            <4> QED
                BY <1>1, <1>3, <3>2, <4>2, <4>3 DEF Reaches
        <3>3. CASE d # c
            BY <1>1, <1>2, <1>3, <1>4, <3>1, <3>3 DEF Reaches
        <3> QED
            BY <3>2, <3>3
    <2> QED
        BY <2>1, <2>2
<1>9. ASSUME NEW n \in DOMAIN log, NEW u \in Subscribers,
             u \in ToSet(Early) \/ (\E m \in 1..(n - 1) : Reaches(m, u)'),
             NEW b \in OwnersOf(log[n].txn)
      PROVE  outcome'[b].tag = "threw" \/ Reaches(n, u)'
    <2>1. u \in ToSet(Early) \/ \E m \in 1..(n - 1) : Reaches(m, u)
        BY <1>7, <1>9
    <2>2. outcome[b].tag = "threw" \/ Reaches(n, u)
        BY <2>1 DEF Delivery, SnapshotsFollow
    <2> QED
        BY <1>1, <1>4, <1>8, <2>2
<1>10. \A n \in DOMAIN log, u \in Subscribers : Reaches(n, u)' => u \in ToSet(subscribed)
    BY <1>7 DEF Delivery, SnapshotsFollow
<1>11. \A n : OwnersOf(log[n].txn)' = OwnersOf(log[n].txn)
    BY <1>1 DEF OwnersOf
<1> QED
    BY <1>1, <1>9, <1>10, <1>11 DEF Delivery, SnapshotsFollow

LEMMA DeliveryAtCallback ==
    ASSUME Service, EventsTypeOK, Delivery, NEW c \in Calls, CallbackMoves(c)
    PROVE  Delivery'
<1>1. /\ pc[c] = "release" /\ Served(c)
      /\ \A u \in Subscribers : ToSet(heard'[u]) \subseteq ToSet(heard[u]) \cup {txnId[c]}
      /\ UNCHANGED <<req, pc, txnId, status, log>>
    BY CallbackEffect DEF Service
<1>2. HeardFollow'
    BY <1>1 DEF Delivery, HeardFollow, Served
<1>3. LastOfItsPayer'
    BY <1>1 DEF Delivery, LastOfItsPayer
<1> QED
    BY <1>2, <1>3, CallbacksAtCallback, SnapshotsAtCallback DEF Delivery

-----------------------------------------------------------------------------
\* The inductive invariant.

LEMMA EventsTypeStep ==
    ASSUME TypeOK, EventsTypeOK, \A c \in Calls : CallbacksFollow(c), [EventsNext]_allvars
    PROVE  /\ callbacks' \in [Calls -> Seq(Subscribers)]
           /\ inside' \in [Calls -> Calls \cup {NoCall}]
           /\ heard' \in [Subscribers -> Seq(Nat)]
           /\ subscribed' = subscribed \/ \E s \in Subscribers : Subscribe(s)
<1> USE DEF EventsTypeOK
<1>1. ASSUME NEW h \in Seq(Nat), NEW x \in Nat PROVE Append(h, x) \in Seq(Nat)
    OBVIOUS
<1>2. ASSUME NEW q \in Seq(Subscribers), q # << >> PROVE Tail(q) \in Seq(Subscribers)
    BY <1>2, TailOfSeq
<1>3. << >> \in Seq(Subscribers)
    OBVIOUS
<1>4. CASE \E c \in Calls : PayStep(c)
    BY <1>4 DEF PayStep
<1>5. CASE \E s \in Subscribers : Subscribe(s)
    BY <1>5 DEF Subscribe
<1>6. ASSUME NEW c \in Calls, CallbackMoves(c)
      PROVE  /\ subscribed' = subscribed
             /\ callbacks' \in [Calls -> Seq(Subscribers)]
             /\ inside' \in [Calls -> Calls \cup {NoCall}]
             /\ heard' \in [Subscribers -> Seq(Nat)]
    <2>1. /\ subscribed' = subscribed /\ callbacks[c] # << >>
          /\ inside' \in [Calls -> Calls \cup {NoCall}]
          /\ \/ heard' = heard
             \/ heard' = [heard EXCEPT ![Head(callbacks[c])] = Append(@, txnId[c])]
          /\ \/ callbacks' = callbacks
             \/ callbacks' = [callbacks EXCEPT ![c] = Tail(@)]
             \/ callbacks' = [callbacks EXCEPT ![c] = << >>]
        BY <1>6 DEF CallbackMoves, InCallback
    <2>2. Tail(callbacks[c]) \in Seq(Subscribers)
        BY <1>2, <2>1
    <2>3. callbacks' \in [Calls -> Seq(Subscribers)]
        BY <1>3, <2>1, <2>2
    <2>4. Head(callbacks[c]) \in Subscribers
        BY <2>1, TailOfSeq
    <2>5. Append(heard[Head(callbacks[c])], txnId[c]) \in Seq(Nat)
        BY <1>1, <2>4 DEF TypeOK
    <2>6. heard' \in [Subscribers -> Seq(Nat)]
        BY <2>1, <2>5
    <2> QED
        BY <2>1, <2>3, <2>6
<1> QED
    BY <1>4, <1>5, <1>6, EventsSteps

LEMMA InitEvents == EventsInit => Service /\ EventsTypeOK /\ Delivery
<1> SUFFICES ASSUME EventsInit PROVE Service /\ EventsTypeOK /\ Delivery
    OBVIOUS
<1>1. Service
    BY InitTypeOK, InitOwnership, InitBookkeeping, InitSettlement DEF EventsInit, Service
<1>2. ToSet(<< >>) = {} /\ IsInjective(<< >>)
    BY DEF ToSet, IsInjective
<1>3. EventsTypeOK
    BY EventsAssumption DEF EventsInit, EventsTypeOK
<1>4. \A c \in Calls : CallbacksFollow(c)
    BY <1>2 DEF EventsInit, CallbacksFollow, InCallback
<1>5. HeardFollow
    BY <1>2 DEF EventsInit, HeardFollow
<1>6. LastOfItsPayer /\ SnapshotsFollow
    BY DEF EventsInit, Init, LastOfItsPayer, SnapshotsFollow
<1> QED
    BY <1>1, <1>3, <1>4, <1>5, <1>6 DEF Delivery

LEMMA NextEvents ==
    Service /\ EventsTypeOK /\ Delivery /\ [EventsNext]_allvars
        => (Service /\ EventsTypeOK /\ Delivery)'
<1> SUFFICES ASSUME Service, EventsTypeOK, Delivery, [EventsNext]_allvars
             PROVE  Service' /\ EventsTypeOK' /\ Delivery'
    OBVIOUS
<1>1. TypeOK /\ \A c \in Calls : CallbacksFollow(c)
    BY DEF Service, Delivery
<1>2. Service'
    BY <1>1, ServiceStep
<1>3. EventsTypeOK'
    BY <1>1, EventsTypeStep, SubscribeStep DEF EventsTypeOK
<1>4. ASSUME NEW c \in Calls, PayStep(c) PROVE Delivery'
    BY <1>4, CallbacksAtPay, HeardAtPay, LastAtPay, SnapshotsAtPay DEF Delivery
<1>5. ASSUME UNCHANGED <<vars, subscribed, callbacks, inside, heard>> PROVE Delivery'
    <2>1. UNCHANGED <<req, pc, txnId, status, outcome, log, subscribed, callbacks, inside, heard>>
        BY <1>5 DEF vars, stack, shared
    <2>2. \A n, u : Reaches(n, u)' <=> Reaches(n, u)
        BY <2>1 DEF Reaches, OwnersOf
    <2>3. \A n : OwnersOf(log[n].txn)' = OwnersOf(log[n].txn)
        BY <2>1 DEF OwnersOf
    <2>4. SnapshotsFollow'
        BY <2>1, <2>2, <2>3 DEF Delivery, SnapshotsFollow
    <2>5. \A c \in Calls : CallbacksFollow(c)'
        BY <2>1 DEF Delivery, CallbacksFollow, InCallback, Served
    <2>6. HeardFollow'
        BY <2>1 DEF Delivery, HeardFollow, Served
    <2>7. LastOfItsPayer'
        BY <2>1 DEF Delivery, LastOfItsPayer
    <2> QED
        BY <2>4, <2>5, <2>6, <2>7 DEF Delivery
<1> QED
    BY <1>1, <1>2, <1>3, <1>4, <1>5, EventsSteps, SubscribeStep, DeliveryAtCallback

\* What holds of pay() without subscribers goes on to hold with them, and what a call has
\* still to tell and the subscribers have heard are the parts of its snapshot.
THEOREM DeliveryHolds == EventsSpec => [](Service /\ EventsTypeOK /\ Delivery)
<1> QED
    BY InitEvents, NextEvents, PTL DEF EventsSpec

-----------------------------------------------------------------------------
\* What follows.

\* No exception of a callback takes back what it was told of: a call that left publish()
\* has its transaction saved and logged.
THEOREM ThrownTooLate == EventsSpec => []ThrowsAfterTheFact
<1>1. Service => ThrowsAfterTheFact
    <2> SUFFICES ASSUME Service, NEW c \in Calls,
                        pc[c] \in {"release", "done"}, status[c] \in {"CAPTURED", "FAILED"}
                 PROVE  /\ Find(txnId[c]) = {TransactionOf(c)}
                        /\ \E i \in DOMAIN log : log[i].txn = txnId[c]
        BY DEF ThrowsAfterTheFact
    <2>1. Served(c)
        BY DEF Served
    <2>2. Find(txnId[c]) = {TransactionOf(c)}
        BY <2>1 DEF Served, Service, Bookkeeping, MoneyFollows, AfterSave
    <2> QED
        BY <2>1, <2>2 DEF Service, Settlement, EventsFollow
<1> QED
    BY <1>1, DeliveryHolds, PTL

\* Each subscriber hears of the payments from one account in the order of the log.
THEOREM ToldInOrder == EventsSpec => []HeardInOrder
<1>1. EventsInit => HeardInOrder
    BY DEF EventsInit, HeardInOrder
<1>2. Service /\ EventsTypeOK /\ Delivery /\ HeardInOrder /\ [EventsNext]_allvars
        => HeardInOrder'
    <2> SUFFICES ASSUME Service, EventsTypeOK, Delivery, HeardInOrder, [EventsNext]_allvars
                 PROVE  HeardInOrder'
        OBVIOUS
    <2> USE DEF Service
    <2>1. ASSUME NEW c \in Calls, PayStep(c) PROVE HeardInOrder'
        <3>1. Pay(c) /\ heard' = heard /\ req' = req
            BY <2>1, PayMoves DEF PayStep, Moves
        <3>2. \A n \in DOMAIN log : n \in DOMAIN log' /\ log'[n] = log[n]
            BY <2>1, ReachesAtPay
        <3>3. ASSUME NEW s \in Subscribers, NEW i \in DOMAIN heard[s]
              PROVE  OwnersOf(heard[s][i])' = OwnersOf(heard[s][i])
            <4>1. heard[s][i] \in ToSet(heard[s])
                BY DEF ToSet
            <4>2. PICK e \in Calls : Served(e) /\ heard[s][i] = txnId[e]
                BY <4>1 DEF Delivery, HeardFollow
            <4>3. PICK n \in DOMAIN log : log[n].txn = heard[s][i]
                BY <4>2 DEF Settlement, EventsFollow
            <4>4. \A b \in Calls : txnId'[b] = heard[s][i] <=> txnId[b] = heard[s][i]
                BY <3>1, <4>3, LoggedBefore
            <4> QED
                BY <3>1, <4>4 DEF OwnersOf
        <3> SUFFICES ASSUME NEW s \in Subscribers,
                            NEW i \in DOMAIN heard[s], NEW j \in DOMAIN heard[s], i < j,
                            \E a \in OwnersOf(heard[s][i]), b \in OwnersOf(heard[s][j]) :
                                req[a].payer = req[b].payer
                     PROVE  \E m, n \in DOMAIN log' :
                                m < n /\ log'[m].txn = heard[s][i] /\ log'[n].txn = heard[s][j]
            BY <3>1, <3>3 DEF HeardInOrder
        <3>4. PICK m \in DOMAIN log, n \in DOMAIN log :
                 m < n /\ log[m].txn = heard[s][i] /\ log[n].txn = heard[s][j]
            BY DEF HeardInOrder
        <3> QED
            BY <3>2, <3>4
    <2>2. ASSUME NEW c \in Calls, CallbackMoves(c) PROVE HeardInOrder'
        <3> DEFINE s == Head(callbacks[c])
        <3>1. UNCHANGED <<req, txnId, log>> /\ s \in Subscribers /\ Served(c) /\ pc[c] = "release"
            BY <2>2, CallbackEffect
        <3>2. \A id : OwnersOf(id)' = OwnersOf(id)
            BY <3>1 DEF OwnersOf
        <3>3. CASE heard' = heard
            BY <3>1, <3>2, <3>3 DEF HeardInOrder
        <3>4. CASE heard' = [heard EXCEPT ![s] = Append(@, txnId[c])] /\ inside[c] = NoCall
            <4> DEFINE h == heard[s]
            <4>1. h \in Seq(Nat) /\ txnId[c] \in Nat
                BY <3>1 DEF EventsTypeOK, TypeOK
            <4>2. /\ Len(h) \in Nat /\ DOMAIN h = 1..Len(h)
                  /\ DOMAIN Append(h, txnId[c]) = 1..(Len(h) + 1)
                  /\ \A i \in 1..Len(h) : Append(h, txnId[c])[i] = h[i]
                  /\ Append(h, txnId[c])[Len(h) + 1] = txnId[c]
                BY <4>1, AppendToSeq
            <4>3. /\ heard'[s] = Append(h, txnId[c])
                  /\ \A u \in Subscribers : u # s => heard'[u] = heard[u]
                BY <3>1, <3>4 DEF EventsTypeOK
            <4>4. ASSUME NEW i \in DOMAIN h, NEW a \in OwnersOf(h[i]), req[a].payer = req[c].payer
                  PROVE  \E m, n \in DOMAIN log :
                            m < n /\ log[m].txn = h[i] /\ log[n].txn = txnId[c]
                <5>1. h[i] \in ToSet(h) /\ a \in Calls /\ txnId[a] = h[i]
                    BY DEF ToSet, OwnersOf
                <5>2. PICK e \in Calls : Served(e) /\ txnId[e] = h[i]
                    BY <3>1, <5>1 DEF Delivery, HeardFollow
                <5>3. PICK m \in DOMAIN log : log[m].txn = h[i]
                    BY <5>2 DEF Settlement, EventsFollow
                <5>4. PICK n \in DOMAIN log : log[n].txn = txnId[c]
                    BY <3>1 DEF Settlement, EventsFollow
                <5>5. m <= n
                    BY <3>1, <4>4, <5>1, <5>3, <5>4 DEF Delivery, LastOfItsPayer
                <5>6. callbacks[c] # << >> /\ callbacks[c] \in Seq(Subscribers)
                    BY <2>2 DEF CallbackMoves, InCallback, EventsTypeOK
                <5>7. 1 \in DOMAIN callbacks[c] /\ callbacks[c][1] = s
                    BY <5>6, TailOfSeq
                <5>8. txnId[c] \notin ToSet(h)
                    BY <3>4, <5>7 DEF Delivery, CallbacksFollow
                <5>9. m \in Nat /\ n \in Nat
                    BY DEF TypeOK
                <5>10. m # n
                    BY <5>1, <5>3, <5>4, <5>8
                <5> QED
                    BY <5>3, <5>4, <5>5, <5>9, <5>10
            <4> HIDE DEF s, h
            <4> SUFFICES ASSUME NEW u \in Subscribers,
                                NEW i \in DOMAIN heard'[u], NEW j \in DOMAIN heard'[u], i < j,
                                NEW a \in OwnersOf(heard'[u][i]), NEW b \in OwnersOf(heard'[u][j]),
                                req[a].payer = req[b].payer
                         PROVE  \E m, n \in DOMAIN log :
                                    /\ m < n
                                    /\ log[m].txn = heard'[u][i]
                                    /\ log[n].txn = heard'[u][j]
                BY <3>1, <3>2 DEF HeardInOrder
            <4>5. CASE u # s
                BY <4>3, <4>5 DEF HeardInOrder
            <4>6. CASE u = s
                <5>1. i \in DOMAIN h /\ heard'[u][i] = h[i]
                    BY <4>2, <4>3, <4>6
                <5>2. CASE j \in DOMAIN h
                    <6>1. heard'[u][j] = h[j]
                        BY <4>2, <4>3, <4>6, <5>2
                    <6> QED
                        BY <4>6, <5>1, <5>2, <6>1 DEF HeardInOrder, h
                <5>3. CASE j \notin DOMAIN h
                    <6>1. heard'[u][j] = txnId[c]
                        BY <4>2, <4>3, <4>6, <5>3
                    <6>2. b = c
                        BY <3>1, <6>1, HasId DEF OwnersOf, Served, Ownership, Reservations,
                           IdsAreFresh
                    <6> QED
                        BY <4>4, <5>1, <6>1, <6>2
                <5> QED
                    BY <5>2, <5>3
            <4> QED
                BY <4>5, <4>6
        <3> QED
            BY <2>2, <3>3, <3>4 DEF CallbackMoves
    <2>3. CASE UNCHANGED <<req, txnId, log, heard>>
        BY <2>3 DEF HeardInOrder, OwnersOf
    <2>4. (\E s \in Subscribers : Subscribe(s)) \/ UNCHANGED <<vars, subscribed, callbacks, inside, heard>>
            => UNCHANGED <<req, txnId, log, heard>>
        BY DEF Subscribe, vars, stack, shared
    <2> QED
        BY <2>1, <2>2, <2>3, <2>4, EventsSteps DEF Delivery
<1> QED
    BY <1>1, <1>2, DeliveryHolds, PTL DEF EventsSpec

\* A subscriber that was there when an event was logged, or was told of one before, is told
\* of it, unless an exception ended the loop.
THEOREM NobodyIsForgotten == EventsSpec => []NoEventIsMissed
<1>1. Service /\ EventsTypeOK /\ Delivery => NoEventIsMissed
    <2> SUFFICES ASSUME Service, EventsTypeOK, Delivery,
                        NEW s \in Subscribers, NEW n \in DOMAIN log,
                        NEW c \in OwnersOf(log[n].txn),
                        \/ s \in ToSet(Early)
                        \/ \E m \in 1..(n - 1) : log[m].txn \in ToSet(heard[s]),
                        ~InCallback(c), outcome[c].tag # "threw"
                 PROVE  log[n].txn \in ToSet(heard[s])
        BY DEF NoEventIsMissed
    <2>1. s \in ToSet(Early) \/ \E m \in 1..(n - 1) : Reaches(m, s)
        BY DEF Reaches
    <2>2. Reaches(n, s)
        BY <2>1 DEF Delivery, SnapshotsFollow
    <2>3. \A b \in OwnersOf(log[n].txn) : b = c
        <3>1. PICK e \in Calls : Served(e) /\ log[n].txn = txnId[e]
            BY DEF Service, Settlement, EventsFollow
        <3> QED
            BY <3>1, HasId DEF Service, Served, OwnersOf, Ownership, Reservations, IdsAreFresh
    <2>4. ToSet(callbacks[c]) = {}
        BY DEF InCallback, ToSet
    <2> QED
        BY <2>2, <2>3, <2>4 DEF Reaches
<1> QED
    BY <1>1, DeliveryHolds, PTL
=============================================================================
