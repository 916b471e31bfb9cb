------------------------- MODULE PaymentRestartProofs --------------------------
(***************************************************************************)
(* What holds of the service in a process that may die at any moment, as   *)
(* often as it likes, and is started again over what is left of its file.  *)
(***************************************************************************)
EXTENDS PaymentRestart, PaymentOutcomeProofs

-----------------------------------------------------------------------------
\* Why: the inductive invariant behind the proofs.  The store is not its callers' alone
\* here, so that of what PaymentProperties says of a call only what does not speak of
\* the store carries over.

LegsFollow ==
    \A c \in Calls :
        pc[c] = "capture" \/ (pc[c] = "save" /\ error[c] = "NONE") => txnId[c] \in Posted

RefusalsFollow ==
    \A c \in Calls : error[c] # "NONE" /\ txnId[c] \in Posted
                     => error[c] \in Strategy(c).capture \ {"NONE"}

Captures(k) == {t \in store : t.key = k /\ t.status = "CAPTURED"}

\* A call has charged for k and not yet saved.
Unsaved(k) ==
    \E c \in Calls : /\ req[c].key = k
                     /\ txnId[c] \in Posted
                     /\ pc[c] \in {"capture", "save"}

ChargesFollow ==
    /\ IsFiniteSet(store)
    /\ charged \in [Keys -> Nat]
    /\ \A k \in Keys : Cardinality(Captures(k)) + (IF Unsaved(k) THEN 1 ELSE 0) <= charged[k]

\* At every moment of every process calls hold their reservations, their statuses and
\* legs are those of their place, and each capture on disk, and each that is about to be,
\* has a charge of its own.
Continuity ==
    /\ Reservations
    /\ \A c \in Calls : StatusFollows(c)
    /\ LegsFollow
    /\ RefusalsFollow
    /\ ChargesFollow

\* A step of RestartNext is a step of a call, a crash, or none.
LEMMA RestartSteps ==
    ASSUME [RestartNext]_rvars
    PROVE  \/ \E c \in Calls : Serve(c)
           \/ CrashAndRestart
           \/ UNCHANGED rvars
BY DEF RestartNext, Finished, rvars

-----------------------------------------------------------------------------
\* Types, across processes.

\* What a process that dies in save() leaves on disk is some of what it held.
LEMMA LeftOnDisk ==
    ASSUME NEW left \in OnDisk
    PROVE  \/ left = store
           \/ \E c \in Calls : pc[c] = "save" /\ left \subseteq store \cup {TransactionOf(c)}
BY DEF OnDisk, Find

\* Each process starts as the first one did, but for its store and its requests.
LEMMA RestartType ==
    ASSUME TypeOK, CrashAndRestart
    PROVE  TypeOK'
<1> USE ConstantsAssumption
<1>1. \A c \in Calls : TransactionOf(c) \in Transaction
    BY DEF TypeOK, TransactionOf, Transaction, PaymentRequest
<1>2. store' \subseteq Transaction
    <2>1. store' \in OnDisk
        BY DEF CrashAndRestart
    <2>2. \/ store' = store
          \/ \E c \in Calls : pc[c] = "save" /\ store' \subseteq store \cup {TransactionOf(c)}
        BY <2>1, LeftOnDisk
    <2>3. store \subseteq Transaction
        BY DEF TypeOK
    <2> QED
        BY <1>1, <2>2, <2>3
<1>3. outcome' \in [Calls -> Outcome]
    BY DEF CrashAndRestart, Outcome, ErrorCode
<1>4. /\ req' \in [Calls -> Requests]
      /\ pc' \in [Calls -> Labels]
      /\ txnId' \in [Calls -> Nat]
      /\ seqs' \in [Calls -> [debit: Nat, credit: Nat]]
    BY DEF CrashAndRestart, Labels
<1>5. status' \in [Calls -> TxnStatus] /\ error' \in [Calls -> ErrorCode]
    BY DEF CrashAndRestart, TxnStatus, ErrorCode
<1>6. /\ nextTxn' \in Nat \ {0}
      /\ nextSeq' \in Nat \ {0}
      /\ claimed' \in [Keys -> Nat]
      /\ holder' \in [Ids -> Calls \cup {NoCall}]
      /\ opened' \in SUBSET Accounts
      /\ balance' \in [Accounts -> Money]
      /\ journal' \in Seq(LedgerEntry)
      /\ log' \in Seq(DomainEvent)
    BY DEF CrashAndRestart
<1> QED
    BY <1>2, <1>3, <1>4, <1>5, <1>6 DEF TypeOK

\* The types hold in every process.
LEMMA RestartTypes == RestartSpec => []TypeOK
<1>1. RestartInit => TypeOK
    BY InitTypeOK DEF RestartInit
<1>2. TypeOK /\ [RestartNext]_rvars => TypeOK'
    <2> SUFFICES ASSUME TypeOK, [RestartNext]_rvars PROVE TypeOK'
        OBVIOUS
    <2>1. ASSUME NEW c \in Calls, Serve(c) PROVE TypeOK'
        BY <2>1, NextTypeOK DEF Serve, Next
    <2>2. CASE CrashAndRestart
        BY <2>2, RestartType
    <2>3. CASE UNCHANGED rvars
        BY <2>3, NextTypeOK DEF rvars
    <2> QED
        BY <2>1, <2>2, <2>3, RestartSteps
<1> QED
    BY <1>1, <1>2, PTL DEF RestartSpec

-----------------------------------------------------------------------------
\* A step of a call.

\* What a call has posted when it comes to capture, it has posted when it saves.
LEMMA LegsStep ==
    ASSUME TypeOK, Continuity, NEW c \in Calls, Pay(c)
    PROVE  LegsFollow'
<1> Moves(c) /\ KeepsOthers(c)
    BY PayMoves, PayKeepsOthers
<1>1. Posted \subseteq Posted'
    BY PostedStep
<1>2. ASSUME NEW d \in Calls, d # c,
             pc'[d] = "capture" \/ (pc'[d] = "save" /\ error'[d] = "NONE")
      PROVE  txnId'[d] \in Posted'
    BY <1>1, <1>2 DEF KeepsOthers, Continuity, LegsFollow
<1>3. ASSUME pc'[c] = "capture"
      PROVE  txnId'[c] \in Posted'
    <2>1. PostAccepted(c)
        BY <1>3 DEF Pay, MintId, ClaimKey, KeyTaken, Replay, Build, Acquire, Validate,
           FindAccounts, Authorize, Decline, DebitPayer, CreditPayee, SeqOfDebit,
           SeqOfCredit, PostRejected, RefundPayer, ChargePayee, Capture,
           CaptureRefused, Save, Publish, Release, Step, Failing, TypeOK
    <2> QED
        BY <2>1, PostedStep DEF PostAccepted, stack
<1>4. ASSUME pc'[c] = "save", error'[c] = "NONE"
      PROVE  txnId'[c] \in Posted'
    <2>1. Capture(c)
        <3>1. \/ Validate(c) \/ FindAccounts(c) \/ Decline(c) \/ DebitPayer(c)
              \/ ChargePayee(c) \/ Capture(c) \/ CaptureRefused(c)
            BY <1>4 DEF Pay, MintId, ClaimKey, KeyTaken, Replay, Build, Acquire,
               Authorize, CreditPayee, SeqOfDebit, SeqOfCredit, PostAccepted,
               PostRejected, RefundPayer, Save, Publish, Release, Step, TypeOK
        <3>2. ~Validate(c)
            BY <1>4 DEF Validate, Failing, Step, TypeOK
        <3>3. ~FindAccounts(c) /\ ~Decline(c) /\ ~CaptureRefused(c)
            BY <1>4 DEF FindAccounts, Decline, CaptureRefused, Failing, Step, TypeOK
        <3>4. ~DebitPayer(c)
            <4> DEFINE verdict == DebitVerdict(balance[req[c].payer], req[c].amount)
            <4>1. DebitPayer(c) => \/ Step(c, "debit", "credit")
                                   \/ verdict # "NONE" /\ Failing(c, "debit", verdict)
                BY DEF DebitPayer
            <4> HIDE DEF verdict
            <4> QED
                BY <1>4, <4>1 DEF Failing, Step, TypeOK
        <3>5. ~ChargePayee(c)
            BY <1>4 DEF ChargePayee, Failing, Step, TypeOK, Continuity, StatusFollows,
               Approved, Compensating
        <3> QED
            BY <3>1, <3>2, <3>3, <3>4, <3>5
    <2>2. pc[c] = "capture" /\ txnId' = txnId
        BY <2>1 DEF Capture, Step
    <2> QED
        BY <1>1, <2>2 DEF Continuity, LegsFollow
<1> QED
    BY <1>2, <1>3, <1>4 DEF LegsFollow

\* After its legs are posted a call gets no error but a refused capture.
LEMMA RefusalsStep ==
    ASSUME TypeOK, Continuity, NEW c \in Calls, Pay(c)
    PROVE  RefusalsFollow'
<1> Moves(c) /\ KeepsOthers(c)
    BY PayMoves, PayKeepsOthers
<1>1. req' = req
    BY DEF Moves
<1>2. ASSUME NEW d \in Calls, d # c, error'[d] # "NONE", txnId'[d] \in Posted'
      PROVE  error'[d] \in Strategy(d)'.capture \ {"NONE"}
    <2>1. error'[d] = error[d] /\ txnId'[d] = txnId[d]
        BY <1>2 DEF KeepsOthers
    <2>2. pc[d] # "mint"
        BY <1>2, <2>1 DEF Continuity, StatusFollows, Unapproved
    <2>3. txnId[d] # 0 /\ txnId[d] # txnId[c]
        BY <1>2, <2>2 DEF Continuity, Reservations, IdsAreFresh
    <2>4. txnId[d] \in Posted
        BY <1>2, <2>1, <2>3, PostedStep
    <2> QED
        BY <1>1, <1>2, <2>1, <2>4 DEF Continuity, RefusalsFollow, Strategy
<1>3. ASSUME error'[c] # "NONE", txnId'[c] \in Posted'
      PROVE  error'[c] \in Strategy(c)'.capture \ {"NONE"}
    <2>1. CASE CaptureRefused(c)
        <3>1. PICK code \in Strategy(c).capture \ {"NONE"} : Failing(c, "capture", code)
            BY <2>1 DEF CaptureRefused
        <3>2. error'[c] = code
            BY <3>1 DEF Failing, TypeOK
        <3> QED
            BY <1>1, <3>1, <3>2 DEF Strategy
    <2>2. CASE error' # error /\ ~CaptureRefused(c)
        <3>1. /\ pc[c] # "mint" /\ pc[c] \notin AfterPost
              /\ txnId' = txnId /\ ~PostAccepted(c)
            BY <2>2 DEF Pay, MintId, ClaimKey, KeyTaken, Replay, Build, Acquire, Validate,
               FindAccounts, Authorize, Decline, DebitPayer, CreditPayee, SeqOfDebit,
               SeqOfCredit, PostAccepted, PostRejected, RefundPayer, ChargePayee, Capture,
               Save, Publish, Release, Step, Failing, stack, AfterPost
        <3>2. txnId[c] \notin Posted
            BY <3>1, HasId, NoLegsYet DEF Continuity
        <3> QED
            BY <1>3, <3>1, <3>2, PostedStep
    <2>3. CASE error' = error
        <3>1. pc[c] # "mint" /\ pc[c] # "post"
            BY <1>3, <2>3 DEF Continuity, StatusFollows, Unapproved, Approved, Compensating
        <3>2. txnId' = txnId /\ ~PostAccepted(c)
            BY <3>1 DEF Moves, MintId, PostAccepted, Step
        <3>3. txnId[c] \in Posted
            BY <1>3, <3>2, PostedStep
        <3> QED
            BY <1>1, <1>3, <2>3, <3>3 DEF Continuity, RefusalsFollow, Strategy
    <2> QED
        BY <2>1, <2>2, <2>3
<1> QED
    BY <1>2, <1>3 DEF RefusalsFollow

-----------------------------------------------------------------------------
\* Charges and captures.

\* A key has a posting without a saved transaction only from the posting on, and only one.
LEMMA UnsavedStep ==
    ASSUME TypeOK, Continuity, NEW c \in Calls, Pay(c), NEW k \in Keys, Unsaved(k)'
    PROVE  /\ Unsaved(k) \/ (PostAccepted(c) /\ k = req[c].key)
           /\ Save(c) => k # req[c].key
<1> Moves(c) /\ KeepsOthers(c)
    BY PayMoves, PayKeepsOthers
<1>1. PICK d \in Calls : /\ req[d].key = k
                         /\ txnId'[d] \in Posted'
                         /\ pc'[d] \in {"capture", "save"}
    BY DEF Unsaved, Moves
<1>2. CASE d # c
    <2>1. pc[d] = pc'[d] /\ txnId[d] = txnId'[d]
        BY <1>2 DEF KeepsOthers
    <2>2. txnId[d] # 0 /\ txnId[d] # txnId[c]
        BY <1>1, <1>2, <2>1 DEF Continuity, Reservations, IdsAreFresh
    <2>3. txnId[d] \in Posted
        BY <1>1, <2>1, <2>2, PostedStep
    <2>4. ASSUME Save(c), k = req[c].key PROVE FALSE
        <3>1. Working(d) /\ Working(c)
            BY <1>1, <2>1, <2>4 DEF Save, Step, Working, Labels
        <3> QED
            BY <1>1, <2>2, <2>4, <3>1 DEF Continuity, Reservations, ClaimsAreKept
    <2> QED
        BY <1>1, <2>1, <2>3, <2>4 DEF Unsaved
<1>3. CASE d = c /\ ~PostAccepted(c)
    <2>1. /\ pc[c] \in {"validate", "find", "authorize", "debit", "chargePayee", "capture"}
          /\ txnId' = txnId /\ ~Save(c)
        BY <1>1, <1>3 DEF Pay, MintId, ClaimKey, KeyTaken, Replay, Build, Acquire, Validate,
           FindAccounts, Authorize, Decline, DebitPayer, CreditPayee, SeqOfDebit,
           SeqOfCredit, PostRejected, RefundPayer, ChargePayee, Capture,
           CaptureRefused, Save, Publish, Release, Step, Failing, TypeOK, stack
    <2>2. txnId[c] \in Posted
        BY <1>1, <1>3, <2>1, PostedStep
    <2>3. pc[c] = "capture"
        BY <2>1, <2>2, HasId, NoLegsYet DEF Continuity, AfterPost
    <2> QED
        BY <1>1, <1>3, <2>1, <2>2, <2>3 DEF Unsaved
<1>4. CASE d = c /\ PostAccepted(c)
    BY <1>1, <1>4 DEF PostAccepted, Save, Step
<1> QED
    BY <1>2, <1>3, <1>4

\* What a save may leave in the store has, with the transaction it adds, a charge for each
\* capture.
LEMMA SavedIsCharged ==
    ASSUME TypeOK, Continuity, NEW c \in Calls, pc[c] = "save", NEW k \in Keys,
           NEW left, left \subseteq store \cup {TransactionOf(c)}
    PROVE  LET n == Cardinality({t \in left : t.key = k /\ t.status = "CAPTURED"})
           IN  /\ IsFiniteSet(left)
               /\ n \in Nat
               /\ n <= charged[k]
               /\ k # req[c].key => n <= Cardinality(Captures(k))
<1> DEFINE T == TransactionOf(c)
           left_k == {t \in left : t.key = k /\ t.status = "CAPTURED"}
<1>1. /\ IsFiniteSet(store) /\ charged[k] \in Nat
      /\ Cardinality(Captures(k)) + (IF Unsaved(k) THEN 1 ELSE 0) <= charged[k]
    BY DEF Continuity, ChargesFollow
<1>2. /\ IsFiniteSet(left)
      /\ IsFiniteSet(left_k) /\ Cardinality(left_k) \in Nat
      /\ IsFiniteSet(Captures(k)) /\ Cardinality(Captures(k)) \in Nat
    <2>1. IsFiniteSet(store \cup {T})
        BY <1>1, FS_AddElement
    <2>2. left_k \in SUBSET left /\ left \in SUBSET (store \cup {T})
        OBVIOUS
    <2>3. Captures(k) \in SUBSET store
        BY DEF Captures
    <2>4. IsFiniteSet(left)
        BY <2>1, <2>2, FS_Subset
    <2> HIDE DEF T, left_k
    <2>5. IsFiniteSet(left_k) /\ IsFiniteSet(Captures(k))
        BY <1>1, <2>2, <2>3, <2>4, FS_Subset
    <2> QED
        BY <2>4, <2>5, FS_CardinalityType
<1>3. T.key = req[c].key /\ T.status = status[c]
    BY DEF TransactionOf
<1>4. status[c] = "CAPTURED" => Unsaved(req[c].key)
    BY DEF Continuity, StatusFollows, Verdict, LegsFollow, Unsaved
<1>5. CASE k = req[c].key /\ status[c] = "CAPTURED"
    <2>1. /\ IsFiniteSet(Captures(k) \cup {T})
          /\ Cardinality(Captures(k) \cup {T}) <= Cardinality(Captures(k)) + 1
        BY <1>2, FS_AddElement
    <2>2. left_k \in SUBSET (Captures(k) \cup {T})
        BY DEF Captures
    <2> HIDE DEF T, left_k
    <2>3. Cardinality(left_k) <= Cardinality(Captures(k) \cup {T})
        BY <2>1, <2>2, FS_Subset
    <2>4. Cardinality(Captures(k) \cup {T}) \in Nat
        BY <2>1, FS_CardinalityType
    <2>5. Cardinality(left_k) <= charged[k]
        BY <1>1, <1>2, <1>4, <1>5, <2>1, <2>3, <2>4
    <2> QED
        BY <1>2, <1>5, <2>5 DEF left_k
<1>6. CASE ~(k = req[c].key /\ status[c] = "CAPTURED")
    <2>1. left_k \in SUBSET Captures(k)
        BY <1>3, <1>6 DEF Captures
    <2> HIDE DEF T, left_k
    <2>2. Cardinality(left_k) <= Cardinality(Captures(k))
        BY <1>2, <2>1, FS_Subset
    <2>3. Cardinality(left_k) <= charged[k]
        BY <1>1, <1>2, <2>2
    <2> QED
        BY <1>2, <2>2, <2>3 DEF left_k
<1> QED
    BY <1>5, <1>6

\* A step of a call adds a charge with a posting, and turns it into a capture on disk.
LEMMA ChargesStep ==
    ASSUME TypeOK, Continuity, NEW c \in Calls, Serve(c)
    PROVE  ChargesFollow'
<1> Pay(c) /\ Moves(c)
    BY PayMoves DEF Serve
<1> DEFINE Pending(k) == IF Unsaved(k) THEN 1 ELSE 0
           NowPending(k) == IF Unsaved(k)' THEN 1 ELSE 0
<1>1. /\ IsFiniteSet(store) /\ charged \in [Keys -> Nat]
      /\ \A k \in Keys : Cardinality(Captures(k)) + Pending(k) <= charged[k]
    BY DEF Continuity, ChargesFollow
<1>2. \A k \in Keys : Cardinality(Captures(k)) \in Nat
    <2> SUFFICES ASSUME NEW k \in Keys PROVE Cardinality(Captures(k)) \in Nat
        OBVIOUS
    <2>1. Captures(k) \in SUBSET store
        BY DEF Captures
    <2> QED
        BY <1>1, <2>1, FS_Subset, FS_CardinalityType
<1>3. req[c].key \in Keys
    BY ConstantsAssumption DEF TypeOK, PaymentRequest
<1>4. CASE PostAccepted(c)
    <2>1. journal' # journal
        BY <1>4, PostingAppends
    <2>2. /\ store' = store
          /\ charged' = [charged EXCEPT ![req[c].key] = @ + 1]
        BY <1>4, <2>1 DEF Serve, PostAccepted
    <2>3. charged' \in [Keys -> Nat]
        BY <1>1, <1>3, <2>2
    <2>4. ASSUME NEW k \in Keys
          PROVE  Cardinality(Captures(k)') + NowPending(k) <= charged'[k]
        <3>1. Captures(k)' = Captures(k)
            BY <2>2 DEF Captures
        <3>2. Unsaved(k)' => Unsaved(k) \/ k = req[c].key
            BY UnsavedStep
        <3>3. Cardinality(Captures(k)) + NowPending(k) <= charged'[k]
            BY <1>1, <1>2, <1>3, <2>2, <3>2
        <3> QED
            BY <3>1, <3>3
    <2> QED
        BY <1>1, <2>2, <2>3, <2>4 DEF ChargesFollow
<1>5. CASE Save(c)
    <2>1. /\ pc[c] = "save" /\ charged' = charged
          /\ store' \subseteq store \cup {TransactionOf(c)}
        BY <1>5 DEF Serve, Save, Step
    <2>2. ASSUME NEW k \in Keys
          PROVE  /\ IsFiniteSet(store')
                 /\ Cardinality(Captures(k)') + NowPending(k) <= charged'[k]
        <3>1. Captures(k)' = {t \in store' : t.key = k /\ t.status = "CAPTURED"}
            BY DEF Captures
        <3>2. /\ IsFiniteSet(store')
              /\ Cardinality(Captures(k)') \in Nat
              /\ Cardinality(Captures(k)') <= charged[k]
              /\ k # req[c].key => Cardinality(Captures(k)') <= Cardinality(Captures(k))
            BY <2>1, <3>1, SavedIsCharged
        <3>3. Unsaved(k)' => k # req[c].key /\ Unsaved(k)
            BY <1>5, UnsavedStep DEF Save, PostAccepted, Step
        <3> QED
            BY <1>1, <1>2, <2>1, <3>2, <3>3
    <2> QED
        BY <1>1, <1>3, <2>1, <2>2 DEF ChargesFollow
<1>6. CASE ~PostAccepted(c) /\ ~Save(c)
    <2>1. store' = store /\ journal' = journal /\ charged' = charged
        BY <1>6 DEF Moves, Serve
    <2>2. \A k \in Keys : Unsaved(k)' => Unsaved(k)
        BY <1>6, UnsavedStep
    <2>3. ASSUME NEW k \in Keys
          PROVE  Cardinality(Captures(k)') + NowPending(k) <= charged'[k]
        <3>1. Captures(k)' = Captures(k)
            BY <2>1 DEF Captures
        <3>2. Cardinality(Captures(k)) + NowPending(k) <= charged'[k]
            BY <1>1, <1>2, <2>1, <2>2
        <3> QED
            BY <3>1, <3>2
    <2> QED
        BY <1>1, <2>1, <2>3 DEF ChargesFollow
<1> QED
    BY <1>4, <1>5, <1>6

-----------------------------------------------------------------------------
\* The inductive invariant, across processes.

\* A call's step keeps it.
LEMMA ServeContinuity ==
    ASSUME TypeOK, Continuity, NEW c \in Calls, Serve(c)
    PROVE  Continuity'
<1>1. Pay(c)
    BY DEF Serve
<1>2. Reservations'
    BY <1>1, PayMoves, ReservationsStep DEF Continuity
<1>3. \A d \in Calls : StatusFollows(d)'
    BY <1>1, StatusStep DEF Continuity
<1> QED
    BY <1>1, <1>2, <1>3, LegsStep, RefusalsStep, ChargesStep DEF Continuity

\* A process that has just started has claimed, posted and refused nothing, and what it
\* finds on disk was charged for by those before it.
LEMMA CrashContinuity ==
    ASSUME TypeOK, Continuity, CrashAndRestart
    PROVE  Continuity'
<1>1. /\ pc' = [c \in Calls |-> "mint"]
      /\ txnId' = [c \in Calls |-> 0]
      /\ status' = [c \in Calls |-> "INITIATED"]
      /\ error' = [c \in Calls |-> "NONE"]
      /\ nextTxn' = 1
      /\ journal' = << >>
      /\ charged' = charged
      /\ store' \in OnDisk
    BY DEF CrashAndRestart
<1>2. Reservations'
    BY <1>1 DEF Reservations, IdsAreFresh, ClaimsAreKept, LocksAreKept,
       PostedByItsClaimant, DebitedOnce, Working, Critical
<1>3. \A c \in Calls : StatusFollows(c)'
    BY <1>1 DEF StatusFollows, Unapproved, Approved, Compensating
<1>4. Posted' = {} /\ LegsFollow' /\ RefusalsFollow'
    BY <1>1 DEF LegsFollow, RefusalsFollow, Posted
<1>5. ChargesFollow'
    <2>1. \A k \in Keys : ~Unsaved(k)'
        BY <1>4 DEF Unsaved
    <2>2. charged \in [Keys -> Nat]
        BY DEF Continuity, ChargesFollow
    <2>3. ASSUME NEW k \in Keys
          PROVE  Captures(k)' = {t \in store' : t.key = k /\ t.status = "CAPTURED"}
        BY DEF Captures
    <2>4. CASE store' = store
        <3>1. ASSUME NEW k \in Keys PROVE Cardinality(Captures(k)') <= charged[k]
            <4>1. Captures(k)' = Captures(k) /\ Captures(k) \in SUBSET store
                BY <2>4 DEF Captures
            <4>2. Cardinality(Captures(k)) \in Nat
                BY <4>1, FS_Subset, FS_CardinalityType DEF Continuity, ChargesFollow
            <4>3. Cardinality(Captures(k)) <= charged[k]
                BY <2>2, <4>2 DEF Continuity, ChargesFollow
            <4> QED
                BY <4>1, <4>3
        <3>2. \A k \in Keys : Cardinality(Captures(k)') \in Nat
            <4> SUFFICES ASSUME NEW k \in Keys PROVE Cardinality(Captures(k)') \in Nat
                OBVIOUS
            <4>1. Captures(k)' \in SUBSET store
                BY <2>4 DEF Captures
            <4> QED
                BY <4>1, FS_Subset, FS_CardinalityType DEF Continuity, ChargesFollow
        <3>3. IsFiniteSet(store')
            BY <2>4 DEF Continuity, ChargesFollow
        <3> QED
            BY <1>1, <2>1, <2>2, <3>1, <3>2, <3>3 DEF ChargesFollow
    <2>5. ASSUME NEW c \in Calls, pc[c] = "save", store' \subseteq store \cup {TransactionOf(c)}
          PROVE  ChargesFollow'
        <3>1. ASSUME NEW k \in Keys
              PROVE  /\ IsFiniteSet(store')
                     /\ Cardinality(Captures(k)') \in Nat
                     /\ Cardinality(Captures(k)') <= charged[k]
            BY <2>3, <2>5, SavedIsCharged
        <3>2. req[c].key \in Keys
            BY ConstantsAssumption DEF TypeOK, PaymentRequest
        <3> QED
            BY <1>1, <2>1, <2>2, <3>1, <3>2 DEF ChargesFollow
    <2> QED
        BY <1>1, <2>4, <2>5, LeftOnDisk
<1> QED
    BY <1>2, <1>3, <1>4, <1>5 DEF Continuity

LEMMA InitContinuity == RestartInit => Continuity
<1> SUFFICES ASSUME RestartInit PROVE Continuity
    OBVIOUS
<1>1. Reservations /\ \A c \in Calls : StatusFollows(c)
    BY InitOwnership, InitBookkeeping DEF RestartInit, Ownership, Bookkeeping
<1>2. LegsFollow /\ RefusalsFollow
    BY DEF RestartInit, Init, LegsFollow, RefusalsFollow
<1>3. \A k \in Keys : Captures(k) = {} /\ ~Unsaved(k)
    BY DEF RestartInit, Init, Captures, Unsaved
<1>4. ChargesFollow
    <2>1. \A k \in Keys : Cardinality(Captures(k)) = 0
        BY <1>3, FS_EmptySet, Zenon
    <2>2. IsFiniteSet(store)
        BY FS_EmptySet DEF RestartInit, Init
    <2>3. charged = [k \in Keys |-> 0]
        BY DEF RestartInit
    <2> QED
        BY <1>3, <2>1, <2>2, <2>3 DEF ChargesFollow
<1> QED
    BY <1>1, <1>2, <1>4 DEF Continuity

\* In every process calls hold their reservations, and each capture on disk, and each
\* about to be, has a charge of its own: however often and wherever the process dies.
THEOREM ContinuityHolds == RestartSpec => []Continuity
<1>1. TypeOK /\ Continuity /\ [RestartNext]_rvars => Continuity'
    <2> SUFFICES ASSUME TypeOK, Continuity, [RestartNext]_rvars PROVE Continuity'
        OBVIOUS
    <2>1. CASE UNCHANGED rvars
        BY <2>1 DEF rvars, vars, stack, shared, Continuity, Reservations, IdsAreFresh,
           ClaimsAreKept, LocksAreKept, PostedByItsClaimant, DebitedOnce, Working,
           StatusFollows, Verdict, LegsFollow, RefusalsFollow, Strategy, ChargesFollow,
           Captures, Unsaved, Posted
    <2> QED
        BY <2>1, RestartSteps, ServeContinuity, CrashContinuity
<1> QED
    BY <1>1, InitContinuity, RestartTypes, PTL DEF RestartSpec

-----------------------------------------------------------------------------
\* What follows.

\* No capture is on disk that nobody was charged for, however often and wherever the
\* process dies and whatever was refused and compensated.
THEOREM NoCaptureUncharged == RestartSpec => []CapturedWasCharged
<1>1. Continuity => CapturedWasCharged
    <2> SUFFICES ASSUME Continuity, NEW k \in Keys
                 PROVE  Cardinality({t \in store : t.key = k /\ t.status = "CAPTURED"})
                          <= charged[k]
        BY DEF CapturedWasCharged
    <2>1. Captures(k) \in SUBSET store
        BY DEF Captures
    <2>2. Cardinality(Captures(k)) \in Nat
        BY <2>1, FS_Subset, FS_CardinalityType DEF Continuity, ChargesFollow
    <2>3. Cardinality(Captures(k)) <= charged[k]
        BY <2>2 DEF Continuity, ChargesFollow
    <2> QED
        BY <2>3 DEF Captures
<1> QED
    BY <1>1, ContinuityHolds, PTL

\* The one failure that leaves its legs in the journal is a refused capture.
THEOREM OtherFailuresGiveBack == RestartSpec => []OnlyRefusedCapturesKeepTheMoney
<1>1. TypeOK /\ Continuity => OnlyRefusedCapturesKeepTheMoney
    <2> SUFFICES ASSUME TypeOK, Continuity, NEW c \in Calls,
                        status[c] = "FAILED", txnId[c] \in Posted
                 PROVE  error[c] \in Strategy(c).capture \ {"NONE"}
        BY DEF OnlyRefusedCapturesKeepTheMoney
    <2>1. error[c] # "NONE"
        BY DEF TypeOK, Labels, Continuity, StatusFollows, Verdict, Unapproved, Approved,
           Compensating
    <2> QED
        BY <2>1 DEF Continuity, RefusalsFollow
<1> QED
    BY <1>1, ContinuityHolds, RestartTypes, PTL

LEMMA CrashesAreCounted == RestartSpec => [](crashes \in Nat)
<1> DEFINE Counted == crashes \in Nat
<1>1. RestartInit => Counted
    BY DEF RestartInit
<1>2. Counted /\ [RestartNext]_rvars => Counted'
    BY RestartSteps DEF Serve, CrashAndRestart, rvars
<1> HIDE DEF Counted
<1>3. RestartSpec => []Counted
    BY <1>1, <1>2, PTL DEF RestartSpec
<1> QED
    BY <1>3 DEF Counted

\* While a process lives, no save of it replaces what another call of it has saved.
THEOREM OwnSavesAreSafe == RestartSpec => OwnSavesStay
<1> DEFINE Stays == crashes' = crashes =>
                        \A t \in store \ store' :
                            \A c \in OwnersOf(t.id) : pc[c] \notin AfterSave
<1>1. TypeOK /\ Continuity /\ crashes \in Nat /\ [RestartNext]_rvars => [Stays]_rvars
    <2> SUFFICES ASSUME TypeOK, Continuity, crashes \in Nat, [RestartNext]_rvars,
                        crashes' = crashes,
                        NEW t \in store, t \notin store',
                        NEW d \in OwnersOf(t.id), pc[d] \in AfterSave
                 PROVE  FALSE
        BY Zenon
    <2>1. ~CrashAndRestart
        BY DEF CrashAndRestart
    <2>2. PICK c \in Calls : Pay(c)
        BY <2>1, RestartSteps DEF Serve, rvars, vars, shared
    <2>3. Save(c)
        BY <2>2, PayMoves DEF Moves
    <2>4. t.id = txnId[c] /\ pc[c] = "save"
        BY <2>3 DEF Save, Find, Step
    <2>5. d = c
        BY <2>4 DEF OwnersOf, Continuity, Reservations, IdsAreFresh
    <2> QED
        BY <2>4, <2>5 DEF AfterSave
<1> QED
    BY <1>1, ContinuityHolds, RestartTypes, CrashesAreCounted, PTL DEF RestartSpec, OwnSavesStay

-----------------------------------------------------------------------------
\* The money.

\* Every process starts with the money the accounts opened with, and none on its way.
LEMMA StartFunds ==
    ASSUME IsFiniteSet(Calls)
    PROVE  /\ RestartInit => FundsFollow /\ CompensationAccounted
           /\ CrashAndRestart => FundsFollow' /\ CompensationAccounted'
<1>1. \A a \in Accounts : a \in Ids /\ Opening[a].minor \in Int
    BY ConstantsAssumption DEF Ids, Money
<1>2. RestartInit => FundsFollow
    BY InitFunds DEF RestartInit
<1>3. CrashAndRestart => FundsFollow'
    BY DEF CrashAndRestart, FundsFollow, Moving, OwesPayer, OwesPayee
<1>4. ASSUME RestartInit, NEW a \in Accounts
      PROVE  balance[a].minor = Opening[a].minor + DerivedNet(journal, a) + InFlight(a)
                                  + discarded[a]
    <2> DEFINE f == [c \in Calls |-> Moved(c, a)]
    <2>1. f \in [Calls -> {0}]
        BY <1>4 DEF RestartInit, Init, Moved, OwesPayer, OwesPayee
    <2>2. InFlight(a) = SumFunction(f)
        BY DEF InFlight
    <2> HIDE DEF f
    <2>3. InFlight(a) = 0
        BY <2>1, <2>2, SumOfZeros
    <2>4. DerivedNet(journal, a) = 0
        BY <1>4, NetOfNothing DEF RestartInit, Init
    <2>5. balance[a] = Opening[a] /\ discarded[a] = 0
        BY <1>1, <1>4 DEF RestartInit, Init
    <2> QED
        BY <1>1, <2>3, <2>4, <2>5
<1>5. ASSUME CrashAndRestart, NEW a \in Accounts
      PROVE  balance'[a].minor = Opening[a].minor + DerivedNet(journal', a) + InFlight(a)'
                                   + discarded'[a]
    <2> DEFINE f == [c \in Calls |-> Moved(c, a)']
    <2>1. f \in [Calls -> {0}]
        BY <1>5 DEF CrashAndRestart, Moved, OwesPayer, OwesPayee
    <2>2. InFlight(a)' = SumFunction(f)
        BY DEF InFlight
    <2> HIDE DEF f
    <2>3. InFlight(a)' = 0
        BY <2>1, <2>2, SumOfZeros
    <2>4. DerivedNet(journal', a) = 0
        BY <1>5, NetOfNothing DEF CrashAndRestart
    <2>5. balance'[a] = Opening[a] /\ discarded'[a] = 0
        BY <1>1, <1>5 DEF CrashAndRestart
    <2> QED
        BY <1>1, <2>3, <2>4, <2>5
<1> QED
    BY <1>2, <1>3, <1>4, <1>5 DEF CompensationAccounted

\* A step of a call moves an account's money as it moves the account's share of the
\* journal, of what is on its way and of what was discarded.
LEMMA ServeAccounted ==
    ASSUME IsFiniteSet(Calls), TypeOK, FundsFollow, CompensationAccounted,
           discarded \in [Ids -> Int], NEW c \in Calls, Serve(c)
    PROVE  discarded' \in [Ids -> Int] /\ CompensationAccounted'
<1>1. /\ Pay(c)
      /\ discarded' = [discarded EXCEPT ![req[c].payee] = @ + Discards(c)]
    BY DEF Serve
<1>2. req[c].payee \in Ids
    BY ConstantsAssumption DEF TypeOK, PaymentRequest
<1>3. Discards(c) \in Int
    <2>1. req[c].amount.minor \in Int
        BY ConstantsAssumption DEF TypeOK, PaymentRequest, Money
    <2> QED
        BY <2>1 DEF Discards
<1>4. discarded' \in [Ids -> Int]
    BY <1>1, <1>2, <1>3
<1>5. ASSUME NEW a \in Accounts
      PROVE  balance'[a].minor = Opening[a].minor + DerivedNet(journal', a) + InFlight(a)'
                                   + discarded'[a]
    <2> DEFINE lost == IF req[c].payee = a THEN Discards(c) ELSE 0
    <2>1. /\ balance[a].minor \in Int /\ balance'[a].minor \in Int
          /\ DerivedNet(journal, a) \in Int /\ DerivedNet(journal', a) \in Int
          /\ balance'[a].minor - balance[a].minor
                = DerivedNet(journal', a) - DerivedNet(journal, a)
                    + Moved(c, a)' - Moved(c, a) + lost
        BY <1>1, BalanceStep
    <2>2. /\ InFlight(a) \in Int
          /\ Moved(c, a) \in Int /\ Moved(c, a)' \in Int
          /\ InFlight(a)' = InFlight(a) + Moved(c, a)' - Moved(c, a)
        BY <1>1, InFlightStep
    <2>3. /\ Opening[a].minor \in Int
          /\ balance[a].minor = Opening[a].minor + DerivedNet(journal, a) + InFlight(a)
                                   + discarded[a]
        BY ConstantsAssumption DEF CompensationAccounted, Money
    <2>4. /\ lost \in Int /\ discarded[a] \in Int
          /\ discarded'[a] = discarded[a] + lost
        BY <1>1, <1>2, <1>3 DEF Ids
    <2> HIDE DEF lost
    <2> QED
        BY <2>1, <2>2, <2>3, <2>4
<1> QED
    BY <1>4, <1>5 DEF CompensationAccounted

\* Whatever a provider, the ledger and the discarded Statuses do, and however often the
\* process dies: live balances and journal differ by what is under way and by what the
\* discarded Statuses have cost, and by nothing else.
THEOREM MoneyIsAccounted ==
    ASSUME IsFiniteSet(Calls)
    PROVE  RestartSpec => []CompensationAccounted
<1> DEFINE Inv == FundsFollow /\ discarded \in [Ids -> Int] /\ CompensationAccounted
<1>1. RestartInit => Inv
    BY StartFunds DEF RestartInit
<1>2. TypeOK /\ Inv /\ [RestartNext]_rvars => Inv'
    <2> SUFFICES ASSUME TypeOK, Inv, [RestartNext]_rvars PROVE Inv'
        OBVIOUS
    <2>1. ASSUME NEW c \in Calls, Serve(c) PROVE Inv'
        BY <2>1, FundsStep, ServeAccounted DEF Serve
    <2>2. CASE CrashAndRestart
        <3>1. discarded' \in [Ids -> Int]
            BY <2>2 DEF CrashAndRestart
        <3> QED
            BY <2>2, <3>1, StartFunds
    <2>3. CASE UNCHANGED rvars
        <3>1. UNCHANGED <<req, pc, balance, journal, discarded>>
            BY <2>3 DEF rvars, vars, stack, shared
        <3>2. \A a : InFlight(a)' = InFlight(a)
            BY <3>1 DEF InFlight, Moved
        <3> QED
            BY <3>1, <3>2 DEF FundsFollow, CompensationAccounted
    <2> QED
        BY <2>1, <2>2, <2>3, RestartSteps
<1>3. Inv => CompensationAccounted
    OBVIOUS
<1> HIDE DEF Inv
<1> QED
    BY <1>1, <1>2, <1>3, RestartTypes, PTL DEF RestartSpec
=============================================================================
