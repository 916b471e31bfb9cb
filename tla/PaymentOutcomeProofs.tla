------------------------- MODULE PaymentOutcomeProofs --------------------------
(***************************************************************************)
(* What pay() leaves behind: that for every set of calls, every validation *)
(* chain and whatever providers and ledger answer, the store, the journal, *)
(* the events and the answers to the callers tell one story.               *)
(***************************************************************************)
EXTENDS PaymentServiceProofs

-----------------------------------------------------------------------------
\* The inductive invariants about the money.

\* Where a call has taken its payer's money.
Moving == OwesPayer \cup OwesPayee

\* At every moment an account keeps its currency, a call that moves money moves it
\* between accounts there are, and one that has taken it from its payer could take it.
FundsFollow ==
    /\ \A a \in Accounts : balance[a].ccy = Opening[a].ccy
    /\ \A c \in Calls : pc[c] \in {"authorize", "debit"} \cup Moving =>
                            {req[c].payer, req[c].payee} \subseteq Accounts
    /\ \A c \in Calls : pc[c] \in Moving => /\ ~IsNegative(req[c].amount)
                                            /\ SameCcy(req[c].amount, Opening[req[c].payer])

\* What a call took from its payer and has not yet given to its payee; and all there is.
Carried(c, ccy) ==
    IF pc[c] = "credit" /\ req[c].amount.ccy = ccy THEN req[c].amount.minor ELSE 0
Held(ccy) == SumFunction([a \in HoldersOf(ccy) |-> balance[a].minor])
               + SumFunction([c \in Calls |-> Carried(c, ccy)])

\* Without refusals of the ledger, the accounts of a currency and the calls hold no more
\* of it than it has, and an amount that was once taken from an account was there.
SupplyFollows ==
    /\ \A ccy \in Currency : Held(ccy) <= Supply(ccy)
    /\ \A c \in Calls : pc[c] \notin Compensating
    /\ \A c \in Calls : pc[c] \in {"find", "authorize", "debit"} \cup Moving =>
                            IsPositive(req[c].amount)
    /\ \A c \in Calls : pc[c] \in Moving => req[c].amount.minor <= Supply(req[c].amount.ccy)
    /\ \A i \in DOMAIN journal :
          LET leg == journal[i].amount IN leg.minor \in 1..Supply(leg.ccy)

\* The calls of a race that have debited the wallet.
Took(c) ==
    pc[c] \in {"credit", "seqDebit", "seqCredit", "post", "capture"} \/ status[c] = "CAPTURED"

\* Who has no claim yet finds none under its id.
ClaimsAreOthers ==
    \A c \in Calls, k \in Keys :
        pc[c] \in {"mint", "claim", "replay"} /\ claimed[k] # 0 => claimed[k] # txnId[c]

\* What c asks for makes neither the Builder nor the chain throw.
CannotThrow(c) == NoId \notin {req[c].payer, req[c].payee} /\ Run(Chain, req[c]) # Thrown

\* ... and who has asked for one finds it taken, by another unless it made a transaction.
ClaimsFollow ==
    /\ ClaimsAreOthers
    /\ \A c \in Calls : pc[c] \notin {"mint", "claim"} => claimed[req[c].key] # 0
    /\ \A c \in Calls :
          CannotThrow(c) /\ pc[c] \in {"release", "done"} /\ status[c] = "INITIATED"
          => claimed[req[c].key] # txnId[c]

\* Where nothing but funds decides, what is left in the wallet is what it opened with less
\* what the calls took, and a call fails only when that is not enough for another.
RaceFollows ==
    /\ Existing \subseteq opened
    /\ ClaimsFollow
    /\ \A c \in Calls : Racing(c) =>
          LET left   == balance[req[c].payer].minor
              amount == req[c].amount.minor
          IN  /\ left = Opening[req[c].payer].minor
                          - amount * Cardinality({d \in Calls : Took(d)})
              /\ \A d \in Calls : status[d] = "FAILED" => left < amount

-----------------------------------------------------------------------------
\* The log.

\* Only publish() adds to the log, and until it does a call has not ended; from then on
\* the call's transaction is what it was.
LEMMA EndedStep ==
    ASSUME TypeOK, Bookkeeping, NEW c \in Calls, Pay(c)
    PROVE  /\ ~Publish(c) => log' = log
           /\ \A d \in Calls : Served(d) => /\ Served(d)'
                                           /\ txnId'[d] = txnId[d]
                                           /\ status'[d] = status[d]
                                           /\ error'[d] = error[d]
           /\ \A d \in Calls : Served(d)' => Served(d) \/ (d = c /\ Publish(c))
<1>1. ASSUME NEW d \in Calls, d # c
      PROVE  /\ Served(d) <=> Served(d)'
             /\ txnId'[d] = txnId[d] /\ status'[d] = status[d] /\ error'[d] = error[d]
    BY <1>1, PayKeepsOthers DEF KeepsOthers, Served
<1> USE DEF TypeOK, Served, Step, Failing, stack, shared
<1>2. CASE Publish(c)
    BY <1>1, <1>2 DEF Publish
<1>3. CASE Release(c)
    BY <1>1, <1>3 DEF Release
<1>4. CASE Replay(c) \/ Build(c) \/ Validate(c)
    <2>1. /\ pc[c] \in {"replay", "build", "validate"} /\ log' = log
          /\ pc'[c] \in {"release", "done"} => status' = status
        BY <1>4 DEF Replay, Build, Validate
    <2>2. status[c] = "INITIATED"
        BY <2>1 DEF Bookkeeping, StatusFollows, Unapproved
    <2> QED
        BY <1>1, <2>1, <2>2
<1>5. CASE ~(Publish(c) \/ Release(c) \/ Replay(c) \/ Build(c) \/ Validate(c))
    <2>1. /\ log' = log
          /\ pc[c] \notin {"release", "done"} /\ pc'[c] \notin {"release", "done"}
        BY <1>5 DEF Pay, MintId, ClaimKey, KeyTaken, Acquire, FindAccounts, Authorize,
           Decline, DebitPayer, CreditPayee, SeqOfDebit, SeqOfCredit, PostAccepted,
           PostRejected, RefundPayer, ChargePayee, Capture, CaptureRefused, Save
    <2> QED
        BY <1>1, <2>1
<1> QED
    BY <1>2, <1>3, <1>4, <1>5

\* A call that publishes appends the event of its own transaction.
LEMMA PublishAppends ==
    ASSUME TypeOK, Bookkeeping, NEW c \in Calls, Publish(c)
    PROVE  /\ Len(log) \in Nat
           /\ DOMAIN log = 1..Len(log)
           /\ DOMAIN log' = 1..(Len(log) + 1)
           /\ \A i \in 1..Len(log) : log'[i] = log[i]
           /\ log'[Len(log) + 1].txn = txnId[c]
           /\ log'[Len(log) + 1].status = status[c]
           /\ log'[Len(log) + 1].type = IF error[c] = "NONE" THEN "PaymentCaptured"
                                                            ELSE "PaymentFailed"
           /\ Served(c)'
           /\ UNCHANGED <<txnId, status, error>>
<1>1. /\ pc[c] = "publish" /\ pc'[c] = "release" /\ UNCHANGED <<txnId, status, error>>
    BY DEF Publish, Step, TypeOK
<1>2. status[c] # "INITIATED"
    BY <1>1 DEF Bookkeeping, StatusFollows, Verdict
<1>3. log \in Seq(DomainEvent)
    BY DEF TypeOK
<1> DEFINE event == [type |-> IF error[c] = "NONE" THEN "PaymentCaptured"
                                                   ELSE "PaymentFailed",
                     txn |-> txnId[c], status |-> status[c]]
<1>4. log' = Append(log, event)
    BY DEF Publish
<1>5. /\ event.txn = txnId[c] /\ event.status = status[c]
      /\ event.type = IF error[c] = "NONE" THEN "PaymentCaptured" ELSE "PaymentFailed"
    OBVIOUS
<1> HIDE DEF event
<1>6. /\ Len(log) \in Nat
      /\ DOMAIN log = 1..Len(log)
      /\ DOMAIN log' = 1..(Len(log) + 1)
      /\ \A i \in 1..Len(log) : log'[i] = log[i]
      /\ log'[Len(log) + 1] = event
    BY <1>3, <1>4
<1> QED
    BY <1>1, <1>2, <1>5, <1>6 DEF Served

LEMMA EventsStep ==
    ASSUME TypeOK, Ownership, Bookkeeping, EventsFollow, NEW c \in Calls, Pay(c)
    PROVE  EventsFollow'
<1>1. CASE Publish(c)
    <2> DEFINE n == Len(log) + 1
    <2>1. /\ Len(log) \in Nat /\ DOMAIN log = 1..Len(log)
          /\ DOMAIN log' = 1..n
          /\ \A i \in 1..Len(log) : log'[i] = log[i]
          /\ log'[n].txn = txnId[c] /\ log'[n].status = status[c]
          /\ log'[n].type = IF error[c] = "NONE" THEN "PaymentCaptured" ELSE "PaymentFailed"
          /\ Served(c)' /\ UNCHANGED <<txnId, status, error>>
        BY <1>1, PublishAppends
    <2>2. pc[c] = "publish" /\ ~Served(c) /\ txnId[c] # 0
        BY <1>1 DEF Publish, Step, Served, Ownership, Reservations, IdsAreFresh
    <2>3. ASSUME NEW i \in DOMAIN log PROVE log[i].txn # txnId[c]
        <3>1. PICK d \in Calls : Served(d) /\ log[i].txn = txnId[d]
            BY DEF EventsFollow
        <3>2. d # c
            BY <2>2, <3>1
        <3> QED
            BY <2>2, <3>1, <3>2 DEF Ownership, Reservations, IdsAreFresh
    <2>4. \A i \in DOMAIN log' : i \in DOMAIN log \/ i = n
        BY <2>1
    <2> HIDE DEF n
    <2>5. ASSUME NEW i \in DOMAIN log'
          PROVE  \E d \in Calls : /\ Served(d)'
                                  /\ log'[i].txn = txnId'[d]
                                  /\ log'[i].status = status'[d]
                                  /\ log'[i].type = IF error'[d] = "NONE"
                                                    THEN "PaymentCaptured" ELSE "PaymentFailed"
        <3>1. CASE i \in DOMAIN log
            <4>1. PICK d \in Calls : /\ Served(d)
                                     /\ log[i].txn = txnId[d]
                                     /\ log[i].status = status[d]
                                     /\ log[i].type = IF error[d] = "NONE"
                                                      THEN "PaymentCaptured"
                                                      ELSE "PaymentFailed"
                BY <3>1 DEF EventsFollow
            <4> QED
                BY <2>1, <3>1, <4>1, EndedStep
        <3>2. CASE i = n
            BY <2>1, <3>2
        <3> QED
            BY <2>4, <2>5, <3>1, <3>2
    <2>6. \A i, j \in DOMAIN log' : log'[i].txn = log'[j].txn => i = j
        BY <2>1, <2>3, <2>4 DEF EventsFollow
    <2>7. ASSUME NEW d \in Calls, Served(d)' PROVE \E i \in DOMAIN log' : log'[i].txn = txnId'[d]
        <3>1. CASE d = c
            <4>1. n \in DOMAIN log'
                BY <2>1 DEF n
            <4> QED
                BY <2>1, <3>1, <4>1
        <3>2. CASE d # c
            <4>1. PICK i \in DOMAIN log : log[i].txn = txnId[d]
                BY <2>7, <3>2, EndedStep DEF EventsFollow
            <4>2. i \in DOMAIN log' /\ log'[i] = log[i]
                BY <2>1, <4>1 DEF n
            <4> QED
                BY <2>1, <4>1, <4>2
        <3> QED
            BY <3>1, <3>2
    <2> QED
        BY <2>5, <2>6, <2>7 DEF EventsFollow
<1>2. CASE ~Publish(c)
    <2>1. /\ log' = log
          /\ \A d \in Calls : Served(d) <=> Served(d)'
          /\ \A d \in Calls : Served(d) => /\ txnId'[d] = txnId[d] /\ status'[d] = status[d]
                                          /\ error'[d] = error[d]
        BY <1>2, EndedStep
    <2> HIDE DEF Served
    <2>2. ASSUME NEW i \in DOMAIN log
          PROVE  \E d \in Calls : /\ Served(d)'
                                  /\ log[i].txn = txnId'[d]
                                  /\ log[i].status = status'[d]
                                  /\ log[i].type = IF error'[d] = "NONE"
                                                   THEN "PaymentCaptured" ELSE "PaymentFailed"
        BY <2>1, <2>2 DEF EventsFollow
    <2>3. \A d \in Calls : Served(d)' => \E i \in DOMAIN log : log[i].txn = txnId'[d]
        BY <2>1 DEF EventsFollow
    <2> QED
        BY <2>1, <2>2, <2>3 DEF EventsFollow
<1> QED
    BY <1>1, <1>2

-----------------------------------------------------------------------------
\* The answers.

\* What is found of an id does not change once there is something.
LEMMA FindStays ==
    ASSUME TypeOK, Ownership, NEW c \in Calls, Moves(c), NEW id,
           {t \in store : t.id = id} # {}
    PROVE  {t \in store' : t.id = id} = {t \in store : t.id = id}
BY FindStep DEF Find

LEMMA AnswersStep ==
    ASSUME TypeOK, Ownership, Bookkeeping, AnswersFollow, NEW c \in Calls, Pay(c)
    PROVE  AnswersFollow'
<1> Moves(c) /\ KeepsOthers(c)
    BY PayMoves, PayKeepsOthers
<1>1. req' = req /\ \A d \in Calls : req[d].key \in Keys
    BY ConstantsAssumption DEF Moves, TypeOK, PaymentRequest
<1>2. SUFFICES ASSUME NEW d \in Calls, outcome'[d].tag = "ok"
               PROVE  /\ claimed'[req[d].key] # 0
                      /\ outcome'[d].value = {t \in store' : t.id = claimed'[req[d].key]}
                      /\ outcome'[d].value # {}
    BY <1>1 DEF AnswersFollow, Find
<1>3. CASE outcome'[d] = outcome[d]
    <2>1. /\ claimed[req[d].key] # 0
          /\ outcome[d].value = {t \in store : t.id = claimed[req[d].key]}
          /\ outcome[d].value # {}
        BY <1>2, <1>3 DEF AnswersFollow, Find
    <2>2. claimed'[req[d].key] = claimed[req[d].key]
        BY <1>1, <2>1, ClaimsStep DEF Ownership
    <2>3. {t \in store' : t.id = claimed[req[d].key]} = {t \in store : t.id = claimed[req[d].key]}
        BY <2>1, FindStays
    <2> QED
        BY <1>3, <2>1, <2>2, <2>3
<1>4. CASE outcome'[d] # outcome[d]
    <2>1. d = c /\ outcome' # outcome
        BY <1>4 DEF KeepsOthers
    <2>2. Replay(c) \/ Build(c) \/ Validate(c) \/ Publish(c)
        BY <2>1 DEF Pay, MintId, ClaimKey, KeyTaken, Acquire, FindAccounts, Authorize,
           Decline, DebitPayer, CreditPayee, SeqOfDebit, SeqOfCredit, PostAccepted,
           PostRejected, RefundPayer, ChargePayee, Capture, CaptureRefused, Save, Release,
           Failing, stack
    <2>3. UNCHANGED <<claimed, store>>
        BY <2>1, AnswerIsTrue
    <2>4. CASE Replay(c)
        <3> DEFINE prior == Find(claimed[req[c].key])
        <3>1. claimed[req[c].key] # 0
            BY <2>4 DEF Replay, Step, Bookkeeping, AnswerFollows
        <3>2. IF prior # {} THEN Return(c, "ok", "NONE", prior)
                            ELSE Return(c, "err", "DUPLICATE_REQUEST", {})
            BY <2>4, Zenon DEF Replay
        <3>3. prior # {} /\ outcome'[c].value = prior
            BY <1>2, <2>1, <3>2 DEF Return, TypeOK
        <3> QED
            BY <2>1, <2>3, <3>1, <3>3 DEF Find
    <2>5. CASE Publish(c)
        <3>1. IF error[c] = "NONE" THEN Return(c, "ok", "NONE", {TransactionOf(c)})
                                   ELSE Return(c, "err", error[c], {})
            BY <2>5, Zenon DEF Publish
        <3>2. outcome'[c].value = {TransactionOf(c)}
            BY <1>2, <2>1, <3>1 DEF Return, TypeOK
        <3>3. pc[c] = "publish"
            BY <2>5 DEF Publish, Step
        <3>4. /\ Find(txnId[c]) = {TransactionOf(c)}
              /\ claimed[req[c].key] = txnId[c] /\ txnId[c] # 0
            BY <3>3 DEF Bookkeeping, StatusFollows, Verdict, MoneyFollows, AfterSave,
               Ownership, Reservations, ClaimsAreKept, IdsAreFresh, Working, Labels
        <3> QED
            BY <2>1, <2>3, <3>2, <3>4 DEF Find
    <2>6. ~Build(c) /\ ~Validate(c)
        BY <1>2, <2>1, <1>4 DEF Build, Validate, Return, Failing, TypeOK
    <2> QED
        BY <2>2, <2>4, <2>5, <2>6
<1> QED
    BY <1>3, <1>4

-----------------------------------------------------------------------------
\* The order of the debits.

\* Sequence numbers are handed out upwards, and a call that has its pair keeps it.
LEMMA NumbersStep ==
    ASSUME TypeOK, NEW c \in Calls, Pay(c)
    PROVE  /\ nextSeq \in Nat /\ nextSeq' \in Nat /\ nextSeq <= nextSeq'
           /\ SeqOfDebit(c) => seqs'[c].debit = nextSeq /\ nextSeq < nextSeq'
           /\ \A d \in Calls : Numbered(d)' =>
                 \/ Numbered(d) /\ seqs'[d].debit = seqs[d].debit
                 \/ d = c /\ SeqOfDebit(c)
<1>1. ASSUME NEW d \in Calls, d # c, Numbered(d)'
      PROVE  Numbered(d) /\ seqs'[d].debit = seqs[d].debit
    BY <1>1, PayKeepsOthers DEF KeepsOthers, Numbered
<1> USE DEF TypeOK, Numbered, Step, Failing, stack, shared
<1>2. CASE SeqOfDebit(c)
    <2>1. /\ nextSeq \in Nat /\ nextSeq' = nextSeq + 1
          /\ seqs \in [Calls -> [debit: Nat, credit: Nat]]
          /\ seqs' = [seqs EXCEPT ![c].debit = nextSeq]
        BY <1>2 DEF SeqOfDebit
    <2>2. seqs'[c].debit = nextSeq
        BY <2>1, SMTT(30)
    <2> QED
        BY <1>1, <1>2, <2>1, <2>2
<1>3. CASE SeqOfCredit(c)
    <2>1. /\ nextSeq \in Nat /\ nextSeq' = nextSeq + 1 /\ pc[c] = "seqCredit"
          /\ seqs \in [Calls -> [debit: Nat, credit: Nat]]
          /\ seqs' = [seqs EXCEPT ![c].credit = nextSeq]
        BY <1>3 DEF SeqOfCredit
    <2>2. seqs'[c].debit = seqs[c].debit
        BY <2>1, SMTT(30)
    <2>3. ~SeqOfDebit(c)
        BY <2>1 DEF SeqOfDebit
    <2> QED
        BY <1>1, <2>1, <2>2, <2>3
<1>4. CASE ~SeqOfDebit(c) /\ ~SeqOfCredit(c)
    <2>1. nextSeq' = nextSeq /\ seqs' = seqs /\ ~Numbered(c)'
        BY <1>4 DEF Pay, MintId, ClaimKey, KeyTaken, Replay, Build, Acquire, Validate,
           FindAccounts, Authorize, Decline, DebitPayer, CreditPayee, PostAccepted,
           PostRejected, RefundPayer, ChargePayee, Capture, CaptureRefused, Save, Publish,
           Release
    <2> QED
        BY <1>1, <1>4, <2>1
<1> QED
    BY <1>2, <1>3, <1>4

\* The debit that an accepted posting adds is the payer's, under the number taken for it;
\* the rest of the journal's debits are those it had.
LEMMA DebitAdded ==
    ASSUME TypeOK, NEW c \in Calls, PostAccepted(c)
    PROVE  LET n == Len(journal) + 1
           IN  /\ n \in DOMAIN journal' /\ n \notin DOMAIN journal
               /\ \A i \in DOMAIN journal : /\ i \in DOMAIN journal' /\ i < n
                                             /\ journal'[i] = journal[i]
               /\ journal'[n].account = req[c].payer
               /\ journal'[n].seq = seqs[c].debit
               /\ \A i \in DOMAIN journal' : journal'[i].dir = "DEBIT" =>
                     i \in DOMAIN journal \/ i = n
<1>1. Posting(c)[1].account = req[c].payer /\ Posting(c)[1].seq = seqs[c].debit
    BY DEF Posting, Entry
<1>2. Posting(c)[2].dir = "CREDIT"
    BY PostingLegs
<1> DEFINE n == Len(journal) + 1
<1>3. /\ Len(journal) \in Nat
      /\ DOMAIN journal = 1..Len(journal)
      /\ DOMAIN journal' = 1..(Len(journal) + 2)
      /\ \A i \in 1..Len(journal) : journal'[i] = journal[i]
      /\ journal'[n] = Posting(c)[1]
      /\ journal'[Len(journal) + 2] = Posting(c)[2]
    BY PostingAppends
<1>4. \A i \in DOMAIN journal' : i \in DOMAIN journal \/ i = n \/ i = Len(journal) + 2
    BY <1>3
<1> QED
    BY <1>1, <1>2, <1>3, <1>4, "DEBIT" # "CREDIT"

\* The number a call takes for a debit is beyond all there are, and no other call has
\* taken one for the same payer when it posts.
LEMMA DebitsStep ==
    ASSUME TypeOK, Ownership, DebitsFollow, NEW c \in Calls, Pay(c)
    PROVE  DebitsFollow'
<1> Moves(c)
    BY PayMoves
<1>1. /\ req' = req
      /\ \A d \in Calls : seqs[d].debit \in Nat
      /\ \A i \in DOMAIN journal : journal[i].seq \in Nat
    <2>1. seqs \in [Calls -> [debit: Nat, credit: Nat]] /\ journal \in Seq(LedgerEntry)
        BY DEF TypeOK
    <2>2. \A i \in DOMAIN journal : journal[i] \in LedgerEntry
        BY <2>1
    <2> QED
        BY <2>1, <2>2 DEF Moves, LedgerEntry
<1>2. ASSUME NEW d \in Calls, Numbered(d)' PROVE seqs'[d].debit < nextSeq'
    BY <1>1, <1>2, NumbersStep DEF DebitsFollow
<1>3. ASSUME NEW i \in DOMAIN journal, journal[i].dir = "DEBIT"
      PROVE  /\ journal[i].seq < nextSeq'
             /\ \A d \in Calls : Numbered(d)' /\ req[d].payer = journal[i].account
                                  => journal[i].seq < seqs'[d].debit
    BY <1>1, <1>3, NumbersStep DEF DebitsFollow
<1>4. CASE PostAccepted(c)
    <2> DEFINE n == Len(journal) + 1
    <2>1. /\ \A i \in DOMAIN journal : journal'[i] = journal[i]
          /\ journal'[n].account = req[c].payer
          /\ journal'[n].seq = seqs[c].debit
          /\ \A i \in DOMAIN journal' : journal'[i].dir = "DEBIT" => i \in DOMAIN journal \/ i = n
        BY <1>4, DebitAdded
    <2> HIDE DEF n
    <2>2. pc[c] = "post" /\ pc'[c] = "capture" /\ UNCHANGED <<nextSeq, seqs>>
        BY <1>4 DEF PostAccepted, Step, TypeOK, stack
    <2>3. seqs[c].debit < nextSeq
        BY <2>2 DEF DebitsFollow, Numbered
    <2>4. ASSUME NEW d \in Calls, Numbered(d)', req[d].payer = req[c].payer PROVE FALSE
        <3>1. d # c
            BY <2>2, <2>4 DEF Numbered
        <3>2. pc[d] \in Critical /\ pc[c] \in Critical
            BY <2>2, <2>4, <3>1 DEF Moves, Numbered, Critical, TypeOK
        <3> QED
            BY <2>4, <3>1, <3>2, OnePayerAtATime DEF Ownership
    <2> QED
        BY <1>1, <1>2, <1>3, <2>1, <2>2, <2>3, <2>4 DEF DebitsFollow
<1>5. CASE ~PostAccepted(c)
    <2>1. journal' = journal
        BY <1>5 DEF Moves
    <2> QED
        BY <1>1, <1>2, <1>3, <2>1 DEF DebitsFollow
<1> QED
    BY <1>4, <1>5

-----------------------------------------------------------------------------
\* The inductive invariant.

LEMMA InitSettlement == Init => Settlement
BY DEF Init, Settlement, EventsFollow, AnswersFollow, DebitsFollow, Served, Numbered

LEMMA NextSettlement ==
    TypeOK /\ Ownership /\ Bookkeeping /\ Settlement /\ [Next]_vars => Settlement'
<1> SUFFICES ASSUME TypeOK, Ownership, Bookkeeping, Settlement, [Next]_vars
             PROVE  Settlement'
    OBVIOUS
<1>1. ASSUME NEW c \in Calls, Pay(c) PROVE Settlement'
    BY <1>1, EventsStep, AnswersStep, DebitsStep DEF Settlement
<1>2. CASE ~ \E c \in Calls : Pay(c)
    BY <1>2, Elsewhere DEF stack, Settlement, EventsFollow, AnswersFollow, DebitsFollow,
       Served, Numbered, Find
<1> QED
    BY <1>1, <1>2

\* The log, the answers and the order of the debits follow the calls at any moment.
THEOREM SettlementHolds == Spec => []Settlement
<1>1. TypeOK /\ Ownership /\ Bookkeeping /\ Settlement /\ [Next]_vars => Settlement'
    BY NextSettlement
<1> QED
    BY <1>1, InitSettlement, TypeCorrect, OwnershipHolds, BookkeepingHolds, PTL DEF Spec

-----------------------------------------------------------------------------
\* What follows.

\* A saved transaction is CAPTURED exactly when its legs are posted (or a provider refused
\* the capture), and legs without a transaction belong to a call about to save it.
THEOREM CapturedExactlyWhenPosted == Spec => []CapturedIffPosted
<1>1. TypeOK /\ Ownership /\ Bookkeeping => CapturedIffPosted
    <2> SUFFICES ASSUME TypeOK, Ownership, Bookkeeping PROVE CapturedIffPosted
        OBVIOUS
    <2>1. IsTerminal("FAILED")
        BY DEF IsTerminal, Allowed, TxnStatus
    <2>2. \A t \in store : IF t.id \in Posted THEN CaptureRefusable \/ t.status = "CAPTURED"
                                               ELSE IsTerminal(t.status)
        BY <2>1 DEF Bookkeeping, StoreIsSettled
    <2>3. ASSUME NEW id \in Posted
          PROVE  Find(id) # {} \/ \E c \in OwnersOf(id) : pc[c] \in {"capture", "save"}
        <3>1. PICK i \in DOMAIN journal : journal[i].txn = id
            BY DEF Posted
        <3>2. PICK c \in Calls : txnId[c] = id /\ pc[c] \in AfterPost
            BY <3>1 DEF Ownership, Reservations, PostedByItsClaimant
        <3>3. CASE pc[c] \in AfterSave
            BY <3>2, <3>3 DEF Bookkeeping, MoneyFollows
        <3>4. CASE pc[c] \notin AfterSave
            BY <3>2, <3>4 DEF OwnersOf, AfterPost, AfterSave
        <3> QED
            BY <3>3, <3>4
    <2> QED
        BY <2>2, <2>3 DEF CapturedIffPosted
<1> QED
    BY <1>1, TypeCorrect, OwnershipHolds, BookkeepingHolds, PTL

\* An event tells of a transaction already saved as it says, and is the only one of it.
THEOREM EventsTellFacts == Spec => []EventsAreFacts
<1>1. TypeOK /\ Ownership /\ Bookkeeping /\ Settlement => EventsAreFacts
    <2> SUFFICES ASSUME TypeOK, Ownership, Bookkeeping, Settlement,
                        NEW i \in DOMAIN log
                 PROVE  /\ \E t \in Find(log[i].txn) : t.status = log[i].status
                        /\ log[i].type = "PaymentCaptured" <=> log[i].status = "CAPTURED"
                        /\ \A j \in DOMAIN log : log[i].txn = log[j].txn => i = j
        BY DEF EventsAreFacts
    <2>1. PICK c \in Calls : /\ Served(c)
                             /\ log[i].txn = txnId[c]
                             /\ log[i].status = status[c]
                             /\ log[i].type = IF error[c] = "NONE" THEN "PaymentCaptured"
                                                                    ELSE "PaymentFailed"
        BY DEF Settlement, EventsFollow
    <2>2. /\ status[c] = Verdict(c)
          /\ Find(txnId[c]) = {TransactionOf(c)}
        BY <2>1 DEF Served, Bookkeeping, StatusFollows, MoneyFollows, AfterSave
    <2>3. TransactionOf(c).status = status[c]
        BY DEF TransactionOf
    <2>4. log[i].type = "PaymentCaptured" <=> log[i].status = "CAPTURED"
        BY <2>1, <2>2 DEF Verdict
    <2> QED
        BY <2>1, <2>2, <2>3, <2>4 DEF Settlement, EventsFollow
<1> QED
    BY <1>1, TypeCorrect, OwnershipHolds, BookkeepingHolds, SettlementHolds, PTL

\* Whoever used a key and was answered with a transaction was answered with the same one,
\* and it is one of that key.
THEOREM OneAnswer == Spec => []OneAnswerPerKey
<1>1. TypeOK /\ Ownership /\ Bookkeeping /\ Settlement => OneAnswerPerKey
    <2> SUFFICES ASSUME TypeOK, Ownership, Bookkeeping, Settlement,
                        NEW c \in Calls, NEW d \in Calls,
                        outcome[c].tag = "ok", outcome[d].tag = "ok",
                        req[c].key = req[d].key
                 PROVE  /\ outcome[c].value = outcome[d].value
                        /\ \A t \in outcome[c].value : t.key = req[c].key
        BY DEF OneAnswerPerKey
    <2>1. /\ outcome[c].value = Find(claimed[req[c].key])
          /\ outcome[d].value = Find(claimed[req[c].key])
          /\ claimed[req[c].key] # 0 /\ req[c].key \in Keys
        BY ConstantsAssumption DEF Settlement, AnswersFollow, TypeOK, PaymentRequest
    <2>2. PICK e \in Calls : txnId[e] = claimed[req[c].key] /\ req[e].key = req[c].key
        BY <2>1 DEF Bookkeeping, ClaimedByItsCaller
    <2>3. \A t \in Find(claimed[req[c].key]) : t.key = req[c].key
        BY <2>2 DEF Bookkeeping, SavedUnderItsKey, Find
    <2> QED
        BY <2>1, <2>3
<1> QED
    BY <1>1, TypeCorrect, OwnershipHolds, BookkeepingHolds, SettlementHolds, PTL

\* The debits of one account stand in the journal in the order of their numbers, although
\* the numbers are taken and the legs posted in separate steps.
THEOREM DebitsInOrder == Spec => []PayerDebitsInOrder
<1>1. Init => PayerDebitsInOrder
    BY DEF Init, PayerDebitsInOrder
<1>2. TypeOK /\ Ownership /\ Settlement /\ PayerDebitsInOrder /\ [Next]_vars
        => PayerDebitsInOrder'
    <2> SUFFICES ASSUME TypeOK, Ownership, Settlement, PayerDebitsInOrder, [Next]_vars
                 PROVE  PayerDebitsInOrder'
        OBVIOUS
    <2>1. ASSUME NEW c \in Calls, PostAccepted(c) PROVE PayerDebitsInOrder'
        <3> DEFINE n == Len(journal) + 1
        <3>1. /\ \A i \in DOMAIN journal : i < n /\ journal'[i] = journal[i]
              /\ journal'[n].account = req[c].payer
              /\ journal'[n].seq = seqs[c].debit
              /\ \A i \in DOMAIN journal' : journal'[i].dir = "DEBIT" =>
                    i \in DOMAIN journal \/ i = n
            BY <2>1, DebitAdded
        <3>2. n \in Nat /\ \A i \in DOMAIN journal : i \in Nat
            BY DEF TypeOK
        <3> HIDE DEF n
        <3>3. \A i \in DOMAIN journal : /\ journal[i].dir = "DEBIT"
                                        /\ journal[i].account = req[c].payer
                                        => journal[i].seq < seqs[c].debit
            BY <2>1 DEF PostAccepted, Step, Settlement, DebitsFollow, Numbered
        <3> SUFFICES ASSUME NEW i \in DOMAIN journal', NEW j \in DOMAIN journal', i < j,
                            journal'[i].account = journal'[j].account,
                            journal'[i].dir = "DEBIT", journal'[j].dir = "DEBIT"
                     PROVE  journal'[i].seq < journal'[j].seq
            BY DEF PayerDebitsInOrder
        <3>4. i \in DOMAIN journal
            BY <3>1, <3>2
        <3>5. CASE j \in DOMAIN journal
            BY <3>1, <3>4, <3>5 DEF PayerDebitsInOrder
        <3>6. CASE j = n
            BY <3>1, <3>3, <3>4, <3>6
        <3> QED
            BY <3>1, <3>5, <3>6
    <2>2. CASE journal' = journal
        BY <2>2 DEF PayerDebitsInOrder
    <2>3. journal' = journal \/ \E c \in Calls : PostAccepted(c)
        <3>1. ASSUME NEW c \in Calls, Pay(c), ~PostAccepted(c) PROVE journal' = journal
            BY <3>1, PayMoves DEF Moves
        <3> QED
            BY <3>1, Elsewhere
    <2> QED
        BY <2>1, <2>2, <2>3
<1> QED
    BY <1>1, <1>2, TypeCorrect, OwnershipHolds, SettlementHolds, PTL DEF Spec

-----------------------------------------------------------------------------
\* The money.

\* Outside the actions that move money, a call neither has any on its way nor touches
\* a balance or the journal.
MovesMoney(c) ==
    \/ DebitPayer(c) \/ CreditPayee(c) \/ SeqOfDebit(c) \/ SeqOfCredit(c)
    \/ PostAccepted(c) \/ PostRejected(c) \/ RefundPayer(c) \/ ChargePayee(c)

LEMMA OtherMoves ==
    ASSUME TypeOK, NEW c \in Calls, Pay(c), ~MovesMoney(c)
    PROVE  /\ pc[c] \notin Moving /\ pc'[c] \notin Moving
           /\ balance' = balance /\ journal' = journal
<1> USE DEF TypeOK, Moving, OwesPayer, OwesPayee, Step, Failing, stack, shared
<1>1. CASE MintId(c) \/ ClaimKey(c) \/ KeyTaken(c) \/ Replay(c) \/ Build(c)
    BY <1>1 DEF MintId, ClaimKey, KeyTaken, Replay, Build
<1>2. CASE Acquire(c) \/ Validate(c) \/ FindAccounts(c) \/ Authorize(c) \/ Decline(c)
    BY <1>2 DEF Acquire, Validate, FindAccounts, Authorize, Decline
<1>3. CASE Capture(c) \/ CaptureRefused(c) \/ Save(c) \/ Publish(c) \/ Release(c)
    BY <1>3 DEF Capture, CaptureRefused, Save, Publish, Release
<1> QED
    BY <1>1, <1>2, <1>3 DEF Pay, MovesMoney

\* Where the actions that move money come from and lead to.
LEMMA MoneyPlaces ==
    ASSUME TypeOK, NEW c \in Calls
    PROVE  /\ DebitPayer(c) => pc[c] = "debit" /\ pc'[c] \in {"credit", "save"}
           /\ CreditPayee(c) => pc[c] = "credit" /\ pc'[c] = "seqDebit"
           /\ SeqOfDebit(c) => pc[c] = "seqDebit" /\ pc'[c] = "seqCredit"
           /\ SeqOfCredit(c) => pc[c] = "seqCredit" /\ pc'[c] = "post"
           /\ PostAccepted(c) => pc[c] = "post" /\ pc'[c] = "capture"
           /\ PostRejected(c) => pc[c] = "post" /\ pc'[c] = "refundPayer"
           /\ RefundPayer(c) => pc[c] = "refundPayer" /\ pc'[c] = "chargePayee"
           /\ ChargePayee(c) => pc[c] = "chargePayee" /\ pc'[c] = "save"
BY DEF TypeOK, DebitPayer, CreditPayee, SeqOfDebit, SeqOfCredit, PostAccepted, PostRejected,
       RefundPayer, ChargePayee, Step, Failing

LEMMA InitFunds == Init => FundsFollow
BY DEF Init, FundsFollow, Moving, OwesPayer, OwesPayee

\* A credit or a debit leaves the currency.
LEMMA SameCurrency ==
    ASSUME NEW b \in Money, NEW m \in Money
    PROVE  AfterCredit(b, m).ccy = b.ccy /\ AfterDebit(b, m).ccy = b.ccy
BY DEF AfterCredit, AfterDebit, Plus, Minus, Money

LEMMA FundsStep ==
    ASSUME TypeOK, FundsFollow, NEW c \in Calls, Pay(c)
    PROVE  FundsFollow'
<1> Moves(c) /\ KeepsOthers(c)
    BY PayMoves, PayKeepsOthers
<1>1. req' = req
    BY DEF Moves
<1>2. req[c].amount \in Money /\ \A a \in Accounts : balance[a] \in Money
    BY ConstantsAssumption DEF TypeOK, PaymentRequest
<1>3. ASSUME NEW a \in Accounts PROVE balance'[a].ccy = Opening[a].ccy
    <2>1. \/ balance'[a] = balance[a]
          \/ balance'[a] = AfterCredit(balance[a], req[c].amount)
          \/ balance'[a] = AfterDebit(balance[a], req[c].amount)
        BY BalanceMoves
    <2> QED
        BY <1>2, <2>1, SameCurrency DEF FundsFollow
<1>4. ASSUME pc'[c] \in {"authorize", "debit"} \cup Moving
      PROVE  {req[c].payer, req[c].payee} \subseteq Accounts
    <2>1. CASE FindAccounts(c)
        BY <1>4, <2>1 DEF FindAccounts, Step, Failing, TypeOK, Moving, OwesPayer, OwesPayee
    <2>2. CASE pc[c] \in {"authorize", "debit"} \cup Moving
        BY <2>2 DEF FundsFollow
    <2>3. FindAccounts(c) \/ pc[c] \in {"authorize", "debit"} \cup Moving
        <3>1. CASE MovesMoney(c)
            BY <3>1, MoneyPlaces DEF MovesMoney, Moving, OwesPayer, OwesPayee
        <3>2. CASE ~MovesMoney(c)
            <4>1. pc'[c] \in {"authorize", "debit"}
                BY <1>4, <3>2, OtherMoves
            <4> QED
                BY <3>2, <4>1 DEF Pay, MovesMoney, MintId, ClaimKey, KeyTaken, Replay, Build,
                   Acquire, Validate, Authorize, Decline, Capture, CaptureRefused, Save,
                   Publish, Release, Step, Failing, TypeOK
        <3> QED
            BY <3>1, <3>2
    <2> QED
        BY <2>1, <2>2, <2>3
<1>5. ASSUME pc'[c] \in Moving
      PROVE  ~IsNegative(req[c].amount) /\ SameCcy(req[c].amount, Opening[req[c].payer])
    <2>1. MovesMoney(c)
        BY <1>5, OtherMoves
    <2>2. CASE DebitPayer(c)
        <3>1. DebitVerdict(balance[req[c].payer], req[c].amount) = "NONE"
            BY <1>5, <2>2 DEF DebitPayer, Failing, Step, TypeOK, Moving, OwesPayer, OwesPayee
        <3>2. req[c].payer \in Accounts
            BY <2>2, MoneyPlaces DEF FundsFollow
        <3> QED
            BY <3>1, <3>2 DEF DebitVerdict, FundsFollow, SameCcy
    <2>3. CASE ~DebitPayer(c)
        <3>1. pc[c] \in Moving
            BY <2>1, <2>3, MoneyPlaces DEF MovesMoney, Moving, OwesPayer, OwesPayee
        <3> QED
            BY <3>1 DEF FundsFollow
    <2> QED
        BY <2>2, <2>3
<1> QED
    BY <1>1, <1>3, <1>4, <1>5 DEF FundsFollow, KeepsOthers

\* An accepted posting changes what the journal derives for an account by its legs.
LEMMA NetStep ==
    ASSUME TypeOK, NEW c \in Calls, PostAccepted(c), NEW a
    PROVE  DerivedNet(journal', a)
             = DerivedNet(journal, a)
                 + (IF req[c].payee = a THEN req[c].amount.minor ELSE 0)
                 - (IF req[c].payer = a THEN req[c].amount.minor ELSE 0)
<1> DEFINE debit  == Posting(c)[1]
           credit == Posting(c)[2]
           half   == Append(journal, debit)
<1>1. /\ Posting(c) \in Seq(LedgerEntry) /\ Len(Posting(c)) = 2
      /\ journal \in Seq(LedgerEntry) /\ req[c].amount \in Money
    BY PostingLegs, ConstantsAssumption DEF TypeOK, PaymentRequest
<1>2. debit \in LedgerEntry /\ credit \in LedgerEntry
    <2>1. 1 \in 1..Len(Posting(c)) /\ 2 \in 1..Len(Posting(c))
        BY <1>1
    <2> QED
        BY <1>1, <2>1, ElementOfSeq
<1>3. half \in Seq(LedgerEntry)
    BY <1>1, <1>2
<1>4. journal' = Append(half, credit)
    <2>1. Posting(c) = <<debit, credit>>
        BY DEF Posting
    <2> HIDE DEF debit, credit
    <2>2. journal \o <<debit, credit>> = Append(Append(journal, debit), credit)
        <3>1. <<debit>> \in Seq(LedgerEntry) /\ <<credit>> \in Seq(LedgerEntry)
            BY <1>2
        <3>2. <<debit, credit>> = <<debit>> \o <<credit>>
            <4>1. <<debit, credit>> = Append(<<debit>>, credit)
                BY <1>2
            <4> QED
                BY <1>2, <3>1, <4>1, AppendIsConcat
        <3>3. Append(half, credit) = half \o <<credit>>
            BY <1>2, <1>3, AppendIsConcat
        <3>4. half = journal \o <<debit>>
            BY <1>1, <1>2, AppendIsConcat
        <3>5. (journal \o <<debit>>) \o <<credit>> = journal \o (<<debit>> \o <<credit>>)
            BY <1>1, <3>1, ConcatAssociative
        <3> QED
            BY <3>2, <3>3, <3>4, <3>5
    <2> QED
        BY <1>2, <2>1, <2>2 DEF PostAccepted
<1>5. /\ debit.account = req[c].payer
      /\ SignedAmount(debit).minor = 0 - req[c].amount.minor
      /\ credit.account = req[c].payee
      /\ SignedAmount(credit).minor = req[c].amount.minor
    BY <1>1 DEF Posting, Entry, SignedAmount, Times, Money
<1>6. DerivedNet(half, a) = DerivedNet(journal, a)
                              + (IF debit.account = a THEN SignedAmount(debit).minor ELSE 0)
    BY <1>1, <1>2, NetGrows
<1>7. DerivedNet(journal', a) = DerivedNet(half, a)
                              + (IF credit.account = a THEN SignedAmount(credit).minor ELSE 0)
    BY <1>2, <1>3, <1>4, NetGrows
<1>8. DerivedNet(journal, a) \in Int /\ req[c].amount.minor \in Int
    BY <1>1, NetType DEF Money
<1> HIDE DEF debit, credit, half
<1> QED
    BY <1>5, <1>6, <1>7, <1>8

\* What calls have on their way changes with what the acting call has.
LEMMA InFlightStep ==
    ASSUME TypeOK, IsFiniteSet(Calls), NEW c \in Calls, Pay(c), NEW a
    PROVE  /\ InFlight(a) \in Int
           /\ Moved(c, a) \in Int /\ Moved(c, a)' \in Int
           /\ InFlight(a)' = InFlight(a) + Moved(c, a)' - Moved(c, a)
<1> DEFINE f == [d \in Calls |-> Moved(d, a)]
           g == [d \in Calls |-> Moved(d, a)']
<1>1. \A d \in Calls : req'[d] = req[d] /\ req[d].amount.minor \in Int
    <2>1. req' = req
        BY PayMoves DEF Moves
    <2>2. \A d \in Calls : req[d] \in PaymentRequest
        BY ConstantsAssumption DEF TypeOK
    <2> QED
        BY <2>1, <2>2 DEF PaymentRequest, Money
<1>2. \A d \in Calls : Moved(d, a) \in Int /\ Moved(d, a)' \in Int
    BY <1>1 DEF Moved
<1>3. \A d \in Calls \ {c} : Moved(d, a)' = Moved(d, a)
    BY <1>1, PayKeepsOthers DEF KeepsOthers, Moved
<1>4. /\ f \in [Calls -> Int] /\ g \in [Calls -> Int]
      /\ f[c] = Moved(c, a) /\ g[c] = Moved(c, a)'
      /\ \A d \in Calls \ {c} : g[d] = f[d]
    BY <1>2, <1>3
<1>5. InFlight(a) = SumFunction(f) /\ InFlight(a)' = SumFunction(g)
    BY DEF InFlight
<1> HIDE DEF f, g
<1>6. SumFunction(g) = SumFunction(f) + g[c] - f[c]
    BY <1>4, SumChanges
<1>7. SumFunction(f) \in Int
    BY <1>4, SumFacts
<1> QED
    BY <1>2, <1>4, <1>5, <1>6, <1>7

\* A balance moves with what is posted, with what is on its way, and with what the two
\* discarded Statuses hide.
LEMMA BalanceStep ==
    ASSUME TypeOK, FundsFollow, NEW c \in Calls, Pay(c), NEW a \in Accounts
    PROVE  /\ Discards(c) \in Int
           /\ balance[a].minor \in Int /\ balance'[a].minor \in Int
           /\ DerivedNet(journal, a) \in Int /\ DerivedNet(journal', a) \in Int
           /\ balance'[a].minor - balance[a].minor
                 = DerivedNet(journal', a) - DerivedNet(journal, a)
                     + Moved(c, a)' - Moved(c, a)
                     + (IF req[c].payee = a THEN Discards(c) ELSE 0)
<1> DEFINE m == req[c].amount
           b == balance[a]
<1>1. /\ req' = req
      /\ balance \in [Accounts -> Money] /\ balance' \in [Accounts -> Money]
      /\ journal \in Seq(LedgerEntry) /\ journal' \in Seq(LedgerEntry)
    BY PayMoves, NextTypeOK DEF Moves, TypeOK, Next
<1>2. m \in Money /\ b \in Money /\ b.minor \in Int /\ m.minor \in Int
    BY <1>1, ConstantsAssumption DEF TypeOK, PaymentRequest, Money
<1>3. balance'[a].minor \in Int /\ Discards(c) \in Int
    BY <1>1, <1>2 DEF Money, Discards
<1>4. DerivedNet(journal, a) \in Int /\ DerivedNet(journal', a) \in Int
    BY <1>1, NetType
<1>5. /\ CreditVerdict(b, m) = "NONE" => AfterCredit(b, m).minor = b.minor + m.minor
      /\ CreditVerdict(b, m) # "NONE" => AfterCredit(b, m).minor = b.minor
      /\ DebitVerdict(b, m) = "NONE" => AfterDebit(b, m).minor = b.minor - m.minor
      /\ DebitVerdict(b, m) # "NONE" => AfterDebit(b, m).minor = b.minor
    BY <1>2 DEF AfterCredit, AfterDebit, Plus, Minus, Money
<1> HIDE DEF m, b
<1> DEFINE Net  == DerivedNet(journal', a) - DerivedNet(journal, a)
           Lost == IF req[c].payee = a THEN Discards(c) ELSE 0
           Goal == balance'[a].minor - b.minor = Net + Moved(c, a)' - Moved(c, a) + Lost
<1>6. Moved(c, a) \in Int /\ Moved(c, a)' \in Int
    BY <1>1, <1>2 DEF Moved, m
<1> USE <1>2, <1>3, <1>4
<1>7. journal' = journal => Net = 0
    BY <1>4
<1>8. pc[c] \notin {"credit", "chargePayee"} => Lost = 0
    BY DEF Discards
<1> SUFFICES Goal
    BY DEF b
<1> HIDE DEF Net, Lost
<1>9. CASE ~MovesMoney(c)
    <2>1. /\ pc[c] \notin Moving /\ pc'[c] \notin Moving
          /\ balance' = balance /\ journal' = journal
        BY <1>9, OtherMoves
    <2>2. Moved(c, a) = 0 /\ Moved(c, a)' = 0
        BY <2>1 DEF Moved, Moving
    <2>3. Lost = 0
        BY <1>8, <2>1 DEF Moving, OwesPayer, OwesPayee
    <2> QED
        BY <1>7, <2>1, <2>2, <2>3 DEF b
<1>10. CASE DebitPayer(c)
    <2>1. pc[c] = "debit" /\ journal' = journal
        BY <1>10, MoneyPlaces DEF DebitPayer
    <2>2. Moved(c, a) = 0 /\ Lost = 0 /\ Net = 0
        BY <1>7, <1>8, <2>1 DEF Moved, OwesPayer, OwesPayee
    <2>3. balance'[a] = IF a = req[c].payer THEN AfterDebit(b, m) ELSE b
        BY <1>1, <1>10 DEF DebitPayer, b, m
    <2>4. CASE req[c].payer = a /\ DebitVerdict(b, m) = "NONE"
        <3>1. pc'[c] = "credit"
            BY <1>10, <2>4 DEF DebitPayer, Step, TypeOK, b, m
        <3>2. Moved(c, a)' = 0 - m.minor
            BY <1>1, <2>4, <3>1 DEF Moved, OwesPayer, OwesPayee, m
        <3> QED
            BY <1>5, <2>2, <2>3, <2>4, <3>2
    <2>5. CASE req[c].payer = a /\ DebitVerdict(b, m) # "NONE"
        <3>1. pc'[c] = "save"
            BY <1>10, <2>5 DEF DebitPayer, Failing, Step, TypeOK, b, m
        <3>2. Moved(c, a)' = 0
            BY <3>1 DEF Moved, OwesPayer, OwesPayee
        <3> QED
            BY <1>5, <2>2, <2>3, <2>5, <3>2
    <2>6. CASE req[c].payer # a
        <3>1. pc'[c] \in {"credit", "save"}
            BY <1>10, MoneyPlaces
        <3>2. Moved(c, a)' = 0
            BY <1>1, <2>6, <3>1 DEF Moved, OwesPayer, OwesPayee
        <3> QED
            BY <2>2, <2>3, <2>6, <3>2
    <2> QED
        BY <2>4, <2>5, <2>6
<1>11. CASE CreditPayee(c)
    <2>1. pc[c] = "credit" /\ pc'[c] = "seqDebit" /\ journal' = journal
        BY <1>11, MoneyPlaces DEF CreditPayee
    <2>2. Net = 0
        BY <1>7, <2>1
    <2>3. Moved(c, a)' - Moved(c, a) = IF req[c].payee = a THEN m.minor ELSE 0
        BY <1>1, <2>1 DEF Moved, OwesPayer, OwesPayee, m
    <2>4. balance'[a] = IF a = req[c].payee THEN AfterCredit(b, m) ELSE b
        BY <1>1, <1>11 DEF CreditPayee, b, m
    <2>5. Lost = IF req[c].payee = a /\ CreditVerdict(b, m) # "NONE" THEN 0 - m.minor ELSE 0
        BY <2>1 DEF Lost, Discards, b, m
    <2> QED
        BY <1>5, <1>6, <2>2, <2>3, <2>4, <2>5
<1>12. CASE SeqOfDebit(c) \/ SeqOfCredit(c) \/ PostRejected(c)
    <2>1. /\ pc[c] \in {"seqDebit", "seqCredit", "post"}
          /\ pc'[c] \in {"seqCredit", "post", "refundPayer"}
          /\ journal' = journal /\ balance' = balance
        BY <1>12, MoneyPlaces DEF SeqOfDebit, SeqOfCredit, PostRejected, shared
    <2>2. Moved(c, a)' = Moved(c, a)
        BY <1>1, <2>1 DEF Moved, OwesPayer, OwesPayee
    <2>3. Lost = 0 /\ Net = 0
        BY <1>7, <1>8, <2>1
    <2> QED
        BY <1>6, <2>1, <2>2, <2>3 DEF b
<1>13. CASE PostAccepted(c)
    <2>1. pc[c] = "post" /\ pc'[c] = "capture" /\ balance' = balance
        BY <1>13, MoneyPlaces DEF PostAccepted
    <2>2. Moved(c, a)' = 0
        BY <2>1 DEF Moved, OwesPayer, OwesPayee
    <2>3. Moved(c, a) = (IF req[c].payee = a THEN m.minor ELSE 0)
                          - (IF req[c].payer = a THEN m.minor ELSE 0)
        BY <2>1 DEF Moved, OwesPayer, OwesPayee, m
    <2>4. DerivedNet(journal', a)
             = DerivedNet(journal, a) + (IF req[c].payee = a THEN m.minor ELSE 0)
                 - (IF req[c].payer = a THEN m.minor ELSE 0)
        BY <1>13, NetStep DEF m
    <2>5. Net = (IF req[c].payee = a THEN m.minor ELSE 0)
                  - (IF req[c].payer = a THEN m.minor ELSE 0)
        BY <2>4 DEF Net
    <2>6. Lost = 0
        BY <1>8, <2>1
    <2>7. Net = Moved(c, a)
        BY <2>3, <2>5
    <2>8. balance'[a].minor = b.minor
        BY <2>1 DEF b
    <2> QED
        BY <1>6, <2>2, <2>6, <2>7, <2>8
<1>14. CASE RefundPayer(c)
    <2>1. pc[c] = "refundPayer" /\ pc'[c] = "chargePayee" /\ journal' = journal
        BY <1>14, MoneyPlaces DEF RefundPayer
    <2>2. Net = 0 /\ Lost = 0
        BY <1>7, <1>8, <2>1
    <2>3. Moved(c, a)' - Moved(c, a) = IF req[c].payer = a THEN m.minor ELSE 0
        BY <1>1, <2>1 DEF Moved, OwesPayer, OwesPayee, m
    <2>4. balance'[a] = IF a = req[c].payer THEN AfterCredit(b, m) ELSE b
        BY <1>1, <1>14 DEF RefundPayer, b, m
    <2>5. req[c].payer = a => CreditVerdict(b, m) = "NONE"
        <3>1. pc[c] \in Moving
            BY <2>1 DEF Moving, OwesPayer
        <3> QED
            BY <3>1 DEF FundsFollow, CreditVerdict, SameCcy, b, m
    <2> QED
        BY <1>5, <1>6, <2>2, <2>3, <2>4, <2>5
<1>15. CASE ChargePayee(c)
    <2>1. pc[c] = "chargePayee" /\ pc'[c] = "save" /\ journal' = journal
        BY <1>15, MoneyPlaces DEF ChargePayee
    <2>2. Net = 0
        BY <1>7, <2>1
    <2>3. Moved(c, a)' - Moved(c, a) = IF req[c].payee = a THEN 0 - m.minor ELSE 0
        BY <1>1, <2>1 DEF Moved, OwesPayer, OwesPayee, m
    <2>4. balance'[a] = IF a = req[c].payee THEN AfterDebit(b, m) ELSE b
        BY <1>1, <1>15 DEF ChargePayee, b, m
    <2>5. Lost = IF req[c].payee = a /\ DebitVerdict(b, m) # "NONE" THEN m.minor ELSE 0
        BY <2>1 DEF Lost, Discards, b, m
    <2> QED
        BY <1>5, <1>6, <2>2, <2>3, <2>4, <2>5
<1> HIDE DEF Goal
<1> QED
    BY <1>9, <1>10, <1>11, <1>12, <1>13, <1>14, <1>15 DEF MovesMoney

\* With an honest ledger and accounts of one currency no Status that pay() discards is
\* an error, and nothing is ever compensated.
OneCurrency == \A a, b \in Accounts : Opening[a].ccy = Opening[b].ccy

LEMMA PostingBalances ==
    ASSUME TypeOK, NEW c \in Calls
    PROVE  PostVerdict(Posting(c)) = "NONE"
<1> DEFINE P == Posting(c)
           f == [i \in DOMAIN P |-> SignedAmount(P[i]).minor]
           g == [i \in {2} |-> f[i]]
           m == req[c].amount.minor
<1>1. /\ DOMAIN P = {1, 2}
      /\ P[1].amount = req[c].amount /\ P[2].amount = req[c].amount
      /\ P # << >>
    BY DEF Posting, Entry
<1>2. req[c].amount \in Money /\ m \in Int
    BY ConstantsAssumption DEF TypeOK, PaymentRequest, Money
<1>3. SignedAmount(P[1]).minor = 0 - m /\ SignedAmount(P[2]).minor = m
    BY <1>2 DEF Posting, Entry, SignedAmount, Times, Money
<1> HIDE DEF P, m
<1> DEFINE D == {1, 2}
           E == {2}
<1>4. /\ f \in [D -> Int] /\ f[1] = 0 - m /\ f[2] = m
      /\ g \in [E -> Int] /\ g[2] = m
      /\ [i \in D \ {1} |-> f[i]] = g
    BY <1>1, <1>2, <1>3
<1>5. NetAt(P, DOMAIN P) = SumFunction(f)
    BY DEF NetAt
<1>6. IsFiniteSet(D) /\ IsFiniteSet(E) /\ IsFiniteSet({})
    <2>1. D = E \cup {1} /\ IsFiniteSet(E)
        BY FS_Singleton
    <2> HIDE DEF D, E
    <2> QED
        BY <2>1, FS_AddElement, FS_EmptySet
<1>7. 1 \in D /\ 2 \in E /\ E \ {2} = {}
    OBVIOUS
<1> HIDE DEF f, g, D, E
<1>8. SumFunction(f) = f[1] + SumFunction(g)
    <2>1. SumFunction(f) = f[1] + SumOver(f, D \ {1})
        BY <1>4, <1>6, <1>7, SumSplits
    <2>2. SumOver(f, D \ {1}) = SumFunction(g)
        BY <1>4 DEF SumOver
    <2> QED
        BY <2>1, <2>2
<1>9. SumFunction(g) = g[2] + SumOver(g, {})
    BY <1>4, <1>6, <1>7, SumSplits
<1>10. SumOver(g, {}) = 0
    <2> DEFINE h == [i \in {} |-> g[i]]
    <2>1. h \in [{} -> Int]
        OBVIOUS
    <2> HIDE DEF h
    <2>2. SumFunction(h) = 0
        BY <1>6, <2>1, SumFacts
    <2> QED
        BY <2>2 DEF SumOver, h
<1>11. SumFunction(f) = 0
    BY <1>2, <1>4, <1>8, <1>9, <1>10
<1>12. \A i \in DOMAIN P : SameCcy(P[i].amount, P[1].amount)
    BY <1>1 DEF SameCcy
<1> QED
    BY <1>1, <1>5, <1>11, <1>12 DEF PostVerdict, P

LEMMA NothingDiscarded ==
    ASSUME TypeOK, FundsFollow, OneCurrency, NEW c \in Calls, pc[c] \notin Compensating
    PROVE  Discards(c) = 0
<1>1. CASE pc[c] = "credit"
    <2>1. /\ req[c].payer \in Accounts /\ req[c].payee \in Accounts
          /\ ~IsNegative(req[c].amount)
          /\ SameCcy(req[c].amount, Opening[req[c].payer])
          /\ balance[req[c].payee].ccy = Opening[req[c].payee].ccy
        BY <1>1 DEF FundsFollow, Moving, OwesPayer
    <2>2. CreditVerdict(balance[req[c].payee], req[c].amount) = "NONE"
        BY <2>1 DEF CreditVerdict, SameCcy, OneCurrency
    <2> QED
        BY <1>1, <2>2 DEF Discards
<1>2. CASE pc[c] # "credit"
    BY <1>2 DEF Discards, Compensating
<1> QED
    BY <1>1, <1>2

LEMMA NoCompensation ==
    ASSUME TypeOK, ~LedgerFaults, \A d \in Calls : pc[d] \notin Compensating,
           NEW c \in Calls, Pay(c)
    PROVE  \A d \in Calls : pc'[d] \notin Compensating
<1>1. ~PostRejected(c) /\ ~RefundPayer(c)
    BY PostingBalances DEF PostRejected, Refusals, RefundPayer, Step, Compensating
<1>2. pc'[c] \notin Compensating
    <2>1. CASE MovesMoney(c)
        BY <1>1, <2>1, MoneyPlaces DEF MovesMoney, Compensating
    <2>2. CASE ~MovesMoney(c)
        BY <2>2, OtherMoves DEF Moving, OwesPayer, OwesPayee, Compensating
    <2> QED
        BY <2>1, <2>2
<1> QED
    BY <1>2, PayKeepsOthers DEF KeepsOthers

\* Over a ledger that refuses no balanced batch and accounts of one currency, an account
\* has at any moment what it opened with, what the journal derives for it and what calls
\* under way still have to post.
THEOREM LiveIsJournal ==
    ASSUME IsFiniteSet(Calls), ~LedgerFaults, OneCurrency
    PROVE  Spec => []LiveMatchesJournal
<1> DEFINE Clean == \A c \in Calls : pc[c] \notin Compensating
           Inv == TypeOK /\ FundsFollow /\ Clean /\ LiveMatchesJournal
<1>1. Init => Inv
    <2> SUFFICES ASSUME Init PROVE Clean /\ LiveMatchesJournal
        BY InitTypeOK, InitFunds
    <2>1. Clean
        BY DEF Init, Compensating
    <2>2. ASSUME NEW a \in Accounts
          PROVE  balance[a].minor = Opening[a].minor + DerivedNet(journal, a) + InFlight(a)
        <3> DEFINE f == [c \in Calls |-> Moved(c, a)]
        <3>1. f \in [Calls -> {0}]
            BY DEF Init, Moved, OwesPayer, OwesPayee
        <3> HIDE DEF f
        <3>2. SumFunction(f) = 0
            BY <3>1, SumOfZeros
        <3>3. InFlight(a) = 0
            BY <3>2 DEF InFlight, f
        <3>4. DerivedNet(journal, a) = 0
            BY NetOfNothing DEF Init
        <3> QED
            BY <3>3, <3>4, ConstantsAssumption DEF Init, Money
    <2> QED
        BY <2>1, <2>2 DEF LiveMatchesJournal
<1>2. Inv /\ [Next]_vars => Inv'
    <2> SUFFICES ASSUME Inv, [Next]_vars PROVE Inv'
        OBVIOUS
    <2>1. TypeOK'
        BY NextTypeOK
    <2>2. ASSUME NEW c \in Calls, Pay(c) PROVE FundsFollow' /\ Clean' /\ LiveMatchesJournal'
        <3>1. FundsFollow' /\ Clean'
            BY <2>2, FundsStep, NoCompensation
        <3>2. ASSUME NEW a \in Accounts
              PROVE  balance'[a].minor
                        = Opening[a].minor + DerivedNet(journal', a) + InFlight(a)'
            <4>1. Discards(c) = 0
                BY NothingDiscarded
            <4>2. /\ balance[a].minor \in Int /\ balance'[a].minor \in Int
                  /\ DerivedNet(journal, a) \in Int /\ DerivedNet(journal', a) \in Int
                  /\ balance'[a].minor - balance[a].minor
                        = DerivedNet(journal', a) - DerivedNet(journal, a)
                            + Moved(c, a)' - Moved(c, a)
                            + (IF req[c].payee = a THEN Discards(c) ELSE 0)
                BY <2>2, BalanceStep
            <4>3. /\ InFlight(a) \in Int
                  /\ Moved(c, a) \in Int /\ Moved(c, a)' \in Int
                  /\ InFlight(a)' = InFlight(a) + Moved(c, a)' - Moved(c, a)
                BY <2>2, InFlightStep
            <4>4. /\ Opening[a].minor \in Int
                  /\ balance[a].minor
                        = Opening[a].minor + DerivedNet(journal, a) + InFlight(a)
                BY ConstantsAssumption DEF LiveMatchesJournal, Money
            <4>5. balance'[a].minor - balance[a].minor
                     = DerivedNet(journal', a) - DerivedNet(journal, a)
                         + Moved(c, a)' - Moved(c, a)
                BY <4>1, <4>2, <4>3
            <4> HIDE DEF Clean
            <4> QED
                BY <4>2, <4>3, <4>4, <4>5
        <3> QED
            BY <3>1, <3>2 DEF LiveMatchesJournal
    <2>3. CASE ~ \E c \in Calls : Pay(c)
        <3>1. UNCHANGED <<req, pc, balance, journal>>
            BY <2>3, Elsewhere DEF stack
        <3>2. \A a : InFlight(a)' = InFlight(a)
            BY <3>1 DEF InFlight, Moved
        <3> QED
            BY <2>1, <3>1, <3>2 DEF FundsFollow, LiveMatchesJournal
    <2> QED
        BY <2>1, <2>2, <2>3
<1>3. Inv => LiveMatchesJournal
    OBVIOUS
<1> HIDE DEF Inv
<1> QED
    BY <1>1, <1>2, <1>3, PTL DEF Spec

-----------------------------------------------------------------------------
\* The supply.

\* A payment that the chain lets through has passed each of its handlers.
LEMMA EveryHandlerPasses ==
    ASSUME NEW chain \in Seq(Handler), NEW txn, Run(chain, txn) = "NONE",
           NEW i \in DOMAIN chain
    PROVE  Check(chain[i], txn) = "NONE"
<1> DEFINE stops == {j \in DOMAIN chain : Check(chain[j], txn) # "NONE"}
<1>1. stops \subseteq Nat
    OBVIOUS
<1>2. stops # {} => Min(stops) \in stops
    BY <1>1, LeastIndex
<1>3. stops = {}
    BY <1>2 DEF Run
<1> QED
    BY <1>3

\* The chain has the handler that looks at the amount.
ChecksAmounts == \E i \in DOMAIN Chain : Chain[i].kind = "Basic"

LEMMA PositiveAmounts ==
    ASSUME ChecksAmounts, NEW txn, Run(Chain, txn) = "NONE"
    PROVE  IsPositive(txn.amount)
<1>1. PICK i \in DOMAIN Chain : Chain[i].kind = "Basic"
    BY DEF ChecksAmounts
<1>2. Chain \in Seq(Handler)
    BY ConstantsAssumption
<1>3. Check(Chain[i], txn) = "NONE"
    BY <1>2, EveryHandlerPasses
<1> QED
    BY <1>1, <1>3 DEF Check, BasicCheck

\* What the accounts of a currency hold changes with the one balance that changes.
LEMMA HoldingsStep ==
    ASSUME IsFiniteSet(Accounts), TypeOK, FundsFollow, NEW x \in Accounts, NEW n \in Money,
           balance' = [balance EXCEPT ![x] = n], NEW ccy
    PROVE  LET now  == SumFunction([a \in HoldersOf(ccy) |-> balance[a].minor])
               then == SumFunction([a \in HoldersOf(ccy) |-> balance'[a].minor])
           IN  /\ now \in Int
               /\ then \in Int
               /\ Opening[x].ccy = ccy => then = now + n.minor - balance[x].minor
               /\ Opening[x].ccy # ccy => then = now
<1> DEFINE D == HoldersOf(ccy)
           f == [a \in D |-> balance[a].minor]
           g == [a \in D |-> balance'[a].minor]
<1>1. IsFiniteSet(D) /\ D \subseteq Accounts
    BY FS_Subset DEF HoldersOf
<1>2. \A a \in Accounts : balance[a] \in Money /\ balance'[a] = IF a = x THEN n ELSE balance[a]
    BY DEF TypeOK
<1>3. f \in [D -> Int] /\ g \in [D -> Int] /\ \A a \in D \ {x} : g[a] = f[a]
    BY <1>1, <1>2 DEF Money
<1>4. x \in D <=> Opening[x].ccy = ccy
    BY DEF HoldersOf
<1>5. x \in D => f[x] = balance[x].minor /\ g[x] = n.minor
    BY <1>2
<1>6. x \notin D => f = g
    BY <1>1, <1>2
<1> HIDE DEF D, f, g
<1>7. SumFunction(f) \in Int
    BY <1>1, <1>3, SumFacts, ZenonT(30)
<1>8. SumFunction(g) \in Int
    BY <1>1, <1>3, SumFacts, ZenonT(30)
<1>9. x \in D => SumFunction(g) = SumFunction(f) + g[x] - f[x]
    <2> SUFFICES ASSUME x \in D PROVE SumFunction(g) = SumFunction(f) + g[x] - f[x]
        OBVIOUS
    <2> QED
        BY <1>1, <1>3, SumChanges, ZenonT(30)
<1>10. x \in D => SumFunction(g) = SumFunction(f) + n.minor - balance[x].minor
    BY <1>5, <1>9
<1> QED
    BY <1>4, <1>6, <1>7, <1>8, <1>10 DEF D, f, g

\* What calls carry of a currency changes with what the acting call carries.
LEMMA CarriedStep ==
    ASSUME TypeOK, IsFiniteSet(Calls), NEW c \in Calls, Pay(c), NEW ccy
    PROVE  LET now  == SumFunction([d \in Calls |-> Carried(d, ccy)])
               then == SumFunction([d \in Calls |-> Carried(d, ccy)'])
           IN  /\ now \in Int
               /\ then \in Int
               /\ Carried(c, ccy) \in Int
               /\ Carried(c, ccy)' \in Int
               /\ then = now + Carried(c, ccy)' - Carried(c, ccy)
<1> DEFINE f == [d \in Calls |-> Carried(d, ccy)]
           g == [d \in Calls |-> Carried(d, ccy)']
<1>1. req' = req /\ \A d \in Calls : req[d].amount.minor \in Int
    BY PayMoves, ConstantsAssumption DEF Moves, TypeOK, PaymentRequest, Money
<1>2. \A d \in Calls : Carried(d, ccy) \in Int /\ Carried(d, ccy)' \in Int
    BY <1>1 DEF Carried
<1>3. \A d \in Calls \ {c} : Carried(d, ccy)' = Carried(d, ccy)
    BY <1>1, PayKeepsOthers DEF KeepsOthers, Carried
<1>4. /\ f \in [Calls -> Int] /\ g \in [Calls -> Int]
      /\ f[c] = Carried(c, ccy) /\ g[c] = Carried(c, ccy)'
      /\ \A d \in Calls \ {c} : g[d] = f[d]
    BY <1>2, <1>3
<1> HIDE DEF f, g
<1>5. SumFunction(g) = SumFunction(f) + g[c] - f[c]
    BY <1>4, SumChanges, ZenonT(30)
<1>6. SumFunction(f) \in Int
    BY <1>4, SumFacts, ZenonT(30)
<1>7. SumFunction(g) \in Int
    BY <1>4, SumFacts, ZenonT(30)
<1> QED
    BY <1>2, <1>4, <1>5, <1>6, <1>7 DEF f, g

\* A call takes up from its payer what it carries, and lays down no more of it.
LEMMA HeldStep ==
    ASSUME IsFiniteSet(Calls), IsFiniteSet(Accounts), TypeOK, FundsFollow,
           NEW c \in Calls, Pay(c), pc[c] \notin Compensating, NEW ccy
    PROVE  Held(ccy) \in Int /\ Held(ccy)' \in Int /\ Held(ccy)' <= Held(ccy)
<1> DEFINE B  == SumFunction([a \in HoldersOf(ccy) |-> balance[a].minor])
           B2 == SumFunction([a \in HoldersOf(ccy) |-> balance'[a].minor])
           K  == SumFunction([d \in Calls |-> Carried(d, ccy)])
           K2 == SumFunction([d \in Calls |-> Carried(d, ccy)'])
           m  == req[c].amount
           now  == Carried(c, ccy)
           then == Carried(c, ccy)'
<1>1. /\ req' = req /\ balance' \in [Accounts -> Money] /\ m \in Money
      /\ \A a \in Accounts : balance[a] \in Money
    <2>1. req' = req
        BY PayMoves DEF Moves
    <2>2. balance' \in [Accounts -> Money]
        BY NextTypeOK DEF TypeOK, Next
    <2>3. m \in Money /\ \A a \in Accounts : balance[a] \in Money
        BY ConstantsAssumption DEF TypeOK, PaymentRequest
    <2> QED
        BY <2>1, <2>2, <2>3
<1>2. /\ K \in Int /\ K2 \in Int /\ now \in Int /\ then \in Int
      /\ K2 = K + then - now
    BY CarriedStep, Zenon
<1>3. Held(ccy) = B + K /\ Held(ccy)' = B2 + K2
    BY DEF Held
<1>4. ASSUME NEW x \in Accounts, NEW n \in Money, balance' = [balance EXCEPT ![x] = n]
      PROVE  /\ B \in Int /\ B2 \in Int
             /\ Opening[x].ccy = ccy => B2 = B + n.minor - balance[x].minor
             /\ Opening[x].ccy # ccy => B2 = B
    BY <1>4, HoldingsStep, Zenon
<1>5. m.minor \in Int
    BY <1>1 DEF Money
<1>6. now = IF pc[c] = "credit" /\ m.ccy = ccy THEN m.minor ELSE 0
    BY DEF Carried
<1>7. then = IF pc'[c] = "credit" /\ m.ccy = ccy THEN m.minor ELSE 0
    BY <1>1 DEF Carried
<1>8. B \in Int
    <2> DEFINE f == [a \in HoldersOf(ccy) |-> balance[a].minor]
    <2>1. f \in [HoldersOf(ccy) -> Int] /\ IsFiniteSet(HoldersOf(ccy))
        BY <1>1, FS_Subset DEF HoldersOf, Money
    <2> HIDE DEF f
    <2>2. SumFunction(f) \in Int
        BY <2>1, SumFacts, ZenonT(30)
    <2> QED
        BY <2>2 DEF f
<1> DEFINE Goal == B2 \in Int /\ B2 + then <= B + now
<1>9. SUFFICES Goal
    <2>1. ASSUME Goal PROVE B2 \in Int /\ B2 + then <= B + now
        BY <2>1
    <2> HIDE DEF B, B2, K, K2, now, then, Goal
    <2> QED
        BY <1>2, <1>3, <1>8, <2>1
<1>10. CASE DebitPayer(c)
    <2> DEFINE p == req[c].payer
               n == AfterDebit(balance[p], m)
    <2>1. pc[c] = "debit" /\ p \in Accounts
        BY <1>10, MoneyPlaces DEF FundsFollow
    <2>2. balance' = [balance EXCEPT ![p] = n]
        BY <1>10 DEF DebitPayer
    <2>3. n \in Money /\ balance[p] \in Money /\ balance[p].ccy = Opening[p].ccy
        BY <1>1, <2>1, AccountMoney DEF FundsFollow
    <2>4. /\ B2 \in Int
          /\ Opening[p].ccy = ccy => B2 = B + n.minor - balance[p].minor
          /\ Opening[p].ccy # ccy => B2 = B
        BY <1>4, <2>1, <2>2, <2>3
    <2>5. now = 0
        BY <1>6, <2>1
    <2>6. n.minor \in Int /\ balance[p].minor \in Int
        BY <2>3 DEF Money
    <2>7. CASE DebitVerdict(balance[p], m) = "NONE"
        <3>1. pc'[c] = "credit" /\ m.ccy = balance[p].ccy
            BY <1>10, <2>7 DEF DebitPayer, Step, TypeOK, DebitVerdict, SameCcy
        <3>2. n.minor = balance[p].minor - m.minor
            BY <1>1, <2>3, <2>7 DEF AfterDebit, Minus, Money
        <3>3. then = IF Opening[p].ccy = ccy THEN m.minor ELSE 0
            BY <1>7, <2>3, <3>1
        <3> HIDE DEF B, B2, now, then, m, n, p
        <3> QED
            BY <1>5, <1>8, <2>4, <2>5, <2>6, <3>2, <3>3 DEF Goal
    <2>8. CASE DebitVerdict(balance[p], m) # "NONE"
        <3>1. pc'[c] = "save"
            BY <1>10, <2>8 DEF DebitPayer, Failing, Step, TypeOK
        <3>2. n = balance[p]
            BY <2>8 DEF AfterDebit
        <3>3. then = 0
            BY <1>7, <3>1
        <3> HIDE DEF B, B2, now, then, m, n, p
        <3> QED
            BY <1>8, <2>4, <2>5, <2>6, <3>2, <3>3 DEF Goal
    <2> QED
        BY <2>7, <2>8
<1>11. CASE CreditPayee(c)
    <2> DEFINE p == req[c].payee
               n == AfterCredit(balance[p], m)
    <2>1. pc[c] = "credit" /\ pc'[c] = "seqDebit"
        BY <1>11, MoneyPlaces
    <2>2. balance' = [balance EXCEPT ![p] = n]
        BY <1>11 DEF CreditPayee
    <2>3. p \in Accounts /\ m.minor >= 0
        BY <1>5, <2>1 DEF FundsFollow, Moving, OwesPayer, IsNegative
    <2>4. n \in Money /\ balance[p] \in Money /\ balance[p].ccy = Opening[p].ccy
        BY <1>1, <2>3, AccountMoney DEF FundsFollow
    <2>5. /\ B2 \in Int
          /\ Opening[p].ccy = ccy => B2 = B + n.minor - balance[p].minor
          /\ Opening[p].ccy # ccy => B2 = B
        BY <1>4, <2>2, <2>3, <2>4
    <2>6. then = 0 /\ now = IF m.ccy = ccy THEN m.minor ELSE 0
        BY <1>6, <1>7, <2>1
    <2>7. balance[p].minor \in Int
        BY <2>4 DEF Money
    <2>8. n.minor = IF CreditVerdict(balance[p], m) = "NONE"
                    THEN balance[p].minor + m.minor ELSE balance[p].minor
        BY <1>1, <2>4 DEF AfterCredit, Plus, Money
    <2>9. CreditVerdict(balance[p], m) = "NONE" => m.ccy = Opening[p].ccy
        BY <2>4 DEF CreditVerdict, SameCcy
    <2> HIDE DEF B, B2, now, then, m, n, p
    <2> QED
        BY <1>5, <1>8, <2>3, <2>5, <2>6, <2>7, <2>8, <2>9 DEF Goal
<1>12. CASE ~DebitPayer(c) /\ ~CreditPayee(c)
    <2>1. ~RefundPayer(c) /\ ~ChargePayee(c)
        BY MoneyPlaces DEF Compensating
    <2>2. balance' = balance
        BY <1>12, <2>1, PayMoves DEF Moves
    <2>3. pc[c] # "credit" /\ pc'[c] # "credit"
        <3>1. CASE MovesMoney(c)
            BY <1>12, <2>1, <3>1, MoneyPlaces DEF MovesMoney
        <3>2. CASE ~MovesMoney(c)
            BY <3>2, OtherMoves DEF Moving, OwesPayer
        <3> QED
            BY <3>1, <3>2
    <2>4. now = 0 /\ then = 0
        BY <1>6, <1>7, <2>3
    <2>5. B2 = B
        BY <2>2
    <2> HIDE DEF B, B2, now, then
    <2> QED
        BY <1>8, <2>4, <2>5 DEF Goal
<1> HIDE DEF Goal
<1> QED
    BY <1>10, <1>11, <1>12

\* An account that is not overdrawn holds no more than there is of its currency.
LEMMA HeldBounds ==
    ASSUME IsFiniteSet(Calls), IsFiniteSet(Accounts), TypeOK, FundsFollow, NoOverdraft,
           SupplyFollows, NEW a \in Accounts
    PROVE  /\ balance[a].minor \in Int /\ Supply(Opening[a].ccy) \in Int
           /\ balance[a].minor <= Supply(Opening[a].ccy)
<1> DEFINE ccy == Opening[a].ccy
           D == HoldersOf(ccy)
           f == [x \in D |-> balance[x].minor]
           k == [c \in Calls |-> Carried(c, ccy)]
           o == [x \in D |-> Opening[x].minor]
<1>1. a \in D /\ IsFiniteSet(D) /\ D \subseteq Accounts
    BY FS_Subset DEF HoldersOf
<1>2. f \in [D -> Nat] /\ f[a] = balance[a].minor
    BY <1>1 DEF TypeOK, NoOverdraft, Money
<1>3. k \in [Calls -> Nat]
    <2>1. \A c \in Calls : req[c].amount.minor \in Int
        BY ConstantsAssumption DEF TypeOK, PaymentRequest, Money
    <2>2. \A c \in Calls : pc[c] = "credit" => req[c].amount.minor > 0
        BY DEF SupplyFollows, Moving, OwesPayer, IsPositive
    <2> QED
        BY <2>1, <2>2 DEF Carried
<1>4. o \in [D -> Int]
    BY <1>1, ConstantsAssumption DEF Money
<1>5. ccy \in Currency
    BY ConstantsAssumption DEF Money
<1>6. SumFunction(f) + SumFunction(k) <= SumFunction(o)
    BY <1>5 DEF SupplyFollows, Held, Supply
<1>7. Supply(ccy) = SumFunction(o)
    BY DEF Supply
<1> HIDE DEF D, f, k, o, ccy
<1>8. SumFunction(f) \in Nat /\ f[a] <= SumFunction(f)
    BY <1>1, <1>2, SumBounds
<1>9. SumFunction(k) \in Nat
    BY <1>3, SumBounds
<1>10. SumFunction(o) \in Int
    BY <1>1, <1>4, SumFacts, ZenonT(30)
<1>11. f[a] \in Nat
    BY <1>1, <1>2
<1>12. balance[a].minor \in Int /\ balance[a].minor <= SumFunction(o)
    BY <1>2, <1>6, <1>8, <1>9, <1>10, <1>11
<1> QED
    BY <1>7, <1>10, <1>12 DEF ccy

\* An amount that a call takes from its payer is positive, and was there.
LEMMA AmountsStep ==
    ASSUME IsFiniteSet(Calls), IsFiniteSet(Accounts), ChecksAmounts, TypeOK, FundsFollow,
           NoOverdraft, SupplyFollows, NEW c \in Calls, Pay(c)
    PROVE  /\ pc'[c] \in {"find", "authorize", "debit"} \cup Moving => IsPositive(req[c].amount)
           /\ pc'[c] \in Moving => req[c].amount.minor <= Supply(req[c].amount.ccy)
<1>1. ASSUME pc'[c] \in {"find", "authorize", "debit"} \cup Moving
      PROVE  IsPositive(req[c].amount)
    <2>1. CASE Validate(c)
        <3>1. Run(Chain, req[c]) = "NONE"
            BY <1>1, <2>1 DEF Validate, Failing, Step, TypeOK, Moving, OwesPayer, OwesPayee
        <3> QED
            BY <3>1, PositiveAmounts
    <2>2. CASE pc[c] \in {"find", "authorize", "debit"} \cup Moving
        BY <2>2 DEF SupplyFollows
    <2>3. Validate(c) \/ pc[c] \in {"find", "authorize", "debit"} \cup Moving
        <3>1. CASE MovesMoney(c)
            BY <3>1, MoneyPlaces DEF MovesMoney, Moving, OwesPayer, OwesPayee
        <3>2. CASE ~MovesMoney(c)
            <4>1. pc'[c] \in {"find", "authorize", "debit"}
                BY <1>1, <3>2, OtherMoves
            <4> QED
                BY <3>2, <4>1 DEF Pay, MovesMoney, MintId, ClaimKey, KeyTaken, Replay, Build,
                   Acquire, FindAccounts, Authorize, Decline, Capture, CaptureRefused, Save,
                   Publish, Release, Step, Failing, TypeOK
        <3> QED
            BY <3>1, <3>2
    <2> QED
        BY <2>1, <2>2, <2>3
<1>2. ASSUME pc'[c] \in Moving
      PROVE  req[c].amount.minor <= Supply(req[c].amount.ccy)
    <2>1. MovesMoney(c)
        BY <1>2, OtherMoves
    <2>2. CASE DebitPayer(c)
        <3> DEFINE p == req[c].payer
                   m == req[c].amount
        <3>1. p \in Accounts
            BY <2>2, MoneyPlaces DEF FundsFollow
        <3>2. DebitVerdict(balance[p], m) = "NONE"
            BY <1>2, <2>2 DEF DebitPayer, Failing, Step, TypeOK, Moving, OwesPayer, OwesPayee
        <3>3. m.ccy = Opening[p].ccy /\ ~(m.minor > balance[p].minor)
            BY <3>1, <3>2 DEF DebitVerdict, SameCcy, Exceeds, FundsFollow
        <3>4. m.minor \in Int
            BY ConstantsAssumption DEF TypeOK, PaymentRequest, Money
        <3>5. /\ balance[p].minor \in Int /\ Supply(Opening[p].ccy) \in Int
              /\ balance[p].minor <= Supply(Opening[p].ccy)
            BY <3>1, HeldBounds
        <3> HIDE DEF p
        <3> QED
            BY <3>3, <3>4, <3>5
    <2>3. CASE ~DebitPayer(c)
        <3>1. pc[c] \in Moving
            BY <2>1, <2>3, MoneyPlaces DEF MovesMoney, Moving, OwesPayer, OwesPayee
        <3> QED
            BY <3>1 DEF SupplyFollows
    <2> QED
        BY <2>2, <2>3
<1> QED
    BY <1>1, <1>2

LEMMA SupplyStep ==
    ASSUME IsFiniteSet(Calls), IsFiniteSet(Accounts), ~LedgerFaults, ChecksAmounts,
           TypeOK, FundsFollow, NoOverdraft, SupplyFollows, NEW c \in Calls, Pay(c)
    PROVE  SupplyFollows'
<1>1. req' = req
    BY PayMoves DEF Moves
<1>2. pc[c] \notin Compensating /\ \A d \in Calls : pc'[d] \notin Compensating
    BY NoCompensation DEF SupplyFollows
<1>3. ASSUME NEW ccy \in Currency PROVE Held(ccy)' <= Supply(ccy)
    <2>1. Held(ccy) \in Int /\ Held(ccy)' \in Int /\ Held(ccy)' <= Held(ccy)
        BY <1>2, HeldStep
    <2>2. Held(ccy) <= Supply(ccy)
        BY DEF SupplyFollows
    <2>3. Supply(ccy) \in Int
        <3> DEFINE o == [a \in HoldersOf(ccy) |-> Opening[a].minor]
        <3>1. o \in [HoldersOf(ccy) -> Int] /\ IsFiniteSet(HoldersOf(ccy))
            BY FS_Subset, ConstantsAssumption DEF HoldersOf, Money
        <3> HIDE DEF o
        <3>2. SumFunction(o) \in Int
            BY <3>1, SumFacts, ZenonT(30)
        <3> QED
            BY <3>2 DEF Supply, o
    <2> QED
        BY <2>1, <2>2, <2>3
<1>4. ASSUME NEW d \in Calls
      PROVE  /\ pc'[d] \in {"find", "authorize", "debit"} \cup Moving => IsPositive(req[d].amount)
             /\ pc'[d] \in Moving => req[d].amount.minor <= Supply(req[d].amount.ccy)
    <2>1. CASE d = c
        BY <2>1, AmountsStep
    <2>2. CASE d # c
        BY <2>2, PayKeepsOthers DEF KeepsOthers, SupplyFollows
    <2> QED
        BY <2>1, <2>2
<1>5. ASSUME NEW i \in DOMAIN journal'
      PROVE  journal'[i].amount.minor \in 1..Supply(journal'[i].amount.ccy)
    <2>1. CASE i \in DOMAIN journal /\ journal'[i] = journal[i]
        BY <2>1 DEF SupplyFollows
    <2>2. CASE PostAccepted(c) /\ journal'[i].amount = req[c].amount
        <3>1. pc[c] = "post"
            BY <2>2, MoneyPlaces
        <3>2. req[c].amount.minor > 0 /\ req[c].amount.minor <= Supply(req[c].amount.ccy)
            BY <3>1 DEF SupplyFollows, Moving, OwesPayer, IsPositive
        <3>3. req[c].amount.minor \in Int
            BY ConstantsAssumption DEF TypeOK, PaymentRequest, Money
        <3> QED
            BY <2>2, <3>2, <3>3
    <2>3. \/ i \in DOMAIN journal /\ journal'[i] = journal[i]
          \/ PostAccepted(c) /\ journal'[i].amount = req[c].amount
        <3>1. CASE PostAccepted(c)
            <4>1. /\ Posting(c)[1].amount = req[c].amount
                  /\ Posting(c)[2].amount = req[c].amount
                BY DEF Posting, Entry
            <4> QED
                BY <3>1, <4>1, PostingAppends
        <3>2. CASE ~PostAccepted(c)
            BY <3>2, PayMoves DEF Moves
        <3> QED
            BY <3>1, <3>2
    <2> QED
        BY <2>1, <2>2, <2>3
<1> QED
    BY <1>1, <1>2, <1>3, <1>4, <1>5 DEF SupplyFollows

\* When the chain checks amounts and the ledger refuses no balanced batch, no account
\* ever holds and no leg ever moves more than there is of its currency.
THEOREM SumsStayInSupply ==
    ASSUME IsFiniteSet(Calls), IsFiniteSet(Accounts), ~LedgerFaults, ChecksAmounts
    PROVE  Spec => []SumsFitTheSupply
<1> DEFINE Inv == FundsFollow /\ SupplyFollows
<1>1. Init => Inv
    <2> SUFFICES ASSUME Init PROVE SupplyFollows
        BY InitFunds
    <2>1. /\ balance = Opening /\ journal = << >>
          /\ \A c \in Calls : pc[c] = "mint"
        BY DEF Init
    <2>2. ASSUME NEW ccy \in Currency PROVE Held(ccy) <= Supply(ccy)
        <3> DEFINE o == [a \in HoldersOf(ccy) |-> Opening[a].minor]
                   k == [c \in Calls |-> Carried(c, ccy)]
        <3>1. o \in [HoldersOf(ccy) -> Int] /\ IsFiniteSet(HoldersOf(ccy))
            BY FS_Subset, ConstantsAssumption DEF HoldersOf, Money
        <3>2. k \in [Calls -> {0}]
            BY <2>1 DEF Carried
        <3>3. Held(ccy) = SumFunction(o) + SumFunction(k) /\ Supply(ccy) = SumFunction(o)
            BY <2>1 DEF Held, Supply
        <3> HIDE DEF o, k
        <3>4. SumFunction(o) \in Int
            BY <3>1, SumFacts, ZenonT(30)
        <3>5. SumFunction(k) = 0
            BY <3>2, SumOfZeros
        <3> QED
            BY <3>3, <3>4, <3>5
    <2> QED
        BY <2>1, <2>2 DEF SupplyFollows, Compensating, Moving, OwesPayer, OwesPayee
<1>2. TypeOK /\ NoOverdraft /\ Inv /\ [Next]_vars => Inv'
    <2> SUFFICES ASSUME TypeOK, NoOverdraft, Inv, [Next]_vars PROVE Inv'
        OBVIOUS
    <2>1. ASSUME NEW c \in Calls, Pay(c) PROVE Inv'
        BY <2>1, FundsStep, SupplyStep
    <2>2. CASE ~ \E c \in Calls : Pay(c)
        <3>1. UNCHANGED <<req, pc, balance, journal>>
            BY <2>2, Elsewhere DEF stack
        <3> QED
            BY <3>1 DEF FundsFollow, SupplyFollows, Held, Carried
    <2> QED
        BY <2>1, <2>2
<1>3. TypeOK /\ NoOverdraft /\ Inv => SumsFitTheSupply
    <2> SUFFICES ASSUME TypeOK, NoOverdraft, Inv,
                        NEW a \in Accounts
                 PROVE  balance[a].minor <= Supply(balance[a].ccy)
        BY DEF SumsFitTheSupply, SupplyFollows
    <2> QED
        BY HeldBounds DEF FundsFollow
<1> HIDE DEF Inv
<1> QED
    BY <1>1, <1>2, <1>3, TypeCorrect, NeverOverdrawn, PTL DEF Spec

-----------------------------------------------------------------------------
\* The legs.

\* At every moment a leg in the journal is that of a call's own request, and each
\* transaction there has exactly one that takes and one that gives.
PostingsFollow ==
    /\ \A i \in DOMAIN journal : \E c \in Calls :
          /\ journal[i].txn = txnId[c] /\ txnId[c] # 0
          /\ journal[i].dir \in Direction /\ journal[i].amount = req[c].amount
          /\ journal[i].account = IF journal[i].dir = "DEBIT" THEN req[c].payer
                                                             ELSE req[c].payee
    /\ \A i \in DOMAIN journal, dir \in Direction : \E j \in DOMAIN journal :
          journal[j].txn = journal[i].txn /\ journal[j].dir = dir
    /\ \A i, j \in DOMAIN journal :
          journal[i].txn = journal[j].txn /\ journal[i].dir = journal[j].dir => i = j

LEMMA PostingsStep ==
    ASSUME TypeOK, Ownership, PostingsFollow, NEW c \in Calls, Pay(c)
    PROVE  PostingsFollow'
<1> DEFINE Whose(e, d, id) ==
               /\ e.txn = id /\ id # 0
               /\ e.dir \in Direction /\ e.amount = req[d].amount
               /\ e.account = IF e.dir = "DEBIT" THEN req[d].payer ELSE req[d].payee
<1>1. Moves(c) /\ req' = req
    BY PayMoves DEF Moves
<1>2. \A d \in Calls : txnId[d] # 0 => txnId'[d] = txnId[d]
    BY <1>1, ClaimsStep DEF Ownership
<1>3. ASSUME NEW i \in DOMAIN journal
      PROVE  \E d \in Calls : Whose(journal[i], d, txnId'[d])
    BY <1>2 DEF PostingsFollow
<1>4. ASSUME NEW i \in DOMAIN journal, NEW dir \in Direction
      PROVE  \E j \in DOMAIN journal : journal[j].txn = journal[i].txn /\ journal[j].dir = dir
    BY DEF PostingsFollow
<1>5. CASE PostAccepted(c)
    <2> DEFINE n == Len(journal) + 1
               m == Len(journal) + 2
    <2>1. /\ DOMAIN journal = 1..Len(journal) /\ Len(journal) \in Nat
          /\ DOMAIN journal' = 1..(Len(journal) + 2)
          /\ \A i \in 1..Len(journal) : journal'[i] = journal[i]
          /\ journal'[Len(journal) + 1] = Posting(c)[1]
          /\ journal'[Len(journal) + 2] = Posting(c)[2]
        BY <1>5, PostingAppends
    <2>2. /\ DOMAIN journal' = DOMAIN journal \cup {n, m}
          /\ n \notin DOMAIN journal /\ m \notin DOMAIN journal /\ n # m
          /\ \A i \in DOMAIN journal : journal'[i] = journal[i]
          /\ journal'[n] = Posting(c)[1] /\ journal'[m] = Posting(c)[2]
        BY <2>1
    <2> HIDE DEF n, m
    <2>3. pc[c] = "post" /\ txnId' = txnId /\ txnId[c] # 0 /\ txnId[c] \notin Posted
        <3>1. pc[c] = "post" /\ txnId' = txnId
            BY <1>5 DEF PostAccepted, Step, stack
        <3>2. txnId[c] # 0
            BY <3>1, HasId DEF Ownership
        <3> QED
            BY <3>1, <3>2, NoLegsYet DEF Ownership, AfterPost
    <2>4. \A i \in DOMAIN journal : journal[i].txn # txnId[c]
        BY <2>3 DEF Posted
    <2>5. /\ Whose(journal'[n], c, txnId[c]) /\ journal'[n].dir = "DEBIT"
          /\ Whose(journal'[m], c, txnId[c]) /\ journal'[m].dir = "CREDIT"
        BY <2>2, <2>3 DEF Posting, Entry, Direction
    <2>6. ASSUME NEW i \in DOMAIN journal'
          PROVE  \E d \in Calls : Whose(journal'[i], d, txnId'[d])
        BY <1>3, <2>2, <2>3, <2>5
    <2>7. ASSUME NEW i \in DOMAIN journal', NEW dir \in Direction
          PROVE  \E j \in DOMAIN journal' :
                     journal'[j].txn = journal'[i].txn /\ journal'[j].dir = dir
        <3>1. CASE i \in DOMAIN journal
            <4>1. PICK j \in DOMAIN journal : journal[j].txn = journal[i].txn /\ journal[j].dir = dir
                BY <1>4, <3>1
            <4> QED
                BY <2>2, <3>1, <4>1
        <3>2. CASE i \in {n, m}
            <4>1. journal'[i].txn = txnId[c]
                BY <2>5, <3>2
            <4>2. CASE dir = "DEBIT"
                BY <2>2, <2>5, <4>1, <4>2
            <4>3. CASE dir = "CREDIT"
                BY <2>2, <2>5, <4>1, <4>3
            <4> QED
                BY <4>2, <4>3 DEF Direction
        <3> QED
            BY <2>2, <3>1, <3>2
    <2>8. ASSUME NEW i \in DOMAIN journal', NEW j \in DOMAIN journal',
                 journal'[i].txn = journal'[j].txn, journal'[i].dir = journal'[j].dir
          PROVE  i = j
        <3>1. \A k, l \in DOMAIN journal :
                  journal[k].txn = journal[l].txn /\ journal[k].dir = journal[l].dir => k = l
            BY DEF PostingsFollow
        <3>2. \A k \in {n, m} : journal'[k].txn = txnId[c]
            BY <2>5
        <3> QED
            BY <2>2, <2>4, <2>5, <2>8, <3>1, <3>2
    <2>9. \A i \in DOMAIN journal', dir \in Direction : \E j \in DOMAIN journal' :
              journal'[j].txn = journal'[i].txn /\ journal'[j].dir = dir
        BY <2>7
    <2>10. \A i, j \in DOMAIN journal' :
              journal'[i].txn = journal'[j].txn /\ journal'[i].dir = journal'[j].dir => i = j
        BY <2>8
    <2> QED
        BY <1>1, <2>6, <2>9, <2>10 DEF PostingsFollow
<1>6. CASE ~PostAccepted(c)
    <2>1. journal' = journal
        BY <1>1, <1>6 DEF Moves
    <2> QED
        BY <1>1, <1>3, <1>4, <2>1 DEF PostingsFollow
<1> QED
    BY <1>5, <1>6

\* post(): the journal is double entry at every moment, whatever is refused and undone:
\* each leg is that of the request of the call whose transaction it names.
THEOREM PostingsHold == Spec => []PostingsFollow
<1>1. Init => PostingsFollow
    BY DEF Init, PostingsFollow
<1>2. TypeOK /\ Ownership /\ PostingsFollow /\ [Next]_vars => PostingsFollow'
    <2> SUFFICES ASSUME TypeOK, Ownership, PostingsFollow, [Next]_vars PROVE PostingsFollow'
        OBVIOUS
    <2>1. CASE ~ \E c \in Calls : Pay(c)
        <3>1. UNCHANGED <<req, txnId, journal>>
            BY <2>1, Elsewhere DEF stack
        <3> QED
            BY <3>1 DEF PostingsFollow
    <2> QED
        BY <2>1, PostingsStep
<1> QED
    BY <1>1, <1>2, TypeCorrect, OwnershipHolds, PTL DEF Spec

-----------------------------------------------------------------------------
\* The race for a wallet.

\* Nothing but want of funds stands in the way of a payment from one account to another.
OnlyFundsDecide ==
    /\ ~LedgerFaults
    /\ \A m \in PaymentMethod : Providers[m] = Approves
    /\ \A r \in Requests : r.payer # r.payee =>
          /\ Run(Chain, r) = "NONE"
          /\ IsPositive(r.amount)
          /\ {r.payer, r.payee} \subseteq Existing
          /\ SameCcy(r.amount, Opening[r.payer])

\* Each call of a race asks for the same, and what it asks for is in order.
LEMMA RacersAsk ==
    ASSUME TypeOK, OnlyFundsDecide, NEW c \in Calls, Racing(c), NEW d \in Calls
    PROVE  /\ req[d].payer = req[c].payer /\ req[d].payee = req[c].payee
           /\ req[d].amount = req[c].amount
           /\ req[d].payer # req[d].payee
           /\ Run(Chain, req[d]) = "NONE"
           /\ req[d].amount \in Money /\ req[d].amount.minor > 0
           /\ req[d].payer \in Accounts /\ req[d].payee \in Accounts
           /\ {req[d].payer, req[d].payee} \subseteq Existing
           /\ NoId \notin {req[d].payer, req[d].payee}
           /\ req[d].amount.ccy = Opening[req[d].payer].ccy
           /\ Strategy(d) = Approves
<1>1. /\ req[c] \in PaymentRequest /\ req[d] \in PaymentRequest
      /\ req[d] = [req[c] EXCEPT !.key = req[d].key]
      /\ req[c].payer # req[c].payee
    BY ConstantsAssumption DEF TypeOK, Racing
<1>2. /\ req[d].payer = req[c].payer /\ req[d].payee = req[c].payee
      /\ req[d].amount = req[c].amount
    BY <1>1 DEF PaymentRequest
<1>3. /\ req[d] \in Requests /\ req[d].payer # req[d].payee
      /\ req[d].method \in PaymentMethod /\ req[d].amount \in Money
    BY <1>1, <1>2 DEF TypeOK, PaymentRequest
<1>4. /\ Run(Chain, req[d]) = "NONE"
      /\ req[d].amount.minor > 0
      /\ {req[d].payer, req[d].payee} \subseteq Existing
      /\ req[d].amount.ccy = Opening[req[d].payer].ccy
      /\ Strategy(d) = Approves
    BY <1>3 DEF OnlyFundsDecide, IsPositive, SameCcy, Strategy
<1>5. Existing \subseteq Accounts /\ NoId \notin Accounts
    BY ConstantsAssumption
<1> QED
    BY <1>2, <1>3, <1>4, <1>5

\* If one call races, all do.
LEMMA AllRace ==
    ASSUME TypeOK, NEW c \in Calls, Racing(c), NEW d \in Calls
    PROVE  Racing(d)
<1>1. \A e \in Calls : req[e] \in PaymentRequest
    BY ConstantsAssumption DEF TypeOK
<1>2. \A e \in Calls : req[e] = [req[c] EXCEPT !.key = req[e].key]
    BY DEF Racing
<1>3. req[d].payer # req[d].payee
    BY <1>1, <1>2 DEF PaymentRequest, Racing
<1>4. ASSUME NEW e \in Calls PROVE req[e] = [req[d] EXCEPT !.key = req[e].key]
    <2>1. /\ req[c] \in PaymentRequest /\ req[d] \in PaymentRequest
          /\ req[e] \in PaymentRequest
        BY <1>1
    <2>2. req[d] = [req[c] EXCEPT !.key = req[d].key]
        BY <1>2
    <2>3. req[e] = [req[c] EXCEPT !.key = req[e].key]
        BY <1>2
    <2> QED
        BY <2>1, <2>2, <2>3 DEF PaymentRequest
<1> QED
    BY <1>3, <1>4 DEF Racing

\* The payment c asks for is in order, but for what the chain may say of it and for funds.
Payable(c) ==
    /\ req[c].payer # req[c].payee
    /\ {req[c].payer, req[c].payee} \subseteq opened
    /\ req[c].amount \in Money /\ IsPositive(req[c].amount)
    /\ SameCcy(req[c].amount, Opening[req[c].payer])
    /\ Strategy(c) = Approves
    /\ Run(Chain, req[c]) # Thrown

\* A step of such a call takes the amount from the wallet, or is refused it, or touches
\* neither the wallet nor who has taken from it.
LEMMA PayerStep ==
    ASSUME TypeOK, Bookkeeping, FundsFollow, ~LedgerFaults,
           \A d \in Calls : pc[d] \notin Compensating,
           NEW c \in Calls, Payable(c), Pay(c)
    PROVE  LET p      == req[c].payer
               left   == balance[p].minor
               amount == req[c].amount.minor
           IN  \/ /\ pc[c] = "debit" /\ ~Took(c) /\ Took(c)'
                  /\ balance'[p].minor = left - amount /\ amount <= left
                  /\ UNCHANGED <<status, error>>
               \/ /\ pc[c] = "debit" /\ ~Took(c) /\ ~Took(c)'
                  /\ balance'[p] = balance[p] /\ left < amount
                  /\ error'[c] = "INSUFFICIENT_FUNDS"
               \/ /\ Took(c) <=> Took(c)'
                  /\ balance'[p] = balance[p]
                  /\ \/ /\ error'[c] = error[c]
                        /\ status'[c] = "FAILED" => status[c] = "FAILED"
                     \/ /\ pc[c] = "validate" /\ Run(Chain, req[c]) # "NONE"
                        /\ error'[c] = Run(Chain, req[c])
<1> DEFINE p    == req[c].payer
           m    == req[c].amount
           Rest == /\ Took(c) <=> Took(c)'
                   /\ balance'[p] = balance[p]
                   /\ \/ /\ error'[c] = error[c]
                         /\ status'[c] = "FAILED" => status[c] = "FAILED"
                      \/ /\ pc[c] = "validate" /\ Run(Chain, req[c]) # "NONE"
                         /\ error'[c] = Run(Chain, req[c])
<1>1. /\ req[c].payer # req[c].payee
      /\ m \in Money /\ m.minor > 0 /\ p \in Accounts /\ req[c].payee \in Accounts
      /\ {p, req[c].payee} \subseteq opened
      /\ NoId \notin {p, req[c].payee}
      /\ m.ccy = Opening[p].ccy
      /\ Strategy(c) = Approves
      /\ Run(Chain, req[c]) # Thrown
    BY ConstantsAssumption DEF Payable, IsPositive, SameCcy, TypeOK
<1>2. balance[p] \in Money /\ balance[p].ccy = Opening[p].ccy
    BY <1>1 DEF TypeOK, FundsFollow
<1>3. /\ pc[c] \in Unapproved => status[c] = "INITIATED"
      /\ pc[c] \in Approved => status[c] = "AUTHORIZED"
    BY DEF Bookkeeping, StatusFollows
<1>4. \A code : /\ ~(code \in Strategy(c).authorize \ {"NONE"})
                /\ ~(code \in Strategy(c).capture \ {"NONE"})
    BY <1>1 DEF Approves
<1>5. ~Decline(c) /\ ~CaptureRefused(c) /\ ~PostRejected(c) /\ ~RefundPayer(c)
        /\ ~ChargePayee(c)
    <2>1. ~Decline(c) /\ ~CaptureRefused(c)
        BY <1>4 DEF Decline, CaptureRefused
    <2>2. ~PostRejected(c)
        BY PostingBalances DEF PostRejected, Refusals
    <2>3. ~RefundPayer(c) /\ ~ChargePayee(c)
        BY MoneyPlaces DEF Compensating
    <2> QED
        BY <2>1, <2>2, <2>3
<1>6. CASE DebitPayer(c)
    <2>1. pc[c] = "debit" /\ status[c] = "AUTHORIZED" /\ ~Took(c)
        BY <1>3, <1>6, MoneyPlaces DEF Approved, Took
    <2>2. balance'[p] = AfterDebit(balance[p], m)
        BY <1>1, <1>6 DEF DebitPayer, TypeOK
    <2>3. DebitVerdict(balance[p], m)
             = IF m.minor > balance[p].minor THEN "INSUFFICIENT_FUNDS" ELSE "NONE"
        BY <1>1, <1>2 DEF DebitVerdict, SameCcy, IsNegative, Exceeds, Money
    <2>4. CASE DebitVerdict(balance[p], m) = "NONE"
        <3>1. pc'[c] = "credit" /\ UNCHANGED <<status, error>>
            BY <1>6, <2>4 DEF DebitPayer, Step, TypeOK
        <3>2. Took(c)'
            BY <3>1 DEF Took
        <3>3. balance'[p].minor = balance[p].minor - m.minor /\ m.minor <= balance[p].minor
            BY <1>1, <1>2, <2>2, <2>3, <2>4 DEF AfterDebit, Minus, Money
        <3> QED
            BY <2>1, <3>1, <3>2, <3>3
    <2>5. CASE DebitVerdict(balance[p], m) # "NONE"
        <3>1. /\ pc'[c] = "save" /\ status'[c] = Advance(status[c], "FAILED")
              /\ error'[c] = "INSUFFICIENT_FUNDS"
            BY <1>6, <2>3, <2>5 DEF DebitPayer, Failing, Step, TypeOK
        <3>2. status'[c] = "FAILED"
            BY <2>1, <3>1 DEF Advance, CanTransition, Allowed, TxnStatus
        <3>3. ~Took(c)'
            BY <3>1, <3>2 DEF Took
        <3>4. balance'[p] = balance[p]
            BY <2>2, <2>5 DEF AfterDebit
        <3>5. balance[p].minor < m.minor
            BY <1>1, <1>2, <2>3, <2>5 DEF Money
        <3> QED
            BY <2>1, <3>1, <3>3, <3>4, <3>5
    <2> QED
        BY <2>4, <2>5
<1>7. CASE ~DebitPayer(c)
    <2> SUFFICES Rest
        OBVIOUS
    <2> USE DEF TypeOK, Step, Took, stack, shared
    <2>1. CASE MintId(c) \/ ClaimKey(c) \/ KeyTaken(c) \/ Replay(c) \/ Build(c) \/ Acquire(c)
        BY <2>1 DEF MintId, ClaimKey, KeyTaken, Replay, Build, Acquire
    <2>2. CASE Validate(c)
        <3>1. pc[c] = "validate" /\ status[c] = "INITIATED" /\ UNCHANGED balance
            BY <1>3, <2>2 DEF Validate, Failing, Unapproved
        <3>2. CASE Run(Chain, req[c]) = "NONE"
            BY <2>2, <3>1, <3>2 DEF Validate, Failing, Thrown
        <3>3. CASE Run(Chain, req[c]) # "NONE"
            <4>1. Failing(c, "validate", Run(Chain, req[c]))
                BY <1>1, <2>2, <3>3 DEF Validate
            <4>2. /\ pc'[c] = "save" /\ error'[c] = Run(Chain, req[c])
                  /\ status'[c] = Advance("INITIATED", "FAILED")
                BY <3>1, <4>1 DEF Failing
            <4>3. status'[c] # "CAPTURED"
                BY <4>2 DEF Advance
            <4> QED
                BY <3>1, <3>3, <4>2, <4>3
        <3> QED
            BY <3>2, <3>3
    <2>3. CASE FindAccounts(c)
        BY <1>1, <2>3 DEF FindAccounts
    <2>4. CASE Authorize(c)
        <3>1. status'[c] = "AUTHORIZED" /\ status[c] = "INITIATED" /\ UNCHANGED balance
            BY <1>3, <2>4 DEF Authorize, Advance, CanTransition, Allowed, TxnStatus, Unapproved
        <3> QED
            BY <2>4, <3>1 DEF Authorize
    <2>5. CASE CreditPayee(c)
        BY <1>1, <2>5 DEF CreditPayee
    <2>6. CASE SeqOfDebit(c) \/ SeqOfCredit(c) \/ PostAccepted(c)
        BY <2>6 DEF SeqOfDebit, SeqOfCredit, PostAccepted
    <2>7. CASE Capture(c)
        <3>1. status'[c] = "CAPTURED" /\ UNCHANGED balance
            BY <1>3, <2>7 DEF Capture, Advance, CanTransition, Allowed, TxnStatus, Approved
        <3> QED
            BY <2>7, <3>1 DEF Capture
    <2>8. CASE Save(c) \/ Publish(c) \/ Release(c)
        BY <2>8 DEF Save, Publish, Release
    <2> QED
        BY <1>5, <1>7, <2>1, <2>2, <2>3, <2>4, <2>5, <2>6, <2>7, <2>8 DEF Pay
<1> QED
    BY <1>6, <1>7

\* A claim names the call that made it.
LEMMA ClaimsAreOthersStep ==
    ASSUME TypeOK, Ownership, Bookkeeping, ClaimsAreOthers, NEW c \in Calls, Pay(c)
    PROVE  ClaimsAreOthers'
<1> DEFINE Early == {"mint", "claim", "replay"}
<1> Moves(c) /\ KeepsOthers(c)
    BY PayMoves, PayKeepsOthers
<1>1. req' = req /\ \A d \in Calls : req[d].key \in Keys
    BY ConstantsAssumption DEF Moves, TypeOK, PaymentRequest
<1>2. /\ \A k \in Keys : claimed[k] # 0 => claimed'[k] = claimed[k]
      /\ \A d \in Calls : txnId[d] # 0 => txnId'[d] = txnId[d]
    BY ClaimsStep DEF Ownership
<1>3. ASSUME NEW d \in Calls, NEW k \in Keys, pc'[d] \in Early, claimed'[k] # 0
      PROVE  claimed'[k] # txnId'[d]
    <2>1. pc[d] \in Early
        <3>1. CASE d = c
            BY <1>3, <3>1 DEF Pay, MintId, ClaimKey, KeyTaken, Replay, Build, Acquire,
               Validate, FindAccounts, Authorize, Decline, DebitPayer, CreditPayee,
               SeqOfDebit, SeqOfCredit, PostAccepted, PostRejected, RefundPayer,
               ChargePayee, Capture, CaptureRefused, Save, Publish, Release, Step, Failing,
               TypeOK
        <3>2. CASE d # c
            BY <1>3, <3>2 DEF KeepsOthers
        <3> QED
            BY <3>1, <3>2
    <2>2. CASE claimed[k] # 0
        <3>1. PICK e \in Calls : txnId[e] = claimed[k]
            BY <2>2 DEF Bookkeeping, ClaimedByItsCaller
        <3>2. claimed[k] # txnId[d] /\ claimed'[k] = claimed[k]
            BY <1>2, <2>1, <2>2 DEF ClaimsAreOthers
        <3>3. CASE MintId(c) /\ d = c
            <4>1. txnId'[d] = nextTxn /\ txnId[e] < nextTxn
                BY <3>3 DEF MintId, TypeOK, Ownership, Reservations, IdsAreFresh
            <4>2. txnId[e] \in Nat /\ nextTxn \in Nat
                BY DEF TypeOK
            <4> QED
                BY <3>1, <3>2, <4>1, <4>2
        <3>4. CASE ~(MintId(c) /\ d = c)
            <4>1. txnId'[d] = txnId[d]
                BY <3>4 DEF Moves, KeepsOthers
            <4> QED
                BY <3>2, <4>1
        <3> QED
            BY <3>3, <3>4
    <2>3. CASE claimed[k] = 0
        <3>1. ClaimKey(c) /\ k = req[c].key
            BY <1>3, <2>3 DEF Moves, ClaimKey, TypeOK
        <3>2. /\ pc[c] = "claim" /\ pc'[c] = "build"
              /\ claimed'[k] = txnId[c] /\ txnId' = txnId
            BY <1>1, <3>1 DEF ClaimKey, Step, TypeOK, stack
        <3>3. d # c /\ txnId[c] # 0
            BY <1>3, <3>2 DEF Ownership, Reservations, IdsAreFresh
        <3> QED
            BY <3>2, <3>3 DEF Ownership, Reservations, IdsAreFresh
    <2> QED
        BY <2>2, <2>3
<1> QED
    BY <1>3 DEF ClaimsAreOthers

\* ... and a call that lost a key finds the winner's id.
LEMMA ClaimsFollowStep ==
    ASSUME TypeOK, Ownership, Bookkeeping, ClaimsFollow, NEW c \in Calls, Pay(c)
    PROVE  ClaimsFollow'
<1> Moves(c) /\ KeepsOthers(c)
    BY PayMoves, PayKeepsOthers
<1>1. /\ req' = req /\ \A d \in Calls : CannotThrow(d)' <=> CannotThrow(d)
      /\ \A d \in Calls : req[d].key \in Keys
    BY ConstantsAssumption DEF Moves, CannotThrow, TypeOK, PaymentRequest
<1>2. /\ \A k \in Keys : claimed[k] # 0 => claimed'[k] = claimed[k]
      /\ \A d \in Calls : txnId[d] # 0 => txnId'[d] = txnId[d]
    BY ClaimsStep DEF Ownership
<1>3. ClaimsAreOthers'
    BY ClaimsAreOthersStep DEF ClaimsFollow
<1>4. ASSUME NEW d \in Calls, pc'[d] \notin {"mint", "claim"}
      PROVE  claimed'[req[d].key] # 0
    <2>1. CASE pc[d] \notin {"mint", "claim"}
        BY <1>1, <1>2, <2>1 DEF ClaimsFollow
    <2>2. CASE pc[d] \in {"mint", "claim"}
        <3>1. d = c
            BY <1>4, <2>2 DEF KeepsOthers
        <3>2. ClaimKey(c) \/ KeyTaken(c)
            BY <1>4, <2>2, <3>1 DEF Pay, MintId, Replay, Build, Acquire, Validate,
               FindAccounts, Authorize, Decline, DebitPayer, CreditPayee, SeqOfDebit,
               SeqOfCredit, PostAccepted, PostRejected, RefundPayer, ChargePayee, Capture,
               CaptureRefused, Save, Publish, Release, Step, Failing, TypeOK
        <3>3. CASE ClaimKey(c)
            <4>1. txnId[c] # 0 /\ claimed'[req[c].key] = txnId[c]
                BY <1>1, <3>3 DEF ClaimKey, Step, TypeOK, Ownership, Reservations, IdsAreFresh
            <4> QED
                BY <3>1, <4>1
        <3>4. CASE KeyTaken(c)
            BY <3>1, <3>4 DEF KeyTaken, shared
        <3> QED
            BY <3>2, <3>3, <3>4
    <2> QED
        BY <2>1, <2>2
<1>5. ASSUME NEW d \in Calls, CannotThrow(d), pc'[d] \in {"release", "done"},
             status'[d] = "INITIATED"
      PROVE  claimed'[req[d].key] # txnId'[d]
    <2>1. txnId[d] # 0 => txnId'[d] = txnId[d]
        BY <1>2
    <2>2. CASE pc[d] \in {"release", "done"} /\ status[d] = "INITIATED"
        <3>1. claimed[req[d].key] \notin {0, txnId[d]} /\ txnId[d] # 0
            BY <1>5, <2>2 DEF ClaimsFollow, Ownership, Reservations, IdsAreFresh
        <3> QED
            BY <1>1, <1>2, <2>1, <3>1
    <2>3. CASE Replay(c) /\ d = c
        <3>1. /\ pc[c] = "replay" /\ UNCHANGED <<txnId, claimed>>
            BY <2>3 DEF Replay, Step, shared
        <3>2. claimed[req[c].key] # 0
            BY <3>1 DEF Bookkeeping, AnswerFollows
        <3> QED
            BY <1>1, <2>3, <3>1, <3>2 DEF ClaimsFollow, ClaimsAreOthers
    <2>4. \/ Replay(c) /\ d = c
          \/ pc[d] \in {"release", "done"} /\ status[d] = "INITIATED"
        <3>1. CASE d # c
            BY <1>5, <3>1 DEF KeepsOthers
        <3>2. CASE d = c /\ ~Replay(c)
            <4>1. Build(c) \/ Validate(c) \/ Publish(c) \/ Release(c)
                BY <1>5, <3>2 DEF Pay, MintId, ClaimKey, KeyTaken, Acquire, FindAccounts,
                   Authorize, Decline, DebitPayer, CreditPayee, SeqOfDebit, SeqOfCredit,
                   PostAccepted, PostRejected, RefundPayer, ChargePayee, Capture,
                   CaptureRefused, Save, Step, Failing, TypeOK
            <4>2. NoId \notin {req[c].payer, req[c].payee} /\ Run(Chain, req[c]) # Thrown
                BY <1>5, <3>2 DEF CannotThrow
            <4>3. ~Build(c) /\ ~Validate(c)
                BY <1>5, <3>2, <4>2 DEF Build, Validate, Step, Failing, TypeOK
            <4>4. CASE Publish(c)
                <5>1. pc[c] = "publish" /\ status' = status
                    BY <4>4 DEF Publish, Step
                <5>2. status[c] # "INITIATED"
                    BY <5>1 DEF Bookkeeping, StatusFollows, Verdict
                <5> QED
                    BY <1>5, <3>2, <5>1, <5>2
            <4>5. CASE Release(c)
                BY <1>5, <3>2, <4>5 DEF Release, Step, stack
            <4> QED
                BY <4>1, <4>3, <4>4, <4>5
        <3> QED
            BY <3>1, <3>2
    <2> QED
        BY <2>2, <2>3, <2>4
<1> QED
    BY <1>1, <1>3, <1>4, <1>5 DEF ClaimsFollow

\* ... so that when its call has returned, the key has a transaction of its own.
LEMMA ClaimantIsServed ==
    ASSUME TypeOK, Ownership, Bookkeeping, ClaimsFollow, NEW c \in Calls, NEW d \in Calls,
           CannotThrow(d), pc[d] \in {"release", "done"}, req[d].key = req[c].key,
           txnId[d] = claimed[req[c].key]
    PROVE  status[d] # "INITIATED" /\ Find(txnId[d]) = {TransactionOf(d)}
BY DEF ClaimsFollow, Bookkeeping, MoneyFollows, AfterSave

\* What is left in the wallet follows the number of calls that have taken from it.
LEMMA RaceStep ==
    ASSUME IsFiniteSet(Calls), TypeOK, Ownership, Bookkeeping, FundsFollow, OnlyFundsDecide,
           RaceFollows, \A d \in Calls : pc[d] \notin Compensating, NEW c \in Calls, Pay(c)
    PROVE  RaceFollows'
<1> Moves(c) /\ KeepsOthers(c)
    BY PayMoves, PayKeepsOthers
<1>1. req' = req /\ \A d \in Calls : Racing(d)' <=> Racing(d)
    BY DEF Moves, Racing
<1>2. opened' = opened
    BY DEF Pay, MintId, ClaimKey, KeyTaken, Replay, Build, Acquire, Validate, FindAccounts,
       Authorize, Decline, DebitPayer, CreditPayee, SeqOfDebit, SeqOfCredit, PostAccepted,
       PostRejected, RefundPayer, ChargePayee, Capture, CaptureRefused, Save, Publish,
       Release, shared
<1>3. ClaimsFollow'
    BY ClaimsFollowStep DEF RaceFollows
<1>4. ASSUME NEW e \in Calls, Racing(e)
      PROVE  /\ balance'[req[e].payer].minor
                  = Opening[req[e].payer].minor
                      - req[e].amount.minor * Cardinality({d \in Calls : Took(d)'})
             /\ \A d \in Calls : status'[d] = "FAILED" =>
                   balance'[req[e].payer].minor < req[e].amount.minor
    <2> DEFINE p == req[e].payer
               m == req[e].amount.minor
               left  == balance[p].minor
               left2 == balance'[p].minor
               open  == Opening[p].minor
               T  == {d \in Calls : Took(d)}
               T2 == {d \in Calls : Took(d)'}
               n  == Cardinality(T)
               n2 == Cardinality(T2)
    <2>1. /\ req[c].payer = p /\ req[c].amount.minor = m
          /\ p \in Accounts /\ m \in Int /\ m > 0
        BY <1>4, RacersAsk DEF Money
    <2>2. left \in Int /\ open \in Int
        BY <2>1, ConstantsAssumption DEF TypeOK, Money
    <2>3. Racing(c)
        BY <1>4, AllRace
    <2>4. /\ left = open - m * n
          /\ \A d \in Calls : status[d] = "FAILED" => left < m
        BY <1>4 DEF RaceFollows
    <2>5. \A d \in Calls \ {c} : (Took(d)' <=> Took(d)) /\ status'[d] = status[d]
        BY DEF KeepsOthers, Took
    <2>6. IsFiniteSet(T) /\ n \in Nat
        BY FS_Subset, FS_CardinalityType
    <2>7. \/ /\ ~Took(c) /\ Took(c)'
             /\ left2 = left - m /\ m <= left
             /\ status' = status
          \/ /\ ~Took(c) /\ ~Took(c)'
             /\ balance'[p] = balance[p] /\ left < m
          \/ /\ Took(c) <=> Took(c)'
             /\ balance'[p] = balance[p]
             /\ status'[c] = "FAILED" => status[c] = "FAILED"
        <3>1. Run(Chain, req[c]) = "NONE" /\ Run(Chain, req[c]) # Thrown
            BY <2>3, RacersAsk DEF Thrown
        <3>2. Payable(c)
            BY <2>3, <3>1, RacersAsk DEF Payable, IsPositive, SameCcy, RaceFollows
        <3> QED
            BY <2>1, <3>1, <3>2, PayerStep DEF OnlyFundsDecide
    <2>8. CASE ~Took(c) /\ Took(c)' /\ left2 = left - m /\ m <= left /\ status' = status
        <3>1. T2 = T \cup {c} /\ c \notin T
            BY <2>5, <2>8
        <3>2. n2 = n + 1
            BY <2>6, <3>1, FS_AddElement
        <3>3. m * n2 = m * n + m
            <4> HIDE DEF n, m, n2
            <4> QED
                BY <2>1, <2>6, <3>2
        <3>4. m * n \in Int
            <4> HIDE DEF n, m
            <4> QED
                BY <2>1, <2>6
        <3> DEFINE mn == m * n
                   mn2 == m * n2
        <3>5. left2 = open - mn2 /\ left2 <= left
            <4>1. left = open - mn /\ mn2 = mn + m /\ mn \in Int
                BY <2>4, <3>3, <3>4
            <4> HIDE DEF mn, mn2, n, n2, m, left, left2, open
            <4> QED
                BY <2>1, <2>2, <2>8, <4>1
        <3>6. \A d \in Calls : status'[d] = "FAILED" => left < m
            BY <2>4, <2>8
        <3>7. left2 \in Int
            BY <2>1, <2>2, <2>8
        <3> HIDE DEF mn, n, n2, m, left, left2, open
        <3>8. left < m => left2 < m
            BY <2>1, <2>2, <3>5, <3>7
        <3> QED
            BY <3>5, <3>6, <3>8 DEF mn2, n, n2, m, left, left2, open
    <2>9. CASE /\ Took(c) <=> Took(c)'
               /\ balance'[p] = balance[p]
               /\ (status'[c] = "FAILED" => status[c] = "FAILED") \/ left < m
        <3>1. T2 = T
            BY <2>5, <2>9
        <3>2. ASSUME NEW d \in Calls, status'[d] = "FAILED" PROVE left < m
            BY <2>4, <2>5, <2>9, <3>2
        <3> QED
            BY <2>4, <2>9, <3>1, <3>2
    <2> QED
        BY <2>7, <2>8, <2>9
<1> QED
    BY <1>1, <1>2, <1>3, <1>4 DEF RaceFollows

\* As many parts as fit into a total, or as there are.
LEMMA Quotient ==
    ASSUME NEW total \in Nat, NEW part \in Nat, NEW count \in Nat, NEW limit \in Nat,
           part # 0, part * count <= total, count <= limit,
           total - part * count < part \/ count = limit
    PROVE  count = Min({total \div part, limit})
<1> DEFINE q == total \div part
           r == total % part
           pq == part * q
           pn == part * count
           rest == total - pn
<1>1. q \in Nat /\ r \in Nat /\ r < part /\ total = pq + r
    OBVIOUS
<1>2. pn \in Nat /\ rest \in Nat /\ total = pn + rest
    OBVIOUS
<1>3. ASSUME NEW x \in Nat, NEW y \in Nat, x < y PROVE part * x + part <= part * y
    <2> DEFINE z == y - x - 1
    <2>1. z \in Nat /\ y = x + 1 + z
        BY <1>3
    <2> HIDE DEF z
    <2>2. /\ part * (x + 1 + z) = part * x + part + part * z
          /\ part * z \in Nat /\ part * x \in Nat
        BY <2>1
    <2> QED
        BY <2>1, <2>2
<1> HIDE DEF q, r
<1>4. count <= q
    BY <1>1, <1>2, <1>3
<1>5. rest < part => q <= count
    BY <1>1, <1>2, <1>3
<1>6. count = q \/ count = limit
    BY <1>1, <1>4, <1>5
<1>7. count \in {q, limit} /\ \A x \in {q, limit} : count <= x
    BY <1>1, <1>4, <1>6
<1>8. \A y \in {q, limit} : (\A x \in {q, limit} : y <= x) => y = count
    BY <1>1, <1>7
<1>9. Min({q, limit}) \in {q, limit} /\ \A x \in {q, limit} : Min({q, limit}) <= x
    BY <1>7 DEF Min
<1> QED
    BY <1>8, <1>9 DEF q

\* When all have returned, the captured transactions are those of the calls that took.
LEMMA OneEach ==
    ASSUME IsFiniteSet(Calls), TypeOK, Ownership, Bookkeeping, AllDone
    PROVE  Cardinality({t \in store : t.status = "CAPTURED"})
             = Cardinality({d \in Calls : Took(d)})
<1> DEFINE T == {d \in Calls : Took(d)}
           S == {t \in store : t.status = "CAPTURED"}
           f == [d \in T |-> TransactionOf(d)]
<1>1. \A d \in Calls : /\ Took(d) <=> status[d] = "CAPTURED"
                       /\ pc[d] \in AfterSave
    BY DEF AllDone, Took, AfterSave
<1>2. ASSUME NEW d \in T PROVE f[d] \in S
    <2>1. Find(txnId[d]) = {TransactionOf(d)} /\ status[d] = "CAPTURED"
        BY <1>1 DEF Bookkeeping, MoneyFollows
    <2> QED
        BY <2>1 DEF Find, TransactionOf
<1>3. ASSUME NEW d \in T, NEW e \in T, f[d] = f[e] PROVE d = e
    <2>1. txnId[d] = txnId[e]
        BY <1>3 DEF TransactionOf
    <2>2. txnId[d] # 0
        BY DEF AllDone, Ownership, Reservations, IdsAreFresh
    <2> QED
        BY <2>1, <2>2 DEF Ownership, Reservations, IdsAreFresh
<1>4. ASSUME NEW t \in S PROVE \E d \in T : f[d] = t
    <2>1. PICK d \in Calls : t.id = txnId[d]
        BY DEF Ownership, SavedByItsOwner
    <2>2. txnId[d] \in Posted
        BY <2>1 DEF Bookkeeping, StoreIsSettled
    <2>3. Find(txnId[d]) = {TransactionOf(d)}
        BY <1>1, <2>2 DEF Bookkeeping, MoneyFollows
    <2>4. t = TransactionOf(d)
        BY <2>1, <2>3 DEF Find
    <2>5. status[d] = "CAPTURED"
        BY <2>4 DEF TransactionOf
    <2> QED
        BY <1>1, <2>4, <2>5
<1>5. f \in [T -> S]
    BY <1>2
<1> HIDE DEF f, T, S
<1>6. f \in Bijection(T, S)
    BY <1>3, <1>4, <1>5 DEF Bijection, Injection, Surjection, IsInjective
<1>7. IsFiniteSet(T)
    BY FS_Subset DEF T
<1> QED
    BY <1>6, <1>7, FS_Bijection DEF ExistsBijection, T, S

\* ... each under a key of its own, and under every key if none has failed.
LEMMA OnePerKey ==
    ASSUME IsFiniteSet(Calls), TypeOK, Ownership, Bookkeeping, ClaimsFollow, AllDone,
           \A d \in Calls : CannotThrow(d)
    PROVE  LET n == Cardinality({d \in Calls : Took(d)})
               k == Cardinality({req[d].key : d \in Calls})
           IN  /\ n \in Nat /\ k \in Nat /\ n <= k
               /\ (\A d \in Calls : status[d] # "FAILED") => n = k
<1> DEFINE T == {d \in Calls : Took(d)}
           K == {req[d].key : d \in Calls}
           g == [d \in Calls |-> req[d].key]
           h == [d \in T |-> req[d].key]
<1>1. \A d \in Calls : /\ Took(d) <=> status[d] = "CAPTURED"
                       /\ pc[d] \in AfterSave /\ pc[d] = "done"
    BY DEF AllDone, Took, AfterSave
<1>2. IsFiniteSet(T) /\ Cardinality(T) \in Nat
    BY FS_Subset, FS_CardinalityType
<1>3. IsFiniteSet(K) /\ Cardinality(K) \in Nat
    <2>1. g \in Surjection(Calls, K)
        BY DEF Surjection
    <2> QED
        BY <2>1, FS_Surjection, FS_CardinalityType
<1>4. ASSUME NEW d \in T PROVE claimed[req[d].key] = txnId[d]
    <2>1. Find(txnId[d]) = {TransactionOf(d)} /\ status[d] = "CAPTURED"
        BY <1>1 DEF Bookkeeping, MoneyFollows
    <2>2. TransactionOf(d) \in store /\ TransactionOf(d).id = txnId[d]
            /\ TransactionOf(d).status = "CAPTURED"
        BY <2>1 DEF Find, TransactionOf
    <2>3. txnId[d] \in Posted
        BY <2>2 DEF Bookkeeping, StoreIsSettled
    <2>4. PICK e \in Calls : txnId[d] = txnId[e] /\ claimed[req[e].key] = txnId[e]
        BY <2>3 DEF Posted, Ownership, Reservations, PostedByItsClaimant
    <2>5. txnId[d] # 0
        BY <1>1 DEF Ownership, Reservations, IdsAreFresh
    <2> QED
        BY <2>4, <2>5 DEF Ownership, Reservations, IdsAreFresh
<1>5. ASSUME NEW d \in T, NEW e \in T, h[d] = h[e] PROVE d = e
    <2>1. txnId[d] = txnId[e]
        BY <1>4, <1>5
    <2>2. txnId[d] # 0
        BY <1>1 DEF Ownership, Reservations, IdsAreFresh
    <2> QED
        BY <2>1, <2>2 DEF Ownership, Reservations, IdsAreFresh
<1>6. h \in [T -> K]
    OBVIOUS
<1>7. ASSUME \A d \in Calls : status[d] # "FAILED", NEW c \in Calls
      PROVE  \E d \in T : req[d].key = req[c].key
    <2>1. \A d \in Calls : status[d] \in {"INITIATED", "CAPTURED"}
        BY <1>1, <1>7 DEF Bookkeeping, StatusFollows, Verdict
    <2>2. CASE status[c] = "CAPTURED"
        BY <1>1, <2>2
    <2>3. CASE status[c] = "INITIATED"
        <3>1. req[c].key \in Keys
            BY ConstantsAssumption DEF TypeOK, PaymentRequest
        <3>2. claimed[req[c].key] # 0
            BY <1>1 DEF ClaimsFollow
        <3>3. PICK d \in Calls : txnId[d] = claimed[req[c].key] /\ req[d].key = req[c].key
            BY <3>1, <3>2 DEF Bookkeeping, ClaimedByItsCaller
        <3>4. status[d] # "INITIATED"
            BY <1>1, <3>3 DEF ClaimsFollow
        <3> QED
            BY <1>1, <2>1, <3>3, <3>4
    <2> QED
        BY <2>1, <2>2, <2>3
<1>8. ASSUME \A d \in Calls : status[d] # "FAILED" PROVE h \in Surjection(T, K)
    BY <1>6, <1>7, <1>8 DEF Surjection
<1> HIDE DEF h
<1>9. h \in Injection(T, K)
    BY <1>5, <1>6 DEF Injection, IsInjective
<1> HIDE DEF T, K
<1>10. /\ Cardinality(T) <= Cardinality(K)
       /\ h \in Surjection(T, K) => Cardinality(T) = Cardinality(K)
    BY <1>3, <1>9, FS_Injection
<1> QED
    BY <1>2, <1>3, <1>8, <1>10 DEF T, K

\* Where nothing but want of funds stands in the way of a payment, a race for one wallet
\* ends with exactly as many captures as it covers, however the calls interleave.
THEOREM RaceIsExact ==
    ASSUME IsFiniteSet(Calls), OnlyFundsDecide
    PROVE  Spec => []ExactlyTheAffordable
<1> DEFINE Clean == \A d \in Calls : pc[d] \notin Compensating
           Inv == FundsFollow /\ RaceFollows /\ Clean
<1>1. Init => Inv
    <2> SUFFICES ASSUME Init PROVE RaceFollows /\ Clean
        BY InitFunds
    <2>1. /\ balance = Opening /\ opened = Existing /\ claimed = [k \in Keys |-> 0]
          /\ \A c \in Calls : pc[c] = "mint" /\ status[c] = "INITIATED"
        BY DEF Init
    <2>2. {d \in Calls : Took(d)} = {}
        BY <2>1 DEF Took
    <2>3. Cardinality({d \in Calls : Took(d)}) = 0
        BY <2>2, FS_EmptySet
    <2>4. ASSUME NEW c \in Calls, Racing(c)
          PROVE  balance[req[c].payer].minor
                    = Opening[req[c].payer].minor
                        - req[c].amount.minor * Cardinality({d \in Calls : Took(d)})
        <3>1. req[c].payer \in Accounts /\ req[c].amount.minor \in Int
            BY <2>4, InitTypeOK, RacersAsk DEF Money
        <3>2. Opening[req[c].payer].minor \in Int
            BY <3>1, ConstantsAssumption DEF Money
        <3> QED
            BY <2>1, <2>3, <3>1, <3>2
    <2>5. ClaimsFollow
        BY <2>1 DEF ClaimsFollow, ClaimsAreOthers
    <2> QED
        BY <2>1, <2>4, <2>5 DEF RaceFollows, Compensating
<1>2. TypeOK /\ Ownership /\ Bookkeeping /\ Inv /\ [Next]_vars => Inv'
    <2> SUFFICES ASSUME TypeOK, Ownership, Bookkeeping, Inv, [Next]_vars PROVE Inv'
        OBVIOUS
    <2>1. ASSUME NEW c \in Calls, Pay(c) PROVE Inv'
        BY <2>1, FundsStep, RaceStep, NoCompensation DEF OnlyFundsDecide
    <2>2. CASE ~ \E c \in Calls : Pay(c)
        <3>1. /\ UNCHANGED <<req, pc, balance, txnId, status, claimed>>
              /\ opened \subseteq opened'
            BY <2>2, Elsewhere DEF stack, Next, OpenAccount, Finished, vars, shared
        <3>2. {d \in Calls : Took(d)'} = {d \in Calls : Took(d)}
            BY <3>1 DEF Took
        <3>3. RaceFollows'
            BY <3>1, <3>2 DEF RaceFollows, ClaimsFollow, ClaimsAreOthers, CannotThrow, Racing
        <3> QED
            BY <3>1, <3>3 DEF FundsFollow
    <2> QED
        BY <2>1, <2>2
<1>3. TypeOK /\ Ownership /\ Bookkeeping /\ NoOverdraft /\ Inv => ExactlyTheAffordable
    <2> SUFFICES ASSUME TypeOK, Ownership, Bookkeeping, NoOverdraft, Inv,
                        NEW c \in Calls, AllDone, Racing(c)
                 PROVE  Cardinality({t \in store : t.status = "CAPTURED"})
                          = Min({Opening[req[c].payer].minor \div req[c].amount.minor,
                                 Cardinality({req[d].key : d \in Calls})})
        BY DEF ExactlyTheAffordable
    <2> DEFINE open == Opening[req[c].payer].minor
               m    == req[c].amount.minor
               left == balance[req[c].payer].minor
               n    == Cardinality({d \in Calls : Took(d)})
               k    == Cardinality({req[d].key : d \in Calls})
    <2>1. /\ req[c].payer \in Accounts /\ m \in Nat \ {0}
        BY RacersAsk DEF Money
    <2>2. open \in Nat /\ left \in Nat
        BY <2>1, ConstantsAssumption, OpeningAssumption DEF NoOverdraft, TypeOK, Money
    <2>3. /\ left = open - m * n
          /\ \A d \in Calls : status[d] = "FAILED" => left < m
        BY DEF RaceFollows
    <2>4. /\ n \in Nat /\ k \in Nat /\ n <= k
          /\ (\A d \in Calls : status[d] # "FAILED") => n = k
        <3>1. \A d \in Calls : CannotThrow(d)
            BY RacersAsk DEF CannotThrow, Thrown
        <3> QED
            BY <3>1, OnePerKey DEF RaceFollows
    <2>5. left < m \/ n = k
        BY <2>3, <2>4
    <2>6. Cardinality({t \in store : t.status = "CAPTURED"}) = n
        BY OneEach
    <2>7. m * n \in Nat
        BY <2>1, <2>4
    <2> HIDE DEF open, m, left, n, k
    <2>8. n = Min({open \div m, k})
        <3>1. m * n <= open /\ (open - m * n < m \/ n = k)
            BY <2>2, <2>3, <2>5, <2>7
        <3> QED
            BY <2>1, <2>2, <2>4, <3>1, Quotient
    <2> QED
        BY <2>6, <2>8 DEF open, m, k
<1> HIDE DEF Inv
<1> QED
    BY <1>1, <1>2, <1>3, TypeCorrect, OwnershipHolds, BookkeepingHolds, NeverOverdrawn, PTL DEF Spec
=============================================================================
