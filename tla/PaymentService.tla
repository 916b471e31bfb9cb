--------------------------- MODULE PaymentService ----------------------------
(***************************************************************************)
(* service/PaymentService.hpp: concurrent invocations of pay(), each on a  *)
(* thread of its own, over the in-memory adapters.  One action per access  *)
(* to shared state, in the order pay() makes them; fail() and the Guard's  *)
(* destructor close both paths.                                            *)
(***************************************************************************)
EXTENDS PaymentState

-----------------------------------------------------------------------------
\* Mutants: what a plausible slip would make of single actions.  No specification
\* uses them; put in an action's place they show that a property would notice.

\* The id counter is read and not advanced (a load where fetch_add is meant).
MintIdStale(c) ==
    /\ Step(c, "mint", "claim")
    /\ txnId' = [txnId EXCEPT ![c] = nextTxn]
    /\ UNCHANGED <<req, status, error, seqs, outcome, nextTxn, nextSeq, claimed,
                   holder, opened, balance, journal, store, log>>

\* put without "if absent".
ClaimKeyAnyway(c) ==
    /\ Step(c, "claim", "build")
    /\ claimed' = [claimed EXCEPT ![req[c].key] = txnId[c]]
    /\ UNCHANGED <<stack, nextTxn, nextSeq, holder, opened, balance, journal,
                   store, log>>

\* A duplicate spins until the original is captured.
ReplaySpins(c) ==
    /\ pc[c] = "replay"
    /\ LET prior == Find(claimed[req[c].key])
       IN  IF \E t \in prior : t.status = "CAPTURED"
           THEN Step(c, "replay", "done") /\ Return(c, "ok", "NONE", prior)
           ELSE Step(c, "replay", "claim") /\ UNCHANGED outcome
    /\ UNCHANGED <<req, txnId, status, error, seqs, shared>>

\* A duplicate tries again until the key is free.
ReplayWaits(c) ==
    /\ Step(c, "replay", "claim")
    /\ UNCHANGED <<stack, shared>>

\* A duplicate is answered with whatever the payer paid before.
ReplayOfPayer(c) ==
    /\ Step(c, "replay", "done")
    /\ LET prior == {t \in store : t.payer = req[c].payer}
       IN  IF prior # {} THEN Return(c, "ok", "NONE", {CHOOSE t \in prior : TRUE})
                         ELSE Return(c, "err", "DUPLICATE_REQUEST", {})
    /\ UNCHANGED <<req, txnId, status, error, seqs, shared>>

\* No lock.
AcquireNothing(c) ==
    /\ Step(c, "acquire", "validate")
    /\ holder' = [holder EXCEPT ![req[c].payer] = c]
    /\ UNCHANGED <<stack, nextTxn, nextSeq, claimed, opened, balance, journal,
                   store, log>>

\* The exception of a handler is taken for one of its verdicts.
ValidateCatches(c) ==
    LET verdict == Run(Chain, req[c])
    IN  /\ IF verdict = "NONE"
           THEN Step(c, "validate", "find") /\ UNCHANGED <<status, error>>
           ELSE Failing(c, "validate", verdict)
        /\ UNCHANGED <<req, txnId, seqs, outcome, shared>>

\* The lifecycle is not advanced, so that the later capture is dropped.
AuthorizeForgets(c) ==
    /\ Step(c, "authorize", "debit")
    /\ UNCHANGED <<stack, shared>>

\* Both legs of the posting name the payer.
PostingOneSided(c) ==
    <<Entry(txnId[c], req[c].payer, "DEBIT",  req[c].amount, seqs[c].debit),
      Entry(txnId[c], req[c].payer, "CREDIT", req[c].amount, seqs[c].credit)>>

\* The payee keeps what the compensation should take back.
ChargePayeeForgets(c) ==
    /\ Failing(c, "chargePayee", error[c])
    /\ UNCHANGED <<req, txnId, seqs, outcome, shared>>

-----------------------------------------------------------------------------
\* [1] Idempotency.

MintId(c) ==
    /\ Step(c, "mint", "claim")
    /\ txnId' = [txnId EXCEPT ![c] = nextTxn]
    /\ nextTxn' = nextTxn + 1
    /\ UNCHANGED <<req, status, error, seqs, outcome, nextSeq, claimed, holder,
                   opened, balance, journal, store, log>>

\* putIfAbsent
ClaimKey(c) ==
    /\ claimed[req[c].key] = 0
    /\ Step(c, "claim", "build")
    /\ claimed' = [claimed EXCEPT ![req[c].key] = txnId[c]]
    /\ UNCHANGED <<stack, nextTxn, nextSeq, holder, opened, balance, journal,
                   store, log>>

KeyTaken(c) ==
    /\ claimed[req[c].key] # 0
    /\ Step(c, "claim", "replay")
    /\ UNCHANGED <<stack, shared>>

\* get, then find: a claim never changes, so the pair acts as its second half.
Replay(c) ==
    /\ Step(c, "replay", "done")
    /\ LET prior == Find(claimed[req[c].key])
       IN  IF prior # {} THEN Return(c, "ok", "NONE", prior)
                         ELSE Return(c, "err", "DUPLICATE_REQUEST", {})
    /\ UNCHANGED <<req, txnId, status, error, seqs, shared>>

\* Builder::build: an empty party throws, with the key already claimed.
Build(c) ==
    /\ IF NoId \in {req[c].payer, req[c].payee}
       THEN Step(c, "build", "done") /\ Return(c, "threw", "NONE", {})
       ELSE Step(c, "build", "acquire") /\ UNCHANGED outcome
    /\ UNCHANGED <<req, txnId, status, error, seqs, shared>>

-----------------------------------------------------------------------------
\* [2] Double spend: everything from here to Release is behind the payer's lock.

Acquire(c) ==
    /\ holder[req[c].payer] = NoCall
    /\ Step(c, "acquire", "validate")
    /\ holder' = [holder EXCEPT ![req[c].payer] = c]
    /\ UNCHANGED <<stack, nextTxn, nextSeq, claimed, opened, balance, journal,
                   store, log>>

Validate(c) ==
    LET verdict == Run(Chain, req[c])
    IN  /\ \/ /\ verdict = "NONE"
              /\ Step(c, "validate", "find")
              /\ UNCHANGED <<status, error, outcome>>
           \/ /\ verdict = Thrown
              /\ Step(c, "validate", "release")
              /\ Return(c, "threw", "NONE", {})
              /\ UNCHANGED <<status, error>>
           \/ /\ verdict \notin {"NONE", Thrown}
              /\ Failing(c, "validate", verdict)
              /\ UNCHANGED outcome
        /\ UNCHANGED <<req, txnId, seqs, shared>>

\* Both finds at once: accounts are added and never removed.
FindAccounts(c) ==
    /\ IF {req[c].payer, req[c].payee} \subseteq opened
       THEN Step(c, "find", "authorize") /\ UNCHANGED <<status, error>>
       ELSE Failing(c, "find", "ACCOUNT_NOT_FOUND")
    /\ UNCHANGED <<req, txnId, seqs, outcome, shared>>

-----------------------------------------------------------------------------
\* [3] State integrity.

Strategy(c) == Providers[req[c].method]

Authorize(c) ==
    /\ "NONE" \in Strategy(c).authorize
    /\ Step(c, "authorize", "debit")
    /\ status' = [status EXCEPT ![c] = Advance(@, "AUTHORIZED")]
    /\ UNCHANGED <<req, txnId, error, seqs, outcome, shared>>

Decline(c) ==
    /\ \E code \in Strategy(c).authorize \ {"NONE"} : Failing(c, "authorize", code)
    /\ UNCHANGED <<req, txnId, seqs, outcome, shared>>

DebitPayer(c) ==
    LET a == req[c].payer
        verdict == DebitVerdict(balance[a], req[c].amount)
    IN  /\ IF verdict = "NONE"
           THEN Step(c, "debit", "credit") /\ UNCHANGED <<status, error>>
           ELSE Failing(c, "debit", verdict)
        /\ balance' = [balance EXCEPT ![a] = AfterDebit(@, req[c].amount)]
        /\ UNCHANGED <<req, txnId, seqs, outcome, nextTxn, nextSeq, claimed,
                       holder, opened, journal, store, log>>

\* The Status of this credit is discarded.
CreditPayee(c) ==
    /\ Step(c, "credit", "seqDebit")
    /\ balance' = [balance EXCEPT ![req[c].payee] = AfterCredit(@, req[c].amount)]
    /\ UNCHANGED <<stack, nextTxn, nextSeq, claimed, holder, opened, journal,
                   store, log>>

-----------------------------------------------------------------------------
\* [4] Double entry.

\* Each seq_++ is atomic; the pair of them is not.
SeqOfDebit(c) ==
    /\ Step(c, "seqDebit", "seqCredit")
    /\ seqs' = [seqs EXCEPT ![c].debit = nextSeq]
    /\ nextSeq' = nextSeq + 1
    /\ UNCHANGED <<req, txnId, status, error, outcome, nextTxn, claimed, holder,
                   opened, balance, journal, store, log>>

SeqOfCredit(c) ==
    /\ Step(c, "seqCredit", "post")
    /\ seqs' = [seqs EXCEPT ![c].credit = nextSeq]
    /\ nextSeq' = nextSeq + 1
    /\ UNCHANGED <<req, txnId, status, error, outcome, nextTxn, claimed, holder,
                   opened, balance, journal, store, log>>

Posting(c) ==
    <<Entry(txnId[c], req[c].payer, "DEBIT",  req[c].amount, seqs[c].debit),
      Entry(txnId[c], req[c].payee, "CREDIT", req[c].amount, seqs[c].credit)>>

PostAccepted(c) ==
    /\ PostVerdict(Posting(c)) = "NONE"
    /\ Step(c, "post", "capture")
    /\ journal' = journal \o Posting(c)
    /\ UNCHANGED <<stack, nextTxn, nextSeq, claimed, holder, opened, balance,
                   store, log>>

\* The verdicts other than ok that the ledger may give on this batch.
Refusals(c) ==
    ({PostVerdict(Posting(c))} \ {"NONE"})
    \cup (IF LedgerFaults THEN {"INTERNAL_ERROR"} ELSE {})

\* Mutant of PostRejected: the verdict of post() is not looked at.
PostRejectedUnnoticed(c) ==
    /\ Refusals(c) # {}
    /\ Step(c, "post", "capture")
    /\ UNCHANGED <<stack, shared>>

\* Mutant of PostRejected: a refused batch stays in the journal.
PostRejectedAppended(c) ==
    /\ Step(c, "post", "refundPayer")
    /\ \E code \in Refusals(c) : error' = [error EXCEPT ![c] = code]
    /\ journal' = journal \o Posting(c)
    /\ UNCHANGED <<req, txnId, status, seqs, outcome, nextTxn, nextSeq, claimed,
                   holder, opened, balance, store, log>>

PostRejected(c) ==
    /\ Step(c, "post", "refundPayer")
    /\ \E code \in Refusals(c) : error' = [error EXCEPT ![c] = code]
    /\ UNCHANGED <<req, txnId, status, seqs, outcome, shared>>

\* Compensation, first half.
RefundPayer(c) ==
    /\ Step(c, "refundPayer", "chargePayee")
    /\ balance' = [balance EXCEPT ![req[c].payer] = AfterCredit(@, req[c].amount)]
    /\ UNCHANGED <<stack, nextTxn, nextSeq, claimed, holder, opened, journal,
                   store, log>>

\* Second half.  It holds the payer's lock and not the payee's, and its Status
\* too is discarded.
ChargePayee(c) ==
    /\ Failing(c, "chargePayee", error[c])
    /\ balance' = [balance EXCEPT ![req[c].payee] = AfterDebit(@, req[c].amount)]
    /\ UNCHANGED <<req, txnId, seqs, outcome, nextTxn, nextSeq, claimed, holder,
                   opened, journal, store, log>>

Capture(c) ==
    /\ "NONE" \in Strategy(c).capture
    /\ Step(c, "capture", "save")
    /\ status' = [status EXCEPT ![c] = Advance(@, "CAPTURED")]
    /\ UNCHANGED <<req, txnId, error, seqs, outcome, shared>>

CaptureRefused(c) ==
    /\ \E code \in Strategy(c).capture \ {"NONE"} : Failing(c, "capture", code)
    /\ UNCHANGED <<req, txnId, seqs, outcome, shared>>

-----------------------------------------------------------------------------
\* The end of both paths.

Save(c) ==
    /\ Step(c, "save", "publish")
    /\ store' = (store \ Find(txnId[c])) \cup {TransactionOf(c)}
    /\ UNCHANGED <<stack, nextTxn, nextSeq, claimed, holder, opened, balance,
                   journal, log>>

\* The event is named by the path, and pay() has its result.
Publish(c) ==
    /\ Step(c, "publish", "release")
    /\ LET ok == error[c] = "NONE"
       IN  /\ log' = Append(log, [type |-> IF ok THEN "PaymentCaptured"
                                                 ELSE "PaymentFailed",
                                  txn |-> txnId[c], status |-> status[c]])
           /\ IF ok THEN Return(c, "ok", "NONE", {TransactionOf(c)})
                    ELSE Return(c, "err", error[c], {})
    /\ UNCHANGED <<req, txnId, status, error, seqs, nextTxn, nextSeq, claimed,
                   holder, opened, balance, journal, store>>

\* ~Guard
Release(c) ==
    /\ Step(c, "release", "done")
    /\ holder' = [holder EXCEPT ![req[c].payer] = NoCall]
    /\ UNCHANGED <<stack, nextTxn, nextSeq, claimed, opened, balance, journal,
                   store, log>>

-----------------------------------------------------------------------------
Pay(c) ==
    \/ MintId(c) \/ ClaimKey(c) \/ KeyTaken(c) \/ Replay(c) \/ Build(c)
    \/ Acquire(c) \/ Validate(c) \/ FindAccounts(c)
    \/ Authorize(c) \/ Decline(c) \/ DebitPayer(c) \/ CreditPayee(c)
    \/ SeqOfDebit(c) \/ SeqOfCredit(c) \/ PostAccepted(c) \/ PostRejected(c)
    \/ RefundPayer(c) \/ ChargePayee(c) \/ Capture(c) \/ CaptureRefused(c)
    \/ Save(c) \/ Publish(c) \/ Release(c)

\* AccountRepository::save of a new account, while payments run.
OpenAccount(a) ==
    /\ a \notin opened
    /\ opened' = opened \cup {a}
    /\ UNCHANGED <<stack, pc, nextTxn, nextSeq, claimed, holder, balance,
                   journal, store, log>>

AllDone == \A c \in Calls : pc[c] = "done"

\* Every call has returned: the only way the system may stop.
Finished == AllDone /\ UNCHANGED vars

Next ==
    \/ \E c \in Calls : Pay(c)
    \/ \E a \in Accounts : OpenAccount(a)
    \/ Finished

Spec == Init /\ [][Next]_vars
=============================================================================
