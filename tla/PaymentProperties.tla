-------------------------- MODULE PaymentProperties --------------------------
(***************************************************************************)
(* What PaymentService promises, and what its documents say it promises.   *)
(***************************************************************************)
EXTENDS PaymentService

\* The calls that own the transaction id; ids are minted once per call.
OwnersOf(id) == {c \in Calls : txnId[c] = id}

Posted == {journal[i].txn : i \in DOMAIN journal}

\* Where a call has debited its payer, or credited its payee, and neither posted nor
\* taken it back.
OwesPayer == {"credit", "seqDebit", "seqCredit", "post", "refundPayer"}
OwesPayee == {"seqDebit", "seqCredit", "post", "refundPayer", "chargePayee"}

\* What a call has moved on account a's live balance and not yet posted, or posted in
\* vain and not yet taken back; and what all calls have.
Moved(c, a) ==
    LET AmountIf(cond) == IF cond THEN req[c].amount.minor ELSE 0
    IN  AmountIf(pc[c] \in OwesPayee /\ req[c].payee = a)
          - AmountIf(pc[c] \in OwesPayer /\ req[c].payer = a)
InFlight(a) == SumFunction([c \in Calls |-> Moved(c, a)])

\* What the discarded verdict of the credit or of the compensating debit a call is
\* about to make leaves its payee with.
Discards(c) ==
    LET before == balance[req[c].payee]
        amount == req[c].amount
    IN  CASE pc[c] = "credit" /\ CreditVerdict(before, amount) # "NONE"
                -> 0 - amount.minor
          [] pc[c] = "chargePayee" /\ DebitVerdict(before, amount) # "NONE"
                -> amount.minor
          [] OTHER -> 0

-----------------------------------------------------------------------------
\* Safety.

\* No interleaving of debits, credits and compensations overdraws an account:
\* the guarded Account::debit and the payer's lock of pay().
NoOverdraft == \A a \in Accounts : balance[a].minor >= 0

\* An idempotency key charges its payer at most once, however many calls carry
\* it and however they interleave: putIfAbsent at the head of pay().
ChargedOnce ==
    \A i, j \in DOMAIN journal : \A c, d \in Calls :
        /\ journal[i].dir = "DEBIT"
        /\ journal[j].dir = "DEBIT"
        /\ journal[i].txn = txnId[c]
        /\ journal[j].txn = txnId[d]
        /\ req[c].key = req[d].key
        => i = j

\* The live balance of an account is what it opened with, plus what the journal
\* derives for it, plus exactly what calls under way still have to post or to
\* take back: pay() moves balances and journal separately, and compensates.
LiveMatchesJournal ==
    \A a \in Accounts :
        balance[a].minor = Opening[a].minor + DerivedNet(journal, a) + InFlight(a)

\* Whether a strategy may refuse to capture what it has authorized.
CaptureRefusable == \E m \in PaymentMethod : Providers[m].capture # {"NONE"}

\* A saved transaction is CAPTURED when its two legs are in the journal (unless a
\* provider refused it) and at the end of its lifecycle when they are not; legs
\* without a saved transaction belong to a call about to save it: the end of pay(),
\* and the advance() that may drop a move.
CapturedIffPosted ==
    /\ \A t \in store :
          IF t.id \in Posted THEN CaptureRefusable \/ t.status = "CAPTURED"
                             ELSE IsTerminal(t.status)
    /\ \A id \in Posted : \/ Find(id) # {}
                          \/ \E c \in OwnersOf(id) : pc[c] \in {"capture", "save"}

\* An event tells of a transaction already saved with the status it names, says
\* "captured" only of a captured one, and is the only one of its transaction:
\* save before publish, in pay() and in fail().
EventsAreFacts ==
    \A i \in DOMAIN log :
        /\ \E t \in Find(log[i].txn) : t.status = log[i].status
        /\ log[i].type = "PaymentCaptured" <=> log[i].status = "CAPTURED"
        /\ \A j \in DOMAIN log : log[i].txn = log[j].txn => i = j

\* Callers that used one key and were answered with a transaction were answered
\* with the same one, and it is a transaction of that key: the replay of pay().
OneAnswerPerKey ==
    \A c, d \in Calls :
        /\ outcome[c].tag = "ok"
        /\ outcome[d].tag = "ok"
        /\ req[c].key = req[d].key
        => /\ outcome[c].value = outcome[d].value
           /\ \A t \in outcome[c].value : t.key = req[c].key

\* The debits of one account stand in the journal in the order of their sequence
\* numbers, although each is taken and posted in separate steps: the payer's lock
\* spans both.
PayerDebitsInOrder ==
    \A i, j \in DOMAIN journal :
        /\ i < j
        /\ journal[i].account = journal[j].account
        /\ journal[i].dir = "DEBIT"
        /\ journal[j].dir = "DEBIT"
        => journal[i].seq < journal[j].seq

\* What the accounts of a currency opened with together.
HoldersOf(ccy) == {a \in Accounts : Opening[a].ccy = ccy}
Supply(ccy)    == SumFunction([a \in HoldersOf(ccy) |-> Opening[a].minor])

\* No account ever holds, and no posting moves, more than all accounts of the currency
\* opened with together: however payments interleave, the sums Money and the ledger
\* compute stay within 64 bits as long as the supply does.
SumsFitTheSupply ==
    /\ \A a \in Accounts : balance[a].minor <= Supply(balance[a].ccy)
    /\ \A i \in DOMAIN journal :
          LET leg == journal[i].amount IN leg.minor \in 1..Supply(leg.ccy)

\* A race for one wallet: every call asks for what c asks for, under keys of their own
\* or shared.
Racing(c) ==
    /\ req[c].payer # req[c].payee
    /\ \A d \in Calls : req[d] = [req[c] EXCEPT !.key = req[d].key]

\* When every call asks for the same amount from one payer to another account, for
\* n different keys in all, exactly as many are captured as the opening balance
\* covers, and as n allows (tests.cpp, concurrent double spend: "exactly 30 succeed").
ExactlyTheAffordable ==
    LET keys == {req[c].key : c \in Calls}
    IN  \A c \in Calls :
            AllDone /\ Racing(c)
            => Cardinality({t \in store : t.status = "CAPTURED"})
                 = Min({Opening[req[c].payer].minor \div req[c].amount.minor,
                        Cardinality(keys)})

-----------------------------------------------------------------------------
\* Steps.

\* What was saved of a transaction stays: no other call's save() replaces it.
StoredForever == [][store \subseteq store']_store

\* A balance goes down only by the hand of the call that holds the lock of that
\* account, about to debit it, or of one that takes back what it credited.
OnlyTheHolderDebits ==
    [][\A a \in Accounts :
          balance'[a].minor < balance[a].minor
          => \/ holder[a] \in Calls /\ pc[holder[a]] = "debit"
             \/ \E c \in Calls : pc[c] = "chargePayee" /\ req[c].payee = a]_balance

-----------------------------------------------------------------------------
\* The contract: what has become of a key, and what a call was told about it.

Phase(k) ==
    LET saved == Find(claimed[k])
    IN  CASE claimed[k] = 0 -> "free"
          [] claimed[k] # 0 /\ saved # {} ->
                IF \A t \in saved : t.status = "CAPTURED" THEN "captured" ELSE "failed"
          [] claimed[k] # 0 /\ saved = {} ->
                IF claimed[k] \in Posted THEN "posted" ELSE "claimed"

\* An error is the failure of the caller's own transaction, or DUPLICATE_REQUEST; the
\* replay of a failed transaction comes with isOk(), and tells of a failure as well.
Told(c) ==
    CASE outcome[c].tag = "none"  -> "none"
      [] outcome[c].tag = "threw" -> "threw"
      [] outcome[c].tag = "err"   -> IF error[c] = "NONE" THEN "busy" ELSE "failed"
      [] outcome[c].tag = "ok"    -> IF \A t \in outcome[c].value : t.status = "CAPTURED"
                                     THEN "captured" ELSE "failed"

Contract == INSTANCE PaymentContract WITH
    Refusable <- CaptureRefusable,
    key       <- [c \in Calls |-> req[c].key],
    phase     <- [k \in Keys |-> Phase(k)],
    answer    <- [c \in Calls |-> Told(c)]

\* Claims, locks, compensation and replay together make pay() idempotent: a key is
\* posted at most once and settles once, and no caller is told anything else.
KeepsContract == Contract!Spec

-----------------------------------------------------------------------------
\* Why it is safe: the inductive invariant behind the proofs.

\* Past the claim, and not yet returned.
Working(c) == pc[c] \in Labels \ {"mint", "claim", "replay", "done"}

AfterPost == {"capture", "save", "publish", "release", "done"}
AfterSave == {"publish", "release", "done"}

IdsAreFresh ==
    /\ \A c \in Calls : pc[c] = "mint" <=> txnId[c] = 0
    /\ \A c \in Calls : txnId[c] < nextTxn
    /\ \A c, d \in Calls : txnId[c] = txnId[d] => c = d \/ txnId[c] = 0

ClaimsAreKept == \A c \in Calls : Working(c) => claimed[req[c].key] = txnId[c]

LocksAreKept == \A c \in Calls : pc[c] \in Critical => holder[req[c].payer] = c

PostedByItsClaimant ==
    \A i \in DOMAIN journal : \E c \in Calls :
        /\ journal[i].txn = txnId[c]
        /\ pc[c] \in AfterPost
        /\ claimed[req[c].key] = txnId[c]

DebitedOnce ==
    \A i, j \in DOMAIN journal :
        /\ journal[i].dir = "DEBIT"
        /\ journal[j].dir = "DEBIT"
        /\ journal[i].txn = journal[j].txn
        => i = j

SavedByItsOwner ==
    \A t \in store : \E c \in Calls : t.id = txnId[c] /\ pc[c] \in AfterSave

\* At every moment each id, each claimed key and each held lock has one call it
\* belongs to, and what stands in the journal was put there once, by the owner of its
\* id: the reservations pay() makes (mint, putIfAbsent, acquire) before it posts.
Reservations ==
    /\ IdsAreFresh
    /\ ClaimsAreKept
    /\ LocksAreKept
    /\ PostedByItsClaimant
    /\ DebitedOnce

\* ... and so was what stands in the store, by a call which is past saving again.
Ownership == Reservations /\ SavedByItsOwner

\* Where a call stands: before its provider is asked, with its approval, and failing.
Unapproved   == {"mint", "claim", "replay", "build", "acquire", "validate", "find",
                 "authorize"}
Compensating == {"refundPayer", "chargePayee"}
Approved     == {"debit", "credit", "seqDebit", "seqCredit", "post", "capture"}
                \cup Compensating

\* What the end of a path of pay() makes of a transaction.
Verdict(c) == IF error[c] = "NONE" THEN "CAPTURED" ELSE "FAILED"

StatusFollows(c) ==
    /\ pc[c] \in Unapproved => status[c] = "INITIATED" /\ error[c] = "NONE"
    /\ pc[c] \in Approved => /\ status[c] = "AUTHORIZED"
                             /\ error[c] = "NONE" <=> pc[c] \notin Compensating
    /\ pc[c] \in {"save", "publish"} => status[c] = Verdict(c)
    /\ pc[c] \in {"release", "done"} =>
          \/ status[c] = Verdict(c)
          \/ status[c] = "INITIATED" /\ error[c] = "NONE"

MoneyFollows(c) ==
    /\ pc[c] = "capture" => txnId[c] \in Posted
    /\ pc[c] = "save" => IF error[c] = "NONE" THEN txnId[c] \in Posted
                         ELSE txnId[c] \in Posted => CaptureRefusable
    /\ pc[c] \in AfterSave => IF status[c] = "INITIATED" THEN txnId[c] \notin Posted
                               ELSE Find(txnId[c]) = {TransactionOf(c)}

AnswerFollows(c) ==
    /\ outcome[c].tag = "none" <=> pc[c] \notin {"release", "done"}
    /\ pc[c] = "replay" => claimed[req[c].key] # 0

StoreIsSettled ==
    \A t \in store : IF t.id \in Posted THEN t.status = "CAPTURED" \/ CaptureRefusable
                                        ELSE t.status = "FAILED"

SavedUnderItsKey == \A t \in store, c \in Calls : t.id = txnId[c] => t.key = req[c].key

ClaimedByItsCaller ==
    \A k \in Keys : claimed[k] # 0 => \E c \in Calls : txnId[c] = claimed[k] /\ req[c].key = k

\* At every moment a call's status, error and answer are those of the place it has
\* come to, and its legs and its saved transaction say the same: what makes the end
\* of each path of pay() and fail() tell the truth.
Bookkeeping ==
    /\ \A c \in Calls : StatusFollows(c) /\ MoneyFollows(c) /\ AnswerFollows(c)
    /\ StoreIsSettled
    /\ SavedUnderItsKey
    /\ ClaimedByItsCaller

\* The calls that were answered after their transaction was saved.
Served(c) == pc[c] \in {"release", "done"} /\ status[c] # "INITIATED"

EventsFollow ==
    /\ \A i \in DOMAIN log : \E c \in Calls :
          /\ Served(c)
          /\ log[i].txn = txnId[c]
          /\ log[i].status = status[c]
          /\ log[i].type = IF error[c] = "NONE" THEN "PaymentCaptured" ELSE "PaymentFailed"
    /\ \A i, j \in DOMAIN log : log[i].txn = log[j].txn => i = j
    /\ \A c \in Calls : Served(c) => \E i \in DOMAIN log : log[i].txn = txnId[c]

AnswersFollow ==
    \A c \in Calls : outcome[c].tag = "ok" =>
        /\ claimed[req[c].key] # 0
        /\ outcome[c].value = Find(claimed[req[c].key])
        /\ outcome[c].value # {}

\* Between the two sequence numbers of a posting and the posting.
Numbered(c) == pc[c] \in {"seqCredit", "post"}

DebitsFollow ==
    /\ \A c \in Calls : Numbered(c) => seqs[c].debit < nextSeq
    /\ \A i \in DOMAIN journal : journal[i].dir = "DEBIT" =>
          /\ journal[i].seq < nextSeq
          /\ \A c \in Calls : Numbered(c) /\ req[c].payer = journal[i].account
                               => journal[i].seq < seqs[c].debit

\* At every moment the log tells once of each call that saved, whoever was answered with
\* a transaction was answered with that of the claim on its key, and a sequence number
\* taken for a payer's debit is beyond those the journal has for that payer.
Settlement == EventsFollow /\ AnswersFollow /\ DebitsFollow

-----------------------------------------------------------------------------
\* What the documents say, and the code does not do.

\* HLD.md, on the ledger: no money is lost or created.  Once every call has
\* returned, the accounts hold together what they opened with.
NothingLostOrCreated ==
    LET Total(f) == SumFunction([a \in Accounts |-> f[a].minor])
    IN  AllDone => Total(balance) = Total(Opening)

\* HLD.md: if any step fails the transaction is moved to FAILED and persisted.
\* Once every call has returned, a key someone claimed has its transaction.
NoClaimLeftOpen ==
    AllDone => \A k \in Keys : claimed[k] # 0 => Find(claimed[k]) # {}
=============================================================================
