---------------------------- MODULE PaymentState -----------------------------
(***************************************************************************)
(* The state that concurrent invocations of PaymentService::pay() share    *)
(* and keep, and the moves the actions of PaymentService are made of.      *)
(*                                                                         *)
(* A call is a process.  It advances by one access to shared state at a    *)
(* time (every adapter operation, and every Account operation, runs under  *)
(* a mutex of its own; the counters are atomics); what it does between two *)
(* accesses touches only its own Transaction and rides on the next one.    *)
(* The collaborators a call reaches through an interface may behave as the *)
(* interface allows: Providers says what the strategy of each method may   *)
(* answer, LedgerFaults whether a ledger may refuse a balanced batch.  The *)
(* shipped ones approve everything: Shipped and FALSE.                     *)
(***************************************************************************)
EXTENDS TransactionStateMachine, ValidationChain, Account, Ledger, PaymentStrategy

CONSTANTS
    Calls,          \* the invocations of pay()
    NoCall,         \* "the lock is free"
    Keys,           \* idempotency keys
    Accounts,       \* account ids
    NoId,           \* the empty account id
    Opening,        \* [Accounts -> Money]: the balance an account opens with
    Existing,       \* the accounts saved before the first call
    Requests,       \* the PaymentRequests a client may send
    Chain,          \* the validation handlers, in the order they were added
    Providers,      \* [PaymentMethod -> Provider]: the strategies
    LedgerFaults

Ids == Accounts \cup {NoId}

PaymentRequest == [key: Keys, payer: Ids, payee: Ids, amount: Money, method: PaymentMethod]

Transaction == [id: Nat, key: Keys, payer: Ids, payee: Ids, amount: Money,
                method: PaymentMethod, status: TxnStatus]

\* What pay() hands its caller: a Transaction (value is a set of at most one),
\* an error code, or an exception.
Outcome == [tag: {"none", "ok", "err", "threw"}, code: ErrorCode,
            value: SUBSET Transaction]

DomainEvent == [type: {"PaymentCaptured", "PaymentFailed"}, txn: Nat,
                status: TxnStatus]

LedgerEntry == [txn: Nat, account: Ids, dir: Direction, amount: Money, seq: Nat]

ASSUME ConstantsAssumption ==
    /\ NoCall \notin Calls
    /\ NoId \notin Accounts
    /\ Opening \in [Accounts -> Money]
    /\ Existing \in SUBSET Accounts
    /\ Requests \in SUBSET PaymentRequest
    /\ Chain \in Seq(Handler)
    /\ Providers \in [PaymentMethod -> Provider]
    /\ LedgerFaults \in BOOLEAN

\* No account is opened overdrawn.  Account's constructor does not insist on it;
\* every account the program and its tests save satisfies it.
ASSUME OpeningAssumption == \A a \in Accounts : Opening[a].minor >= 0

VARIABLES
    \* one value per call: its own stack
    req,            \* the argument
    pc,             \* the access it makes next
    txnId,          \* the id it minted; 0 before
    status,         \* the status of its Transaction
    error,          \* the code it is failing with
    seqs,           \* the two ledger sequence numbers it took
    outcome,        \* what it returned
    \* shared
    nextTxn,        \* txnIds_
    nextSeq,        \* seq_
    claimed,        \* IdempotencyStore: key -> transaction id, 0 when absent
    holder,         \* DistributedLock: who holds "account:<id>"
    opened,         \* AccountRepository: the accounts saved
    balance,        \* Account::balance_
    journal,        \* LedgerRepository, append-only
    store,          \* TransactionRepository
    log             \* EventPublisher

stack  == <<req, txnId, status, error, seqs, outcome>>
shared == <<nextTxn, nextSeq, claimed, holder, opened, balance, journal, store, log>>
vars   == <<stack, pc, shared>>

Labels == {"mint", "claim", "replay", "build", "acquire", "validate", "find",
           "authorize", "debit", "credit", "seqDebit", "seqCredit", "post",
           "refundPayer", "chargePayee", "capture", "save", "publish",
           "release", "done"}

\* Between acquire() and the Guard's destructor.
Critical == {"validate", "find", "authorize", "debit", "credit", "seqDebit",
             "seqCredit", "post", "refundPayer", "chargePayee", "capture",
             "save", "publish", "release"}

TypeOK ==
    /\ req \in [Calls -> Requests]
    /\ pc \in [Calls -> Labels]
    /\ txnId \in [Calls -> Nat]
    /\ status \in [Calls -> TxnStatus]
    /\ error \in [Calls -> ErrorCode]
    /\ seqs \in [Calls -> [debit: Nat, credit: Nat]]
    /\ outcome \in [Calls -> Outcome]
    /\ nextTxn \in Nat \ {0}
    /\ nextSeq \in Nat \ {0}
    /\ claimed \in [Keys -> Nat]
    /\ holder \in [Ids -> Calls \cup {NoCall}]
    /\ opened \in SUBSET Accounts
    /\ balance \in [Accounts -> Money]
    /\ journal \in Seq(LedgerEntry)
    /\ store \in SUBSET Transaction
    /\ log \in Seq(DomainEvent)

Init ==
    /\ req \in [Calls -> Requests]
    /\ pc = [c \in Calls |-> "mint"]
    /\ txnId = [c \in Calls |-> 0]
    /\ status = [c \in Calls |-> "INITIATED"]
    /\ error = [c \in Calls |-> "NONE"]
    /\ seqs = [c \in Calls |-> [debit |-> 0, credit |-> 0]]
    /\ outcome = [c \in Calls |-> [tag |-> "none", code |-> "NONE", value |-> {}]]
    /\ nextTxn = 1
    /\ nextSeq = 1
    /\ claimed = [k \in Keys |-> 0]
    /\ holder = [a \in Ids |-> NoCall]
    /\ opened = Existing
    /\ balance = Opening
    /\ journal = << >>
    /\ store = {}
    /\ log = << >>

-----------------------------------------------------------------------------
\* The call's own side.

Step(c, from, to) == pc[c] = from /\ pc' = [pc EXCEPT ![c] = to]

Return(c, tag, code, value) ==
    outcome' = [outcome EXCEPT ![c] = [tag |-> tag, code |-> code, value |-> value]]

\* Mutant of Failing: the event goes out and the transaction is never persisted.
FailingUnsaved(c, from, code) ==
    /\ Step(c, from, "publish")
    /\ error' = [error EXCEPT ![c] = code]
    /\ status' = [status EXCEPT ![c] = Advance(@, "FAILED")]

\* The local half of fail(): what is left of it is to save and to publish.
Failing(c, from, code) ==
    /\ Step(c, from, "save")
    /\ error' = [error EXCEPT ![c] = code]
    /\ status' = [status EXCEPT ![c] = Advance(@, "FAILED")]

TransactionOf(c) ==
    [id |-> txnId[c], key |-> req[c].key, payer |-> req[c].payer,
     payee |-> req[c].payee, amount |-> req[c].amount,
     method |-> req[c].method, status |-> status[c]]

\* TransactionRepository::find, an optional as a set.
Find(id) == {t \in store : t.id = id}
=============================================================================
