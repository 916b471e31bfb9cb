# Payment System: a TLA+ verification project

The modules here model the C++17 payment system of this repository (`src/`):
a header-only library whose centre is `PaymentService::pay()`, called by many
threads at once over pluggable adapters. TLC checks the modules on small
instances; TLAPS proves their main theorems for every instance.

## 1. The system

| Component | State it keeps | Operations | Shared with |
|---|---|---|---|
| `service/PaymentService.hpp` | the counter `seq_`, the id generator `txnIds_`, the strategy factory, the transition table | `pay()`, and inside it `advance`, `fail`, `publish` | calls every port below |
| `adapters/InMemoryIdempotencyStore.hpp` | map key -> transaction id | `putIfAbsent`, `get` | all calls of `pay()` |
| `adapters/InMemoryDistributedLock.hpp` | a registry of one mutex per key | `acquire` (returns a Guard), the Guard's destructor | all calls; keys are `"account:<payer>"` |
| `domain/Account.hpp`, `adapters/InMemoryAccountRepository.hpp` | a balance under a mutex; map id -> account | `credit`, `debit`, `balance`; `find`, `save` | all calls, by `shared_ptr` |
| `domain/LedgerEntry.hpp`, `adapters/InMemoryLedgerRepository.hpp` | an append-only list of entries | `post`, `entriesFor`, `all` | all calls |
| `domain/Transaction.hpp`, `adapters/InMemoryTransactionRepository.hpp` | map id -> transaction (by value) | `find`, `save`; the Builder | all calls |
| `adapters/FileTransactionRepository.hpp` | the same map and a file | the same, plus load at start | all calls, and the next process |
| `adapters/InMemoryEventPublisher.hpp` | log of events, list of subscribers | `publish`, `subscribe` | all calls; subscribers run on the payer's thread |
| `patterns/TransactionStateMachine.hpp` | a constant table | `canTransition`, `transition`, `isTerminal` | none |
| `patterns/ValidationChain.hpp` | a list of handlers | `run` | none |
| `patterns/PaymentStrategy.hpp`, `PaymentStrategyFactory.hpp` | constant | `create`; `authorize`, `capture`, `refund` | none; stands for external providers |
| `infra/BlockingQueue.hpp` | queue, closed flag, mutex, two condition variables | `push`, `pop`, `close`, `size`, `closed` | producers and consumers |
| `infra/ThreadPool.hpp` | the task queue, the worker threads, `stopped_` | `submit`, `shutdown`, `workerLoop` | clients and workers |
| `common/Money.hpp`, `Result.hpp`, `Enums.hpp`, `infra/IdGenerator.hpp` | none; an atomic counter | arithmetic, comparison, formatting; `next` | |
| `ports/Ports.hpp` | none | the interfaces between service and adapters | |
| `src/main.cpp`, `tests/tests.cpp` | none | wiring, scenarios | |

How they interact. `pay()` runs on the caller's thread. It mints an id,
reserves the idempotency key with `putIfAbsent`, builds a `Transaction` of its
own, takes the lock of the paying account, validates, looks both accounts up,
authorizes with a provider, debits and credits the live balances, posts the two
legs to the ledger, captures, saves the transaction and publishes an event; the
Guard's destructor gives the lock back. Every failure after the lock goes
through `fail()`: advance to FAILED, save, publish. All sharing is by calls on
objects that lock themselves, one short critical section per call; nothing spans
two of them but the payer's lock. `ThreadPool` is a client of `BlockingQueue`;
the demo and the tests run `pay()` on its workers.

What is hard here, and what would be wrong:

* *Concurrent duplicates.* Two calls with one key between `next()` and
  `putIfAbsent`: a key must charge at most once (`ChargedOnce`), the answers for
  a key must agree (`OneAnswerPerKey`), and a claimed key must get its
  transaction (`EveryClaimSettles`).
* *Concurrent payments of one wallet.* They must not overdraw it
  (`NoOverdraft`), must capture exactly what it covers (`ExactlyTheAffordable`),
  and debits must happen under the lock (`OnlyTheHolderDebits`).
* *Balances and journal move in separate steps*, with a compensation when the
  ledger refuses: in between they must differ by exactly what is under way
  (`LiveMatchesJournal`).
* *The numbering of the journal* is taken outside the ledger's mutex
  (`PayerDebitsInOrder`).
* *`advance()` drops illegal moves silently*: status, journal and store must agree
  all the same (`CapturedIffPosted`), and events must be true (`EventsAreFacts`).
* *Ids* are minted before they are needed and used as keys of the store
  (`StoredForever`, `Ownership`).
* *What callers are told* about a key must be what has become of it
  (`KeepsContract`, and behind it the invariant `Bookkeeping` of the proofs).
* *Locks and callbacks*: a call must not wait for ever (`EveryCallReturns`), though
  subscribers run on its thread and under its lock; they must hear the events of
  one payer in order and miss none (`HeardInOrder`, `NoEventIsMissed`), and one that
  throws must not undo anything (`ThrowsAfterTheFact`).
* *Failures in the middle*: declined captures, refused postings, discarded Statuses
  (`CompensationAccounted`, `OnlyRefusedCapturesKeepTheMoney`).
* *Death and restart over the durable repository*: `CapturedWasCharged`,
  `OwnSavesStay`.
* *Wakeups of the queue* are sent after the unlock, one at a time
  (`NoLostWakeup`, `ImplementsContract`).
* *Shutdown of the pool* races with submissions (`EveryTaskHasOnePlace`,
  `ShutdownDrains`, `EveryFutureSettles`, `ShutdownReturns`).
* *The file* is truncated and rewritten on every save, and nobody looks whether it
  could be; nor does anybody look whether a file that does not open is there at all, in
  which case the next save throws its contents away (`FileIsTheIndex`,
  `NothingToThrowAway`, `RestartRestores`).
* *The program around it*: what `main()` tells of the burst and of the audit must not
  depend on how the pool's threads are scheduled (`BurstAsTold`, `AuditIsComplete`,
  `DemoEnds`), and retries and rejected payments must leave the money where it is
  (`RejectedMovesNothing`).

PROJECT.json lists all of these at their lines under "hazards", with one that no
property covers.

## 2. The modules

```
Result   Money   TransactionStateMachine
   |  \   /  \           |
   | Account  Ledger  ValidationChain   PaymentStrategy
    \     \    |      /                /
        PaymentState          constants, variables, type invariant, Init, moves
             |
        PaymentService        mutants, one action per access, Next, Spec
             |
        PaymentProperties --implements--> PaymentContract
             |       \
             |        PaymentServiceProofs    theorems: sums, Ownership, Bookkeeping,
             |                 |              the refinement
             |        PaymentOutcomeProofs    Settlement, the money
             |                 |
             |                 +--------------------+---------------------+
             |        PaymentEventsProofs  PaymentRestartProofs      DemoProofs
             |                 |                    |                     |
             +--- PaymentEvents    with subscribers;           MCPaymentEvents
             +--- PaymentRestart   with refusals and restarts; MCPaymentRestart
             +--- Demo             main() around it;           MCDemo
             +--- MCPaymentService                 instances for TLC

QueueContract  <--implements--  BlockingQueue --- MCBlockingQueue
                                   |       \
                               ThreadPool   BlockingQueueProofs
                                   |    \       |
                       MCThreadPool    ThreadPoolProofs

FileTransactionRepository --- MCFileTransactionRepository
                          \-- FileTransactionRepositoryProofs
```

**PaymentService.** A call of `pay()` is a process `c \in Calls` with a program
counter `pc[c]`, its argument `req[c]` and its locals (`txnId`, `status`,
`error`, `seqs`, `outcome`). The shared variables are the state of the adapters:
`claimed` (idempotency store), `holder` (lock service), `opened` and `balance`
(accounts), `journal` (ledger), `store` (transactions), `log` (events), and the
counters `nextTxn`, `nextSeq`. An action is one access to shared state, since each
such access runs under its own mutex or on an atomic; what the code does between
two of them touches only the call's own stack and rides on the next one. Two
reads that nothing can invalidate (`get` then `find` of a claimed key; the two
account lookups, for accounts are added and never removed) are one action each.

| Lines of `PaymentService.hpp` | Actions |
|---|---|
| 83-92 idempotency | MintId, ClaimKey / KeyTaken, Replay |
| 94-102 the Builder, which throws on an empty party | Build |
| 111 | Acquire |
| 114-121 | Validate, FindAccounts |
| 123-135 | Authorize / Decline |
| 137-141 | DebitPayer, CreditPayee |
| 149-160 | SeqOfDebit, SeqOfCredit, PostAccepted / PostRejected, RefundPayer, ChargePayee |
| 163-166 | Capture / CaptureRefused |
| 167-171 and `fail()` | Save, Publish, Release |

A failing step is the local half of `fail()` (the operator Failing); Save, Publish
and Release are then the same steps as on the good path, and the event is named by
the path. `Find`, `store` and `Outcome` hold optionals as sets of at most one
element. Exceptions (the Builder's, and a comparison of two currencies inside
the chain) leave `pay()` without saving; stack unwinding gives the lock back.

What an interface allows and the shipped adapters never do is a constant:
`Providers` gives each method the verdicts its strategy's authorize and capture may
give, `LedgerFaults` says whether a ledger may refuse a balanced batch. The shipped
code is `Shipped` (everything is approved) and `FALSE`.

**PaymentContract** is what the whole of it promises about an idempotency key: a key
is free, claimed, posted, and then captured or failed for good, and each call gets
one answer, which is what its key has come to at that moment. There are no
accounts, locks, journal or store in it. `Phase` and `Told` in PaymentProperties
map the state of PaymentService to it; `KeepsContract` says that every step of
`pay()` is one of the contract's or leaves its state alone. It allows a failure of a
posted key only where a provider may refuse a capture, and "threw" only for a key
left claimed; a subscriber that throws is the application's and is not in it.

**PaymentEvents** adds subscribers. `publish()` appends and takes its snapshot in one
step (PayStep at "publish"), then calls the snapshot one by one: a callback listens,
throws out of `pay()` (unwinding releases the lock), or calls `pay()` itself, which
is another call that the first waits for. `subscribe()` may happen at any time.

**PaymentRestart** puts the service over FileTransactionRepository in a process that
may die at any step. The next one keeps `store`, with any part of it if a save was
under way (the file opens and takes what is written; FileTransactionRepository has the
disk that does not), and starts everything else anew: counters, claims, locks, accounts,
journal, log. `charged` and `discarded` are histories: postings accepted under a key
in any process, and what the discarded Statuses of credit and compensation have cost.

**Demo** is `main()`: payments one by one, then a burst through the pool, then the
audit. The pool is here what ThreadPool shows it to be, a FIFO served by workers. The
script is a parameter: CallsAssumption and AsksAssumption say what any script must be
like for the theorems, and TLC evaluates them for that of `main.cpp`.

**BlockingQueue.** A thread is in one of ten places (`at`). The part of an operation
under `mtx_` is one step, going to sleep included, since `wait` releases the mutex
atomically. The notification follows the unlock as a step of its own and wakes any
one sleeper, or nobody. A woken thread returns to the predicate, so threads that
never slept may overtake it; sleepers may also wake for no reason. `QueueContract`
says what callers may rely on: a FIFO of bounded length whose operations take
effect at one instant and return what that effect was.

**ThreadPool** adds clients, workers and threads that shut down to the queue's
variables: a task is one of the queue's items, `future` what `submit()` returned
for it, `runs` how often it was begun, `stage` what a thread does with the pool. A
rejected push leaves the task in its submitter's hand, where it is destroyed and its
future breaks. Tasks end; before that they may submit others (`Subtasks`) to the pool
they run in, on the worker's thread. `Jammed` is the state in which every worker is
inside such a submit and the queue is full: TLC reaches it, and only a shutdown ends
it.

**FileTransactionRepository.** `index` is a set of transactions, `file` a sequence
of lines, each whole or cut (in its last field, the creation time, or before).
Save inserts and truncates, WriteLine is one turn of the loop in `flushToDisk`,
SaveUnopened is a save whose file does not open and WriteFails a write that fails,
both unnoticed by the code (`behind` records it); Crash ends the process anywhere,
with or without half a line more, and Restart loads the file. RestartUnread is a start at
which the file is there and does not open: the process goes on with an empty index, as
if there were no file, and its first save that can open it truncates it (`unread` records
that it has not come to that yet, `flushed` what the last flush that opened the file was to
write). A line that lacks fields is dropped, one whose time is cut is taken.

Definitions that start with "Mutant of" or stand in the mutants' section of
PaymentService are used by no specification. Each is a plausible slip; put in the
place of the definition it names, it breaks the property PROJECT.json pairs it
with, which shows that the property depends on that code.

## 3. What TLC checks

| Run | Instance | Shows |
|---|---|---|
| core | 2 calls, each with any of 11 kinds of request, 2 keys, 4 accounts; a provider that may decline or refuse to capture, a ledger that may refuse | TypeOK, Ownership and EventsAreFacts at every step; KeepsContract, the refinement |
| race | 3 calls, 3 keys, equal payments of one wallet, one the other way and one to itself, over the shipped adapters | NoOverdraft, ChargedOnce, OneAnswerPerKey, PayerDebitsInOrder, ExactlyTheAffordable, CapturedIffPosted, LiveMatchesJournal, SumsFitTheSupply, Settlement, StoredForever, OnlyTheHolderDebits |
| live | 2 calls and one a callback makes, each with any of 4 requests, one of which the chain throws on; 2 subscribers, fair scheduling | HeardInOrder, ThrowsAfterTheFact, NoEventIsMissed; EveryCallReturns, EveryClaimSettles |
| faults | 2 calls, providers and ledger that refuse, a payee that spends or keeps another currency, one crash at any step | CompensationAccounted, CapturedWasCharged, OnlyRefusedCapturesKeepTheMoney, OwnSavesStay |
| queue | 2 producers, one of which closes, 2 consumers, 2 items, 2 places | QueueTypeOK, NoLostWakeup; ImplementsContract, with its fairness |
| pool | 1 client, 2 workers, 2 threads shutting down, a task and four subtasks, 1 place | PoolTypeOK, EveryTaskHasOnePlace, ShutdownDrains, EveryFutureSettles, ShutdownReturns |
| file | 3 transactions in 2 versions, files that fail to open, to be read or to be written, any number of crashes | FileTypeOK, FileIsTheIndex, NothingToThrowAway, RestartRestores |
| demo | 4 payments one by one, 4 through 2 workers from a wallet that covers 2 | RejectedMovesNothing, BurstAsTold, AuditIsComplete, DemoEnds |

Bounds. Two calls meet in every pair of steps, and every hazard of the core run
is between two calls; three are needed for a duplicate of a duplicate, and for a
wallet that covers two of three payments. The request set of core has one member
per outcome `pay()` distinguishes: paid, unaffordable after another, a key used
again with other data, the opposite direction, a payee not saved yet, payer equal
to payee, zero, fraud threshold, over the limit, a currency the limits cannot be
compared with, an empty party. Amounts and balances (10, 5, 0; 4 to 10) are
chosen so that each comparison is met on both sides and with equality. A bound on
steps is not needed: a call runs once. The queue has one place more than it takes
for two notifications to be under way at once, and in the pool one place makes
submitters sleep; with a second worker and four subtasks every worker can be inside
`submit()` at once. One call made by a callback is enough for a thread to wait for
itself, and for another to wait for that one; two threads whose callbacks wait for
each other take two such calls, which is beyond this instance. With one crash a process runs over what
an earlier one left; a second adds nothing but another such process. The demo has two
workers and four payments for eight and fifty: two of them succeed, two find the
wallet short. Three transactions let a crash fall between written and unwritten
ones on both sides. Symmetry is used over calls and transaction ids, in safety
runs only: they are interchangeable and no property orders them.

Fairness. EventsSpec asks weak fairness of each call, callbacks included,
FairQueueSpec and the pool's FairSpec of each thread, DemoSpec of the main thread and
the workers: the operating system runs a thread that can run. A `std::mutex` promises
nothing about who gets it next; weak fairness of a call that waits for the lock is
enough because only finitely many calls contend, each holds the lock for finitely
many steps, and the last one finds it free for good. Nothing is assumed of calls not
made: no producer has to push, no thread has to shut the pool down, nobody has to
subscribe, no sleeper has to wake spuriously. Tasks and callbacks are assumed to end.
Two ways of not ending remain and are named in the properties, not assumed away:
`Stuck` (callbacks that wait for a lock their own thread, or a thread that waits for
it, holds) and `Jammed`. A third exception is named in EveryClaimSettles alone: `Unfit`, a
call that ends, but by an exception of `build()` or of the chain, after which its key
stays claimed with nothing saved (the run foreign_amount shows it). PaymentEvents may
stop where calls are stuck (`LockedUp`) or when every call has returned; any other deadlock would be reported.

TLC also shows where the code departs from what its documents say. Each of these
runs checks one documented sentence and finds it violated:

| Run | Sentence | What happens |
|---|---|---|
| lost_credit | HLD.md:16 no lost or created money | the payee keeps another currency, its credit is refused, the refusal is discarded: CAPTURED, and the money is gone |
| foreign_amount | HLD.md:87 any failing step is persisted as FAILED | a handler throws on a currency it cannot compare: the key stays claimed, nothing is saved, every retry is DUPLICATE_REQUEST |
| retry_charged | FileTransactionRepository.hpp:14-15 a captured transaction is on disk, so a retried request after a crash finds the original | `pay()` asks the idempotency store, which is new, and never the repository: with the captured transaction on disk the ledger accepts a posting of the retry |
| file_crash | FileTransactionRepository.hpp:7 transactions survive a restart | the process dies between truncation and rewrite |

None of these needs a collaborator that refuses. Section 5 names three sentences more
that hold only in part.

## 4. What is proved

PaymentServiceProofs, for every set of calls, keys and accounts, every set of
requests, every chain of handlers and every behaviour of the collaborators:

* TypeCorrect: `Spec => []TypeOK`.
* OwnershipHolds: `Spec => []Ownership`, the inductive invariant.
* NoDoubleCharge (`ChargedOnce`), SavedForGood (`StoredForever`), NeverOverdrawn
  (`NoOverdraft`), DebitsUnderLock (`OnlyTheHolderDebits`).
* BookkeepingHolds: `Spec => []Bookkeeping`.
* ServiceKeepsContract: `Spec => KeepsContract`, the refinement of PaymentContract.

PaymentOutcomeProofs, likewise:

* SettlementHolds: `Spec => []Settlement`; from it and the two above
  CapturedExactlyWhenPosted (`CapturedIffPosted`), EventsTellFacts (`EventsAreFacts`),
  OneAnswer (`OneAnswerPerKey`) and DebitsInOrder (`PayerDebitsInOrder`).
* PostingsHold: `Spec => []PostingsFollow`, the journal is double entry at every moment.
* LiveIsJournal (`LiveMatchesJournal`), SumsStayInSupply (`SumsFitTheSupply`) and
  RaceIsExact (`ExactlyTheAffordable`), about the money, under hypotheses named below.

PaymentRestartProofs, for any number of crashes at any step:

* ContinuityHolds: `RestartSpec => []Continuity`; NoCaptureUncharged
  (`CapturedWasCharged`), OtherFailuresGiveBack (`OnlyRefusedCapturesKeepTheMoney`),
  OwnSavesAreSafe (`OwnSavesStay`) and MoneyIsAccounted (`CompensationAccounted`).

PaymentEventsProofs, for any subscribers and whatever callbacks do:

* DeliveryHolds: the invariants of `pay()` go on to hold with callbacks in it, and
  Delivery with them; ToldInOrder (`HeardInOrder`), NobodyIsForgotten
  (`NoEventIsMissed`), ThrownTooLate (`ThrowsAfterTheFact`).

DemoProofs, for any script, any burst and any number of workers:

* DemoIsService: `DemoSpec => Spec /\ []MainFollows`, whatever `main()` and the pool do is
  a run of the service, so that all theorems above are about the demo too.
* DemoFollowsHolds: `DemoSpec => []DemoFollows`, the inductive invariant;
  RetriesAndRejections (`RejectedMovesNothing`), BurstIsExact (`BurstAsTold`) and
  AuditMissesNothing (`AuditIsComplete`).

The assumptions are ConstantsAssumption (types of the constants; there is a value
that is no call and an id that is no account), EventsAssumption (among others, that
nobody is subscribed twice before the first call) and, for NeverOverdrawn,
SumsStayInSupply and RaceIsExact, OpeningAssumption: no account opens overdrawn, which `Account`'s
constructor does not insist on and every account the program saves satisfies. The demo
adds CallsAssumption (each payment is made once, in the script or in the burst) and
AsksAssumption, what `main()` asks for: payments of positive amounts to one merchant in one
currency, over the shipped adapters; retries only of payments in order; wallets seeded
first that can afford all they are asked for (`Planned`); and, in the burst, one wallet
and a key for each payment. How much that wallet holds is left open. Four
theorems about sums and numbers have hypotheses of their own. All ask that there are finitely many
calls (SumsStayInSupply: and accounts), without which they have no meaning. LiveIsJournal asks
for a ledger that refuses no balanced batch (the shipped one) and accounts of one
currency. Without the second it is false, as the run lost_credit shows, and without the
first when a refused compensating debit is discarded; MoneyIsAccounted then says by how
much, with no such hypothesis. SumsStayInSupply asks
for that ledger and for a chain with BasicValidationHandler in it (`ChecksAmounts`), as
every chain of the program has: it alone refuses the amount zero, which `debit()`
accepts. RaceIsExact asks that nothing but want of funds stands in the way of a payment
from one account to another (`OnlyFundsDecide`): that ledger, strategies that
approve (the shipped ones), and requests the chain lets through, for a positive
amount in the payer's currency, between accounts that are saved; so is the burst
of tests.cpp and of the demo.

The argument. ChargedOnce speaks of the journal, and is not inductive: a second
posting of a key must be excluded by what the calls under way own. Ownership says
it in six parts. IdsAreFresh: an id below `nextTxn` belongs to one call.
ClaimsAreKept: a call past `putIfAbsent` finds its own id under its key, so two
calls past it have different keys. LocksAreKept: a call between `acquire` and
the Guard's destructor is the holder, so two such calls have different payers.
PostedByItsClaimant: an entry of the journal names a call that holds the claim of
its key and is past its posting. DebitedOnce: an id has one debit entry.
SavedByItsOwner: a stored transaction was saved by the call that owns its id.
A posting adds an entry of a call at "post", which by PostedByItsClaimant and
IdsAreFresh has none yet; ChargedOnce follows because two claimants of one key are one
call. StoredForever follows because the call at "save" has saved nothing under its
id. Most actions change none of what Ownership reads of other calls; the lemma on
moves of one call states that once.

The refinement needs to know more than who owns what: that a call at "save" fails or
succeeds exactly as its legs say, that what is stored is CAPTURED if posted (or
refused by a provider) and FAILED otherwise, and that a claim belongs to a caller
with that key. Bookkeeping says it call by call (StatusFollows, MoneyFollows,
AnswerFollows) and for the store and the claims; it is inductive together with
TypeOK and Ownership. The step theorem then has one case per action: the claim, the
posting, the saving of either end and the ways to answer map to the contract's
actions, and everything else stutters, because it changes no phase and no answer.

Settlement adds what callers and subscribers see. A posting's order needs
DebitsFollow: a number taken for a payer's debit lies beyond all the journal has for that
payer, which holds because no other call of the payer can take or post one while the
first holds its lock. OneAnswerPerKey needs AnswersFollow: an answer with a transaction
is what the claim on the caller's key leads to, now as then, because claims and saved
transactions stay.

Across a crash the store outlives its owners, so Ownership and Bookkeeping do not
carry over as they stand. Continuity keeps what speaks of one process (Reservations,
statuses, legs) and counts instead: the captures on disk under a key, and one more
while a call is between its posting and its save, are no more than the postings ever
accepted under it. Delivery, for subscribers, says that what a call still has to
tell and what has been heard are the two parts of the snapshot it took, and that while a
call holds its lock after logging, nobody logs for its payer (LastOfItsPayer), from
which the order each subscriber hears follows.

The money is a sum over calls, accounts and entries of the journal. A sum is a fold,
and induction over its indices is not available as a rule, since the library's induction
theorems take a predicate; but their well-founded form does not. SubsetInduction
derives, from the fact that a set of finite sets has a smallest member, that a
set of subsets closed under adding an element has them all; SumFacts, SumChanges and
SumBounds (a sum is any of its terms and the rest; one changed term changes it by as
much; terms not below zero do not exceed it) follow. With them each step is arithmetic on
one account: BalanceStep says that a balance moves as the journal's sum for it
(NetStep), what calls have on the way (InFlightStep) and what a discarded Status hides move
together. FundsFollow is the invariant it needs: the amount a call has taken is
not negative and in its payer's currency, so that a refund to the payer is
never refused. SupplyFollows adds that what the accounts of a currency hold and calls
carry between debit and credit never grows, so that an amount that passed the guard of
`debit()` was within the supply. RaceFollows counts: the wallet holds what it opened with
less the amount times the number of calls that have taken it, and once a call has failed
it holds less than one amount. When all calls have returned, those that took are one to
one with the captured transactions and with keys (a charge is posted by the claimant of
its key); if none failed they are one to one with all keys, since who returned without
a transaction lost its key to another call (ClaimsFollow). Either way their
number is the smaller of the quotient and the number of keys (Quotient).

The demo needs no second proof of `pay()`: a step of `main()` or of a worker is a step of
one call, the opening of the wallet, or nothing to the service (DemoSteps). What it adds
is the order. MainFollows says where `main()` stands and which calls have been made by
then, and that everybody's payments are done when their futures are. DemoFollows is about
the calls: who passed the chain is someone whom it lets through (ChecksFollow); an account
that only gives has what it opened with less what the calls have taken (Spent,
BalancesFollow), so that a seeded wallet that can afford what is Planned never refuses,
and the burst's refuses only for want of funds, which stays true since its balance only goes down;
answers are those of the error or of the key (ToldFollow), and a retry never gets past
`putIfAbsent` (RetriesFollow), since by ClaimsFollow its key is claimed once the original
has returned. ClaimsFollow is proved of any call that cannot throw, so that both the race and
the demo can use it. At the end, BurstIsExact is BalancesFollow with the calls that took
nothing left out of the sum (SumWithoutZeros). The audit is the credits of the
journal (PostingsFollow), one per posted transaction, which are the captured ones
(CapturedIffPosted); that their sum is what the merchant gained is LiveIsJournal with
nothing under way, the sum over places in the journal being that over the entries found
there (SumRenamed).

BlockingQueueProofs, for every finite set of threads, all items and any capacity:

* QueueTypeCorrect and NoWakeupIsLost (`NoLostWakeup`). The invariant bounds what
  there is to do by the threads awake to do it: items by consumers at the predicate
  plus notifications on the way, free places likewise. The lemmas count threads:
  a move takes one from a place and adds one to another. They are stated of AnyNext,
  in which any thread may do any operation, so that the pool can use them.
* ContractHolds: `QueueSpec => Contract!Spec`, every step is one of the contract's
  or leaves its state alone. Calls and what follows them are lemmas of their own
  (CallsAreCalls, InsideTakesEffect), which do not ask who may call what.

ThreadPoolProofs, for any clients, workers, stoppers and tasks:

* CustodyHolds, the inductive invariant; PoolTypeCorrect, NoTaskIsLostOrShared
  (`EveryTaskHasOnePlace`), ShutdownRunsTheRest (`ShutdownDrains`), PoolLosesNoWakeup
  (`NoLostWakeup`). Custody says where in the queue's operations a thread at each stage of
  the pool's stands and what it holds (StageFollows), that a task is in at most one slot,
  hand or worker, once, and in none when its future is settled (TaskFollows), and that a
  worker told "closed and drained" was told so for good (DrainFollows), since a closed
  queue takes no more.
* PoolQueueKeepsContract: `Spec => PoolQueue!Spec`, QueueContract with workers that push as
  well as pop: the FIFO that Demo takes the pool's queue to be.

FileTransactionRepositoryProofs, for any transactions and either kind of disk:

* DiskHolds: `Spec => []DiskFollows`; FileTypeCorrect, FileReadsBack (`FileIsTheIndex`),
  SavesThrowNothingAway (`NothingToThrowAway`), RestartIsFaithful (`RestartRestores`). A
  flush leaves whole lines of exactly the part of what it was given (`flushed`) that it
  is done with, as long as no write of it has failed; no two lines, torn ones included,
  are of one transaction; and each reads back as something of `flushed`. What ties the
  file to the index is a part of its own, which asks that the process could read the
  file or has opened it to write since.

Each inductive invariant (Ownership, Bookkeeping, Settlement, Continuity, Delivery,
DiskFollows, Custody, FundsFollow, ClaimsFollow, SupplyFollows, RaceFollows,
PostingsFollow, MainFollows, DemoFollows) was checked by TLC on the runs' instances before
it was proved, and so was `PoolQueue!Spec`; Ownership and Settlement stay in runs as
properties. Most of those that serve a proof only stand in the proof module.

Only model-checked: liveness (EveryCallReturns, EveryClaimSettles,
EveryFutureSettles, ShutdownReturns, DemoEnds, the fairness half of
ImplementsContract), which the prover cannot treat. The four properties expected to be
violated are refuted by TLC. Every other property of the runs is a theorem.

## 5. What is not modelled

* Time stamps, messages, names, provider references, formatting, logging: no
  decision of the code depends on them.
* `refund` and the statuses SETTLED and REFUNDED: nothing calls them. A payment method
  without a strategy: the factory has one for every enumerator.
* 64-bit wrap-around of Money: amounts are unbounded in the model. SumsFitTheSupply
  shows that no sum the service computes exceeds what the accounts opened with, so
  none wraps unless that does. `fromMajor` and `toString` only serve the eye.
* Saving a second account object under an id in use: nothing in the program does it.
* A distributed lock whose guard is not `acquired()`: the shipped one always is, and
  `pay()` does not ask.
* A pool whose constructor cannot start a thread: the program ends there.
* Stage 7 of `main.cpp`, which writes and reloads one transaction: it is a behaviour
  of FileTransactionRepository.
* A key or id with a tab or a line end in it, which the file's format excludes.
* A disk that fails under the whole service: PaymentRestart's file opens and takes what is
  written, and the faults are in FileTransactionRepository alone. What CapturedWasCharged
  says of the captures on disk does not cover one that is lost in such a fault.
* Two processes over one file or one lock service: the adapters are in memory.
* `tests.cpp`: its scenarios are among the requests of MCPaymentService.

Three sentences of the sources hold only in part. PaymentService.hpp:79-81 says that a
concurrent duplicate gets the original transaction: one that finds the key claimed and
nothing saved yet is refused with DUPLICATE_REQUEST, which PaymentContract allows
("busy"). FileTransactionRepository.hpp:104 says "no file yet == empty repo, not an
error": a file that is there and does not open gives an empty repository as well
(RestartUnread), and the first save that can open it leaves in it nothing but what
the new process has saved. main.cpp:108 announces stage 3 as "Insufficient funds": its
payment is over the limit of 100000 and is rejected with VALIDATION_FAILED before funds
are looked at, which is what RejectedMovesNothing says of it.

Behaviour met on the way that a user of the code should know, without a run of its
own: a retry of a FAILED payment is answered `Result::ok` with the FAILED
transaction; a payment whose capture the provider refuses is FAILED with its
money moved and journaled (OnlyRefusedCapturesKeepTheMoney says it is the only such
error); when the ledger refuses a posting after the payee has spent the credit,
the compensating debit fails unseen and the payee keeps the money
(CompensationAccounted says by how much); after a restart over the file, ids start
at txn_1 again, so a new transaction replaces an old one, and a retry that finds its
key claimed but not yet saved may be answered with an older transaction of the same
id; a subscriber that throws makes `pay()` throw after everything has happened; one
that pays from the account whose event it is told of never returns; a `submit()` that
loses the race with `shutdown()` returns a future that throws `broken_promise`; a second concurrent `shutdown()` returns while
the first is still draining; the journal may record a payee's spending before
the posting that funded it.

## 6. Plan

Done, in this order because the money matters most: the values and tables; the
payment service with its theorems; the queue with its contract; the pool; the file;
then the contract of the service and its refinement, subscribers, refusals and
restarts, tasks that submit, write errors, and the demo.

Then the proofs: from the ownership of ids, claims and locks to the refinement, the
answers and events, the money, crashes, subscribers, the queue, the pool and the file, and
last the demo, as a run of the service.

Left: that PaymentRestart's disk is what FileTransactionRepository makes of it, and Demo's
pool what ThreadPool is, as refinements; today each takes from the other module what is proved
there (DiskFollows, PoolQueueKeepsContract, ShutdownDrains) as its description.
