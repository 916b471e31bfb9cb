--------------------------------- MODULE Demo ----------------------------------
(***************************************************************************)
(* src/main.cpp: payments one after another, then a burst of payments from *)
(* one wallet through the thread pool, then the audit of the merchant.     *)
(* The pool is here what ThreadPool shows it to be: tasks are taken in the *)
(* order they were submitted, each by one worker that runs it to its end,  *)
(* and leaving the pool's scope waits for all of them.                     *)
(***************************************************************************)
EXTENDS PaymentProperties

CONSTANTS
    Script,         \* the payments main() makes itself, as a sequence of calls
    Burst,          \* those it submits to the pool
    Asks,           \* what each call asks for
    Wallet,         \* the account the burst spends from, saved just before
    Merchant,
    Workers

ScriptCalls == Range(Script)
BurstCalls  == Range(Burst)

\* main() makes each payment once, and at least one in each part.
ASSUME CallsAssumption ==
    /\ Script \in Seq(Calls) /\ Script # << >> /\ IsInjective(Script)
    /\ Burst  \in Seq(Calls) /\ Burst  # << >> /\ IsInjective(Burst)
    /\ ScriptCalls \cap BurstCalls = {}
    /\ Calls = ScriptCalls \cup BurstCalls
    /\ Asks \in [Calls -> Requests]

Passes(c) == Run(Chain, Asks[c]) = "NONE"

\* What the payments take from an account if all those the chain lets through are made.
Planned(a) ==
    SumFunction([c \in Calls |-> IF Asks[c].payer = a /\ Passes(c)
                                 THEN Asks[c].amount.minor ELSE 0])

\* What main() asks for: over the shipped adapters, positive amounts in the one currency
\* there is, from wallets to the merchant; a payment it makes twice is in order, the wallets
\* it seeds first can afford theirs, and each payment of the burst has a key of its own.
ASSUME AsksAssumption ==
    /\ ~LedgerFaults
    /\ \A m \in PaymentMethod : Providers[m] = Approves
    /\ Wallet \in Accounts \ Existing
    /\ Merchant \in Existing
    /\ \A a \in Accounts : SameCcy(Opening[a], Opening[Merchant])
    /\ \A c \in Calls :
          /\ Asks[c].payee = Merchant
          /\ Asks[c].payer # Merchant
          /\ IsPositive(Asks[c].amount)
          /\ SameCcy(Asks[c].amount, Opening[Merchant])
    /\ \A c \in ScriptCalls :
          /\ Asks[c].payer \in Existing
          /\ Run(Chain, Asks[c]) # Thrown
          /\ \A d \in ScriptCalls \ {c} : Asks[d].key = Asks[c].key => Passes(c)
    /\ \A a \in Existing : Planned(a) <= Opening[a].minor
    /\ \A c \in BurstCalls :
          /\ Asks[c].payer = Wallet
          /\ Passes(c)
          /\ \A d \in Calls \ {c} : Asks[d].key # Asks[c].key

VARIABLES
    main,           \* where main() is
    turn,           \* the turn of its loop, or the payment of its script
    queue,          \* the pool's queue
    running,        \* the payment each worker makes
    audit           \* the entries main() has read for the merchant

dvars == <<main, turn, queue, running, audit>>
demovars == <<vars, dvars>>

DemoInit ==
    /\ req = Asks
    /\ Init
    /\ main = "script"
    /\ turn = 1
    /\ queue = << >>
    /\ running = [w \in Workers |-> NoCall]
    /\ audit = {}

\* The next turn of a loop over calls, or what comes after it.
NextTurn(loop, calls, after) ==
    IF turn < Len(calls) THEN turn' = turn + 1 /\ main' = loop
                         ELSE turn' = 1 /\ main' = after

\* One step of the payment main() is at.
PayFromScript ==
    /\ main = "script"
    /\ Pay(Script[turn])
    /\ IF pc'[Script[turn]] = "done" THEN NextTurn("script", Script, "seed")
                                     ELSE UNCHANGED <<main, turn>>
    /\ UNCHANGED <<queue, running, audit>>

SeedWallet ==
    /\ main = "seed"
    /\ main' = "submit"
    /\ OpenAccount(Wallet)
    /\ UNCHANGED <<turn, queue, running, audit>>

SubmitPayment ==
    /\ main = "submit"
    /\ queue' = Append(queue, Burst[turn])
    /\ NextTurn("submit", Burst, "get")
    /\ UNCHANGED <<vars, running, audit>>

TakePayment(w) ==
    /\ running[w] = NoCall /\ queue # << >>
    /\ running' = [running EXCEPT ![w] = Head(queue)]
    /\ queue' = Tail(queue)
    /\ UNCHANGED <<vars, main, turn, audit>>

\* One step of the payment the worker makes; its future is ready when it is done.
PayFromPool(w) ==
    /\ running[w] # NoCall
    /\ Pay(running[w])
    /\ running' = IF pc'[running[w]] = "done" THEN [running EXCEPT ![w] = NoCall]
                                              ELSE running
    /\ UNCHANGED <<main, turn, queue, audit>>

\* f.get(), future by future.
GetFuture ==
    /\ main = "get"
    /\ pc[Burst[turn]] = "done"
    /\ NextTurn("get", Burst, "leave")
    /\ UNCHANGED <<vars, queue, running, audit>>

\* ~ThreadPool
LeavePool ==
    /\ main = "leave"
    /\ queue = << >> /\ \A w \in Workers : running[w] = NoCall
    /\ main' = "audit"
    /\ UNCHANGED <<vars, turn, queue, running, audit>>

ReadLedger ==
    /\ main = "audit"
    /\ main' = "end"
    /\ audit' = {journal[i] : i \in EntriesFor(journal, Merchant)}
    /\ UNCHANGED <<vars, turn, queue, running>>

Main == PayFromScript \/ SeedWallet \/ SubmitPayment \/ GetFuture \/ LeavePool \/ ReadLedger
Work(w) == TakePayment(w) \/ PayFromPool(w)
Ended == main = "end" /\ UNCHANGED demovars

DemoNext == Main \/ (\E w \in Workers : Work(w)) \/ Ended

\* The main thread and the workers are scheduled.
DemoSpec ==
    /\ DemoInit
    /\ [][DemoNext]_demovars
    /\ WF_demovars(Main)
    /\ \A w \in Workers : WF_demovars(Work(w))

-----------------------------------------------------------------------------
\* main.cpp, 2: a retry of a key moves no money, and is answered with the original; 3 and
\* 4: nor does a payment the chain rejects, and its error is that of the first handler that
\* does.  That need not be what the title announces: the payment of stage 3, "Insufficient
\* funds", is over the limit and gets VALIDATION_FAILED.
RejectedMovesNothing ==
    [][main = "script" =>
        LET c == Script[turn]
            earlier == {Script[i] : i \in 1..(turn - 1)}
            originals == {d \in earlier : req[d].key = req[c].key}
        IN  /\ originals # {} => UNCHANGED <<balance, journal, store, log>>
            /\ Run(Chain, req[c]) # "NONE" => UNCHANGED <<balance, journal>>
            /\ \A d \in originals : outcome'[c].tag \in {"none", "ok"}
                                   /\ outcome'[c].value \subseteq outcome[d].value
            /\ pc'[c] = "done" /\ outcome'[c].tag = "err" =>
                  outcome'[c].code = Run(Chain, req[c])]_demovars

\* main.cpp, 5: of the payments that race for the wallet exactly as many succeed as it
\* covers, the rest are refused for want of funds, and what remains is what is not enough
\* for another.
BurstAsTold ==
    LET paid  == {c \in BurstCalls : outcome[c].tag = "ok"}
        spent == SumFunction([c \in paid |-> req[c].amount.minor])
    IN  main = "end" =>
            /\ balance[Wallet].minor = Opening[Wallet].minor - spent
            /\ balance[Wallet].minor >= 0
            /\ \A c \in BurstCalls \ paid :
                  /\ outcome[c].code = "INSUFFICIENT_FUNDS"
                  /\ req[c].amount.minor > balance[Wallet].minor

\* main.cpp, 6: the merchant's part of the ledger has one credit for every payment that
\* was captured, and nothing else, and adds up to the merchant's balance: it is read when
\* all futures are.
AuditIsComplete ==
    main = "end" =>
        /\ \A e \in audit : e.dir = "CREDIT"
        /\ {e.txn : e \in audit} = {t.id : t \in {u \in store : u.status = "CAPTURED"}}
        /\ Cardinality(audit) = Cardinality({e.txn : e \in audit})
        /\ balance[Merchant].minor
              = Opening[Merchant].minor + SumFunction([e \in audit |-> e.amount.minor])

\* The program comes to its end.
DemoEnds == <>(main = "end")
=============================================================================
