------------------------------ MODULE DemoProofs -------------------------------
(***************************************************************************)
(* What the demo prints is so for whatever payments it makes under its     *)
(* assumptions, any number of them, and any number of workers.             *)
(***************************************************************************)
EXTENDS Demo, PaymentOutcomeProofs

-----------------------------------------------------------------------------
\* The inductive invariants.

\* Where main() and the pool stand, and how far the payments they make are.
MainFollows ==
    /\ main \in {"script", "seed", "submit", "get", "leave", "audit", "end"}
    /\ turn \in Nat
    /\ queue \in Seq(BurstCalls)
    /\ running \in [Workers -> BurstCalls \cup {NoCall}]
    /\ req = Asks
    /\ main = "script" =>
          /\ turn \in DOMAIN Script
          /\ \A i \in DOMAIN Script : /\ i < turn => pc[Script[i]] = "done"
                                      /\ i > turn => pc[Script[i]] = "mint"
    /\ main # "script" => \A c \in ScriptCalls : pc[c] = "done"
    /\ IF main \in {"script", "seed"}
       THEN /\ queue = << >> /\ \A w \in Workers : running[w] = NoCall
            /\ \A c \in BurstCalls : pc[c] = "mint"
       ELSE Wallet \in opened
    /\ main \in {"seed", "submit", "get"} => turn \in DOMAIN Burst
    /\ main = "get" => \A i \in DOMAIN Burst : i < turn => pc[Burst[i]] = "done"
    /\ main \in {"leave", "audit", "end"} => \A c \in BurstCalls : pc[c] = "done"
    /\ main = "end" => audit = {journal[i] : i \in EntriesFor(journal, Merchant)}

\* Who is past the chain passed it; main()'s payments fail by the word of the chain, those
\* of the burst for want of funds.
ChecksFollow ==
    /\ \A c \in Calls : pc[c] \in {"find", "authorize", "debit"} \/ Took(c) => Passes(c)
    /\ \A c \in ScriptCalls : error[c] # "NONE" => error[c] = Run(Chain, req[c])
    /\ \A c \in BurstCalls : error[c] # "NONE" =>
          /\ error[c] = "INSUFFICIENT_FUNDS"
          /\ balance[Wallet].minor < req[c].amount.minor

\* What the calls have taken from an account.
Spent(a) ==
    SumFunction([c \in Calls |-> IF req[c].payer = a /\ Took(c)
                                 THEN req[c].amount.minor ELSE 0])
BalancesFollow ==
    \A a \in Accounts \ {Merchant} : balance[a].minor = Opening[a].minor - Spent(a)

\* A call that has its answer, by its own transaction or by that of its key, has this one.
ToldFollow ==
    \A c \in Calls :
        IF pc[c] \in {"release", "done"}
        THEN IF error[c] = "NONE" THEN outcome[c].tag = "ok"
             ELSE outcome[c].tag = "err" /\ outcome[c].code = error[c]
        ELSE outcome[c].value = {}

\* What main() pays a second time does not get past its key.
RetriesFollow ==
    main = "script" =>
        \A i \in DOMAIN Script :
            i < turn /\ req[Script[i]].key = req[Script[turn]].key
            => pc[Script[turn]] \in {"mint", "claim", "replay"}

DemoFollows ==
    /\ Existing \subseteq opened
    /\ \A c \in Calls : pc[c] \notin Compensating
    /\ FundsFollow
    /\ ClaimsFollow
    /\ ChecksFollow
    /\ BalancesFollow
    /\ ToldFollow
    /\ RetriesFollow

-----------------------------------------------------------------------------
\* main() and the pool make payments, and nothing else.

LEMMA CallsFacts ==
    /\ ScriptCalls \subseteq Calls /\ BurstCalls \subseteq Calls
    /\ ScriptCalls \cap BurstCalls = {} /\ Calls = ScriptCalls \cup BurstCalls
    /\ Len(Script) \in Nat /\ DOMAIN Script = 1..Len(Script) /\ 1 \in DOMAIN Script
    /\ Len(Burst) \in Nat /\ DOMAIN Burst = 1..Len(Burst) /\ 1 \in DOMAIN Burst
    /\ \A i \in DOMAIN Script : Script[i] \in ScriptCalls
    /\ \A c \in ScriptCalls : \E i \in DOMAIN Script : Script[i] = c
    /\ \A i, j \in DOMAIN Script : Script[i] = Script[j] => i = j
    /\ \A i \in DOMAIN Burst : Burst[i] \in BurstCalls
    /\ \A c \in BurstCalls : \E i \in DOMAIN Burst : Burst[i] = c
    /\ NoCall \notin Calls
<1>1. /\ Len(Script) \in Nat /\ DOMAIN Script = 1..Len(Script) /\ Len(Script) # 0
      /\ Len(Burst) \in Nat /\ DOMAIN Burst = 1..Len(Burst) /\ Len(Burst) # 0
    BY CallsAssumption
<1>2. 1 \in DOMAIN Script /\ 1 \in DOMAIN Burst
    BY <1>1
<1>3. \A i, j \in DOMAIN Script : Script[i] = Script[j] => i = j
    BY CallsAssumption DEF IsInjective
<1> QED
    BY <1>1, <1>2, <1>3, CallsAssumption, ConstantsAssumption DEF ScriptCalls, BurstCalls, Range

\* A script is finite.
LEMMA CallsAreFinite == IsFiniteSet(Calls)
<1>1. ASSUME NEW s \in Seq(Calls) PROVE IsFiniteSet(Range(s))
    <2>1. /\ IsFiniteSet(1..Len(s)) /\ DOMAIN s = 1..Len(s)
        BY FS_Interval
    <2>2. s \in Surjection(1..Len(s), Range(s))
        BY <2>1 DEF Surjection, Range
    <2> QED
        BY <2>1, <2>2, FS_Surjection
<1>2. IsFiniteSet(ScriptCalls) /\ IsFiniteSet(BurstCalls)
    BY <1>1, CallsAssumption DEF ScriptCalls, BurstCalls
<1> QED
    BY <1>2, CallsAssumption, FS_Union

\* A payment that is made makes no step, and no payment opens accounts.
LEMMA PayRuns ==
    ASSUME NEW c \in Calls, Pay(c)
    PROVE  pc[c] # "done" /\ opened' = opened
BY DEF Pay, MintId, ClaimKey, KeyTaken, Replay, Build, Acquire, Validate, FindAccounts,
   Authorize, Decline, DebitPayer, CreditPayee, SeqOfDebit, SeqOfCredit, PostAccepted,
   PostRejected, RefundPayer, ChargePayee, Capture, CaptureRefused, Save, Publish,
   Release, Step, Failing, shared

\* Whose turn it is to make a step of its payment.
Turn(c) == IF main = "script" THEN c = Script[turn]
                              ELSE main # "seed" /\ c \in BurstCalls

\* What a step of the demo is to the service.
LEMMA DemoSteps ==
    ASSUME MainFollows, [DemoNext]_demovars
    PROVE  \/ \E c \in Calls : Pay(c) /\ Turn(c)
           \/ main = "seed" /\ main' = "submit" /\ OpenAccount(Wallet)
           \/ UNCHANGED vars
<1>1. CASE PayFromScript
    BY <1>1, CallsFacts DEF PayFromScript, MainFollows, Turn
<1>2. ASSUME NEW w \in Workers, PayFromPool(w)
      PROVE  \E c \in Calls : Pay(c) /\ Turn(c)
    BY <1>2, CallsFacts DEF PayFromPool, MainFollows, Turn
<1>3. CASE SeedWallet
    BY <1>3 DEF SeedWallet
<1>4. CASE \/ SubmitPayment \/ GetFuture \/ LeavePool \/ ReadLedger \/ Ended
           \/ UNCHANGED demovars \/ \E w \in Workers : TakePayment(w)
    BY <1>4 DEF SubmitPayment, GetFuture, LeavePool, ReadLedger, Ended, TakePayment, demovars
<1> QED
    BY <1>1, <1>2, <1>3, <1>4 DEF DemoNext, Main, Work

LEMMA InitMain == DemoInit => MainFollows
<1> SUFFICES ASSUME DemoInit PROVE MainFollows
    OBVIOUS
<1>1. /\ main = "script" /\ turn = 1 /\ queue = << >> /\ req = Asks
      /\ running = [w \in Workers |-> NoCall] /\ \A c \in Calls : pc[c] = "mint"
    BY DEF DemoInit, Init
<1>2. queue \in Seq(BurstCalls)
    BY <1>1
<1> QED
    BY <1>1, <1>2, CallsFacts DEF MainFollows

\* A step of a payment is a step of that payment only.
LEMMA PayIsOwn ==
    ASSUME TypeOK, NEW c \in Calls, Pay(c)
    PROVE  /\ pc[c] # "done" /\ opened' = opened /\ req' = req
           /\ \A d \in Calls : d # c => pc'[d] = pc[d]
BY PayRuns, PayMoves, PayKeepsOthers DEF Moves, KeepsOthers

LEMMA ScriptTurns ==
    ASSUME TypeOK, MainFollows, PayFromScript
    PROVE  MainFollows'
<1> DEFINE c == Script[turn]
<1>1. /\ main = "script" /\ Pay(c) /\ c \in Calls /\ c \in ScriptCalls
      /\ turn \in DOMAIN Script /\ turn \in Nat
      /\ UNCHANGED <<queue, running, audit>>
    BY CallsFacts DEF PayFromScript, MainFollows
<1>2. /\ req' = req /\ \A d \in Calls : d # c => pc'[d] = pc[d]
    BY <1>1, PayIsOwn
<1>3. /\ queue' = << >> /\ \A w \in Workers : running'[w] = NoCall
      /\ \A d \in BurstCalls : pc'[d] = "mint"
    BY <1>1, <1>2, CallsFacts DEF MainFollows
<1>4. \A i \in DOMAIN Script : /\ i < turn => pc'[Script[i]] = "done"
                               /\ i > turn => pc'[Script[i]] = "mint"
    BY <1>1, <1>2, CallsFacts DEF MainFollows
<1>5. CASE pc'[c] # "done"
    <2>1. UNCHANGED <<main, turn>>
        BY <1>5 DEF PayFromScript
    <2> QED
        BY <1>1, <1>2, <1>3, <1>4, <2>1 DEF MainFollows
<1>6. CASE pc'[c] = "done" /\ turn < Len(Script)
    <2>1. turn' = turn + 1 /\ main' = "script"
        BY <1>6 DEF PayFromScript, NextTurn
    <2>2. turn' \in DOMAIN Script
        BY <1>1, <1>6, <2>1, CallsFacts
    <2>3. \A i \in DOMAIN Script : /\ i < turn' => i < turn \/ i = turn
                                   /\ i > turn' => i > turn
        BY <1>1, <2>1, CallsFacts
    <2>4. \A i \in DOMAIN Script : /\ i < turn' => pc'[Script[i]] = "done"
                                   /\ i > turn' => pc'[Script[i]] = "mint"
        BY <1>4, <1>6, <2>3
    <2> QED
        BY <1>1, <1>2, <1>3, <2>1, <2>2, <2>4 DEF MainFollows
<1>7. CASE pc'[c] = "done" /\ ~(turn < Len(Script))
    <2>1. turn' = 1 /\ main' = "seed"
        BY <1>7 DEF PayFromScript, NextTurn
    <2>2. \A i \in DOMAIN Script : i < turn \/ i = turn
        BY <1>1, <1>7, CallsFacts
    <2>3. \A d \in ScriptCalls : pc'[d] = "done"
        BY <1>4, <1>7, <2>2, CallsFacts
    <2> QED
        BY <1>1, <1>2, <1>3, <2>1, <2>3, CallsFacts DEF MainFollows
<1> QED
    BY <1>5, <1>6, <1>7

LEMMA PoolTurns ==
    ASSUME TypeOK, MainFollows, NEW w \in Workers, Work(w)
    PROVE  MainFollows'
<1>1. CASE TakePayment(w)
    <2>1. /\ queue # << >> /\ UNCHANGED <<vars, main, turn, audit>>
          /\ running' = [running EXCEPT ![w] = Head(queue)] /\ queue' = Tail(queue)
        BY <1>1 DEF TakePayment
    <2>2. UNCHANGED <<req, pc, opened, journal>>
        BY <2>1 DEF vars, stack, shared
    <2>3. Head(queue) \in BurstCalls /\ Tail(queue) \in Seq(BurstCalls)
        BY <2>1 DEF MainFollows
    <2>4. running' \in [Workers -> BurstCalls \cup {NoCall}]
        BY <2>1, <2>3 DEF MainFollows
    <2> QED
        BY <2>1, <2>2, <2>3, <2>4 DEF MainFollows
<1>2. CASE PayFromPool(w)
    <2> DEFINE c == running[w]
    <2>1. /\ c # NoCall /\ Pay(c) /\ c \in BurstCalls /\ c \in Calls
          /\ UNCHANGED <<main, turn, queue, audit>>
        BY <1>2, CallsFacts DEF PayFromPool, MainFollows
    <2>2. /\ pc[c] # "done" /\ opened' = opened /\ req' = req
          /\ \A d \in Calls : d # c => pc'[d] = pc[d]
        BY <2>1, PayIsOwn
    <2>3. running' \in [Workers -> BurstCalls \cup {NoCall}]
        BY <1>2 DEF PayFromPool, MainFollows
    <2>4. main \in {"submit", "get"}
        <3>1. main \notin {"script", "seed"}
            BY <2>1 DEF MainFollows
        <3>2. main \notin {"leave", "audit", "end"}
            BY <2>1, <2>2 DEF MainFollows
        <3> QED
            BY <3>1, <3>2 DEF MainFollows
    <2>5. \A d \in Calls : pc[d] = "done" => pc'[d] = "done"
        BY <2>2
    <2>6. \A d \in ScriptCalls : pc'[d] = "done"
        BY <2>4, <2>5, CallsFacts DEF MainFollows
    <2>7. main = "get" => \A i \in DOMAIN Burst : i < turn => pc'[Burst[i]] = "done"
        BY <2>5, CallsFacts DEF MainFollows
    <2> QED
        BY <2>1, <2>2, <2>3, <2>4, <2>6, <2>7 DEF MainFollows
<1> QED
    BY <1>1, <1>2 DEF Work

LEMMA MainTurns ==
    ASSUME TypeOK, MainFollows, SeedWallet \/ SubmitPayment \/ GetFuture \/ LeavePool \/ ReadLedger
    PROVE  MainFollows'
<1>1. CASE SeedWallet
    <2>1. /\ main = "seed" /\ main' = "submit" /\ UNCHANGED <<turn, queue, running, audit>>
          /\ opened' = opened \cup {Wallet} /\ UNCHANGED <<req, pc, journal>>
        BY <1>1 DEF SeedWallet, OpenAccount, stack
    <2>2. turn \in DOMAIN Burst
        BY <2>1 DEF MainFollows
    <2> QED
        BY <2>1, <2>2 DEF MainFollows
<1>2. CASE SubmitPayment \/ GetFuture
    <2>1. /\ main \in {"submit", "get"} /\ UNCHANGED <<vars, running, audit>>
          /\ queue' = queue \/ queue' = Append(queue, Burst[turn])
          /\ \/ main = "submit" /\ NextTurn("submit", Burst, "get")
             \/ /\ main = "get" /\ pc[Burst[turn]] = "done"
                /\ NextTurn("get", Burst, "leave")
        BY <1>2 DEF SubmitPayment, GetFuture
    <2>2. turn \in DOMAIN Burst /\ turn \in Nat /\ Burst[turn] \in BurstCalls
        BY <2>1, CallsFacts DEF MainFollows
    <2>3. queue' \in Seq(BurstCalls)
        BY <2>1, <2>2 DEF MainFollows
    <2>4. UNCHANGED <<req, pc, opened, journal>>
        BY <2>1 DEF vars, stack, shared
    <2>5. /\ \A d \in ScriptCalls : pc[d] = "done"
          /\ Wallet \in opened
          /\ main = "get" => \A i \in DOMAIN Burst : i < turn => pc[Burst[i]] = "done"
        BY <2>1 DEF MainFollows
    <2>6. CASE turn < Len(Burst)
        <3>1. turn' = turn + 1 /\ main' = main
            BY <2>1, <2>6 DEF NextTurn
        <3>2. turn' \in DOMAIN Burst
            BY <2>2, <2>6, <3>1, CallsFacts
        <3>3. main = "get" => \A i \in DOMAIN Burst : i < turn' => pc[Burst[i]] = "done"
            <4>1. \A i \in DOMAIN Burst : i < turn' => i < turn \/ i = turn
                BY <2>2, <3>1, CallsFacts
            <4> QED
                BY <2>1, <2>5, <4>1
        <3> QED
            BY <2>1, <2>3, <2>4, <2>5, <3>1, <3>2, <3>3 DEF MainFollows
    <2>7. CASE ~(turn < Len(Burst)) /\ main = "submit"
        <3>1. turn' = 1 /\ main' = "get"
            BY <2>1, <2>7 DEF NextTurn
        <3>2. turn' \in DOMAIN Burst /\ \A i \in DOMAIN Burst : ~(i < turn')
            BY <3>1, CallsFacts
        <3> QED
            BY <2>1, <2>3, <2>4, <2>5, <3>1, <3>2 DEF MainFollows
    <2>8. CASE ~(turn < Len(Burst)) /\ main = "get"
        <3>1. turn' = 1 /\ main' = "leave"
            BY <2>1, <2>8 DEF NextTurn
        <3>2. \A i \in DOMAIN Burst : i < turn \/ i = turn
            BY <2>2, <2>8, CallsFacts
        <3>3. \A d \in BurstCalls : pc[d] = "done"
            BY <2>1, <2>5, <2>8, <3>2, CallsFacts
        <3> QED
            BY <2>1, <2>3, <2>4, <2>5, <3>1, <3>3 DEF MainFollows
    <2> QED
        BY <2>1, <2>6, <2>7, <2>8
<1>3. CASE LeavePool
    <2>1. /\ main = "leave" /\ main' = "audit" /\ UNCHANGED <<turn, queue, running, audit>>
          /\ UNCHANGED <<req, pc, opened, journal>>
        BY <1>3 DEF LeavePool, vars, stack, shared
    <2> QED
        BY <2>1 DEF MainFollows
<1>4. CASE ReadLedger
    <2>1. /\ main = "audit" /\ main' = "end" /\ UNCHANGED <<turn, queue, running>>
          /\ audit' = {journal[i] : i \in EntriesFor(journal, Merchant)}
          /\ UNCHANGED <<req, pc, opened, journal>>
        BY <1>4 DEF ReadLedger, vars, stack, shared
    <2> QED
        BY <2>1 DEF MainFollows
<1> QED
    BY <1>1, <1>2, <1>3, <1>4

LEMMA NextMain == TypeOK /\ MainFollows /\ [DemoNext]_demovars => MainFollows'
<1> SUFFICES ASSUME TypeOK, MainFollows, [DemoNext]_demovars PROVE MainFollows'
    OBVIOUS
<1>1. CASE Ended \/ UNCHANGED demovars
    <2>1. UNCHANGED <<main, turn, queue, running, audit, req, pc, opened, journal>>
        BY <1>1 DEF Ended, demovars, dvars, vars, stack, shared
    <2> QED
        BY <2>1 DEF MainFollows
<1> QED
    BY <1>1, ScriptTurns, PoolTurns, MainTurns DEF DemoNext, Main

\* main.cpp: whatever it and the pool do is a run of the service, so that all that is
\* proved of the service is so in the demo.
THEOREM DemoIsService == DemoSpec => Spec /\ []MainFollows
<1>1. DemoInit => Init /\ MainFollows
    BY InitMain DEF DemoInit
<1>2. MainFollows /\ [DemoNext]_demovars => [Next]_vars
    BY DemoSteps, AsksAssumption DEF Next
<1>3. TypeOK /\ [Next]_vars => TypeOK'
    BY NextTypeOK
<1> QED
    BY <1>1, <1>2, <1>3, InitTypeOK, NextMain, PTL DEF DemoSpec, Spec

-----------------------------------------------------------------------------
\* What main() asks for.

LEMMA Asked ==
    ASSUME TypeOK, MainFollows, NEW c \in Calls
    PROVE  /\ req[c] = Asks[c] /\ req[c].payee = Merchant /\ Merchant \in Accounts
           /\ req[c].payer \in Accounts \ {Merchant}
           /\ req[c].amount \in Money /\ req[c].amount.minor \in Int
           /\ req[c].amount.minor > 0
           /\ CannotThrow(c)
           /\ c \in ScriptCalls =>
                 /\ req[c].payer \in Existing /\ req[c].payer # Wallet
                 /\ \A d \in ScriptCalls \ {c} : req[d].key = req[c].key => Passes(c)
           /\ c \in BurstCalls =>
                 /\ req[c].payer = Wallet /\ Wallet # Merchant /\ Passes(c)
                 /\ \A d \in Calls \ {c} : req[d].key # req[c].key
           /\ Existing \subseteq opened /\ (c \in BurstCalls => Wallet \in opened) => Payable(c)
<1>1. req = Asks /\ req[c] \in PaymentRequest
    BY ConstantsAssumption DEF MainFollows, TypeOK
<1>2. /\ req[c].payee = Merchant /\ req[c].payer # Merchant /\ IsPositive(req[c].amount)
      /\ SameCcy(req[c].amount, Opening[Merchant])
      /\ Merchant \in Existing /\ Wallet \in Accounts \ Existing
      /\ Existing \subseteq Accounts /\ NoId \notin Accounts
    BY <1>1, AsksAssumption, ConstantsAssumption
<1>3. req[c].amount \in Money /\ req[c].amount.minor \in Int /\ req[c].amount.minor > 0
    BY <1>1, <1>2 DEF PaymentRequest, Money, IsPositive
<1>4. c \in ScriptCalls =>
          /\ req[c].payer \in Existing /\ req[c].payer # Wallet
          /\ Run(Chain, req[c]) # Thrown
          /\ \A d \in ScriptCalls \ {c} : req[d].key = req[c].key => Passes(c)
    BY <1>1, <1>2, AsksAssumption
<1>5. c \in BurstCalls =>
          /\ req[c].payer = Wallet /\ Wallet # Merchant /\ Passes(c)
          /\ Run(Chain, req[c]) # Thrown
          /\ \A d \in Calls \ {c} : req[d].key # req[c].key
    BY <1>1, <1>2, AsksAssumption DEF Passes, Thrown
<1>6. c \in ScriptCalls \/ c \in BurstCalls
    BY CallsFacts
<1>7. SameCcy(req[c].amount, Opening[req[c].payer])
    <2>1. req[c].payer \in Accounts
        BY <1>2, <1>4, <1>5, <1>6
    <2>2. SameCcy(Opening[req[c].payer], Opening[Merchant])
        BY <2>1, AsksAssumption
    <2> QED
        BY <1>2, <2>2 DEF SameCcy
<1>8. Strategy(c) = Approves
    BY <1>1, AsksAssumption DEF Strategy, PaymentRequest
<1>9. CannotThrow(c)
    BY <1>2, <1>4, <1>5, <1>6 DEF CannotThrow
<1>10. Existing \subseteq opened /\ (c \in BurstCalls => Wallet \in opened) => Payable(c)
    BY <1>2, <1>3, <1>4, <1>5, <1>6, <1>7, <1>8 DEF Payable
<1> QED
    BY <1>1, <1>2, <1>3, <1>4, <1>5, <1>6, <1>9, <1>10

\* Where a payment is made nothing but the chain and funds stand in its way.
LEMMA TurnIsPayable ==
    ASSUME TypeOK, MainFollows, Existing \subseteq opened, NEW c \in Calls, Turn(c)
    PROVE  Payable(c)
<1>1. c \in BurstCalls => Wallet \in opened
    BY CallsFacts DEF MainFollows, Turn
<1> QED
    BY <1>1, Asked

\* What one call takes is what is spent.
LEMMA SpentStep ==
    ASSUME TypeOK, MainFollows, NEW c \in Calls, NEW a, req' = req,
           \A d \in Calls \ {c} : Took(d)' <=> Took(d)
    PROVE  /\ Spent(a) \in Int
           /\ req[c].payer = a /\ ~Took(c) /\ Took(c)'
                => Spent(a)' = Spent(a) + req[c].amount.minor
           /\ req[c].payer # a \/ (Took(c) <=> Took(c)') => Spent(a)' = Spent(a)
<1> DEFINE f == [d \in Calls |-> IF req[d].payer = a /\ Took(d)
                                 THEN req[d].amount.minor ELSE 0]
           g == [d \in Calls |-> IF req[d].payer = a /\ Took(d)'
                                 THEN req[d].amount.minor ELSE 0]
<1>1. f \in [Calls -> Int] /\ g \in [Calls -> Int]
    <2>1. \A d \in Calls : req[d].amount.minor \in Int
        BY Asked
    <2> QED
        BY <2>1
<1>2. \A d \in Calls \ {c} : g[d] = f[d]
    OBVIOUS
<1>3. /\ req[c].payer = a /\ ~Took(c) /\ Took(c)' => f[c] = 0 /\ g[c] = req[c].amount.minor
      /\ req[c].payer # a \/ (Took(c) <=> Took(c)') => g[c] = f[c]
    OBVIOUS
<1>4. Spent(a) = SumFunction(f) /\ Spent(a)' = SumFunction(g)
    BY DEF Spent
<1> HIDE DEF f, g
<1>5. SumFunction(g) = SumFunction(f) + g[c] - f[c]
    BY <1>1, <1>2, CallsAreFinite, SumChanges
<1>6. SumFunction(f) \in Int /\ f[c] \in Int /\ g[c] \in Int
    BY <1>1, CallsAreFinite, SumFacts, ZenonT(30)
<1> QED
    BY <1>3, <1>4, <1>5, <1>6

\* The wallets main() pays from one after another can afford it.
LEMMA ScriptAffords ==
    ASSUME TypeOK, MainFollows, ChecksFollow, BalancesFollow,
           NEW c \in ScriptCalls, pc[c] = "debit", ~Took(c)
    PROVE  req[c].amount.minor <= balance[req[c].payer].minor
<1> DEFINE a == req[c].payer
           m == req[c].amount.minor
           f == [d \in Calls |-> IF req[d].payer = a /\ Took(d)
                                 THEN req[d].amount.minor ELSE 0]
           g == [f EXCEPT ![c] = m]
           h == [d \in Calls |-> IF Asks[d].payer = a /\ Passes(d)
                                 THEN Asks[d].amount.minor ELSE 0]
<1>1. /\ c \in Calls /\ a \in Existing /\ a \in Accounts \ {Merchant} /\ m \in Int
    BY CallsFacts, Asked
<1>2. \A d \in Calls : /\ req[d] = Asks[d] /\ req[d].amount.minor \in Int
                       /\ req[d].amount.minor > 0
    BY Asked
<1>3. f \in [Calls -> Int] /\ g \in [Calls -> Int] /\ h \in [Calls -> Int]
    BY <1>1, <1>2
<1>4. f[c] = 0 /\ g[c] = m /\ \A d \in Calls \ {c} : g[d] = f[d]
    BY <1>1, <1>3
<1>5. ASSUME NEW d \in Calls PROVE g[d] <= h[d]
    <2>1. CASE d = c
        BY <1>1, <1>2, <2>1 DEF ChecksFollow
    <2>2. CASE d # c
        BY <1>2, <2>2 DEF ChecksFollow
    <2> QED
        BY <2>1, <2>2
<1>6. Spent(a) = SumFunction(f) /\ Planned(a) = SumFunction(h)
    BY DEF Spent, Planned
<1> HIDE DEF f, g, h
<1>7. SumFunction(g) = SumFunction(f) + g[c] - f[c]
    BY <1>1, <1>3, <1>4, CallsAreFinite, SumChanges
<1>8. SumFunction(g) <= SumFunction(h)
    BY <1>3, <1>5, CallsAreFinite, SumGrows
<1>9. SumFunction(f) \in Int /\ SumFunction(h) \in Int
    BY <1>3, CallsAreFinite, SumFacts, ZenonT(30)
<1>10. Planned(a) <= Opening[a].minor /\ Opening[a].minor \in Int
    BY <1>1, AsksAssumption, ConstantsAssumption DEF Money
<1>11. balance[a].minor = Opening[a].minor - Spent(a)
    BY <1>1 DEF BalancesFollow
<1> HIDE DEF a, m
<1>12. m <= balance[a].minor
    BY <1>1, <1>4, <1>6, <1>7, <1>8, <1>9, <1>10, <1>11
<1> QED
    BY <1>12 DEF a, m

\* A payment does not touch a third account.
LEMMA OthersUntouched ==
    ASSUME TypeOK, NEW c \in Calls, Pay(c), NEW a \in Accounts \ {req[c].payer, req[c].payee}
    PROVE  balance'[a] = balance[a]
<1>1. CASE DebitPayer(c) \/ CreditPayee(c) \/ RefundPayer(c) \/ ChargePayee(c)
    BY <1>1 DEF DebitPayer, CreditPayee, RefundPayer, ChargePayee, TypeOK
<1> QED
    BY <1>1, PayMoves DEF Moves

-----------------------------------------------------------------------------
\* Steps of the payment whose turn it is.

\* Only a payment of the burst is refused funds, and only one of the script fails a check.
LEMMA TurnStep ==
    ASSUME TypeOK, Bookkeeping, MainFollows, DemoFollows, NEW c \in Calls, Turn(c), Pay(c)
    PROVE  LET p      == req[c].payer
               left   == balance[p].minor
               amount == req[c].amount.minor
           IN  \/ /\ ~Took(c) /\ Took(c)' /\ pc[c] = "debit"
                  /\ balance'[p].minor = left - amount
                  /\ error'[c] = error[c]
               \/ /\ ~Took(c) /\ ~Took(c)' /\ balance'[p] = balance[p]
                  /\ c \in BurstCalls /\ left < amount
                  /\ error'[c] = "INSUFFICIENT_FUNDS"
               \/ /\ (Took(c) <=> Took(c)') /\ balance'[p] = balance[p]
                  /\ \/ error'[c] = error[c]
                     \/ c \in ScriptCalls /\ error'[c] = Run(Chain, req[c])
<1> DEFINE p      == req[c].payer
           left   == balance[p].minor
           amount == req[c].amount.minor
<1>1. Payable(c)
    BY TurnIsPayable DEF DemoFollows
<1>2. \/ /\ pc[c] = "debit" /\ ~Took(c) /\ Took(c)'
         /\ balance'[p].minor = left - amount /\ amount <= left
         /\ UNCHANGED <<status, error>>
      \/ /\ pc[c] = "debit" /\ ~Took(c) /\ ~Took(c)'
         /\ balance'[p] = balance[p] /\ left < amount
         /\ error'[c] = "INSUFFICIENT_FUNDS"
      \/ /\ (Took(c) <=> Took(c)') /\ balance'[p] = balance[p]
         /\ \/ /\ error'[c] = error[c]
               /\ status'[c] = "FAILED" => status[c] = "FAILED"
            \/ /\ pc[c] = "validate" /\ Run(Chain, req[c]) # "NONE"
               /\ error'[c] = Run(Chain, req[c])
    <2>1. /\ ~LedgerFaults /\ FundsFollow
          /\ \A d \in Calls : pc[d] \notin Compensating
        BY AsksAssumption DEF DemoFollows
    <2> QED
        BY <1>1, <2>1, PayerStep
<1>3. c \in ScriptCalls \/ (c \in BurstCalls /\ Run(Chain, req[c]) = "NONE")
    BY Asked, CallsFacts DEF Passes
<1>4. c \in ScriptCalls /\ pc[c] = "debit" /\ ~Took(c) => ~(left < amount)
    <2>1. left \in Int /\ amount \in Int
        BY Asked DEF TypeOK, Money
    <2>2. c \in ScriptCalls /\ pc[c] = "debit" /\ ~Took(c) => amount <= left
        BY ScriptAffords DEF DemoFollows
    <2> HIDE DEF left, amount
    <2> QED
        BY <2>1, <2>2
<1> QED
    BY <1>2, <1>3, <1>4

\* A wallet the burst spends from is paid nothing.
LEMMA WalletStep ==
    ASSUME TypeOK, Bookkeeping, MainFollows, DemoFollows, NEW c \in Calls, Turn(c), Pay(c)
    PROVE  \A m \in Int : balance[Wallet].minor < m => balance'[Wallet].minor < m
<1>1. /\ Wallet \in Accounts /\ balance[Wallet].minor \in Int
      /\ req[c].payee = Merchant /\ req[c].amount.minor \in Int /\ req[c].amount.minor > 0
    BY Asked, AsksAssumption DEF TypeOK, Money
<1>2. CASE req[c].payer = Wallet
    <2>1. \/ balance'[Wallet] = balance[Wallet]
          \/ balance'[Wallet].minor = balance[Wallet].minor - req[c].amount.minor
        BY <1>2, TurnStep
    <2> QED
        BY <1>1, <2>1
<1>3. CASE req[c].payer # Wallet
    BY <1>1, <1>3, OthersUntouched, AsksAssumption
<1> QED
    BY <1>2, <1>3

LEMMA ChecksStep ==
    ASSUME TypeOK, Bookkeeping, MainFollows, DemoFollows, NEW c \in Calls, Turn(c), Pay(c)
    PROVE  ChecksFollow'
<1> Moves(c) /\ KeepsOthers(c)
    BY PayMoves, PayKeepsOthers
<1>1. /\ req' = req /\ \A d \in Calls : req[d] = Asks[d] /\ req[d].amount.minor \in Int
      /\ \A d \in Calls \ {c} : (Took(d)' <=> Took(d)) /\ pc'[d] = pc[d] /\ error'[d] = error[d]
    BY Asked DEF Moves, KeepsOthers, Took
<1>2. ASSUME NEW d \in Calls, pc'[d] \in {"find", "authorize", "debit"} \/ Took(d)'
      PROVE  Passes(d)
    <2>1. CASE d # c
        BY <1>1, <1>2, <2>1 DEF DemoFollows, ChecksFollow
    <2>2. CASE d = c /\ pc'[d] \in {"find", "authorize", "debit"}
        <3>1. \/ pc[c] \in {"find", "authorize", "debit"}
              \/ Validate(c) /\ pc'[c] = "find"
            BY <2>2 DEF Pay, MintId, ClaimKey, KeyTaken, Replay, Build, Acquire, Validate,
               FindAccounts, Authorize, Decline, DebitPayer, CreditPayee, SeqOfDebit,
               SeqOfCredit, PostAccepted, PostRejected, RefundPayer, ChargePayee, Capture,
               CaptureRefused, Save, Publish, Release, Step, Failing, TypeOK
        <3>2. Validate(c) /\ pc'[c] = "find" => Run(Chain, req[c]) = "NONE"
            BY DEF Validate, Step, Failing, TypeOK
        <3> QED
            BY <1>1, <2>2, <3>1, <3>2 DEF Passes, DemoFollows, ChecksFollow
    <2>3. CASE d = c /\ Took(d)'
        BY <2>3, TurnStep DEF DemoFollows, ChecksFollow
    <2> QED
        BY <1>2, <2>1, <2>2, <2>3
<1>3. ASSUME NEW d \in ScriptCalls, error'[d] # "NONE" PROVE error'[d] = Run(Chain, req[d])
    <2>1. d \in Calls /\ d \notin BurstCalls
        BY CallsFacts
    <2>2. error'[d] = error[d] \/ error'[d] = Run(Chain, req[d])
        BY <1>1, <2>1, TurnStep
    <2> QED
        BY <1>3, <2>2 DEF DemoFollows, ChecksFollow
<1>4. ASSUME NEW d \in BurstCalls, error'[d] # "NONE"
      PROVE  error'[d] = "INSUFFICIENT_FUNDS" /\ balance'[Wallet].minor < req[d].amount.minor
    <2>1. d \in Calls /\ d \notin ScriptCalls /\ req[d].payer = Wallet
        BY CallsFacts, Asked
    <2>2. CASE error'[d] = error[d]
        <3>1. error[d] = "INSUFFICIENT_FUNDS" /\ balance[Wallet].minor < req[d].amount.minor
            BY <1>4, <2>2 DEF DemoFollows, ChecksFollow
        <3> QED
            BY <1>1, <2>1, <2>2, <3>1, WalletStep
    <2>3. CASE error'[d] # error[d]
        <3>1. d = c
            BY <1>1, <2>1, <2>3
        <3> QED
            BY <2>1, <2>3, <3>1, TurnStep
    <2> QED
        BY <2>2, <2>3
<1> QED
    BY <1>1, <1>2, <1>3, <1>4 DEF ChecksFollow

LEMMA BalancesStep ==
    ASSUME TypeOK, Bookkeeping, MainFollows, DemoFollows, NEW c \in Calls, Turn(c), Pay(c)
    PROVE  BalancesFollow'
<1> Moves(c) /\ KeepsOthers(c)
    BY PayMoves, PayKeepsOthers
<1>1. /\ req' = req
      /\ \A d \in Calls \ {c} : Took(d)' <=> Took(d)
    BY DEF Moves, KeepsOthers, Took
<1>2. SUFFICES ASSUME NEW a \in Accounts \ {Merchant}
               PROVE  balance'[a].minor = Opening[a].minor - Spent(a)'
    BY DEF BalancesFollow
<1>3. /\ balance[a].minor = Opening[a].minor - Spent(a)
      /\ balance[a].minor \in Int /\ Opening[a].minor \in Int
    BY ConstantsAssumption DEF DemoFollows, BalancesFollow, TypeOK, Money
<1>4. /\ Spent(a) \in Int
      /\ req[c].payer = a /\ ~Took(c) /\ Took(c)' => Spent(a)' = Spent(a) + req[c].amount.minor
      /\ req[c].payer # a \/ (Took(c) <=> Took(c)') => Spent(a)' = Spent(a)
    BY <1>1, SpentStep
<1>5. req[c].payee = Merchant /\ req[c].amount.minor \in Int
    BY Asked
<1>6. CASE req[c].payer # a
    BY <1>3, <1>4, <1>5, <1>6, OthersUntouched
<1>7. CASE req[c].payer = a
    <2>1. \/ /\ ~Took(c) /\ Took(c)'
             /\ balance'[a].minor = balance[a].minor - req[c].amount.minor
          \/ (Took(c) <=> Took(c)') /\ balance'[a] = balance[a]
        BY <1>7, TurnStep
    <2>2. CASE ~Took(c) /\ Took(c)' /\ balance'[a].minor = balance[a].minor - req[c].amount.minor
        <3>1. Spent(a)' = Spent(a) + req[c].amount.minor
            BY <1>4, <1>7, <2>2
        <3> QED
            BY <1>3, <1>4, <1>5, <2>2, <3>1
    <2>3. CASE (Took(c) <=> Took(c)') /\ balance'[a] = balance[a]
        BY <1>3, <1>4, <2>3
    <2> QED
        BY <2>1, <2>2, <2>3
<1> QED
    BY <1>6, <1>7

\* Who finds its key taken finds the transaction of a call of main() that has returned.
LEMMA ReplayFinds ==
    ASSUME TypeOK, Ownership, Bookkeeping, MainFollows, DemoFollows,
           NEW c \in Calls, Turn(c), pc[c] = "replay"
    PROVE  Find(claimed[req[c].key]) # {}
<1>1. claimed[req[c].key] # 0 /\ req[c].key \in Keys
    BY ConstantsAssumption DEF Bookkeeping, AnswerFollows, TypeOK, PaymentRequest
<1>2. PICK d \in Calls : txnId[d] = claimed[req[c].key] /\ req[d].key = req[c].key
    BY <1>1 DEF Bookkeeping, ClaimedByItsCaller
<1>3. d # c
    BY <1>1, <1>2 DEF DemoFollows, ClaimsFollow, ClaimsAreOthers
<1>4. c \in ScriptCalls /\ d \in ScriptCalls
    BY <1>2, <1>3, Asked, CallsFacts
<1>5. main = "script" /\ c = Script[turn] /\ turn \in DOMAIN Script
    BY <1>4, CallsFacts DEF MainFollows, Turn
<1>6. PICK i \in DOMAIN Script : Script[i] = d
    BY <1>4, CallsFacts
<1>7. pc[d] # "mint"
    BY <1>1, <1>2 DEF Ownership, Reservations, IdsAreFresh
<1>8. pc[d] = "done"
    <2>1. i < turn \/ i > turn
        BY <1>3, <1>5, <1>6, CallsFacts
    <2> QED
        BY <1>5, <1>6, <1>7, <2>1 DEF MainFollows
<1>9. CannotThrow(d) /\ ClaimsFollow
    BY Asked DEF DemoFollows
<1>10. Find(txnId[d]) = {TransactionOf(d)}
    BY <1>2, <1>8, <1>9, ClaimantIsServed
<1> QED
    BY <1>2, <1>10

LEMMA ToldStep ==
    ASSUME TypeOK, Ownership, Bookkeeping, MainFollows, DemoFollows,
           NEW c \in Calls, Turn(c), Pay(c)
    PROVE  ToldFollow'
<1> USE DEF ToldFollow
<1>1. ToldFollow
    BY DEF DemoFollows
<1>2. ASSUME NEW d \in Calls, d # c
      PROVE  pc'[d] = pc[d] /\ error'[d] = error[d] /\ outcome'[d] = outcome[d]
    BY <1>2, PayKeepsOthers DEF KeepsOthers
<1>3. CannotThrow(c)
    BY Asked
<1> USE DEF TypeOK, Step, Return, Failing, stack, shared
<1>4. CASE Replay(c)
    <2>1. pc[c] = "replay" /\ pc'[c] = "done" /\ error' = error
        BY <1>4 DEF Replay
    <2>2. error[c] = "NONE"
        BY <2>1 DEF Bookkeeping, StatusFollows, Unapproved
    <2>3. Find(claimed[req[c].key]) # {}
        BY <2>1, ReplayFinds
    <2>4. Return(c, "ok", "NONE", Find(claimed[req[c].key]))
        BY <1>4, <2>3, Zenon DEF Replay
    <2>5. outcome'[c].tag = "ok"
        BY <2>4
    <2> QED
        BY <1>1, <1>2, <2>1, <2>2, <2>5
<1>5. CASE Build(c) \/ Validate(c)
    <2>1. /\ pc[c] \notin {"release", "done"} /\ pc'[c] \notin {"release", "done"}
          /\ outcome' = outcome
        BY <1>3, <1>5 DEF Build, Validate, CannotThrow
    <2> QED
        BY <1>1, <1>2, <2>1
<1>6. CASE Publish(c)
    <2>1. pc'[c] = "release" /\ error' = error
        BY <1>6 DEF Publish
    <2>2. IF error[c] = "NONE" THEN Return(c, "ok", "NONE", {TransactionOf(c)})
                               ELSE Return(c, "err", error[c], {})
        BY <1>6, Zenon DEF Publish
    <2>3. IF error[c] = "NONE" THEN outcome'[c].tag = "ok"
                               ELSE outcome'[c].tag = "err" /\ outcome'[c].code = error[c]
        BY <2>2
    <2> QED
        BY <1>1, <1>2, <2>1, <2>3
<1>7. CASE Release(c)
    <2>1. /\ pc[c] \in {"release", "done"} /\ pc'[c] \in {"release", "done"}
          /\ UNCHANGED <<error, outcome>>
        BY <1>7 DEF Release
    <2> QED
        BY <1>1, <1>2, <2>1
<1>8. CASE ~(Replay(c) \/ Build(c) \/ Validate(c) \/ Publish(c) \/ Release(c))
    <2>1. /\ pc[c] \notin {"release", "done"} /\ pc'[c] \notin {"release", "done"}
          /\ outcome' = outcome
        BY <1>8 DEF Pay, MintId, ClaimKey, KeyTaken, Acquire, FindAccounts, Authorize,
           Decline, DebitPayer, CreditPayee, SeqOfDebit, SeqOfCredit, PostAccepted,
           PostRejected, RefundPayer, ChargePayee, Capture, CaptureRefused, Save
    <2> QED
        BY <1>1, <1>2, <2>1
<1> QED
    BY <1>4, <1>5, <1>6, <1>7, <1>8

\* A retry is at the head of pay() or replays.
LEMMA RetryStep ==
    ASSUME TypeOK, Bookkeeping, MainFollows, DemoFollows, main = "script",
           NEW c \in Calls, c = Script[turn], Pay(c),
           NEW i \in DOMAIN Script, i < turn, req[Script[i]].key = req[c].key
    PROVE  MintId(c) \/ KeyTaken(c) \/ Replay(c)
<1>1. pc[c] \in {"mint", "claim", "replay"}
    BY DEF DemoFollows, RetriesFollow
<1>2. Script[i] \in Calls /\ pc[Script[i]] = "done"
    BY CallsFacts DEF MainFollows
<1>3. claimed[req[c].key] # 0
    BY <1>2 DEF DemoFollows, ClaimsFollow
<1> QED
    BY <1>1, <1>3 DEF Pay, ClaimKey, Build, Acquire, Validate, FindAccounts, Authorize,
       Decline, DebitPayer, CreditPayee, SeqOfDebit, SeqOfCredit, PostAccepted,
       PostRejected, RefundPayer, ChargePayee, Capture, CaptureRefused, Save, Publish,
       Release, Step, Failing

LEMMA RetriesStep ==
    ASSUME TypeOK, Bookkeeping, MainFollows, DemoFollows, PayFromScript
    PROVE  RetriesFollow'
<1> DEFINE c == Script[turn]
<1>1. /\ main = "script" /\ Pay(c) /\ c \in Calls /\ turn \in DOMAIN Script
    BY CallsFacts DEF PayFromScript, MainFollows
<1>2. req' = req /\ \A d \in Calls : d # c => pc'[d] = pc[d]
    BY <1>1, PayIsOwn
<1>3. CASE pc'[c] # "done"
    <2>1. turn' = turn
        BY <1>3 DEF PayFromScript
    <2>2. ASSUME NEW i \in DOMAIN Script, i < turn, req[Script[i]].key = req[c].key
          PROVE  pc'[c] \in {"mint", "claim", "replay"}
        <3>1. MintId(c) \/ KeyTaken(c) \/ Replay(c)
            BY <1>1, <2>2, RetryStep
        <3> QED
            BY <1>1, <1>3, <3>1 DEF MintId, KeyTaken, Replay, Step, TypeOK
    <2> QED
        BY <1>2, <2>1, <2>2 DEF RetriesFollow
<1>4. CASE pc'[c] = "done" /\ turn < Len(Script)
    <2>1. turn' = turn + 1
        BY <1>4 DEF PayFromScript, NextTurn
    <2>2. turn' \in DOMAIN Script /\ turn' > turn
        BY <1>1, <1>4, <2>1, CallsFacts
    <2>3. pc[Script[turn']] = "mint" /\ Script[turn'] # c /\ Script[turn'] \in Calls
        BY <1>1, <2>2, CallsFacts DEF MainFollows
    <2> QED
        BY <1>2, <2>3 DEF RetriesFollow
<1>5. CASE pc'[c] = "done" /\ ~(turn < Len(Script))
    <2>1. main' = "seed"
        BY <1>5 DEF PayFromScript, NextTurn
    <2> QED
        BY <2>1 DEF RetriesFollow
<1> QED
    BY <1>3, <1>4, <1>5

\* Until its script is through main() is alone.
LEMMA ScriptSteps ==
    ASSUME MainFollows, [DemoNext]_demovars
    PROVE  /\ main = "script" => PayFromScript \/ UNCHANGED demovars
           /\ main # "script" => main' # "script"
<1>1. CASE main = "script"
    BY <1>1 DEF MainFollows, DemoNext, Main, Work, SeedWallet, SubmitPayment, GetFuture,
       LeavePool, ReadLedger, TakePayment, PayFromPool, Ended
<1>2. CASE main # "script"
    BY <1>2 DEF DemoNext, Main, Work, PayFromScript, SeedWallet, SubmitPayment, GetFuture,
       LeavePool, ReadLedger, TakePayment, PayFromPool, Ended, NextTurn, demovars, dvars
<1> QED
    BY <1>1, <1>2

LEMMA InitDemo == DemoInit => DemoFollows
<1> SUFFICES ASSUME DemoInit PROVE DemoFollows
    OBVIOUS
<1>1. /\ Init /\ main = "script" /\ turn = 1 /\ balance = Opening /\ opened = Existing
      /\ claimed = [k \in Keys |-> 0]
      /\ \A c \in Calls : /\ pc[c] = "mint" /\ status[c] = "INITIATED" /\ error[c] = "NONE"
                          /\ outcome[c].value = {} /\ ~Took(c)
    BY DEF DemoInit, Init, Took
<1>2. ASSUME NEW a \in Accounts PROVE balance[a].minor = Opening[a].minor - Spent(a)
    <2> DEFINE f == [c \in Calls |-> IF req[c].payer = a /\ Took(c)
                                     THEN req[c].amount.minor ELSE 0]
    <2>1. f \in [Calls -> {0}]
        BY <1>1
    <2>2. Spent(a) = SumFunction(f)
        BY DEF Spent
    <2> HIDE DEF f
    <2>3. Spent(a) = 0
        BY <2>1, <2>2, CallsAreFinite, SumOfZeros
    <2>4. Opening[a].minor \in Int
        BY ConstantsAssumption DEF Money
    <2> QED
        BY <1>1, <2>3, <2>4
<1>3. \A i \in DOMAIN Script : ~(i < turn)
    BY <1>1, CallsFacts
<1>4. FundsFollow
    BY <1>1, InitFunds
<1>5. ClaimsFollow
    BY <1>1 DEF ClaimsFollow, ClaimsAreOthers
<1>6. ChecksFollow
    BY <1>1, CallsFacts DEF ChecksFollow
<1> QED
    BY <1>1, <1>2, <1>3, <1>4, <1>5, <1>6
    DEF DemoFollows, BalancesFollow, ToldFollow, RetriesFollow, Compensating

LEMMA NextDemo ==
    ASSUME TypeOK, Ownership, Bookkeeping, MainFollows, DemoFollows, [DemoNext]_demovars
    PROVE  DemoFollows'
<1>1. RetriesFollow'
    <2>1. CASE UNCHANGED demovars
        BY <2>1 DEF DemoFollows, RetriesFollow, demovars, dvars, vars, stack
    <2>2. CASE ~UNCHANGED demovars
        BY <2>2, ScriptSteps, RetriesStep DEF RetriesFollow
    <2> QED
        BY <2>1, <2>2
<1>2. ASSUME NEW c \in Calls, Pay(c), Turn(c) PROVE DemoFollows'
    <2>1. FundsFollow' /\ ClaimsFollow'
        BY <1>2, FundsStep, ClaimsFollowStep DEF DemoFollows
    <2>2. \A d \in Calls : pc'[d] \notin Compensating
        BY <1>2, NoCompensation, AsksAssumption DEF DemoFollows
    <2>3. opened' = opened
        BY <1>2, PayRuns
    <2>4. ChecksFollow' /\ BalancesFollow' /\ ToldFollow'
        BY <1>2, ChecksStep, BalancesStep, ToldStep
    <2> QED
        BY <1>1, <2>1, <2>2, <2>3, <2>4 DEF DemoFollows
<1>3. CASE OpenAccount(Wallet) \/ UNCHANGED vars
    <2>1. /\ UNCHANGED <<req, pc, txnId, status, error, outcome, claimed, balance>>
          /\ opened \subseteq opened'
        BY <1>3 DEF OpenAccount, vars, stack, shared
    <2>2. FundsFollow' /\ ClaimsFollow'
        BY <2>1 DEF DemoFollows, FundsFollow, ClaimsFollow, ClaimsAreOthers, CannotThrow
    <2>3. ChecksFollow' /\ ToldFollow'
        BY <2>1 DEF DemoFollows, ChecksFollow, ToldFollow, Took
    <2>4. \A a : Spent(a)' = Spent(a)
        BY <2>1 DEF Spent, Took
    <2>5. BalancesFollow'
        BY <2>1, <2>4 DEF DemoFollows, BalancesFollow
    <2> QED
        BY <1>1, <2>1, <2>2, <2>3, <2>5 DEF DemoFollows
<1> QED
    BY <1>2, <1>3, DemoSteps

\* What the demo's payments have come to at any moment.
THEOREM DemoFollowsHolds == DemoSpec => []DemoFollows
<1>1. DemoInit => DemoFollows
    BY InitDemo
<1>2. TypeOK /\ Ownership /\ Bookkeeping /\ MainFollows /\ DemoFollows /\ [DemoNext]_demovars
        => DemoFollows'
    BY NextDemo
<1> QED
    BY <1>1, <1>2, DemoIsService, TypeCorrect, OwnershipHolds, BookkeepingHolds, PTL DEF DemoSpec

-----------------------------------------------------------------------------
\* What main() prints.

\* A retry moves nothing and is answered as the original was.
LEMMA RetryIsAnswered ==
    ASSUME TypeOK, Ownership, Bookkeeping, Settlement, MainFollows, DemoFollows,
           main = "script", NEW c \in Calls, c = Script[turn], Pay(c),
           NEW i \in DOMAIN Script, i < turn, req[Script[i]].key = req[c].key
    PROVE  /\ UNCHANGED <<balance, journal, store, log>>
           /\ outcome'[c].tag \in {"none", "ok"}
           /\ outcome'[c].value \subseteq outcome[Script[i]].value
<1> DEFINE d == Script[i]
<1>1. MintId(c) \/ KeyTaken(c) \/ Replay(c)
    BY RetryStep
<1>2. UNCHANGED <<balance, journal, store, log>>
    BY <1>1 DEF MintId, KeyTaken, Replay, shared
<1>3. CASE MintId(c) \/ KeyTaken(c)
    <2>1. outcome' = outcome /\ pc[c] \notin {"release", "done"}
        BY <1>3 DEF MintId, KeyTaken, Step, stack
    <2>2. outcome[c].tag = "none" /\ outcome[c].value = {}
        BY <2>1 DEF Bookkeeping, AnswerFollows, DemoFollows, ToldFollow
    <2> QED
        BY <1>2, <2>1, <2>2
<1>4. CASE Replay(c)
    <2>1. /\ turn \in DOMAIN Script /\ c \in ScriptCalls /\ d \in ScriptCalls
          /\ d \in Calls /\ d # c /\ pc[d] = "done"
        BY CallsFacts DEF MainFollows
    <2>2. Passes(d) /\ req[d] = Asks[d]
        BY <2>1, Asked
    <2>3. error[d] = "NONE"
        BY <2>1, <2>2 DEF DemoFollows, ChecksFollow, Passes
    <2>4. outcome[d].tag = "ok"
        BY <2>1, <2>3 DEF DemoFollows, ToldFollow
    <2>5. outcome[d].value = Find(claimed[req[c].key])
        BY <2>1, <2>4 DEF Settlement, AnswersFollow
    <2>6. Find(claimed[req[c].key]) # {}
        <3>1. pc[c] = "replay" /\ Turn(c)
            BY <1>4 DEF Replay, Step, Turn
        <3> QED
            BY <3>1, ReplayFinds
    <2>7. Return(c, "ok", "NONE", Find(claimed[req[c].key]))
        BY <1>4, <2>6, Zenon DEF Replay
    <2>8. outcome'[c].tag = "ok" /\ outcome'[c].value = Find(claimed[req[c].key])
        BY <2>7 DEF Return, TypeOK
    <2> QED
        BY <1>2, <2>5, <2>8
<1> QED
    BY <1>1, <1>3, <1>4

\* A payment the chain rejects comes to no step that moves money.
LEMMA RejectedMoves ==
    ASSUME DemoFollows, NEW c \in Calls, Pay(c), ~Passes(c)
    PROVE  UNCHANGED <<balance, journal>>
<1>1. pc[c] \notin {"debit", "credit", "seqDebit", "seqCredit", "post", "refundPayer",
                    "chargePayee"}
    BY DEF DemoFollows, ChecksFollow, Took, Compensating
<1>2. /\ ~DebitPayer(c) /\ ~CreditPayee(c) /\ ~PostAccepted(c)
      /\ ~RefundPayer(c) /\ ~ChargePayee(c)
    BY <1>1 DEF DebitPayer, CreditPayee, PostAccepted, RefundPayer, ChargePayee, Step, Failing
<1>3. CASE MintId(c) \/ ClaimKey(c) \/ KeyTaken(c) \/ Replay(c) \/ Build(c) \/ Acquire(c)
    BY <1>3 DEF MintId, ClaimKey, KeyTaken, Replay, Build, Acquire, shared
<1>4. CASE Validate(c) \/ FindAccounts(c) \/ Authorize(c) \/ Decline(c)
    BY <1>4 DEF Validate, FindAccounts, Authorize, Decline, shared
<1>5. CASE SeqOfDebit(c) \/ SeqOfCredit(c) \/ PostRejected(c) \/ Capture(c) \/ CaptureRefused(c)
    BY <1>5 DEF SeqOfDebit, SeqOfCredit, PostRejected, Capture, CaptureRefused, shared
<1>6. CASE Save(c) \/ Publish(c) \/ Release(c)
    BY <1>6 DEF Save, Publish, Release, shared
<1> QED
    BY <1>2, <1>3, <1>4, <1>5, <1>6 DEF Pay

\* main.cpp, 2 to 4: a retry of a key moves no money and is answered with the original;
\* a payment that is rejected moves no money and is answered with the verdict of the chain.
THEOREM RetriesAndRejections == DemoSpec => RejectedMovesNothing
<1>1. TypeOK /\ Ownership /\ Bookkeeping /\ Settlement /\ MainFollows /\ DemoFollows
        /\ [DemoNext]_demovars =>
      [main = "script" =>
        LET c == Script[turn]
            earlier == {Script[i] : i \in 1..(turn - 1)}
            originals == {d \in earlier : req[d].key = req[c].key}
        IN  /\ originals # {} => UNCHANGED <<balance, journal, store, log>>
            /\ Run(Chain, req[c]) # "NONE" => UNCHANGED <<balance, journal>>
            /\ \A d \in originals : outcome'[c].tag \in {"none", "ok"}
                                   /\ outcome'[c].value \subseteq outcome[d].value
            /\ pc'[c] = "done" /\ outcome'[c].tag = "err" =>
                  outcome'[c].code = Run(Chain, req[c])]_demovars
    <2> SUFFICES ASSUME TypeOK, Ownership, Bookkeeping, Settlement, MainFollows, DemoFollows,
                        PayFromScript, main = "script", [DemoNext]_demovars
                 PROVE  LET c == Script[turn]
                            earlier == {Script[i] : i \in 1..(turn - 1)}
                            originals == {d \in earlier : req[d].key = req[c].key}
                        IN  /\ originals # {} => UNCHANGED <<balance, journal, store, log>>
                            /\ Run(Chain, req[c]) # "NONE" => UNCHANGED <<balance, journal>>
                            /\ \A d \in originals :
                                  /\ outcome'[c].tag \in {"none", "ok"}
                                  /\ outcome'[c].value \subseteq outcome[d].value
                            /\ pc'[c] = "done" /\ outcome'[c].tag = "err" =>
                                  outcome'[c].code = Run(Chain, req[c])
        BY ScriptSteps
    <2> DEFINE c == Script[turn]
               earlier == {Script[i] : i \in 1..(turn - 1)}
               originals == {d \in earlier : req[d].key = req[c].key}
    <2>1. Pay(c) /\ c \in Calls /\ c \in ScriptCalls /\ turn \in DOMAIN Script
        BY CallsFacts DEF PayFromScript, MainFollows
    <2>2. ASSUME NEW d \in originals
          PROVE  /\ UNCHANGED <<balance, journal, store, log>>
                 /\ outcome'[c].tag \in {"none", "ok"}
                 /\ outcome'[c].value \subseteq outcome[d].value
        <3>1. PICK i \in 1..(turn - 1) : d = Script[i]
            OBVIOUS
        <3>2. i \in DOMAIN Script /\ i < turn /\ req[Script[i]].key = req[c].key
            BY <2>1, <3>1, CallsFacts
        <3> HIDE DEF c
        <3> QED
            BY <2>1, <3>1, <3>2, RetryIsAnswered DEF c
    <2>3. ASSUME pc'[c] = "done", outcome'[c].tag = "err"
          PROVE  outcome'[c].code = Run(Chain, req[c])
        <3>1. ChecksFollow' /\ ToldFollow' /\ req' = req
            BY <2>1, NextDemo, PayIsOwn DEF DemoFollows
        <3>2. error'[c] # "NONE" /\ outcome'[c].code = error'[c]
            BY <2>1, <2>3, <3>1 DEF ToldFollow
        <3> QED
            BY <2>1, <3>1, <3>2 DEF ChecksFollow
    <2>4. ASSUME Run(Chain, req[c]) # "NONE"
          PROVE  UNCHANGED <<balance, journal>>
        <3>1. ~Passes(c)
            BY <2>1, <2>4 DEF Passes, MainFollows
        <3> HIDE DEF c
        <3> QED
            BY <2>1, <3>1, RejectedMoves
    <2> QED
        BY <2>2, <2>3, <2>4
<1> QED
    BY <1>1, DemoIsService, DemoFollowsHolds, TypeCorrect, OwnershipHolds, BookkeepingHolds,
       SettlementHolds, PTL DEF DemoSpec, RejectedMovesNothing

\* Once all payments have returned each of the burst was made, and paid, or refused.
LEMMA BurstIsServed ==
    ASSUME TypeOK, Ownership, Bookkeeping, MainFollows, DemoFollows, AllDone,
           NEW c \in BurstCalls
    PROVE  /\ outcome[c].tag = "ok" <=> error[c] = "NONE"
           /\ Took(c) <=> error[c] = "NONE"
           /\ error[c] # "NONE" => outcome[c].code = error[c]
<1>1. c \in Calls /\ pc[c] = "done" /\ CannotThrow(c)
    BY CallsFacts, Asked DEF AllDone
<1>2. /\ error[c] = "NONE" => outcome[c].tag = "ok"
      /\ error[c] # "NONE" => outcome[c].tag = "err" /\ outcome[c].code = error[c]
    BY <1>1 DEF DemoFollows, ToldFollow
<1>3. status[c] # "INITIATED"
    <2>1. claimed[req[c].key] # 0
        BY <1>1 DEF DemoFollows, ClaimsFollow
    <2>2. req[c].key \in Keys
        BY <1>1, ConstantsAssumption DEF TypeOK, PaymentRequest
    <2>3. PICK d \in Calls : txnId[d] = claimed[req[c].key] /\ req[d].key = req[c].key
        BY <2>1, <2>2 DEF Bookkeeping, ClaimedByItsCaller
    <2>4. d = c
        BY <1>1, <2>3, Asked
    <2> QED
        BY <1>1, <2>3, <2>4, ClaimantIsServed DEF DemoFollows
<1>4. status[c] = IF error[c] = "NONE" THEN "CAPTURED" ELSE "FAILED"
    BY <1>1, <1>3 DEF Bookkeeping, StatusFollows, Verdict
<1> QED
    BY <1>1, <1>2, <1>4 DEF Took

\* When main() has left the pool every payment has returned.
LEMMA EndIsDone ==
    ASSUME MainFollows, main = "end"
    PROVE  AllDone
BY CallsFacts DEF MainFollows, AllDone

\* main.cpp, 5: exactly as many of the racing payments succeed as the wallet covers.
THEOREM BurstIsExact == DemoSpec => []BurstAsTold
<1>1. TypeOK /\ Ownership /\ Bookkeeping /\ NoOverdraft /\ MainFollows /\ DemoFollows
        => BurstAsTold
    <2> SUFFICES ASSUME TypeOK, Ownership, Bookkeeping, NoOverdraft, MainFollows, DemoFollows,
                        main = "end"
                 PROVE  LET paid  == {c \in BurstCalls : outcome[c].tag = "ok"}
                            spent == SumFunction([c \in paid |-> req[c].amount.minor])
                        IN  /\ balance[Wallet].minor = Opening[Wallet].minor - spent
                            /\ balance[Wallet].minor >= 0
                            /\ \A c \in BurstCalls \ paid :
                                  /\ outcome[c].code = "INSUFFICIENT_FUNDS"
                                  /\ req[c].amount.minor > balance[Wallet].minor
        BY DEF BurstAsTold
    <2> DEFINE paid  == {c \in BurstCalls : outcome[c].tag = "ok"}
               f == [c \in Calls |-> IF req[c].payer = Wallet /\ Took(c)
                                     THEN req[c].amount.minor ELSE 0]
    <2>1. AllDone
        BY EndIsDone
    <2>2. \A c \in BurstCalls : /\ c \in paid <=> error[c] = "NONE"
                                /\ Took(c) <=> error[c] = "NONE"
                                /\ error[c] # "NONE" => outcome[c].code = error[c]
        BY <2>1, BurstIsServed
    <2>3. /\ Wallet \in Accounts \ {Merchant} /\ balance[Wallet].minor \in Int
        BY AsksAssumption DEF TypeOK, Money
    <2>4. \A c \in Calls : req[c].amount.minor \in Int
        BY Asked
    <2>5. paid \in SUBSET Calls /\ f \in [Calls -> Int]
        BY <2>4, CallsFacts
    <2>6. \A c \in Calls \ paid : f[c] = 0
        BY <2>2, Asked, CallsFacts
    <2>7. [c \in paid |-> f[c]] = [c \in paid |-> req[c].amount.minor]
        BY <2>2, Asked, CallsFacts
    <2>8. Spent(Wallet) = SumFunction([c \in paid |-> req[c].amount.minor])
        <3>1. Spent(Wallet) = SumFunction(f)
            BY DEF Spent
        <3> HIDE DEF f, paid
        <3>2. SumFunction(f) = SumFunction([c \in paid |-> f[c]])
            BY <2>5, <2>6, CallsAreFinite, SumWithoutZeros
        <3> QED
            BY <2>7, <3>1, <3>2
    <2>9. balance[Wallet].minor = Opening[Wallet].minor - Spent(Wallet)
        BY <2>3 DEF DemoFollows, BalancesFollow
    <2>10. balance[Wallet].minor >= 0
        BY <2>3 DEF NoOverdraft
    <2>11. ASSUME NEW c \in BurstCalls \ paid
           PROVE  /\ outcome[c].code = "INSUFFICIENT_FUNDS"
                  /\ req[c].amount.minor > balance[Wallet].minor
        <3>1. /\ error[c] # "NONE" /\ c \in Calls /\ outcome[c].code = error[c]
            BY <2>2, CallsFacts
        <3>2. error[c] = "INSUFFICIENT_FUNDS" /\ balance[Wallet].minor < req[c].amount.minor
            BY <3>1 DEF DemoFollows, ChecksFollow
        <3> QED
            BY <2>3, <2>4, <3>1, <3>2
    <2> HIDE DEF paid
    <2> QED
        BY <2>8, <2>9, <2>10, <2>11 DEF paid
<1> QED
    BY <1>1, DemoIsService, DemoFollowsHolds, TypeCorrect, OwnershipHolds, BookkeepingHolds,
       NeverOverdrawn, PTL

\* The merchant's part of the journal is the credits of all that was posted.
LEMMA MerchantsLegs ==
    ASSUME TypeOK, MainFollows, PostingsFollow
    PROVE  LET I == EntriesFor(journal, Merchant)
           IN  /\ I \subseteq DOMAIN journal
               /\ \A i \in I : journal[i].dir = "CREDIT"
               /\ \A i, j \in I : journal[i].txn = journal[j].txn => i = j
               /\ {journal[i].txn : i \in I} = Posted
<1> DEFINE I == EntriesFor(journal, Merchant)
<1>1. \A c \in Calls : req[c].payee = Merchant /\ req[c].payer # Merchant
    BY Asked
<1>2. ASSUME NEW i \in DOMAIN journal
      PROVE  journal[i].account = Merchant <=> journal[i].dir = "CREDIT"
    <2>1. PICK c \in Calls :
              /\ journal[i].dir \in Direction
              /\ journal[i].account = IF journal[i].dir = "DEBIT" THEN req[c].payer
                                                                 ELSE req[c].payee
        BY DEF PostingsFollow
    <2> QED
        BY <1>1, <2>1 DEF Direction
<1>3. I \subseteq DOMAIN journal /\ \A i \in DOMAIN journal : i \in I <=> journal[i].dir = "CREDIT"
    BY <1>2 DEF EntriesFor
<1> HIDE DEF I
<1>4. \A i, j \in I : journal[i].txn = journal[j].txn => i = j
    BY <1>3 DEF PostingsFollow
<1>5. ASSUME NEW i \in DOMAIN journal
      PROVE  \E j \in I : journal[j].txn = journal[i].txn
    <2>1. PICK j \in DOMAIN journal : journal[j].txn = journal[i].txn /\ journal[j].dir = "CREDIT"
        BY DEF PostingsFollow, Direction
    <2> QED
        BY <1>3, <2>1
<1>6. {journal[i].txn : i \in I} = Posted
    BY <1>3, <1>5 DEF Posted
<1> QED
    BY <1>3, <1>4, <1>6 DEF I

\* When all have returned, what was posted is what is captured.
LEMMA PostedIsCaptured ==
    ASSUME TypeOK, Bookkeeping, CapturedIffPosted, AllDone
    PROVE  Posted = {t.id : t \in {u \in store : u.status = "CAPTURED"}}
<1>1. ~CaptureRefusable
    BY AsksAssumption DEF CaptureRefusable, Approves
<1>2. \A t \in store : t.id \in Posted <=> t.status = "CAPTURED"
    BY <1>1 DEF Bookkeeping, StoreIsSettled
<1>3. ASSUME NEW id \in Posted PROVE \E t \in store : t.id = id
    <2>1. \A c \in Calls : pc[c] \notin {"capture", "save"}
        BY DEF AllDone
    <2>2. Find(id) # {}
        BY <2>1 DEF CapturedIffPosted, OwnersOf
    <2> QED
        BY <2>2 DEF Find
<1> QED
    BY <1>2, <1>3

\* ... and nothing is on its way.
LEMMA NothingInFlight ==
    ASSUME TypeOK, AllDone, NEW a
    PROVE  InFlight(a) = 0
<1> DEFINE f == [c \in Calls |-> Moved(c, a)]
<1>1. f \in [Calls -> {0}]
    BY DEF AllDone, Moved, OwesPayer, OwesPayee
<1>2. InFlight(a) = SumFunction(f)
    BY DEF InFlight
<1> HIDE DEF f
<1> QED
    BY <1>1, <1>2, CallsAreFinite, SumOfZeros

\* main.cpp, 6: the audit read at the end misses nothing and has nothing twice.
THEOREM AuditMissesNothing == DemoSpec => []AuditIsComplete
<1>1. TypeOK /\ Bookkeeping /\ CapturedIffPosted /\ LiveMatchesJournal /\ PostingsFollow
        /\ MainFollows => AuditIsComplete
    <2> SUFFICES ASSUME TypeOK, Bookkeeping, CapturedIffPosted, LiveMatchesJournal,
                        PostingsFollow, MainFollows, main = "end"
                 PROVE  /\ \A e \in audit : e.dir = "CREDIT"
                        /\ {e.txn : e \in audit}
                              = {t.id : t \in {u \in store : u.status = "CAPTURED"}}
                        /\ Cardinality(audit) = Cardinality({e.txn : e \in audit})
                        /\ balance[Merchant].minor
                              = Opening[Merchant].minor
                                  + SumFunction([e \in audit |-> e.amount.minor])
        BY DEF AuditIsComplete
    <2> DEFINE I == EntriesFor(journal, Merchant)
               ids == {e.txn : e \in audit}
               f == [i \in I |-> SignedAmount(journal[i]).minor]
               g == [e \in audit |-> e.amount.minor]
               b == [i \in I |-> journal[i]]
               h == [e \in audit |-> e.txn]
    <2>1. AllDone /\ audit = {journal[i] : i \in I}
        BY EndIsDone DEF MainFollows
    <2>2. /\ I \subseteq DOMAIN journal
          /\ \A i \in I : journal[i].dir = "CREDIT"
          /\ \A i, j \in I : journal[i].txn = journal[j].txn => i = j
          /\ {journal[i].txn : i \in I} = Posted
        BY MerchantsLegs
    <2>3. IsFiniteSet(I) /\ \A i \in I : SignedAmount(journal[i]).minor \in Int
        BY <2>2, NetType DEF TypeOK
    <2>4. \A i \in I : /\ SignedAmount(journal[i]).minor = journal[i].amount.minor
                       /\ journal[i].amount.minor \in Int
        BY <2>2, <2>3 DEF SignedAmount
    <2>5. DerivedNet(journal, Merchant) = SumFunction(f)
        BY DEF DerivedNet, NetAt
    <2>6. balance[Merchant].minor
            = Opening[Merchant].minor + DerivedNet(journal, Merchant) + InFlight(Merchant)
        BY AsksAssumption, ConstantsAssumption DEF LiveMatchesJournal
    <2>7. InFlight(Merchant) = 0
        BY <2>1, NothingInFlight
    <2> HIDE DEF I
    <2>8. ids = {t.id : t \in {u \in store : u.status = "CAPTURED"}}
        BY <2>1, <2>2, PostedIsCaptured
    <2>9. b \in Bijection(I, audit) /\ f \in [I -> Int] /\ g \in [audit -> Int]
        BY <2>1, <2>2, <2>3, <2>4 DEF Bijection, Injection, Surjection, IsInjective
    <2>10. \A i \in I : f[i] = g[b[i]]
        BY <2>1, <2>4
    <2>11. h \in Bijection(audit, ids)
        BY <2>1, <2>2 DEF Bijection, Injection, Surjection, IsInjective
    <2> HIDE DEF f, g, b, h, ids
    <2>12. SumFunction(f) = SumFunction(g)
        BY <2>3, <2>9, <2>10, SumRenamed
    <2>13. IsFiniteSet(audit)
        BY <2>3, <2>9, FS_Surjection DEF Bijection
    <2>14. Cardinality(audit) = Cardinality(ids)
        BY <2>11, <2>13, FS_Bijection DEF ExistsBijection
    <2>15. /\ SumFunction(g) \in Int /\ Opening[Merchant].minor \in Int
        <3>1. SumFunction(g) \in Int
            BY <2>9, <2>13, SumFacts, ZenonT(30)
        <3> QED
            BY <3>1, AsksAssumption, ConstantsAssumption DEF Money
    <2>16. balance[Merchant].minor = Opening[Merchant].minor + SumFunction(g)
        BY <2>5, <2>6, <2>7, <2>12, <2>15
    <2> QED
        BY <2>1, <2>2, <2>8, <2>14, <2>16 DEF g, ids
<1>2. ~LedgerFaults /\ OneCurrency /\ IsFiniteSet(Calls)
    BY AsksAssumption, CallsAreFinite DEF OneCurrency, SameCcy
<1>3. Spec => []LiveMatchesJournal
    BY <1>2, LiveIsJournal
<1> QED
    BY <1>1, <1>3, DemoIsService, TypeCorrect, BookkeepingHolds, CapturedExactlyWhenPosted,
       PostingsHold, PTL

=============================================================================
