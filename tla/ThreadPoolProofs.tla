--------------------------- MODULE ThreadPoolProofs ---------------------------
(***************************************************************************)
(* Theorems of ThreadPool: for any clients, workers and stoppers, any      *)
(* tasks and any capacity of the queue, a task that was submitted is in    *)
(* one place at a time and is begun once, and a pool that was shut down    *)
(* has run what was in its queue.                                          *)
(***************************************************************************)
EXTENDS ThreadPool, BlockingQueueProofs

-----------------------------------------------------------------------------
\* The inductive invariant.

\* What a thread has come to in the queue, and what it holds, at each stage: a push
\* has its task until the queue or its rejection has it, a pop has one once it took it.
AtPush(t)  == at[t] \in {"push", "pushWait"} \/ (at[t] = "out" /\ ret[t] = "rejected")
Pushed(t)  == at[t] = "wakePopper" \/ (at[t] = "out" /\ ret[t] = "accepted")
Drained(t) == at[t] = "out" /\ ret[t] = "nullopt"
AtPop(t)   == at[t] \in {"pop", "popWait"} \/ Drained(t)
Popped(t)  == at[t] = "wakePusher" \/ (at[t] = "out" /\ ret[t] = "item")

StageFollows(t) ==
    /\ stage[t] = "submitting" =>
          (AtPush(t) /\ hand[t] \in Tasks) \/ (Pushed(t) /\ hand[t] = NoItem)
    /\ stage[t] = "popping" =>
          (AtPop(t) /\ hand[t] = NoItem) \/ (Popped(t) /\ hand[t] \in Tasks)
    /\ stage[t] = "closing" => at[t] \in {"close", "wakePoppers", "wakePushers", "out"}
    /\ stage[t] \notin {"submitting", "popping", "closing"} => at[t] = "out"
    /\ IF t \in Workers
       THEN stage[t] \in {"looping", "popping", "running", "submitting", "exited"}
       ELSE \/ stage[t] \in {"idle", "closing", "stopped", "turned away"}
            \/ stage[t] = "submitting" /\ t \in Clients

\* At most one place has a task, and has it once; one does as long as its future is
\* pending.
TaskFollows(x) ==
    /\ \A i, j \in Slots(x) : i = j
    /\ \A s, t \in Hands(x) : s = t
    /\ \A v, w \in Runners(x) : v = w
    /\ Slots(x) = {} \/ Carriers(x) = {}
    /\ Hands(x) = {} \/ Runners(x) = {}
    /\ future[x] = "pending" <=> Slots(x) \cup Carriers(x) # {}
    /\ runs[x] = IF future[x] = "ready" \/ Runners(x) # {} THEN 1 ELSE 0

\* Whoever was told that the queue is closed and drained was told so for good.
DrainFollows ==
    /\ \A w \in Workers :
          stage[w] = "exited" \/ (stage[w] = "popping" /\ Drained(w)) =>
             closed /\ buffer = << >>
    /\ \A s \in Stoppers : stage[s] = "stopped" => \A w \in Workers : stage[w] = "exited"

Custody ==
    /\ \A t \in Threads : StageFollows(t)
    /\ \A x \in Tasks : TaskFollows(x)
    /\ DrainFollows

-----------------------------------------------------------------------------
\* The pool's steps are steps of its queue.

\* What submit() makes is a task not submitted before.
LEMMA MadeIsNew ==
    ASSUME NEW t, NotYetMade(t) # {}
    PROVE  LET made == CHOOSE x \in NotYetMade(t) : TRUE
           IN  made \in Tasks /\ future[made] = "none"
  BY PoolAssumption DEF NotYetMade

LEMMA PoolStepsTheQueue == [Next]_vars => [AnyNext]_qvars
<1> SUFFICES ASSUME [Next]_vars PROVE AnyNext \/ UNCHANGED qvars
  OBVIOUS
<1> USE DEF Threads, Clients, Workers, Stoppers
<1>1. ASSUME NEW t \in Clients \cup Workers, Submit(t) PROVE AnyNext
  BY <1>1, MadeIsNew DEF Submit, AnyNext, AnyStep, Tasks
<1>2. ASSUME NEW t \in Stoppers, Shutdown(t) PROVE AnyNext
  BY <1>2 DEF Shutdown, AnyNext, AnyStep
<1>3. ASSUME NEW t \in Workers, WorkerPops(t) PROVE AnyNext
  BY <1>3 DEF WorkerPops, AnyNext, AnyStep
<1>4. ASSUME NEW t \in Threads, InsideQueue(t) \/ SpuriousWakeup(t) PROVE AnyNext
  BY <1>4 DEF InsideQueue, AnyNext, AnyStep
<1>5. ASSUME NEW t, \/ ShutdownAgain(t) \/ WorkerBegins(t) \/ WorkerEnds(t)
                    \/ WorkerExits(t) \/ SubmitReturns(t) \/ Join(t)
      PROVE  UNCHANGED qvars
  BY <1>5 DEF ShutdownAgain, WorkerBegins, WorkerEnds, WorkerExits, SubmitReturns, Join
<1>6. CASE Finished \/ UNCHANGED vars
  BY <1>6 DEF Finished, vars
<1> QED
  BY <1>1, <1>2, <1>3, <1>4, <1>5, <1>6 DEF Next

-----------------------------------------------------------------------------
\* Types.

LEMMA InitPoolTypes == Init => PoolTypeOK
<1>1. QueueInit => QueueTypeOK
  BY InitTypes
<1>2. Workers \subseteq Threads
  BY DEF Threads, Workers
<1>3. Init => /\ \A w \in Workers : (task[w] # NoItem) <=> (stage[w] \in {"running", "submitting"})
              /\ task \in [Workers -> Tasks \cup {NoItem}]
  BY <1>2 DEF Init
<1>4. Init => future \in [Tasks -> FutureState] /\ stopped \in BOOLEAN
  BY DEF Init, FutureState
<1>r. Init => runs \in [Tasks -> Nat]
  BY DEF Init
<1>5. Init => stage \in [Threads -> {"idle", "submitting", "looping", "popping", "running",
                                    "exited", "closing", "stopped", "turned away"}]
  BY DEF Init
<1> QED
  BY <1>1, <1>3, <1>4, <1>r, <1>5 DEF Init, PoolTypeOK

LEMMA StepPoolTypes ==
    PoolTypeOK /\ (\A t \in Threads : StageFollows(t)) /\ [Next]_vars => PoolTypeOK'
<1> SUFFICES ASSUME PoolTypeOK, \A t \in Threads : StageFollows(t), [Next]_vars
             PROVE  PoolTypeOK'
  OBVIOUS
<1>q. QueueTypeOK'
  BY PoolStepsTheQueue, StepTypes DEF PoolTypeOK
<1>w. Workers \subseteq Threads /\ Clients \subseteq Threads /\ Stoppers \subseteq Threads
  BY DEF Workers, Clients, Stoppers, Threads
<1>n. NoItem \notin Tasks
  BY QueueAssumption DEF Tasks
<1>r. \A x \in Tasks : [runs EXCEPT ![x] = @ + 1] \in [Tasks -> Nat]
  <2>1. runs \in [Tasks -> Nat]
    BY DEF PoolTypeOK
  <2> QED
    BY <2>1
<1> USE DEF PoolTypeOK, FutureState, Turn
<1>1. ASSUME NEW t \in Clients \cup Workers, Submit(t) PROVE PoolTypeOK'
  <2>1. /\ stage[t] = Outside(t) /\ stage' = [stage EXCEPT ![t] = "submitting"]
        /\ UNCHANGED <<task, runs, stopped>>
        /\ future' \in [Tasks -> FutureState]
    BY <1>1 DEF Submit
  <2>2. t \in Workers => task[t] # NoItem
    BY <2>1 DEF Outside
  <2> QED
    BY <1>q, <1>w, <2>1, <2>2
<1>2. ASSUME NEW t \in Stoppers, Shutdown(t) \/ ShutdownAgain(t) PROVE PoolTypeOK'
  BY <1>q, <1>w, <1>2, PoolAssumption DEF Shutdown, ShutdownAgain
<1>3. ASSUME NEW t \in Workers, WorkerPops(t) PROVE PoolTypeOK'
  BY <1>q, <1>w, <1>3 DEF WorkerPops
<1>4. ASSUME NEW t \in Workers, WorkerBegins(t) PROVE PoolTypeOK'
  <2>1. hand[t] \in Tasks
    BY <1>w, <1>4 DEF WorkerBegins, StageFollows, AtPop, Drained, Popped
  <2>2. /\ stage' = [stage EXCEPT ![t] = "running"] /\ task' = [task EXCEPT ![t] = hand[t]]
        /\ runs' = [runs EXCEPT ![hand[t]] = @ + 1] /\ UNCHANGED <<future, stopped>>
    BY <1>4 DEF WorkerBegins
  <2>3. \A w \in Workers : (task'[w] # NoItem) <=> (stage'[w] \in {"running", "submitting"})
    BY <1>w, <1>n, <2>1, <2>2
  <2>4. runs' \in [Tasks -> Nat]
    BY <1>r, <2>1, <2>2
  <2>5. task' \in [Workers -> Tasks \cup {NoItem}]
    BY <2>1, <2>2
  <2> QED
    BY <1>q, <2>2, <2>3, <2>4, <2>5
<1>5. ASSUME NEW t \in Workers, WorkerEnds(t) PROVE PoolTypeOK'
  BY <1>q, <1>w, <1>5 DEF WorkerEnds
<1>6. ASSUME NEW t \in Workers, WorkerExits(t) PROVE PoolTypeOK'
  BY <1>q, <1>w, <1>6 DEF WorkerExits
<1>7. ASSUME NEW t \in Clients \cup Workers, SubmitReturns(t) PROVE PoolTypeOK'
  <2>1. /\ stage[t] = "submitting" /\ stage' = [stage EXCEPT ![t] = Outside(t)]
        /\ UNCHANGED <<task, runs, stopped>>
        /\ future' \in [Tasks -> FutureState]
    BY <1>7 DEF SubmitReturns
  <2> QED
    BY <1>q, <1>w, <2>1, PoolAssumption DEF Outside
<1>8. ASSUME NEW t \in Stoppers, Join(t) PROVE PoolTypeOK'
  BY <1>q, <1>w, <1>8, PoolAssumption DEF Join
<1>9. CASE UNCHANGED pvars
  BY <1>q, <1>9 DEF pvars
<1> QED
  BY <1>1, <1>2, <1>3, <1>4, <1>5, <1>6, <1>7, <1>8, <1>9
     DEF Next, InsideQueue, Finished, vars

-----------------------------------------------------------------------------
\* Sequences: what is left when the first element is taken, or another appended.

LEMMA Taken ==
    ASSUME NEW S, NEW q \in Seq(S), q # << >>
    PROVE  /\ Head(q) \in S /\ Head(q) = q[1] /\ 1 \in DOMAIN q
           /\ \A i \in DOMAIN Tail(q) : i + 1 \in DOMAIN q /\ Tail(q)[i] = q[i + 1]
           /\ \A i \in DOMAIN q : i # 1 => i - 1 \in DOMAIN Tail(q) /\ i = (i - 1) + 1
           /\ \A i, j \in DOMAIN Tail(q) : i + 1 = j + 1 => i = j
           /\ \A i \in DOMAIN Tail(q) : i + 1 # 1
  OBVIOUS

LEMMA Appended ==
    ASSUME NEW S, NEW q \in Seq(S), NEW e \in S
    PROVE  /\ DOMAIN Append(q, e) = DOMAIN q \cup {Len(q) + 1}
           /\ Len(q) + 1 \notin DOMAIN q
           /\ Append(q, e)[Len(q) + 1] = e
           /\ \A i \in DOMAIN q : Append(q, e)[i] = q[i]
  OBVIOUS

-----------------------------------------------------------------------------
\* Stages: what a thread is doing with the pool and what it is doing in the queue.

LEMMA InitStages == Init => \A t \in Threads : StageFollows(t)
  BY DEF Init, QueueInit, StageFollows

\* A thread that nothing was done to.
Untouched(s) ==
    stage'[s] = stage[s] /\ at'[s] = at[s] /\ hand'[s] = hand[s] /\ ret'[s] = ret[s]

LEMMA Bystander ==
    ASSUME NEW s, StageFollows(s), Untouched(s)
    PROVE  StageFollows(s)'
  BY DEF StageFollows, AtPush, Pushed, AtPop, Drained, Popped, Untouched

LEMMA StepStages ==
    PoolTypeOK /\ (\A t \in Threads : StageFollows(t)) /\ [Next]_vars
       => \A t \in Threads : StageFollows(t)'
<1> SUFFICES ASSUME PoolTypeOK, [Next]_vars,
                    NEW s \in Threads, StageFollows(s), ~Untouched(s)
             PROVE  StageFollows(s)'
  BY Bystander
<1>w. Workers \subseteq Threads /\ Clients \subseteq Threads /\ Stoppers \subseteq Threads
  BY DEF Workers, Clients, Stoppers, Threads
<1>p. Workers \cap (Clients \cup Stoppers) = {}
  BY PoolAssumption
<1>n. NoItem \notin Tasks
  BY QueueAssumption DEF Tasks
<1>t. /\ at \in [Threads -> Places]
      /\ hand \in [Threads -> Tasks \cup {NoItem}]
      /\ ret \in [Threads -> {"none", "accepted", "rejected", "item", "nullopt"}]
      /\ stage \in [Threads -> {"idle", "submitting", "looping", "popping", "running",
                               "exited", "closing", "stopped", "turned away"}]
  BY DEF PoolTypeOK, QueueTypeOK, Tasks
<1>f. StageFollows(s)
  OBVIOUS
<1> USE DEF Turn
<1>1. ASSUME NEW t \in Clients \cup Workers, Submit(t) PROVE StageFollows(s)'
  <2>1. PICK made \in Tasks : StartPush(t, made)
    BY <1>1, MadeIsNew DEF Submit
  <2>2. stage[t] = Outside(t) /\ stage' = [stage EXCEPT ![t] = "submitting"]
    BY <1>1 DEF Submit
  <2>3. /\ at' = [at EXCEPT ![t] = "push"] /\ hand' = [hand EXCEPT ![t] = made]
        /\ ret' = [ret EXCEPT ![t] = "none"]
    BY <2>1 DEF StartPush, Enter, Move
  <2>4. s = t
    BY <1>t, <1>w, <2>2, <2>3 DEF Untouched
  <2>5. stage'[s] = "submitting" /\ at'[s] = "push" /\ hand'[s] = made
    BY <1>t, <2>2, <2>3, <2>4
  <2> QED
    BY <2>4, <2>5 DEF StageFollows, AtPush
<1>2. ASSUME NEW t \in Stoppers, Shutdown(t) PROVE StageFollows(s)'
  <2>1. /\ stage[t] = "idle" /\ stage' = [stage EXCEPT ![t] = "closing"]
        /\ at' = [at EXCEPT ![t] = "close"] /\ hand' = [hand EXCEPT ![t] = NoItem]
        /\ ret' = [ret EXCEPT ![t] = "none"]
    BY <1>2 DEF Shutdown, StartClose, Enter, Move
  <2>2. s = t
    BY <1>t, <1>w, <2>1 DEF Untouched
  <2>3. stage'[s] = "closing" /\ at'[s] = "close" /\ s \notin Workers
    BY <1>t, <1>p, <2>1, <2>2
  <2> QED
    BY <2>3 DEF StageFollows
<1>3. ASSUME NEW t \in Stoppers, ShutdownAgain(t) \/ Join(t) PROVE StageFollows(s)'
  <2>1. /\ stage[t] \in {"idle", "closing"} /\ UNCHANGED <<at, hand, ret>>
        /\ stage[t] = "idle" \/ at[t] = "out"
        /\ \/ stage' = [stage EXCEPT ![t] = "turned away"]
           \/ stage' = [stage EXCEPT ![t] = "stopped"]
    BY <1>3 DEF ShutdownAgain, Join, qvars
  <2>2. s = t
    BY <1>t, <1>w, <2>1 DEF Untouched
  <2>3. stage'[s] \in {"turned away", "stopped"} /\ s \notin Workers
    BY <1>t, <1>p, <2>1, <2>2
  <2>4. at'[s] = "out"
    BY <1>f, <2>1, <2>2 DEF StageFollows
  <2> QED
    BY <2>3, <2>4 DEF StageFollows
<1>4. ASSUME NEW t \in Workers, WorkerPops(t) PROVE StageFollows(s)'
  <2>1. /\ stage' = [stage EXCEPT ![t] = "popping"] /\ at' = [at EXCEPT ![t] = "pop"]
        /\ hand' = [hand EXCEPT ![t] = NoItem] /\ ret' = [ret EXCEPT ![t] = "none"]
    BY <1>4 DEF WorkerPops, StartPop, Enter, Move
  <2>2. s = t
    BY <1>t, <1>w, <2>1 DEF Untouched
  <2>3. stage'[s] = "popping" /\ at'[s] = "pop" /\ hand'[s] = NoItem /\ s \in Workers
    BY <1>t, <2>1, <2>2
  <2> QED
    BY <2>3 DEF StageFollows, AtPop
<1>5. ASSUME NEW t \in Workers, WorkerBegins(t) \/ WorkerEnds(t) \/ WorkerExits(t)
      PROVE  StageFollows(s)'
  <2>1. /\ UNCHANGED <<at, hand, ret>>
        /\ stage[t] = "running" \/ at[t] = "out"
        /\ \/ stage' = [stage EXCEPT ![t] = "running"]
           \/ stage' = [stage EXCEPT ![t] = "looping"]
           \/ stage' = [stage EXCEPT ![t] = "exited"]
    BY <1>5 DEF WorkerBegins, WorkerEnds, WorkerExits, qvars
  <2>2. s = t
    BY <1>t, <1>w, <2>1 DEF Untouched
  <2>3. stage'[s] \in {"running", "looping", "exited"} /\ s \in Workers
    BY <1>t, <2>1, <2>2
  <2>4. at'[s] = "out"
    BY <1>f, <2>1, <2>2 DEF StageFollows
  <2> QED
    BY <2>3, <2>4 DEF StageFollows
<1>6. ASSUME NEW t \in Clients \cup Workers, SubmitReturns(t) PROVE StageFollows(s)'
  <2>1. /\ at[t] = "out" /\ UNCHANGED <<at, hand, ret>>
        /\ stage[t] = "submitting" /\ stage' = [stage EXCEPT ![t] = Outside(t)]
    BY <1>6 DEF SubmitReturns, qvars
  <2>2. s = t
    BY <1>t, <1>w, <2>1 DEF Untouched
  <2>3. stage'[s] = Outside(s) /\ at'[s] = "out"
    BY <1>t, <2>1, <2>2
  <2> QED
    BY <2>3 DEF StageFollows, Outside
<1>7. ASSUME NEW t \in Threads, QueueStep(t) \/ SpuriousWakeup(t), UNCHANGED pvars
      PROVE  StageFollows(s)'
  <2>1. stage'[s] = stage[s]
    BY <1>7 DEF pvars
  <2> USE <1>f DEF StageFollows, AtPush, Pushed, AtPop, Drained, Popped
  <2>2. CASE PushSleeps(t) \/ PopSleeps(t) \/ SetClosed(t) \/ SpuriousWakeup(t)
    <3>1. /\ UNCHANGED <<hand, ret>>
          /\ \/ at[t] = "push"     /\ at' = [at EXCEPT ![t] = "pushWait"]
             \/ at[t] = "pop"      /\ at' = [at EXCEPT ![t] = "popWait"]
             \/ at[t] = "close"    /\ at' = [at EXCEPT ![t] = "wakePoppers"]
             \/ at[t] = "pushWait" /\ at' = [at EXCEPT ![t] = "push"]
             \/ at[t] = "popWait"  /\ at' = [at EXCEPT ![t] = "pop"]
      BY <2>2 DEF PushSleeps, PopSleeps, SetClosed, SpuriousWakeup, Move
    <3>2. s = t
      BY <1>t, <2>1, <3>1 DEF Untouched
    <3>3. /\ hand'[s] = hand[s] /\ ret'[s] = ret[s]
          /\ \/ at[s] = "push"     /\ at'[s] = "pushWait"
             \/ at[s] = "pop"      /\ at'[s] = "popWait"
             \/ at[s] = "close"    /\ at'[s] = "wakePoppers"
             \/ at[s] = "pushWait" /\ at'[s] = "push"
             \/ at[s] = "popWait"  /\ at'[s] = "pop"
      BY <1>t, <3>1, <3>2
    <3> QED
      BY <2>1, <3>3
  <2>3. CASE PushRejected(t) \/ PopDrained(t)
    <3>1. /\ at' = [at EXCEPT ![t] = "out"] /\ hand' = hand
          /\ \/ at[t] = "push" /\ ret' = [ret EXCEPT ![t] = "rejected"]
             \/ at[t] = "pop"  /\ ret' = [ret EXCEPT ![t] = "nullopt"]
      BY <2>3 DEF PushRejected, PopDrained, Leave, Move
    <3>2. s = t
      BY <1>t, <2>1, <3>1 DEF Untouched
    <3>3. /\ at'[s] = "out" /\ hand'[s] = hand[s]
          /\ \/ at[s] = "push" /\ ret'[s] = "rejected"
             \/ at[s] = "pop"  /\ ret'[s] = "nullopt"
      BY <1>t, <3>1, <3>2
    <3> QED
      BY <2>1, <3>3
  <2>4. CASE PushAppends(t)
    <3>1. /\ at[t] = "push" /\ at' = [at EXCEPT ![t] = "wakePopper"]
          /\ hand' = [hand EXCEPT ![t] = NoItem] /\ ret' = ret
      BY <2>4 DEF PushAppends, Move
    <3>2. s = t
      BY <1>t, <2>1, <3>1 DEF Untouched
    <3>3. at[s] = "push" /\ at'[s] = "wakePopper" /\ hand'[s] = NoItem
      BY <1>t, <3>1, <3>2
    <3> QED
      BY <2>1, <3>3
  <2>5. CASE PopTakes(t)
    <3>1. buffer \in Seq(Tasks) /\ buffer # << >>
      BY <2>5 DEF PopTakes, PoolTypeOK, QueueTypeOK, Tasks
    <3>2. Head(buffer) \in Tasks
      BY <3>1, Taken
    <3>3. /\ at[t] = "pop" /\ at' = [at EXCEPT ![t] = "wakePusher"]
          /\ hand' = [hand EXCEPT ![t] = Head(buffer)] /\ ret' = ret
      BY <2>5 DEF PopTakes, Move
    <3>4. s = t
      BY <1>t, <2>1, <3>3 DEF Untouched
    <3>5. at[s] = "pop" /\ at'[s] = "wakePusher" /\ hand'[s] \in Tasks
      BY <1>t, <3>2, <3>3, <3>4
    <3> QED
      BY <2>1, <3>5
  <2>6. CASE WakePopper(t) \/ WakePusher(t)
    <3>1. /\ hand' = hand
          /\ \/ at[t] = "wakePopper" /\ ret' = [ret EXCEPT ![t] = "accepted"]
             \/ at[t] = "wakePusher" /\ ret' = [ret EXCEPT ![t] = "item"]
      BY <2>6 DEF WakePopper, WakePusher, NotifyOne
    <3>2. CASE at' = [at EXCEPT ![t] = "out"]
      <4>1. s = t
        BY <1>t, <2>1, <3>1, <3>2 DEF Untouched
      <4>2. /\ at'[s] = "out" /\ hand'[s] = hand[s]
            /\ \/ at[s] = "wakePopper" /\ ret'[s] = "accepted"
               \/ at[s] = "wakePusher" /\ ret'[s] = "item"
        BY <1>t, <3>1, <3>2, <4>1
      <4> QED
        BY <2>1, <4>2
    <3>3. ASSUME NEW r \in Threads,
                 \/ at[r] = "popWait" /\ at' = [at EXCEPT ![t] = "out", ![r] = "pop"]
                 \/ at[r] = "pushWait" /\ at' = [at EXCEPT ![t] = "out", ![r] = "push"]
          PROVE  StageFollows(s)'
      <4>1. \/ at[r] = "popWait" /\ at' = [at EXCEPT ![t] = "out", ![r] = "pop"]
            \/ at[r] = "pushWait" /\ at' = [at EXCEPT ![t] = "out", ![r] = "push"]
        BY <3>3
      <4>2. t # r
        BY <3>1, <4>1
      <4>3. CASE s = t
        <5>1. /\ at'[s] = "out" /\ hand'[s] = hand[s]
              /\ \/ at[s] = "wakePopper" /\ ret'[s] = "accepted"
                 \/ at[s] = "wakePusher" /\ ret'[s] = "item"
          BY <1>t, <3>1, <4>1, <4>2, <4>3
        <5> QED
          BY <2>1, <5>1
      <4>4. CASE s = r
        <5>1. /\ hand'[s] = hand[s] /\ ret'[s] = ret[s]
              /\ \/ at[s] = "popWait" /\ at'[s] = "pop"
                 \/ at[s] = "pushWait" /\ at'[s] = "push"
          BY <1>t, <3>1, <4>1, <4>2, <4>4
        <5> QED
          BY <2>1, <5>1
      <4>5. s = t \/ s = r
        BY <1>t, <2>1, <3>1, <4>1 DEF Untouched
      <4> QED
        BY <4>3, <4>4, <4>5
    <3>4. CASE WakePopper(t)
      <4> HIDE DEF StageFollows
      <4>1. \/ at' = [at EXCEPT ![t] = "out"]
            \/ \E r \in At("popWait") : at' = [at EXCEPT ![t] = "out", ![r] = "pop"]
        BY <3>4 DEF WakePopper, NotifyOne
      <4> QED
        BY <3>2, <3>3, <4>1 DEF At
    <3>5. CASE WakePusher(t)
      <4> HIDE DEF StageFollows
      <4>1. \/ at' = [at EXCEPT ![t] = "out"]
            \/ \E r \in At("pushWait") : at' = [at EXCEPT ![t] = "out", ![r] = "push"]
        BY <3>5 DEF WakePusher, NotifyOne
      <4> QED
        BY <3>2, <3>3, <4>1 DEF At
    <3> QED
      BY <2>6, <3>4, <3>5
  <2>7. CASE WakePoppers(t) \/ WakePushers(t)
    <3>1. /\ hand'[s] = hand[s] /\ ret'[s] = ret[s]
          /\ \/ at[s] = "wakePoppers" /\ at'[s] = "wakePushers"
             \/ at[s] = "wakePushers" /\ at'[s] = "out"
             \/ at[s] = "popWait" /\ at'[s] = "pop"
             \/ at[s] = "pushWait" /\ at'[s] = "push"
      BY <1>t, <2>1, <2>7 DEF WakePoppers, WakePushers, NotifyAll, Untouched
    <3> QED
      BY <2>1, <3>1
  <2> QED
    BY <1>7, <2>2, <2>3, <2>4, <2>5, <2>6, <2>7 DEF QueueStep
<1>8. CASE UNCHANGED vars
  BY <1>8 DEF vars, qvars, pvars, Untouched
<1> QED
  BY <1>1, <1>2, <1>3, <1>4, <1>5, <1>6, <1>7, <1>8 DEF Next, InsideQueue, Finished

-----------------------------------------------------------------------------
\* Tasks: where each of them is, and how often it was begun.

LEMMA InitTasks == Init => \A x \in Tasks : TaskFollows(x)
<1> SUFFICES ASSUME Init, NEW x \in Tasks PROVE TaskFollows(x)
  OBVIOUS
<1>1. Slots(x) = {} /\ Hands(x) = {}
  BY DEF Init, QueueInit, Slots, Hands, Threads, Workers
<1>2. Runners(x) = {}
  BY QueueAssumption DEF Init, Runners, Tasks
<1> QED
  BY <1>1, <1>2 DEF Init, TaskFollows, Carriers

\* A task that is where it was.
LEMMA Unmoved ==
    ASSUME NEW x, TaskFollows(x), Slots(x)' = Slots(x), Hands(x)' = Hands(x),
           Runners(x)' = Runners(x), future'[x] = future[x], runs'[x] = runs[x]
    PROVE  TaskFollows(x)'
  BY DEF TaskFollows, Carriers

LEMMA StepTasks ==
    PoolTypeOK /\ Custody /\ [Next]_vars => \A x \in Tasks : TaskFollows(x)'
<1> SUFFICES ASSUME PoolTypeOK, Custody, [Next]_vars, NEW x \in Tasks
             PROVE  TaskFollows(x)'
  OBVIOUS
<1>w. Workers \subseteq Threads /\ Clients \subseteq Threads /\ Stoppers \subseteq Threads
  BY DEF Workers, Clients, Stoppers, Threads
<1>n. NoItem \notin Tasks
  BY QueueAssumption DEF Tasks
<1>t. /\ hand \in [Threads -> Tasks \cup {NoItem}]
      /\ stage \in [Threads -> {"idle", "submitting", "looping", "popping", "running",
                               "exited", "closing", "stopped", "turned away"}]
      /\ task \in [Workers -> Tasks \cup {NoItem}]
      /\ \A w \in Workers : task[w] # NoItem => stage[w] \in {"running", "submitting"}
      /\ \A w \in Workers : stage[w] \in {"running", "submitting"} => task[w] \in Tasks
      /\ future \in [Tasks -> FutureState]
  BY DEF PoolTypeOK, QueueTypeOK, Tasks
<1>u. runs \in [Tasks -> Nat] /\ buffer \in Seq(Tasks)
  BY DEF PoolTypeOK, QueueTypeOK, Tasks
<1>s. \A t \in Threads : StageFollows(t)
  BY DEF Custody
<1>f. \A y \in Tasks : TaskFollows(y)
  BY DEF Custody
<1>1. ASSUME NEW t \in Clients \cup Workers, Submit(t) PROVE TaskFollows(x)'
  <2>1. PICK made \in Tasks : /\ future[made] = "none" /\ StartPush(t, made)
                              /\ future' = [future EXCEPT ![made] = "pending"]
    BY <1>1, MadeIsNew DEF Submit
  <2>2. /\ stage[t] \in {"running", "idle"} /\ stage' = [stage EXCEPT ![t] = "submitting"]
        /\ UNCHANGED <<task, runs, buffer>> /\ hand' = [hand EXCEPT ![t] = made]
    BY <1>1, <2>1 DEF Submit, Turn, Outside, StartPush, Enter
  <2>3. Slots(x)' = Slots(x) /\ Runners(x)' = Runners(x)
    BY <2>2 DEF Slots, Runners
  <2>4. Hands(x)' = IF x = made THEN Hands(x) \cup {t} ELSE Hands(x)
    BY <1>t, <1>w, <2>2 DEF Hands
  <2>5. CASE x = made
    <3>1. Slots(x) = {} /\ Hands(x) = {} /\ Runners(x) = {} /\ runs[x] = 0
      BY <1>f, <2>1, <2>5 DEF TaskFollows, Carriers
    <3>2. future'[x] = "pending" /\ runs'[x] = 0 /\ Hands(x)' = {t}
      BY <1>t, <2>1, <2>2, <2>4, <2>5, <3>1
    <3> QED
      BY <2>3, <3>1, <3>2 DEF TaskFollows, Carriers
  <2>6. CASE x # made
    BY <1>f, <1>t, <2>1, <2>2, <2>3, <2>4, <2>6, Unmoved
  <2> QED
    BY <2>5, <2>6
<1>2. ASSUME NEW t \in Threads,
             /\ stage[t] \notin {"submitting", "popping"} \/ hand[t] = NoItem
             /\ \E to : stage' = [stage EXCEPT ![t] = to]
             /\ hand' = [hand EXCEPT ![t] = NoItem] \/ hand' = hand
             /\ stage'[t] \in {"submitting", "popping"} => hand'[t] = NoItem
             /\ UNCHANGED <<task, runs, future, buffer>>
      PROVE  TaskFollows(x)'
  <2>1. Slots(x)' = Slots(x) /\ Runners(x)' = Runners(x)
    BY <1>2 DEF Slots, Runners
  <2>2. Hands(x)' = Hands(x)
    BY <1>t, <1>n, <1>2 DEF Hands
  <2> QED
    BY <1>f, <1>2, <2>1, <2>2, Unmoved
<1>3. ASSUME NEW t \in Stoppers, Shutdown(t) PROVE TaskFollows(x)'
  BY <1>t, <1>w, <1>2, <1>3 DEF Shutdown, Turn, StartClose, Enter
<1>4. ASSUME NEW t \in Stoppers, ShutdownAgain(t) \/ Join(t) PROVE TaskFollows(x)'
  BY <1>t, <1>w, <1>2, <1>4 DEF ShutdownAgain, Join, Turn, qvars
<1>5. ASSUME NEW t \in Workers, WorkerPops(t) PROVE TaskFollows(x)'
  BY <1>t, <1>w, <1>2, <1>5 DEF WorkerPops, Turn, StartPop, Enter
<1>6. ASSUME NEW t \in Workers, WorkerExits(t) PROVE TaskFollows(x)'
  <2>1. hand[t] = NoItem
    BY <1>s, <1>w, <1>6 DEF WorkerExits, Turn, StageFollows, Popped
  <2> QED
    BY <1>t, <1>w, <1>2, <1>6, <2>1 DEF WorkerExits, Turn, qvars
<1>7. ASSUME NEW t \in Clients \cup Workers, SubmitReturns(t) PROVE TaskFollows(x)'
  <2>1. /\ stage[t] = "submitting" /\ stage' = [stage EXCEPT ![t] = Outside(t)]
        /\ Outside(t) \in {"running", "idle"}
        /\ UNCHANGED <<at, hand, ret, buffer, task, runs>>
    BY <1>7 DEF SubmitReturns, Turn, Outside, qvars
  <2>2. Slots(x)' = Slots(x) /\ Runners(x)' = Runners(x)
    BY <2>1 DEF Slots, Runners
  <2>3. Hands(x)' = Hands(x) \ {t}
    BY <1>t, <1>w, <2>1 DEF Hands
  <2>4. CASE ret[t] = "rejected"
    <3>1. hand[t] \in Tasks /\ future' = [future EXCEPT ![hand[t]] = "broken"]
      BY <1>7, <1>s, <1>w, <2>4 DEF SubmitReturns, StageFollows, Pushed, Turn
    <3>2. CASE x = hand[t]
      <4>1. Hands(x) = {t} /\ Slots(x) = {} /\ Runners(x) = {} /\ future[x] = "pending"
        BY <1>f, <1>w, <2>1, <3>1, <3>2 DEF TaskFollows, Hands, Carriers
      <4>2. Hands(x)' = {} /\ future'[x] = "broken" /\ runs'[x] = 0
        BY <1>f, <1>t, <2>1, <2>3, <3>1, <3>2, <4>1 DEF TaskFollows
      <4> QED
        BY <2>2, <4>1, <4>2 DEF TaskFollows, Carriers
    <3>3. CASE x # hand[t]
      BY <1>f, <1>t, <2>1, <2>2, <2>3, <3>1, <3>3, Unmoved DEF Hands
    <3> QED
      BY <3>2, <3>3
  <2>5. CASE ret[t] # "rejected"
    <3>1. hand[t] = NoItem /\ future' = future
      BY <1>7, <1>s, <1>w, <2>5 DEF SubmitReturns, StageFollows, AtPush, Turn
    <3>2. Hands(x)' = Hands(x)
      BY <1>n, <2>3, <3>1 DEF Hands
    <3> QED
      BY <1>f, <2>1, <2>2, <3>1, <3>2, Unmoved
  <2> QED
    BY <2>4, <2>5
<1>8. ASSUME NEW t \in Workers, WorkerBegins(t) PROVE TaskFollows(x)'
  <2>1. /\ stage[t] = "popping" /\ stage' = [stage EXCEPT ![t] = "running"]
        /\ task' = [task EXCEPT ![t] = hand[t]]
        /\ runs' = [runs EXCEPT ![hand[t]] = @ + 1]
        /\ UNCHANGED <<hand, buffer, future>>
    BY <1>8 DEF WorkerBegins, Turn, qvars
  <2>2. hand[t] \in Tasks
    BY <1>8, <1>s, <1>w DEF WorkerBegins, Turn, StageFollows, AtPop, Drained
  <2>3. task[t] = NoItem
    BY <1>t, <1>w, <2>1
  <2>4. Slots(x)' = Slots(x) /\ Hands(x)' = Hands(x) \ {t}
    BY <1>t, <1>w, <2>1 DEF Slots, Hands
  <2>5. CASE x = hand[t]
    <3>1. Hands(x) = {t} /\ Slots(x) = {} /\ Runners(x) = {} /\ future[x] = "pending"
      BY <1>f, <1>w, <2>1, <2>5 DEF TaskFollows, Hands, Carriers
    <3>2. runs[x] = 0
      BY <1>f, <3>1 DEF TaskFollows
    <3>3. runs'[x] = 1
      BY <1>u, <2>1, <2>5, <3>2
    <3>4. Runners(x)' = {t}
      BY <1>t, <2>1, <2>5, <3>1 DEF Runners
    <3> QED
      BY <2>1, <2>4, <3>1, <3>3, <3>4 DEF TaskFollows, Carriers
  <2>6. CASE x # hand[t]
    <3>1. Runners(x)' = Runners(x)
      BY <1>t, <1>n, <2>1, <2>3, <2>6 DEF Runners
    <3>2. runs'[x] = runs[x]
      BY <1>u, <2>1, <2>6
    <3>3. Hands(x)' = Hands(x)
      BY <2>4, <2>6 DEF Hands
    <3> QED
      BY <1>f, <2>1, <2>4, <3>1, <3>2, <3>3, Unmoved
  <2> QED
    BY <2>5, <2>6
<1>9. ASSUME NEW t \in Workers, WorkerEnds(t) PROVE TaskFollows(x)'
  <2>1. /\ stage[t] = "running" /\ stage' = [stage EXCEPT ![t] = "looping"]
        /\ task' = [task EXCEPT ![t] = NoItem]
        /\ future' = [future EXCEPT ![task[t]] = "ready"]
        /\ UNCHANGED <<hand, buffer, runs>>
    BY <1>9 DEF WorkerEnds, Turn, qvars
  <2>2. task[t] \in Tasks
    BY <1>t, <2>1
  <2>3. Slots(x)' = Slots(x) /\ Hands(x)' = Hands(x) /\ Runners(x)' = Runners(x) \ {t}
    BY <1>t, <1>n, <1>w, <2>1 DEF Slots, Hands, Runners
  <2>4. CASE x = task[t]
    <3>1. Runners(x) = {t} /\ Slots(x) = {} /\ Hands(x) = {} /\ runs[x] = 1
      BY <1>f, <2>4 DEF TaskFollows, Runners, Carriers
    <3>2. future'[x] = "ready" /\ runs'[x] = 1
      BY <1>t, <2>1, <2>4, <3>1
    <3> QED
      BY <2>3, <3>1, <3>2 DEF TaskFollows, Carriers
  <2>5. CASE x # task[t]
    <3>1. Runners(x)' = Runners(x)
      BY <2>3, <2>5 DEF Runners
    <3> QED
      BY <1>f, <1>t, <2>1, <2>3, <2>5, <3>1, Unmoved
  <2> QED
    BY <2>4, <2>5
<1>10. ASSUME NEW t \in Threads, QueueStep(t), UNCHANGED pvars PROVE TaskFollows(x)'
  <2>p. UNCHANGED <<stage, task, runs, future>> /\ Runners(x)' = Runners(x)
    BY <1>10 DEF pvars, Runners
  <2>1. CASE PushAppends(t)
    <3>1. /\ at[t] = "push" /\ buffer' = Append(buffer, hand[t])
          /\ hand' = [hand EXCEPT ![t] = NoItem]
      BY <2>1 DEF PushAppends, Move
    <3>2. stage[t] = "submitting" /\ hand[t] \in Tasks
      BY <1>s, <3>1 DEF StageFollows, AtPop, Popped, Pushed, Drained
    <3>3. Hands(x)' = Hands(x) \ {t}
      BY <1>t, <1>n, <2>p, <3>1 DEF Hands
    <3>4. Slots(x)' = IF x = hand[t] THEN Slots(x) \cup {Len(buffer) + 1} ELSE Slots(x)
      <4>1. /\ DOMAIN buffer' = DOMAIN buffer \cup {Len(buffer) + 1}
            /\ Len(buffer) + 1 \notin DOMAIN buffer
            /\ buffer'[Len(buffer) + 1] = hand[t]
            /\ \A i \in DOMAIN buffer : buffer'[i] = buffer[i]
        BY <1>u, <3>1, <3>2, Appended
      <4> DEFINE n == Len(buffer) + 1
      <4> HIDE DEF n
      <4>2. /\ DOMAIN buffer' = DOMAIN buffer \cup {n} /\ buffer'[n] = hand[t]
            /\ \A i \in DOMAIN buffer : buffer'[i] = buffer[i]
        BY <4>1 DEF n
      <4>3. Slots(x)' = IF x = hand[t] THEN Slots(x) \cup {n} ELSE Slots(x)
        BY <4>2 DEF Slots
      <4> QED
        BY <4>3 DEF n
    <3>5. CASE x = hand[t]
      <4>1. Hands(x) = {t} /\ Slots(x) = {} /\ Runners(x) = {} /\ future[x] = "pending"
        BY <1>f, <3>2, <3>5 DEF TaskFollows, Hands, Carriers
      <4>2. Slots(x)' = {Len(buffer) + 1} /\ Hands(x)' = {} /\ runs[x] = 0
        BY <1>f, <3>3, <3>4, <3>5, <4>1 DEF TaskFollows
      <4>3. \A i, j \in Slots(x)' : i = j
        BY <4>2
      <4> QED
        BY <2>p, <4>1, <4>2, <4>3 DEF TaskFollows, Carriers
    <3>6. CASE x # hand[t]
      BY <1>f, <2>p, <3>3, <3>4, <3>6, Unmoved DEF Hands
    <3> QED
      BY <3>5, <3>6
  <2>2. CASE PopTakes(t)
    <3>1. /\ at[t] = "pop" /\ buffer # << >> /\ buffer' = Tail(buffer)
          /\ hand' = [hand EXCEPT ![t] = Head(buffer)]
      BY <2>2 DEF PopTakes, Move
    <3>2. stage[t] = "popping" /\ hand[t] = NoItem
      BY <1>s, <3>1 DEF StageFollows, AtPush, Popped, Pushed
    <3>t. /\ Head(buffer) \in Tasks /\ Head(buffer) = buffer[1] /\ 1 \in DOMAIN buffer
          /\ \A i \in DOMAIN buffer' : i + 1 \in DOMAIN buffer /\ buffer'[i] = buffer[i + 1]
          /\ \A i \in DOMAIN buffer :
                i # 1 => i - 1 \in DOMAIN buffer' /\ i = (i - 1) + 1
          /\ \A i, j \in DOMAIN buffer' : i + 1 = j + 1 => i = j
          /\ \A i \in DOMAIN buffer' : i + 1 # 1
      BY <1>u, <3>1, Taken
    <3>3. Hands(x)' = IF x = Head(buffer) THEN Hands(x) \cup {t} ELSE Hands(x)
      <4>1. Head(buffer) \in Tasks
        BY <3>t
      <4> DEFINE y == Head(buffer)
      <4>2. hand' = [hand EXCEPT ![t] = y] /\ y \in Tasks
        BY <3>1, <4>1
      <4> HIDE DEF y
      <4>3. Hands(x)' = IF x = y THEN Hands(x) \cup {t} ELSE Hands(x)
        BY <1>t, <1>n, <2>p, <3>2, <4>2 DEF Hands
      <4> QED
        BY <4>3 DEF y
    <3>4. CASE x = Head(buffer)
      <4>1. Slots(x) = {1} /\ Hands(x) = {} /\ Runners(x) = {} /\ future[x] = "pending"
        BY <1>f, <3>t, <3>4 DEF TaskFollows, Slots, Carriers
      <4>2. Slots(x)' = {}
        <5>1. ASSUME NEW i \in Slots(x)' PROVE FALSE
          <6>1. i \in DOMAIN buffer' /\ i + 1 \in Slots(x)
            BY <3>t, <5>1 DEF Slots
          <6> QED
            BY <3>t, <4>1, <6>1
        <5> QED
          BY <5>1
      <4>3. runs[x] = 0
        BY <1>f, <4>1 DEF TaskFollows
      <4> QED
        BY <2>p, <3>3, <3>4, <4>1, <4>2, <4>3 DEF TaskFollows, Carriers
    <3>5. CASE x # Head(buffer)
      <4>1. \A i \in Slots(x)' : i \in DOMAIN buffer' /\ i + 1 \in Slots(x)
        BY <3>t DEF Slots
      <4>2. \A i \in Slots(x) : i - 1 \in Slots(x)'
        BY <3>t, <3>5 DEF Slots
      <4>3. \A i, j \in Slots(x)' : i = j
        BY <1>f, <3>t, <4>1 DEF TaskFollows
      <4>4. Slots(x)' = {} <=> Slots(x) = {}
        BY <4>1, <4>2
      <4>5. Hands(x)' = Hands(x)
        BY <3>3, <3>5
      <4> QED
        BY <1>f, <2>p, <4>3, <4>4, <4>5 DEF TaskFollows, Carriers
    <3> QED
      BY <3>4, <3>5
  <2>3. CASE UNCHANGED <<hand, buffer>>
    BY <1>f, <2>p, <2>3, Unmoved DEF Slots, Hands
  <2>4. PushAppends(t) \/ PopTakes(t) \/ UNCHANGED <<hand, buffer>>
    BY <1>10 DEF QueueStep, PushSleeps, PushRejected, WakePopper, PopSleeps, PopDrained,
                 WakePusher, SetClosed, WakePoppers, WakePushers, Leave, NotifyOne, NotifyAll
  <2> QED
    BY <2>1, <2>2, <2>3, <2>4
<1>11. CASE UNCHANGED <<hand, buffer, pvars>>
  BY <1>f, <1>11, Unmoved DEF pvars, Slots, Hands, Runners
<1> QED
  BY <1>1, <1>3, <1>4, <1>5, <1>6, <1>7, <1>8, <1>9, <1>10, <1>11
     DEF Next, InsideQueue, SpuriousWakeup, Finished, vars, qvars

-----------------------------------------------------------------------------
\* The drain: what is true of a worker that has left, or is about to, stays true.

LEMMA InitDrain == Init => DrainFollows
  BY DEF Init, DrainFollows, Threads, Workers, Stoppers

\* A thread that has seen the queue closed and drained.
Leaving(w) == stage[w] = "exited" \/ (stage[w] = "popping" /\ Drained(w))

LEMMA StepDrain == PoolTypeOK /\ Custody /\ [Next]_vars => DrainFollows'
<1> SUFFICES ASSUME PoolTypeOK, Custody, [Next]_vars PROVE DrainFollows'
  OBVIOUS
<1>w. Workers \subseteq Threads /\ Clients \subseteq Threads /\ Stoppers \subseteq Threads
  BY DEF Workers, Clients, Stoppers, Threads
<1>t. /\ at \in [Threads -> Places]
      /\ ret \in [Threads -> {"none", "accepted", "rejected", "item", "nullopt"}]
      /\ stage \in [Threads -> {"idle", "submitting", "looping", "popping", "running",
                               "exited", "closing", "stopped", "turned away"}]
      /\ \A t \in Threads : at[t] # "out" => ret[t] = "none"
  BY DEF PoolTypeOK, QueueTypeOK
<1>s. \A t \in Threads : StageFollows(t)
  BY DEF Custody
<1>d. /\ \A w \in Workers : Leaving(w) => closed /\ buffer = << >>
      /\ \A s \in Stoppers : stage[s] = "stopped" => \A w \in Workers : stage[w] = "exited"
  BY DEF Custody, DrainFollows, Leaving

\* A closed and drained queue stays so, a worker that exited is gone, and nobody but
\* Join comes to be "stopped".
<1>1. closed /\ buffer = << >> => closed' /\ buffer' = << >>
  BY PoolStepsTheQueue
     DEF AnyNext, AnyStep, QueueStep, qvars, StartPush, StartPop, StartClose, Enter,
         PushSleeps, PushRejected, PushAppends, WakePopper, PopSleeps, PopDrained, PopTakes,
         WakePusher, SetClosed, WakePoppers, WakePushers, SpuriousWakeup, Leave, NotifyOne,
         NotifyAll
<1>2. \A w \in Workers : stage[w] = "exited" => stage'[w] = "exited"
  BY <1>t, <1>w, PoolAssumption
     DEF Next, Submit, Shutdown, ShutdownAgain, WorkerPops, WorkerBegins, WorkerEnds,
         WorkerExits, SubmitReturns, Join, InsideQueue, Finished, Turn, Outside, vars, pvars
<1>3. ASSUME NEW w \in Workers, Leaving(w)' PROVE Leaving(w) \/ (closed /\ buffer = << >>)
  <2>1. CASE \E t \in Threads : QueueStep(t) /\ UNCHANGED pvars
    <3>1. PICK t \in Threads : QueueStep(t)
      BY <2>1
    <3>2. stage' = stage
      BY <2>1 DEF pvars
    <3>3. CASE PopDrained(t)
      BY <3>3 DEF PopDrained
    <3>4. CASE PushSleeps(t) \/ PushRejected(t) \/ PushAppends(t) \/ PopSleeps(t)
               \/ PopTakes(t) \/ SetClosed(t)
      BY <1>3, <1>t, <1>w, <3>2, <3>4
         DEF PushSleeps, PushRejected, PushAppends, PopSleeps, PopTakes, SetClosed, Leave,
             Move, Leaving, Drained
    <3>5. CASE WakePopper(t) \/ WakePusher(t)
      BY <1>3, <1>t, <1>w, <3>2, <3>5
         DEF WakePopper, WakePusher, NotifyOne, At, Leaving, Drained
    <3>6. CASE WakePoppers(t)
      BY <1>3, <1>t, <1>w, <3>2, <3>6 DEF WakePoppers, NotifyAll, Leaving, Drained
    <3>7. CASE WakePushers(t)
      BY <1>3, <1>t, <1>w, <3>2, <3>7 DEF WakePushers, NotifyAll, Leaving, Drained
    <3> QED
      BY <3>1, <3>3, <3>4, <3>5, <3>6, <3>7 DEF QueueStep
  <2>2. CASE \E t \in Threads : SpuriousWakeup(t) /\ UNCHANGED pvars
    BY <1>3, <1>t, <1>w, <2>2 DEF SpuriousWakeup, Move, pvars, Leaving, Drained
  <2>3. CASE \E t \in Workers : WorkerPops(t)
    BY <1>3, <1>t, <1>w, <2>3 DEF WorkerPops, StartPop, Enter, Move, Turn, Leaving, Drained
  <2>4. CASE \E t \in Workers : WorkerExits(t)
    BY <1>3, <1>t, <1>w, <2>4 DEF WorkerExits, Turn, qvars, Leaving, Drained
  <2>5. CASE \E t \in Workers : WorkerBegins(t) \/ WorkerEnds(t)
    BY <1>3, <1>t, <1>w, <2>5 DEF WorkerBegins, WorkerEnds, Turn, qvars, Leaving, Drained
  <2>6. CASE \E t \in Clients \cup Workers : Submit(t)
    <3>1. PICK t \in Clients \cup Workers : Submit(t)
      BY <2>6
    <3>2. /\ stage' = [stage EXCEPT ![t] = "submitting"] /\ at' = [at EXCEPT ![t] = "push"]
          /\ ret' = [ret EXCEPT ![t] = "none"]
      BY <3>1 DEF Submit, StartPush, Enter, Move, Turn
    <3> QED
      BY <1>3, <1>t, <1>w, <3>2 DEF Leaving, Drained
  <2>7. CASE \E t \in Clients \cup Workers : SubmitReturns(t)
    BY <1>3, <1>t, <1>w, <2>7 DEF SubmitReturns, Turn, Outside, qvars, Leaving, Drained
  <2>8. CASE \E t \in Stoppers : Shutdown(t)
    BY <1>3, <1>t, <1>w, <2>8, PoolAssumption
       DEF Shutdown, StartClose, Enter, Move, Turn, Leaving, Drained
  <2>9. CASE \E t \in Stoppers : ShutdownAgain(t) \/ Join(t)
    BY <1>3, <1>t, <1>w, <2>9, PoolAssumption
       DEF ShutdownAgain, Join, Turn, qvars, Leaving, Drained
  <2>10. CASE UNCHANGED vars
    BY <1>3, <2>10 DEF vars, qvars, pvars, Leaving, Drained
  <2> QED
    BY <2>1, <2>2, <2>3, <2>4, <2>5, <2>6, <2>7, <2>8, <2>9, <2>10
       DEF Next, InsideQueue, Finished
<1>4. ASSUME NEW s \in Stoppers, stage'[s] = "stopped", stage[s] # "stopped"
      PROVE  \A w \in Workers : stage[w] = "exited"
  BY <1>4, <1>t, <1>w, PoolAssumption
     DEF Next, Submit, Shutdown, ShutdownAgain, WorkerPops, WorkerBegins, WorkerEnds,
         WorkerExits, SubmitReturns, Join, InsideQueue, Finished, Turn, Outside, vars, pvars
<1>5. \A w \in Workers : Leaving(w)' => closed' /\ buffer' = << >>
  BY <1>d, <1>1, <1>3
<1>6. \A s \in Stoppers : stage'[s] = "stopped" => \A w \in Workers : stage'[w] = "exited"
  BY <1>d, <1>2, <1>4
<1> QED
  BY <1>5, <1>6 DEF DrainFollows, Leaving

-----------------------------------------------------------------------------
\* What the invariant says of the pool.

LEMMA CustodyPlaces ==
    ASSUME PoolTypeOK, Custody PROVE EveryTaskHasOnePlace
<1> SUFFICES ASSUME NEW x \in Tasks
             PROVE  /\ Cardinality(Slots(x)) + Cardinality(Carriers(x))
                          = (IF future[x] = "pending" THEN 1 ELSE 0)
                    /\ runs[x] = IF future[x] = "ready" \/ \E w \in Workers : task[w] = x
                                THEN 1 ELSE 0
  BY DEF EveryTaskHasOnePlace
<1>1. TaskFollows(x)
  BY DEF Custody
<1>2. Cardinality({}) = 0 /\ \A e : Cardinality({e}) = 1
  BY FS_EmptySet, FS_Singleton
<1>3. ASSUME NEW S, S # {}, \A a, b \in S : a = b PROVE Cardinality(S) = 1
  <2>1. PICK e : S = {e}
    BY <1>3
  <2> QED
    BY <1>2, <2>1
<1>4. CASE Slots(x) # {}
  <2>1. Carriers(x) = {} /\ future[x] = "pending" /\ Cardinality(Slots(x)) = 1
    BY <1>1, <1>3, <1>4 DEF TaskFollows
  <2> QED
    BY <1>1, <1>2, <2>1 DEF TaskFollows, Carriers, Runners
<1>5. CASE Carriers(x) # {}
  <2>1. \A a, b \in Carriers(x) : a = b
    BY <1>1 DEF TaskFollows, Carriers
  <2>2. Slots(x) = {} /\ future[x] = "pending" /\ Cardinality(Carriers(x)) = 1
    BY <1>1, <1>3, <1>5, <2>1 DEF TaskFollows
  <2>3. runs[x] = IF future[x] = "ready" \/ \E w \in Workers : task[w] = x THEN 1 ELSE 0
    BY <1>1 DEF TaskFollows, Runners
  <2> QED
    BY <1>2, <2>2, <2>3
<1>6. CASE Slots(x) = {} /\ Carriers(x) = {}
  <2>1. future[x] # "pending"
    BY <1>1, <1>6 DEF TaskFollows
  <2>2. runs[x] = IF future[x] = "ready" \/ \E w \in Workers : task[w] = x THEN 1 ELSE 0
    BY <1>1 DEF TaskFollows, Runners
  <2> QED
    BY <1>2, <1>6, <2>1, <2>2
<1> QED
  BY <1>4, <1>5, <1>6

LEMMA CustodyDrains ==
    ASSUME PoolTypeOK, Custody PROVE ShutdownDrains
<1> SUFFICES ASSUME NEW s \in Stoppers, stage[s] = "stopped"
             PROVE  /\ buffer = << >>
                    /\ \A w \in Workers : stage[w] = "exited"
                    /\ \A x \in Tasks : future[x] = "pending" =>
                          \E c \in Clients : hand[c] = x /\ stage[c] = "submitting"
  BY DEF ShutdownDrains
<1>1. /\ \A w \in Workers : stage[w] = "exited"
      /\ buffer = << >>
  BY PoolAssumption DEF Custody, DrainFollows
<1>2. ASSUME NEW x \in Tasks, future[x] = "pending"
      PROVE  \E c \in Clients : hand[c] = x /\ stage[c] = "submitting"
  <2>1. Slots(x) = {}
    BY <1>1 DEF Slots
  <2>2. Runners(x) = {}
    BY <1>1, QueueAssumption DEF Runners, PoolTypeOK, Tasks
  <2>3. PICK c \in Threads : stage[c] \in {"submitting", "popping"} /\ hand[c] = x
    BY <1>2, <2>1, <2>2 DEF Custody, TaskFollows, Carriers, Hands
  <2>4. c \in Clients /\ stage[c] = "submitting"
    BY <1>1, <2>3 DEF Custody, StageFollows
  <2> QED
    BY <2>3, <2>4
<1> QED
  BY <1>1, <1>2

-----------------------------------------------------------------------------
\* The inductive invariant of the pool: what a thread does with the pool is what it
\* does in the queue, every task is where submit() and workerLoop() last put it, and a
\* worker that was told "closed and drained" was told so for good.
THEOREM CustodyHolds == Spec => [](PoolTypeOK /\ Custody)
<1>1. Init => PoolTypeOK /\ Custody
  BY InitPoolTypes, InitStages, InitTasks, InitDrain DEF Custody
<1>2. PoolTypeOK /\ Custody /\ [Next]_vars => (PoolTypeOK /\ Custody)'
  <2> SUFFICES ASSUME PoolTypeOK, Custody, [Next]_vars PROVE PoolTypeOK' /\ Custody'
    OBVIOUS
  <2>1. PoolTypeOK' /\ \A t \in Threads : StageFollows(t)'
    BY StepPoolTypes, StepStages DEF Custody
  <2>2. \A x \in Tasks : TaskFollows(x)'
    BY StepTasks
  <2> QED
    BY <2>1, <2>2, StepDrain DEF Custody
<1> QED
  BY <1>1, <1>2, PTL DEF Spec

\* Every variable of the pool keeps its type, for any number of threads and tasks: a
\* worker has a task exactly while it runs one.
THEOREM PoolTypeCorrect == Spec => []PoolTypeOK
  BY CustodyHolds, PTL

\* A submitted task is in one place, and is begun once, by the worker that ends it:
\* submit() and workerLoop(), with any capacity and any tasks that submit tasks.
THEOREM NoTaskIsLostOrShared == Spec => []EveryTaskHasOnePlace
  BY CustodyHolds, CustodyPlaces, PTL

\* When shutdown() returns, what submit() had got into the queue has run.
THEOREM ShutdownRunsTheRest == Spec => []ShutdownDrains
  BY CustodyHolds, CustodyDrains, PTL

\* The notifications of the queue are not lost when the workers that pop also push.
THEOREM PoolLosesNoWakeup == Spec => []NoLostWakeup
<1>1. Init => QueueTypeOK /\ NoLostWakeup
  BY InitTypes, InitCovers DEF Init
<1>2. QueueTypeOK /\ NoLostWakeup /\ [Next]_vars => (QueueTypeOK /\ NoLostWakeup)'
  BY PoolStepsTheQueue, StepTypes, StepCovers
<1> QED
  BY <1>1, <1>2, PTL DEF Spec

-----------------------------------------------------------------------------
\* The pool's queue keeps the queue's contract, though workers push as well as pop.

PoolQueue == INSTANCE QueueContract WITH
    Producers <- Clients \cup Workers,
    Consumers <- Workers,
    Closers   <- Stoppers,
    doing     <- doing,
    hand      <- hand,
    ret       <- ret,
    buffer    <- buffer,
    closed    <- closed

LEMMA PoolQueueFacts ==
    /\ PoolQueue!Threads = Threads
    /\ \A t \in Threads : \A operation, argument :
          Contract!Call(t, operation, argument) => PoolQueue!Call(t, operation, argument)
    /\ UNCHANGED Contract!cvars => UNCHANGED PoolQueue!cvars
<1>1. PoolQueue!Threads = Threads
  BY DEF PoolQueue!Threads, Threads, Clients, Workers, Stoppers
<1> QED
  BY <1>1 DEF Contract!Call, PoolQueue!Call, Contract!cvars, PoolQueue!cvars

LEMMA PoolTakesEffect ==
    ASSUME NEW t \in Threads, TakesEffect(t)
    PROVE  PoolQueue!Next
<1>1. \/ PoolQueue!Put(t) \/ PoolQueue!Refuse(t) \/ PoolQueue!Take(t)
      \/ PoolQueue!Drained(t) \/ PoolQueue!Shut(t) \/ PoolQueue!Return(t)
  BY DEF TakesEffect, Contract!Put, Contract!Refuse, Contract!Take, Contract!Drained,
         Contract!Shut, Contract!Return, Contract!Effect, Contract!Answer,
         PoolQueue!Put, PoolQueue!Refuse, PoolQueue!Take, PoolQueue!Drained,
         PoolQueue!Shut, PoolQueue!Return, PoolQueue!Effect, PoolQueue!Answer
<1> QED
  BY <1>1, PoolQueueFacts DEF PoolQueue!Next

LEMMA PoolStepImplements ==
    QueueTypeOK /\ [Next]_vars => [PoolQueue!Next]_(PoolQueue!cvars)
<1> SUFFICES ASSUME QueueTypeOK, [Next]_vars
             PROVE  PoolQueue!Next \/ UNCHANGED PoolQueue!cvars
  OBVIOUS
<1>0. Clients \subseteq Threads /\ Workers \subseteq Threads /\ Stoppers \subseteq Threads
  BY DEF Threads, Clients, Workers, Stoppers
<1>1. ASSUME NEW t \in Clients \cup Workers, Submit(t) PROVE PoolQueue!Next
  <2>1. PICK x \in Items : StartPush(t, x)
    BY <1>1, MadeIsNew DEF Submit, Tasks
  <2>2. PoolQueue!Call(t, "push", x)
    BY <1>0, <2>1, CallsAreCalls, PoolQueueFacts
  <2> QED
    BY <2>2 DEF PoolQueue!Next
<1>2. ASSUME NEW t \in Stoppers, Shutdown(t) PROVE PoolQueue!Next
  <2>1. PoolQueue!Call(t, "close", NoItem)
    BY <1>0, <1>2, CallsAreCalls, PoolQueueFacts DEF Shutdown
  <2> QED
    BY <2>1 DEF PoolQueue!Next
<1>3. ASSUME NEW t \in Workers, WorkerPops(t) PROVE PoolQueue!Next
  <2>1. PoolQueue!Call(t, "pop", NoItem)
    BY <1>0, <1>3, CallsAreCalls, PoolQueueFacts DEF WorkerPops
  <2> QED
    BY <2>1 DEF PoolQueue!Next
<1>4. ASSUME NEW t \in Threads, InsideQueue(t) \/ SpuriousWakeup(t)
      PROVE  PoolQueue!Next \/ UNCHANGED PoolQueue!cvars
  BY <1>4, InsideTakesEffect, PoolTakesEffect, PoolQueueFacts DEF InsideQueue
<1>5. ASSUME UNCHANGED qvars PROVE UNCHANGED PoolQueue!cvars
  BY <1>5 DEF qvars, PoolQueue!cvars, doing
<1>6. ASSUME NEW t, \/ ShutdownAgain(t) \/ WorkerBegins(t) \/ WorkerEnds(t)
                    \/ WorkerExits(t) \/ SubmitReturns(t) \/ Join(t)
      PROVE  UNCHANGED PoolQueue!cvars
  BY <1>5, <1>6 DEF ShutdownAgain, WorkerBegins, WorkerEnds, WorkerExits, SubmitReturns, Join
<1>7. CASE Finished \/ UNCHANGED vars
  BY <1>5, <1>7 DEF Finished, vars
<1> QED
  BY <1>1, <1>2, <1>3, <1>4, <1>6, <1>7 DEF Next

\* To the pool its queue is a bounded FIFO whose operations take effect at one instant:
\* tasks are begun in the order they were queued in, tasks that tasks submit included,
\* and nothing is queued once shutdown() has closed it.
THEOREM PoolQueueKeepsContract == Spec => PoolQueue!Spec
<1>1. Init => PoolQueue!Init
  BY PoolQueueFacts DEF Init, QueueInit, PoolQueue!Init, doing, Operation
<1>2. QueueTypeOK /\ [Next]_vars => [PoolQueue!Next]_(PoolQueue!cvars)
  BY PoolStepImplements
<1>3. PoolTypeOK => QueueTypeOK
  BY DEF PoolTypeOK
<1> QED
  BY <1>1, <1>2, <1>3, PoolTypeCorrect, PTL DEF Spec, PoolQueue!Spec
=============================================================================
