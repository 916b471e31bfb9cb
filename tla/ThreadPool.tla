------------------------------ MODULE ThreadPool ------------------------------
(***************************************************************************)
(* infra/ThreadPool.hpp, on top of BlockingQueue: clients submit tasks,    *)
(* workers run workerLoop(), and whoever shuts the pool down closes the    *)
(* queue and joins the workers.  A task ends (with a value or with an      *)
(* exception, its packaged_task holds either), and may submit others to    *)
(* the pool it runs in before it does.                                     *)
(***************************************************************************)
EXTENDS BlockingQueue

CONSTANT Subtasks       \* the tasks that tasks submit

Clients  == Producers
Workers  == Consumers
Stoppers == Closers
Tasks    == Items

ASSUME PoolAssumption ==
    /\ Workers \cap (Clients \cup Stoppers) = {}
    /\ Workers # {}
    /\ Subtasks \in SUBSET Tasks

VARIABLES
    stage,      \* what a thread does with the pool
    task,       \* the task a worker runs
    runs,       \* how often a task was begun
    future,     \* what submit() returned for it
    stopped     \* stopped_

pvars == <<stage, task, runs, future, stopped>>
vars  == <<qvars, pvars>>

\* "none": not submitted; "broken": its packaged_task was destroyed unrun.
FutureState == {"none", "pending", "ready", "broken"}

PoolTypeOK ==
    /\ QueueTypeOK
    /\ stage \in [Threads -> {"idle", "submitting", "looping", "popping", "running",
                              "exited", "closing", "stopped", "turned away"}]
    /\ task \in [Workers -> Tasks \cup {NoItem}]
    /\ \A w \in Workers : (task[w] # NoItem) <=> (stage[w] \in {"running", "submitting"})
    /\ runs \in [Tasks -> Nat]
    /\ future \in [Tasks -> FutureState]
    /\ stopped \in BOOLEAN

Init ==
    /\ QueueInit
    /\ stage = [t \in Threads |-> IF t \in Workers THEN "looping" ELSE "idle"]
    /\ task = [w \in Workers |-> NoItem]
    /\ runs = [x \in Tasks |-> 0]
    /\ future = [x \in Tasks |-> "none"]
    /\ stopped = FALSE

Turn(t, from, to) == stage[t] = from /\ stage' = [stage EXCEPT ![t] = to]

-----------------------------------------------------------------------------
\* submit(f): every call makes a task of its own.

\* What a thread does when it is not inside the pool.
Outside(t) == IF t \in Workers THEN "running" ELSE "idle"

NotYetMade(t) ==
    {x \in (IF t \in Workers THEN Subtasks ELSE Tasks \ Subtasks) : future[x] = "none"}

Submit(t) ==
    /\ Turn(t, Outside(t), "submitting")
    /\ NotYetMade(t) # {}
    /\ LET made == CHOOSE x \in NotYetMade(t) : TRUE
       IN  /\ future' = [future EXCEPT ![made] = "pending"]
           /\ StartPush(t, made)
    /\ UNCHANGED <<task, runs, stopped>>

\* Mutant of SubmitReturns: a future is expected to be served all the same.
SubmitReturnsHopeful(t) ==
    /\ at[t] = "out"
    /\ Turn(t, "submitting", Outside(t))
    /\ UNCHANGED <<qvars, task, runs, future, stopped>>

\* The verdict of push() is not looked at; what a rejected push still has in hand
\* is destroyed here.
SubmitReturns(t) ==
    /\ at[t] = "out"
    /\ Turn(t, "submitting", Outside(t))
    /\ future' = IF ret[t] = "rejected" THEN [future EXCEPT ![hand[t]] = "broken"]
                                        ELSE future
    /\ UNCHANGED <<qvars, task, runs, stopped>>

-----------------------------------------------------------------------------
\* workerLoop()

WorkerPops(t) ==
    /\ Turn(t, "looping", "popping")
    /\ StartPop(t)
    /\ UNCHANGED <<task, runs, future, stopped>>

WorkerBegins(t) ==
    /\ at[t] = "out" /\ ret[t] = "item"
    /\ Turn(t, "popping", "running")
    /\ task' = [task EXCEPT ![t] = hand[t]]
    /\ runs' = [runs EXCEPT ![hand[t]] = @ + 1]
    /\ UNCHANGED <<qvars, future, stopped>>

WorkerEnds(t) ==
    /\ Turn(t, "running", "looping")
    /\ future' = [future EXCEPT ![task[t]] = "ready"]
    /\ task' = [task EXCEPT ![t] = NoItem]
    /\ UNCHANGED <<qvars, runs, stopped>>

WorkerExits(t) ==
    /\ at[t] = "out" /\ ret[t] = "nullopt"
    /\ Turn(t, "popping", "exited")
    /\ UNCHANGED <<qvars, task, runs, future, stopped>>

-----------------------------------------------------------------------------
\* shutdown(), the destructor's too

Shutdown(t) ==
    /\ ~stopped
    /\ Turn(t, "idle", "closing")
    /\ stopped' = TRUE
    /\ StartClose(t)
    /\ UNCHANGED <<task, runs, future>>

\* stopped_.exchange(true) was true already.
ShutdownAgain(t) ==
    /\ stopped
    /\ Turn(t, "idle", "turned away")
    /\ UNCHANGED <<qvars, task, runs, future, stopped>>

\* Mutant of Join: the threads are detached.
JoinNobody(t) ==
    /\ at[t] = "out"
    /\ Turn(t, "closing", "stopped")
    /\ UNCHANGED <<qvars, task, runs, future, stopped>>

Join(t) ==
    /\ at[t] = "out"
    /\ \A w \in Workers : stage[w] = "exited"
    /\ Turn(t, "closing", "stopped")
    /\ UNCHANGED <<qvars, task, runs, future, stopped>>

-----------------------------------------------------------------------------
InsideQueue(t) == QueueStep(t) /\ UNCHANGED pvars

\* What a thread does of its own accord, once it has called the pool.
PoolStep(t) ==
    \/ InsideQueue(t)
    \/ SubmitReturns(t)
    \/ WorkerPops(t) \/ WorkerBegins(t) \/ WorkerEnds(t) \/ WorkerExits(t)
    \/ Join(t)

\* Nothing is left to submit, and the pool is gone: the only way to stop.
Finished ==
    /\ \A t \in Clients : NotYetMade(t) = {}
    /\ \A t \in Threads : stage[t] \in {"idle", "exited", "stopped", "turned away"}
    /\ stopped
    /\ UNCHANGED vars

Next ==
    \/ \E t \in Clients \cup Workers : Submit(t)
    \/ \E t \in Stoppers : Shutdown(t) \/ ShutdownAgain(t)
    \/ \E t \in Workers : \/ WorkerPops(t) \/ WorkerBegins(t)
                          \/ WorkerEnds(t) \/ WorkerExits(t)
    \/ \E t \in Clients \cup Workers : SubmitReturns(t)
    \/ \E t \in Stoppers : Join(t)
    \/ \E t \in Threads : InsideQueue(t) \/ (SpuriousWakeup(t) /\ UNCHANGED pvars)
    \/ Finished

Spec == Init /\ [][Next]_vars

\* Tasks end, and a thread that can go on does.
FairSpec == Spec /\ \A t \in Threads : WF_vars(PoolStep(t))

-----------------------------------------------------------------------------
\* Where a task may be between submit() and the end of its run.
Slots(x)    == {i \in DOMAIN buffer : buffer[i] = x}
Hands(x)    == {t \in Threads : stage[t] \in {"submitting", "popping"} /\ hand[t] = x}
Runners(x)  == {w \in Workers : task[w] = x}
Carriers(x) == Hands(x) \cup Runners(x)

\* A task whose future is pending is in one place only, the queue or one thread's
\* hands, and any other task in none; it is begun once, by the worker that ends it:
\* submit() and workerLoop() pass the ownership of tasks through push() and pop().
EveryTaskHasOnePlace ==
    \A x \in Tasks :
        /\ Cardinality(Slots(x)) + Cardinality(Carriers(x))
              = (IF future[x] = "pending" THEN 1 ELSE 0)
        /\ runs[x] = IF future[x] = "ready" \/ \E w \in Workers : task[w] = x
                    THEN 1 ELSE 0

\* When the shutdown() that closed the queue returns, whatever submit() had got
\* into the queue has run, and nobody is left to run more: "workers drain remaining
\* tasks", then join.
ShutdownDrains ==
    \A s \in Stoppers : stage[s] = "stopped" =>
        /\ buffer = << >>
        /\ \A w \in Workers : stage[w] = "exited"
        /\ \A x \in Tasks : future[x] = "pending" =>
              \E c \in Clients : hand[c] = x /\ stage[c] = "submitting"

\* Every worker runs a task that submits another to the full queue.
Jammed == ~closed /\ ~HasRoom /\ \A w \in Workers : at[w] \in {"push", "pushWait"}

\* Every future is served or broken, never left pending: no submit() blocked on a
\* full queue, no worker asleep beside a task, no shutdown in between keeps it so, and
\* only all workers blocked in submit() at once does, until somebody shuts the pool down.
EveryFutureSettles ==
    LET Pending == {x \in Tasks : future[x] = "pending"}
    IN  Pending # {} ~> Pending = {} \/ Jammed

\* shutdown() returns: the workers it joins see the queue closed, be they asleep in
\* pop() or jammed in submit(), and exit.
ShutdownReturns ==
    LET Closing == {s \in Stoppers : stage[s] = "closing"}
    IN  Closing # {} ~> Closing = {}
=============================================================================
