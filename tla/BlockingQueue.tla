---------------------------- MODULE BlockingQueue -----------------------------
(***************************************************************************)
(* infra/BlockingQueue.hpp.  What a thread does while it holds mtx_ is one *)
(* step, and going to sleep gives mtx_ up in that same step.  The          *)
(* notification comes after the unlock and is a step of its own; a thread  *)
(* that wakes takes mtx_ again and looks at the predicate afresh.          *)
(***************************************************************************)
EXTENDS Sequences, Integers, FiniteSets

CONSTANTS
    Producers, Consumers, Closers,  \* the threads that push, pop and close
    Items,
    NoItem,                         \* std::nullopt
    Capacity                        \* 0 means unbounded

Threads == Producers \cup Consumers \cup Closers

ASSUME QueueAssumption ==
    /\ NoItem \notin Items
    /\ Capacity \in Nat
    /\ IsFiniteSet(Threads)

VARIABLES
    at,         \* where a thread is in the operation it has called
    hand,       \* the argument of a push, the result of a pop
    ret,        \* how its last operation returned
    buffer,     \* queue_
    closed      \* closed_

qvars == <<at, hand, ret, buffer, closed>>

\* "pushWait" is asleep on notFull_, "popWait" on notEmpty_.
Places == {"out", "push", "pushWait", "wakePopper", "pop", "popWait", "wakePusher",
           "close", "wakePoppers", "wakePushers"}

QueueTypeOK ==
    /\ at \in [Threads -> Places]
    /\ hand \in [Threads -> Items \cup {NoItem}]
    /\ \A t \in Threads : at[t] \in {"push", "pushWait"} => hand[t] \in Items
    /\ ret \in [Threads -> {"none", "accepted", "rejected", "item", "nullopt"}]
    /\ \A t \in Threads : at[t] # "out" => ret[t] = "none"
    /\ buffer \in Seq(Items)
    /\ closed \in BOOLEAN

QueueInit ==
    /\ at = [t \in Threads |-> "out"]
    /\ hand = [t \in Threads |-> NoItem]
    /\ ret = [t \in Threads |-> "none"]
    /\ buffer = << >>
    /\ closed = FALSE

At(place) == {t \in Threads : at[t] = place}

\* ! isFullLocked()
HasRoom == Capacity = 0 \/ Len(buffer) < Capacity

Move(t, from, to) == at[t] = from /\ at' = [at EXCEPT ![t] = to]

Enter(t, place, argument) ==
    /\ Move(t, "out", place)
    /\ hand' = [hand EXCEPT ![t] = argument]
    /\ ret' = [ret EXCEPT ![t] = "none"]
    /\ UNCHANGED <<buffer, closed>>

Leave(t, from, verdict) ==
    /\ Move(t, from, "out")
    /\ ret' = [ret EXCEPT ![t] = verdict]
    /\ UNCHANGED <<hand, buffer, closed>>

\* notify_one, by the thread that returns: a sleeper, if there is one, wakes.
NotifyOne(t, from, asleep, awake, verdict) ==
    /\ at[t] = from
    /\ \/ At(asleep) = {} /\ at' = [at EXCEPT ![t] = "out"]
       \/ \E s \in At(asleep) : at' = [at EXCEPT ![t] = "out", ![s] = awake]
    /\ ret' = [ret EXCEPT ![t] = verdict]
    /\ UNCHANGED <<hand, buffer, closed>>

NotifyAll(t, from, to, asleep, awake) ==
    /\ at[t] = from
    /\ at' = [s \in Threads |-> IF s = t THEN to
                                ELSE IF at[s] = asleep THEN awake ELSE at[s]]
    /\ UNCHANGED <<hand, ret, buffer, closed>>

-----------------------------------------------------------------------------
\* push(item)

StartPush(t, x) == Enter(t, "push", x)

PushSleeps(t) ==
    /\ ~closed /\ ~HasRoom
    /\ Move(t, "push", "pushWait")
    /\ UNCHANGED <<hand, ret, buffer, closed>>

PushRejected(t) == closed /\ Leave(t, "push", "rejected")

\* Mutant of PushAppends: the item has been moved from when it is queued.
PushAppendsMovedFrom(t) ==
    /\ ~closed /\ HasRoom
    /\ Move(t, "push", "wakePopper")
    /\ hand' = [hand EXCEPT ![t] = NoItem]
    /\ buffer' = Append(buffer, hand'[t])
    /\ UNCHANGED <<ret, closed>>

PushAppends(t) ==
    /\ ~closed /\ HasRoom
    /\ Move(t, "push", "wakePopper")
    /\ buffer' = Append(buffer, hand[t])
    /\ hand' = [hand EXCEPT ![t] = NoItem]
    /\ UNCHANGED <<ret, closed>>

\* Mutant of WakePopper: only the first item is worth a notification.
WakePopperIfFirst(t) ==
    IF Len(buffer) = 1 THEN NotifyOne(t, "wakePopper", "popWait", "pop", "accepted")
    ELSE /\ Move(t, "wakePopper", "out")
         /\ ret' = [ret EXCEPT ![t] = "accepted"]
         /\ UNCHANGED <<hand, buffer, closed>>

WakePopper(t) == NotifyOne(t, "wakePopper", "popWait", "pop", "accepted")

-----------------------------------------------------------------------------
\* pop()

StartPop(t) == Enter(t, "pop", NoItem)

PopSleeps(t) ==
    /\ ~closed /\ buffer = << >>
    /\ Move(t, "pop", "popWait")
    /\ UNCHANGED <<hand, ret, buffer, closed>>

PopDrained(t) == closed /\ buffer = << >> /\ Leave(t, "pop", "nullopt")

\* Mutant of PopTakes: a closed queue is left with its items in it.
PopTakesWhileOpen(t) ==
    /\ ~closed /\ buffer # << >>
    /\ Move(t, "pop", "wakePusher")
    /\ hand' = [hand EXCEPT ![t] = Head(buffer)]
    /\ buffer' = Tail(buffer)
    /\ UNCHANGED <<ret, closed>>

PopTakes(t) ==
    /\ buffer # << >>
    /\ Move(t, "pop", "wakePusher")
    /\ hand' = [hand EXCEPT ![t] = Head(buffer)]
    /\ buffer' = Tail(buffer)
    /\ UNCHANGED <<ret, closed>>

WakePusher(t) == NotifyOne(t, "wakePusher", "pushWait", "push", "item")

-----------------------------------------------------------------------------
\* close()

StartClose(t) == Enter(t, "close", NoItem)

SetClosed(t) ==
    /\ Move(t, "close", "wakePoppers")
    /\ closed' = TRUE
    /\ UNCHANGED <<hand, ret, buffer>>

\* Mutant of WakePoppers: close() notifies the producers only.
WakePoppersForgotten(t) ==
    /\ Move(t, "wakePoppers", "wakePushers")
    /\ UNCHANGED <<hand, ret, buffer, closed>>

WakePoppers(t) == NotifyAll(t, "wakePoppers", "wakePushers", "popWait", "pop")
WakePushers(t) == NotifyAll(t, "wakePushers", "out", "pushWait", "push")

-----------------------------------------------------------------------------
\* A condition variable may wake a sleeper for no reason.
SpuriousWakeup(t) ==
    /\ Move(t, "pushWait", "push") \/ Move(t, "popWait", "pop")
    /\ UNCHANGED <<hand, ret, buffer, closed>>

\* What a thread inside an operation does of its own accord.
QueueStep(t) ==
    \/ PushSleeps(t) \/ PushRejected(t) \/ PushAppends(t) \/ WakePopper(t)
    \/ PopSleeps(t) \/ PopDrained(t) \/ PopTakes(t) \/ WakePusher(t)
    \/ SetClosed(t) \/ WakePoppers(t) \/ WakePushers(t)

QueueNext ==
    \/ \E t \in Producers, x \in Items : StartPush(t, x)
    \/ \E t \in Consumers : StartPop(t)
    \/ \E t \in Closers : StartClose(t)
    \/ \E t \in Threads : QueueStep(t) \/ SpuriousWakeup(t)

QueueSpec == QueueInit /\ [][QueueNext]_qvars

\* A thread that can go on does; nobody has to call, and no sleeper has to wake
\* without a reason.
FairQueueSpec == QueueSpec /\ \A t \in Threads : WF_qvars(QueueStep(t))

-----------------------------------------------------------------------------
\* While somebody sleeps on a condition variable of an open queue, every item (every
\* free place) has a thread awake that will look for it or that is about to wake
\* one; on a closed queue whoever closed it is about to: push(), pop() and close()
\* notify after they unlock, one thread at a time, and a thread that never slept may
\* be there first.
NoLostWakeup ==
    /\ At("popWait") # {} =>
         IF closed THEN At("wakePoppers") # {}
         ELSE Len(buffer) <= Cardinality(At("pop")) + Cardinality(At("wakePopper"))
    /\ At("pushWait") # {} =>
         IF closed THEN At("wakePoppers") \cup At("wakePushers") # {}
         ELSE Capacity - Len(buffer)
                <= Cardinality(At("push")) + Cardinality(At("wakePusher"))

\* The operation a thread is in, or has done: an operation takes effect in its
\* critical section, and a sleeper is still before it.
Operation(place) ==
    CASE place \in {"push", "pushWait"} -> "push"
      [] place \in {"pop", "popWait"}   -> "pop"
      [] place = "close"                -> "close"
      [] place = "wakePopper"           -> "pushed"
      [] place = "wakePusher"           -> "popped"
      [] place \in {"wakePoppers", "wakePushers"} -> "shut"
      [] place = "out"                  -> "nothing"

doing == [t \in Threads |-> Operation(at[t])]

Contract == INSTANCE QueueContract WITH
    doing  <- doing,
    hand   <- hand,
    ret    <- ret,
    buffer <- buffer,
    closed <- closed

\* Mutex, condition variables and notifications together give push(), pop() and
\* close() the atomic effects of a bounded FIFO, and nobody waits in vain.
ImplementsContract == Contract!FairSpec
=============================================================================
