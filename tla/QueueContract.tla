---------------------------- MODULE QueueContract -----------------------------
(***************************************************************************)
(* What infra/BlockingQueue.hpp promises its callers, without mutex,       *)
(* condition variables or notifications: push, pop and close each take     *)
(* effect at one instant between the call and its return, on a FIFO queue  *)
(* of bounded length.  A push waits while the queue is full, a pop while   *)
(* it is empty, and once the queue is closed a push is refused and a pop   *)
(* gets what is left and then nothing.                                     *)
(***************************************************************************)
EXTENDS Sequences, Integers

CONSTANTS
    Producers, Consumers, Closers,  \* the threads that push, pop and close
    Items,
    NoItem,                         \* std::nullopt
    Capacity                        \* 0 means unbounded

Threads == Producers \cup Consumers \cup Closers

VARIABLES
    doing,      \* the operation a thread is in, or the one it is to return from
    hand,       \* the argument of a push, the result of a pop
    ret,        \* how the last operation returned
    buffer,
    closed

cvars == <<doing, hand, ret, buffer, closed>>

Init ==
    /\ doing = [t \in Threads |-> "nothing"]
    /\ hand = [t \in Threads |-> NoItem]
    /\ ret = [t \in Threads |-> "none"]
    /\ buffer = << >>
    /\ closed = FALSE

Call(t, operation, argument) ==
    /\ doing[t] = "nothing"
    /\ doing' = [doing EXCEPT ![t] = operation]
    /\ hand' = [hand EXCEPT ![t] = argument]
    /\ ret' = [ret EXCEPT ![t] = "none"]
    /\ UNCHANGED <<buffer, closed>>

\* The effect of an operation, which is to return later.
Effect(t, operation, done) ==
    /\ doing[t] = operation
    /\ doing' = [doing EXCEPT ![t] = done]
    /\ UNCHANGED ret

\* How an operation returns, after its effect or without one: a push that is refused
\* still has its argument in hand.
Answer(t, stage, verdict) ==
    /\ doing[t] = stage
    /\ doing' = [doing EXCEPT ![t] = "nothing"]
    /\ ret' = [ret EXCEPT ![t] = verdict]
    /\ UNCHANGED <<hand, buffer, closed>>

Put(t) ==
    /\ ~closed
    /\ Capacity = 0 \/ Len(buffer) < Capacity
    /\ Effect(t, "push", "pushed")
    /\ hand' = [hand EXCEPT ![t] = NoItem]
    /\ buffer' = Append(buffer, hand[t])
    /\ UNCHANGED closed

Refuse(t) == closed /\ Answer(t, "push", "rejected")

Take(t) ==
    /\ buffer # << >>
    /\ Effect(t, "pop", "popped")
    /\ hand' = [hand EXCEPT ![t] = Head(buffer)]
    /\ buffer' = Tail(buffer)
    /\ UNCHANGED closed

Drained(t) == closed /\ buffer = << >> /\ Answer(t, "pop", "nullopt")

Shut(t) ==
    /\ Effect(t, "close", "shut")
    /\ closed' = TRUE
    /\ UNCHANGED <<hand, buffer>>

Return(t) ==
    \/ Answer(t, "pushed", "accepted")
    \/ Answer(t, "popped", "item")
    \/ Answer(t, "shut", "none")

Next ==
    \/ \E t \in Producers, x \in Items : Call(t, "push", x)
    \/ \E t \in Consumers : Call(t, "pop", NoItem)
    \/ \E t \in Closers : Call(t, "close", NoItem)
    \/ \E t \in Threads : \/ Put(t) \/ Refuse(t) \/ Take(t) \/ Drained(t)
                          \/ Shut(t) \/ Return(t)

Spec == Init /\ [][Next]_cvars

\* Whoever comes first may have the room or the item, but someone does; and
\* nobody is kept waiting by a closed queue.
Fairness ==
    /\ WF_cvars(\E t \in Threads : Put(t))
    /\ WF_cvars(\E t \in Threads : Take(t))
    /\ \A t \in Threads :
          /\ WF_cvars(Refuse(t))
          /\ WF_cvars(Drained(t))
          /\ WF_cvars(Shut(t))
          /\ WF_cvars(Return(t))

FairSpec == Spec /\ Fairness
=============================================================================
