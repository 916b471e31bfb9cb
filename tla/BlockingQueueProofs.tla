------------------------- MODULE BlockingQueueProofs --------------------------
(***************************************************************************)
(* Theorems of BlockingQueue: for any threads, any items and any capacity, *)
(* no wakeup is lost, and every step of the queue is a step of its         *)
(* contract or leaves the contract's state as it is.                       *)
(***************************************************************************)
EXTENDS BlockingQueue, FiniteSetTheorems, TLAPS

-----------------------------------------------------------------------------
\* Types.

LEMMA InitTypes == QueueInit => QueueTypeOK
<1>1. << >> \in Seq(Items)
  OBVIOUS
<1> QED
  BY <1>1 DEF QueueInit, QueueTypeOK, Places

\* A step of the queue, whoever calls it: a pool's workers push as well as pop.
AnyStep(t) ==
    \/ \E x \in Items : StartPush(t, x)
    \/ StartPop(t) \/ StartClose(t)
    \/ QueueStep(t) \/ SpuriousWakeup(t)

AnyNext == \E t \in Threads : AnyStep(t)

LEMMA NextIsAny == [QueueNext]_qvars => [AnyNext]_qvars
  BY DEF QueueNext, AnyNext, AnyStep, Threads

LEMMA StepTypes == QueueTypeOK /\ [AnyNext]_qvars => QueueTypeOK'
<1> SUFFICES ASSUME QueueTypeOK, [AnyNext]_qvars PROVE QueueTypeOK'
  OBVIOUS
<1> USE DEF QueueTypeOK, Places, Move, Enter, Leave, NotifyOne, NotifyAll
<1>1. CASE \E t \in Threads, x \in Items : StartPush(t, x)
  BY <1>1 DEF StartPush
<1>2. CASE \E t \in Threads : StartPop(t)
  BY <1>2 DEF StartPop
<1>3. CASE \E t \in Threads : StartClose(t)
  BY <1>3 DEF StartClose
<1>4. ASSUME NEW t \in Threads, QueueStep(t) PROVE QueueTypeOK'
  <2>1. CASE PushSleeps(t)
    BY <2>1 DEF PushSleeps
  <2>2. CASE PushRejected(t)
    BY <2>2 DEF PushRejected
  <2>3. CASE PushAppends(t)
    BY <2>3 DEF PushAppends
  <2>4. CASE WakePopper(t)
    BY <2>4 DEF WakePopper, At
  <2>5. CASE PopSleeps(t)
    BY <2>5 DEF PopSleeps
  <2>6. CASE PopDrained(t)
    BY <2>6 DEF PopDrained
  <2>7. CASE PopTakes(t)
    BY <2>7 DEF PopTakes
  <2>8. CASE WakePusher(t)
    BY <2>8 DEF WakePusher, At
  <2>9. CASE SetClosed(t)
    BY <2>9 DEF SetClosed
  <2>10. CASE WakePoppers(t)
    BY <2>10 DEF WakePoppers
  <2>11. CASE WakePushers(t)
    BY <2>11 DEF WakePushers
  <2> QED
    BY <1>4, <2>1, <2>2, <2>3, <2>4, <2>5, <2>6, <2>7, <2>8, <2>9, <2>10, <2>11
       DEF QueueStep
<1>5. CASE \E t \in Threads : SpuriousWakeup(t)
  BY <1>5 DEF SpuriousWakeup
<1>6. CASE UNCHANGED qvars
  BY <1>6 DEF qvars
<1> QED
  BY <1>1, <1>2, <1>3, <1>4, <1>5, <1>6 DEF AnyNext, AnyStep

\* Every variable of the queue keeps its type: infra/BlockingQueue.hpp, whole.
THEOREM QueueTypeCorrect == QueueSpec => []QueueTypeOK
  BY InitTypes, NextIsAny, StepTypes, PTL DEF QueueSpec

-----------------------------------------------------------------------------
\* Counting threads.

Where(f, place) == {t \in Threads : f[t] = place}

LEMMA WhereIsFinite ==
    ASSUME NEW f, NEW place
    PROVE  /\ IsFiniteSet(Where(f, place))
           /\ Cardinality(Where(f, place)) \in Nat
<1>1. IsFiniteSet(Threads)
  BY QueueAssumption
<1>2. Where(f, place) \in SUBSET Threads
  BY DEF Where
<1>3. IsFiniteSet(Where(f, place))
  BY <1>1, <1>2, FS_Subset
<1> QED
  BY <1>3, FS_CardinalityType

\* g is f with thread t gone from one place to another.
Moved(f, g, t, from, to) ==
    /\ Cardinality(Where(g, from)) = Cardinality(Where(f, from)) - 1
    /\ Cardinality(Where(g, to)) = Cardinality(Where(f, to)) + 1
    /\ \A place \in Places \ {from, to} : Where(g, place) = Where(f, place)
    /\ t \in Where(f, from) /\ t \in Where(g, to)

\* A thread that moves is one less in one place and one more in another.
LEMMA MoveCounts ==
    ASSUME NEW f \in [Threads -> Places], NEW t \in Threads,
           NEW from, NEW to \in Places, f[t] = from, from # to
    PROVE  LET g == [f EXCEPT ![t] = to]
           IN  g \in [Threads -> Places] /\ Moved(f, g, t, from, to)
<1> DEFINE g == [f EXCEPT ![t] = to]
<1>1. g \in [Threads -> Places]
  OBVIOUS
<1>2. Where(g, from) = Where(f, from) \ {t} /\ t \in Where(f, from)
  BY DEF Where
<1>3. Where(g, to) = Where(f, to) \cup {t} /\ t \notin Where(f, to)
  BY DEF Where
<1>4. Cardinality(Where(g, from)) = Cardinality(Where(f, from)) - 1
  BY <1>2, WhereIsFinite, FS_RemoveElement
<1>5. Cardinality(Where(g, to)) = Cardinality(Where(f, to)) + 1
  BY <1>3, WhereIsFinite, FS_AddElement
<1>6. \A place \in Places \ {from, to} : Where(g, place) = Where(f, place)
  BY DEF Where
<1> QED
  BY <1>1, <1>2, <1>3, <1>4, <1>5, <1>6 DEF Moved

\* The invariant in terms of one function and one buffer length.
Covered(f, n, shut) ==
    /\ Where(f, "popWait") # {} =>
         IF shut THEN Where(f, "wakePoppers") # {}
         ELSE n <= Cardinality(Where(f, "pop")) + Cardinality(Where(f, "wakePopper"))
    /\ Where(f, "pushWait") # {} =>
         IF shut THEN Where(f, "wakePoppers") \cup Where(f, "wakePushers") # {}
         ELSE Capacity - n
                <= Cardinality(Where(f, "push")) + Cardinality(Where(f, "wakePusher"))

\* How many threads are at one of two places.
Awake(f, p, q) == Cardinality(Where(f, p)) + Cardinality(Where(f, q))

\* On an open queue it is enough that nobody falls asleep and that the threads awake
\* grow by what there is to do.
LEMMA OpenStep ==
    ASSUME NEW f, NEW g, NEW n \in Nat, NEW m \in Nat, Covered(f, n, FALSE),
           Where(g, "popWait") = Where(f, "popWait"),
           Where(g, "pushWait") = Where(f, "pushWait"),
           Awake(g, "pop", "wakePopper") - Awake(f, "pop", "wakePopper") >= m - n,
           Awake(g, "push", "wakePusher") - Awake(f, "push", "wakePusher") >= n - m
    PROVE  Covered(g, m, FALSE)
<1>1. /\ Awake(f, "pop", "wakePopper") \in Nat /\ Awake(g, "pop", "wakePopper") \in Nat
      /\ Awake(f, "push", "wakePusher") \in Nat /\ Awake(g, "push", "wakePusher") \in Nat
      /\ Capacity \in Nat
  BY WhereIsFinite, QueueAssumption DEF Awake
<1>2. /\ Where(f, "popWait") # {} => n <= Awake(f, "pop", "wakePopper")
      /\ Where(f, "pushWait") # {} => Capacity - n <= Awake(f, "push", "wakePusher")
  BY DEF Covered, Awake
<1>3. Where(g, "popWait") # {} => m <= Awake(g, "pop", "wakePopper")
  BY <1>1, <1>2
<1>4. Where(g, "pushWait") # {} => Capacity - m <= Awake(g, "push", "wakePusher")
  BY <1>1, <1>2
<1> QED
  BY <1>3, <1>4 DEF Covered, Awake

LEMMA CoveredIsNoLostWakeup == NoLostWakeup <=> Covered(at, Len(buffer), closed)
  BY DEF NoLostWakeup, Covered, At, Where

-----------------------------------------------------------------------------
\* No lost wakeup.

LEMMA InitCovers == QueueInit => NoLostWakeup
  BY DEF QueueInit, NoLostWakeup, At

LEMMA StepCovers == QueueTypeOK /\ NoLostWakeup /\ [AnyNext]_qvars => NoLostWakeup'
<1> SUFFICES ASSUME QueueTypeOK, NoLostWakeup, [AnyNext]_qvars
             PROVE  Covered(at', Len(buffer'), closed')
  BY CoveredIsNoLostWakeup DEF NoLostWakeup, Covered, At, Where
<1>a. Covered(at, Len(buffer), closed)
  BY CoveredIsNoLostWakeup
<1>b. /\ at \in [Threads -> Places]
      /\ buffer \in Seq(Items) /\ Len(buffer) \in Nat
      /\ closed \in BOOLEAN
      /\ Capacity \in Nat
  BY QueueAssumption DEF QueueTypeOK
<1>c. /\ Cardinality(Where(at, "push")) \in Nat
      /\ Cardinality(Where(at, "pop")) \in Nat
      /\ Cardinality(Where(at, "wakePopper")) \in Nat
      /\ Cardinality(Where(at, "wakePusher")) \in Nat
      /\ Cardinality(Where(at', "push")) \in Nat
      /\ Cardinality(Where(at', "pop")) \in Nat
      /\ Cardinality(Where(at', "wakePopper")) \in Nat
      /\ Cardinality(Where(at', "wakePusher")) \in Nat
  BY WhereIsFinite
<1>1. ASSUME NEW t \in Threads, NEW place \in {"push", "pop", "close"},
             NEW argument, Enter(t, place, argument)
      PROVE  Covered(at', Len(buffer'), closed')
  <2>1. at[t] = "out" /\ at' = [at EXCEPT ![t] = place] /\ UNCHANGED <<buffer, closed>>
    BY <1>1 DEF Enter, Move
  <2>2. place \in Places /\ place # "out"
    BY DEF Places
  <2>3. Moved(at, at', t, "out", place)
    BY <1>b, <2>1, <2>2, MoveCounts
  <2>4. /\ \A p \in {"popWait", "wakePopper", "pushWait", "wakePusher",
                     "wakePoppers", "wakePushers"} : Where(at', p) = Where(at, p)
        /\ \A p \in {"push", "pop"} :
              Cardinality(Where(at', p)) >= Cardinality(Where(at, p))
    <3>1. CASE place = "push"
      BY <1>c, <2>3, <3>1 DEF Moved, Places
    <3>2. CASE place = "pop"
      BY <1>c, <2>3, <3>2 DEF Moved, Places
    <3>3. CASE place = "close"
      BY <1>c, <2>3, <3>3 DEF Moved, Places
    <3> QED
      BY <3>1, <3>2, <3>3
  <2>5. CASE closed
    BY <1>a, <2>1, <2>4, <2>5 DEF Covered
  <2>6. CASE ~closed
    <3> DEFINE n == Len(buffer)
    <3>1. /\ Awake(at', "pop", "wakePopper") - Awake(at, "pop", "wakePopper") >= n - n
          /\ Awake(at', "push", "wakePusher") - Awake(at, "push", "wakePusher") >= n - n
      BY <1>b, <1>c, <2>4 DEF Awake
    <3>2. closed = FALSE /\ closed' = FALSE /\ Len(buffer') = n
      BY <1>b, <2>1, <2>6
    <3>3. Covered(at, n, FALSE) /\ n \in Nat
      BY <1>a, <1>b, <3>2
    <3>4. /\ Where(at', "popWait") = Where(at, "popWait")
          /\ Where(at', "pushWait") = Where(at, "pushWait")
      BY <2>4
    <3> HIDE DEF n
    <3>5. Covered(at', n, FALSE)
      BY <3>1, <3>3, <3>4, OpenStep
    <3> QED
      BY <3>2, <3>5
  <2> QED
    BY <2>5, <2>6
<1>2. ASSUME NEW t \in Threads, QueueStep(t)
      PROVE  Covered(at', Len(buffer'), closed')
  <2>1. CASE PushSleeps(t)
    <3>1. /\ at[t] = "push" /\ at' = [at EXCEPT ![t] = "pushWait"]
          /\ UNCHANGED <<buffer, closed>> /\ ~closed /\ Capacity <= Len(buffer)
      BY <1>b, <2>1 DEF PushSleeps, Move, HasRoom
    <3>2. Moved(at, at', t, "push", "pushWait")
      BY <1>b, <3>1, MoveCounts DEF Places
    <3>3. /\ Where(at', "popWait") = Where(at, "popWait")
          /\ Where(at', "pop") = Where(at, "pop")
          /\ Where(at', "wakePopper") = Where(at, "wakePopper")
          /\ Where(at', "wakePusher") = Where(at, "wakePusher")
          /\ Cardinality(Where(at', "push")) = Cardinality(Where(at, "push")) - 1
      BY <3>2 DEF Moved, Places
    <3> QED
      BY <1>a, <1>b, <1>c, <3>1, <3>3 DEF Covered
  <2>2. CASE PushRejected(t)
    <3>1. /\ at[t] = "push" /\ at' = [at EXCEPT ![t] = "out"]
          /\ UNCHANGED <<buffer, closed>> /\ closed
      BY <2>2 DEF PushRejected, Leave, Move
    <3>2. Moved(at, at', t, "push", "out")
      BY <1>b, <3>1, MoveCounts DEF Places
    <3> QED
      BY <1>a, <1>b, <1>c, <3>1, <3>2 DEF Moved, Covered, Places
  <2>3. CASE PushAppends(t)
    <3>1. /\ at[t] = "push" /\ at' = [at EXCEPT ![t] = "wakePopper"]
          /\ UNCHANGED closed /\ ~closed
          /\ buffer' = Append(buffer, hand[t])
      BY <2>3 DEF PushAppends, Move
    <3>2. Len(buffer') = Len(buffer) + 1
      BY <1>b, <3>1
    <3>3. Moved(at, at', t, "push", "wakePopper")
      BY <1>b, <3>1, MoveCounts DEF Places
    <3>4. /\ Where(at', "popWait") = Where(at, "popWait")
          /\ Where(at', "pop") = Where(at, "pop")
          /\ Where(at', "pushWait") = Where(at, "pushWait")
          /\ Where(at', "wakePusher") = Where(at, "wakePusher")
          /\ Cardinality(Where(at', "push")) = Cardinality(Where(at, "push")) - 1
          /\ Cardinality(Where(at', "wakePopper")) = Cardinality(Where(at, "wakePopper")) + 1
      BY <3>3 DEF Moved, Places
    <3> DEFINE n == Len(buffer)
               m == Len(buffer')
    <3>5. /\ Awake(at', "pop", "wakePopper") - Awake(at, "pop", "wakePopper") >= m - n
          /\ Awake(at', "push", "wakePusher") - Awake(at, "push", "wakePusher") >= n - m
      BY <1>b, <1>c, <3>2, <3>4 DEF Awake
    <3>6. n \in Nat /\ m \in Nat
      BY <1>b, <3>1
    <3>7. /\ Where(at', "popWait") = Where(at, "popWait")
          /\ Where(at', "pushWait") = Where(at, "pushWait")
      BY <3>4
    <3>8. closed = FALSE /\ closed' = FALSE /\ Covered(at, n, FALSE)
      BY <1>a, <1>b, <3>1
    <3> HIDE DEF n, m
    <3>9. Covered(at', m, FALSE)
      BY <3>5, <3>6, <3>7, <3>8, OpenStep
    <3> QED
      BY <3>8, <3>9 DEF m
  <2>4. CASE WakePopper(t)
    <3>1. at[t] = "wakePopper" /\ UNCHANGED <<buffer, closed>>
      BY <2>4 DEF WakePopper, NotifyOne
    <3> DEFINE g == [at EXCEPT ![t] = "out"]
    <3>2. g \in [Threads -> Places] /\ Moved(at, g, t, "wakePopper", "out")
      BY <1>b, <3>1, MoveCounts DEF Places
    <3>3. CASE Where(at, "popWait") = {} /\ at' = g
      BY <1>a, <1>b, <1>c, <3>1, <3>2, <3>3 DEF Moved, Covered, Places
    <3>4. ASSUME NEW s \in Where(at, "popWait"), at' = [g EXCEPT ![s] = "pop"]
          PROVE  Covered(at', Len(buffer'), closed')
      <4>1. s \in Threads /\ g[s] = "popWait"
        BY <3>1, <3>4 DEF Where
      <4>2. Moved(g, at', s, "popWait", "pop")
        BY <3>2, <3>4, <4>1, MoveCounts DEF Places
      <4> HIDE DEF g
      <4>3. Where(at, "popWait") # {}
        BY <3>4
      <4> QED
        BY <1>a, <1>b, <1>c, <3>1, <3>2, <4>2, <4>3 DEF Moved, Covered, Places
    <3> QED
      BY <2>4, <3>3, <3>4 DEF WakePopper, NotifyOne, At, Where
  <2>5. CASE PopSleeps(t)
    <3>1. /\ at[t] = "pop" /\ at' = [at EXCEPT ![t] = "popWait"]
          /\ UNCHANGED <<buffer, closed>> /\ ~closed /\ Len(buffer) = 0
      BY <2>5 DEF PopSleeps, Move
    <3>2. Moved(at, at', t, "pop", "popWait")
      BY <1>b, <3>1, MoveCounts DEF Places
    <3>3. /\ Where(at', "pushWait") = Where(at, "pushWait")
          /\ Where(at', "push") = Where(at, "push")
          /\ Where(at', "wakePopper") = Where(at, "wakePopper")
          /\ Where(at', "wakePusher") = Where(at, "wakePusher")
          /\ Cardinality(Where(at', "pop")) = Cardinality(Where(at, "pop")) - 1
      BY <3>2 DEF Moved, Places
    <3>4. Len(buffer') <= Cardinality(Where(at', "pop"))
                             + Cardinality(Where(at', "wakePopper"))
      BY <1>c, <3>1
    <3>5. Where(at', "pushWait") # {} => Capacity - Len(buffer')
             <= Cardinality(Where(at', "push")) + Cardinality(Where(at', "wakePusher"))
      BY <1>a, <3>1, <3>3 DEF Covered
    <3> QED
      BY <3>1, <3>4, <3>5 DEF Covered
  <2>6. CASE PopDrained(t)
    <3>1. /\ at[t] = "pop" /\ at' = [at EXCEPT ![t] = "out"]
          /\ UNCHANGED <<buffer, closed>> /\ closed
      BY <2>6 DEF PopDrained, Leave, Move
    <3>2. Moved(at, at', t, "pop", "out")
      BY <1>b, <3>1, MoveCounts DEF Places
    <3> QED
      BY <1>a, <1>b, <1>c, <3>1, <3>2 DEF Moved, Covered, Places
  <2>7. CASE PopTakes(t)
    <3>1. /\ at[t] = "pop" /\ at' = [at EXCEPT ![t] = "wakePusher"]
          /\ UNCHANGED closed
          /\ buffer # << >> /\ buffer' = Tail(buffer)
      BY <2>7 DEF PopTakes, Move
    <3>2. Len(buffer') = Len(buffer) - 1
      BY <1>b, <3>1
    <3>3. Moved(at, at', t, "pop", "wakePusher")
      BY <1>b, <3>1, MoveCounts DEF Places
    <3>4. /\ Where(at', "pushWait") = Where(at, "pushWait")
          /\ Where(at', "push") = Where(at, "push")
          /\ Where(at', "popWait") = Where(at, "popWait")
          /\ Where(at', "wakePopper") = Where(at, "wakePopper")
          /\ Cardinality(Where(at', "pop")) = Cardinality(Where(at, "pop")) - 1
          /\ Cardinality(Where(at', "wakePusher")) = Cardinality(Where(at, "wakePusher")) + 1
      BY <3>3 DEF Moved, Places
    <3> DEFINE n == Len(buffer)
               m == Len(buffer')
    <3>5. /\ Awake(at', "pop", "wakePopper") - Awake(at, "pop", "wakePopper") >= m - n
          /\ Awake(at', "push", "wakePusher") - Awake(at, "push", "wakePusher") >= n - m
      BY <1>b, <1>c, <3>2, <3>4 DEF Awake
    <3>6. n \in Nat /\ m \in Nat
      BY <1>b, <3>1
    <3>7. /\ Where(at', "popWait") = Where(at, "popWait")
          /\ Where(at', "pushWait") = Where(at, "pushWait")
      BY <3>4
    <3> HIDE DEF n, m
    <3>8. CASE closed
      BY <1>a, <3>1, <3>3, <3>7, <3>8 DEF Covered, Moved, Places
    <3>9. CASE ~closed
      <4>1. closed = FALSE /\ closed' = FALSE /\ Covered(at, n, FALSE)
        BY <1>a, <1>b, <3>1, <3>9 DEF n
      <4>2. Covered(at', m, FALSE)
        BY <3>5, <3>6, <3>7, <4>1, OpenStep
      <4> QED
        BY <4>1, <4>2 DEF m
    <3> QED
      BY <3>8, <3>9
  <2>8. CASE WakePusher(t)
    <3>1. at[t] = "wakePusher" /\ UNCHANGED <<buffer, closed>>
      BY <2>8 DEF WakePusher, NotifyOne
    <3> DEFINE g == [at EXCEPT ![t] = "out"]
    <3>2. g \in [Threads -> Places] /\ Moved(at, g, t, "wakePusher", "out")
      BY <1>b, <3>1, MoveCounts DEF Places
    <3>3. CASE Where(at, "pushWait") = {} /\ at' = g
      BY <1>a, <1>b, <1>c, <3>1, <3>2, <3>3 DEF Moved, Covered, Places
    <3>4. ASSUME NEW s \in Where(at, "pushWait"), at' = [g EXCEPT ![s] = "push"]
          PROVE  Covered(at', Len(buffer'), closed')
      <4>1. s \in Threads /\ g[s] = "pushWait"
        BY <3>1, <3>4 DEF Where
      <4>2. Moved(g, at', s, "pushWait", "push")
        BY <3>2, <3>4, <4>1, MoveCounts DEF Places
      <4> HIDE DEF g
      <4>3. Where(at, "pushWait") # {}
        BY <3>4
      <4> QED
        BY <1>a, <1>b, <1>c, <3>1, <3>2, <4>2, <4>3 DEF Moved, Covered, Places
    <3> QED
      BY <2>8, <3>3, <3>4 DEF WakePusher, NotifyOne, At, Where
  <2>9. CASE SetClosed(t)
    <3>1. at[t] = "close" /\ at' = [at EXCEPT ![t] = "wakePoppers"] /\ closed'
      BY <2>9 DEF SetClosed, Move
    <3>2. Moved(at, at', t, "close", "wakePoppers")
      BY <1>b, <3>1, MoveCounts DEF Places
    <3> QED
      BY <3>1, <3>2 DEF Moved, Covered
  <2>10. CASE WakePoppers(t)
    <3>1. /\ UNCHANGED <<buffer, closed>>
          /\ at' = [s \in Threads |-> IF s = t THEN "wakePushers"
                                      ELSE IF at[s] = "popWait" THEN "pop" ELSE at[s]]
          /\ at[t] = "wakePoppers"
      BY <2>10 DEF WakePoppers, NotifyAll
    <3>2. /\ Where(at', "popWait") = {}
          /\ Where(at', "pushWait") = Where(at, "pushWait")
          /\ Where(at', "push") = Where(at, "push")
          /\ Where(at', "wakePusher") = Where(at, "wakePusher")
          /\ Where(at', "wakePushers") # {}
      BY <1>b, <3>1 DEF Where
    <3> QED
      BY <1>a, <3>1, <3>2 DEF Covered
  <2>11. CASE WakePushers(t)
    <3>1. /\ UNCHANGED <<buffer, closed>>
          /\ at' = [s \in Threads |-> IF s = t THEN "out"
                                      ELSE IF at[s] = "pushWait" THEN "push" ELSE at[s]]
          /\ at[t] = "wakePushers"
      BY <2>11 DEF WakePushers, NotifyAll
    <3>2. /\ Where(at', "pushWait") = {}
          /\ Where(at', "popWait") = Where(at, "popWait")
          /\ Where(at', "pop") = Where(at, "pop")
          /\ Where(at', "wakePopper") = Where(at, "wakePopper")
          /\ Where(at', "wakePoppers") = Where(at, "wakePoppers")
      BY <1>b, <3>1 DEF Where
    <3> QED
      BY <1>a, <3>1, <3>2 DEF Covered
  <2> QED
    BY <1>2, <2>1, <2>2, <2>3, <2>4, <2>5, <2>6, <2>7, <2>8, <2>9, <2>10, <2>11
       DEF QueueStep
<1>3. ASSUME NEW t \in Threads, SpuriousWakeup(t)
      PROVE  Covered(at', Len(buffer'), closed')
  <2>1. CASE Move(t, "pushWait", "push") /\ UNCHANGED <<buffer, closed>>
    <3>1. Moved(at, at', t, "pushWait", "push")
      BY <1>b, <2>1, MoveCounts DEF Places, Move
    <3> QED
      BY <1>a, <1>b, <1>c, <2>1, <3>1 DEF Moved, Covered, Places
  <2>2. CASE Move(t, "popWait", "pop") /\ UNCHANGED <<buffer, closed>>
    <3>1. Moved(at, at', t, "popWait", "pop")
      BY <1>b, <2>2, MoveCounts DEF Places, Move
    <3> QED
      BY <1>a, <1>b, <1>c, <2>2, <3>1 DEF Moved, Covered, Places
  <2> QED
    BY <1>3, <2>1, <2>2 DEF SpuriousWakeup
<1>4. CASE UNCHANGED qvars
  BY <1>a, <1>4 DEF qvars
<1> QED
  BY <1>1, <1>2, <1>3, <1>4 DEF AnyNext, AnyStep, StartPush, StartPop, StartClose

\* No item is left beside a sleeping consumer, and no room beside a sleeping
\* producer, without a thread awake for it: the notifications of push(), pop() and
\* close(), for any number of threads and any capacity.
THEOREM NoWakeupIsLost == QueueSpec => []NoLostWakeup
<1>1. QueueInit => QueueTypeOK /\ NoLostWakeup
  BY InitTypes, InitCovers
<1>2. QueueTypeOK /\ NoLostWakeup /\ [QueueNext]_qvars => (QueueTypeOK /\ NoLostWakeup)'
  BY NextIsAny, StepTypes, StepCovers
<1> QED
  BY <1>1, <1>2, PTL DEF QueueSpec

-----------------------------------------------------------------------------
\* The queue implements its contract.

\* What a thread's move is to the contract.
LEMMA DoingMoves ==
    ASSUME at \in [Threads -> Places], NEW t \in Threads, NEW to,
           at' = [at EXCEPT ![t] = to]
    PROVE  /\ doing' = [doing EXCEPT ![t] = Operation(to)]
           /\ doing[t] = Operation(at[t])
  BY DEF doing

\* Where a thread is says what it is doing, and falling asleep or waking changes nothing.
LEMMA OperationTable ==
    /\ Operation("push") = "push" /\ Operation("pushWait") = "push"
    /\ Operation("pop") = "pop" /\ Operation("popWait") = "pop"
    /\ Operation("wakePopper") = "pushed" /\ Operation("wakePusher") = "popped"
    /\ Operation("wakePoppers") = "shut" /\ Operation("wakePushers") = "shut"
    /\ Operation("out") = "nothing"
  BY DEF Operation

LEMMA DoingStays ==
    ASSUME \A s \in Threads : Operation(at'[s]) = Operation(at[s])
    PROVE  doing' = doing
  BY DEF doing

LEMMA DoingReturns ==
    ASSUME NEW t \in Threads, Operation(at'[t]) = "nothing",
           \A s \in Threads \ {t} : Operation(at'[s]) = Operation(at[s])
    PROVE  doing' = [doing EXCEPT ![t] = "nothing"] /\ doing[t] = Operation(at[t])
  BY DEF doing

LEMMA InitImplements == QueueInit => Contract!Init
  BY DEF QueueInit, Contract!Init, Contract!Threads, Threads, doing, Operation

\* A critical section is the effect of its operation: what follows is notifying.
LEMMA EffectFacts ==
    ASSUME at \in [Threads -> Places], NEW t \in Threads, UNCHANGED ret,
           NEW from \in {"push", "pop", "close"}, NEW to,
           Move(t, from, to)
    PROVE  Contract!Effect(t, from, Operation(to))
<1>1. Operation(from) = from
  BY DEF Operation
<1>2. at[t] = from /\ at' = [at EXCEPT ![t] = to]
  BY DEF Move
<1>3. doing[t] = Operation(from) /\ doing' = [doing EXCEPT ![t] = Operation(to)]
  BY <1>2 DEF doing
<1> QED
  BY <1>1, <1>3 DEF Contract!Effect

\* What an operation under way comes to.
TakesEffect(t) ==
    \/ Contract!Put(t) \/ Contract!Refuse(t) \/ Contract!Take(t)
    \/ Contract!Drained(t) \/ Contract!Shut(t) \/ Contract!Return(t)

\* A thread inside an operation takes it to its effect or to its return, or does what
\* nobody can see; whoever may call what has no part in it.
LEMMA InsideTakesEffect ==
    ASSUME QueueTypeOK, NEW t \in Threads, QueueStep(t) \/ SpuriousWakeup(t)
    PROVE  TakesEffect(t) \/ UNCHANGED Contract!cvars
<1>0. at \in [Threads -> Places]
  BY DEF QueueTypeOK
<1>1. CASE PushSleeps(t)
  <2>1. doing' = doing
    <3>1. \A s \in Threads : Operation(at'[s]) = Operation(at[s])
      BY <1>0, <1>1, OperationTable DEF PushSleeps, Move
    <3> QED
      BY <3>1, DoingStays
  <2> QED
    BY <1>1, <2>1 DEF PushSleeps, Contract!cvars
<1>2. CASE PushRejected(t)
  <2>1. Contract!Refuse(t)
    BY <1>0, <1>2, DoingMoves
       DEF PushRejected, Leave, Move, Operation, Contract!Refuse, Contract!Answer
  <2> QED
    BY <2>1 DEF TakesEffect
<1>3. CASE PushAppends(t)
  <2>1. Contract!Effect(t, "push", "pushed")
    <3>1. Move(t, "push", "wakePopper") /\ UNCHANGED ret
      BY <1>3 DEF PushAppends
    <3> QED
      BY <1>0, <3>1, EffectFacts DEF Operation
  <2>2. Contract!Put(t)
    BY <1>3, <2>1 DEF PushAppends, HasRoom, Contract!Put
  <2> QED
    BY <2>2 DEF TakesEffect
<1>4. CASE WakePopper(t)
  <2>1. doing[t] = "pushed" /\ doing' = [doing EXCEPT ![t] = "nothing"]
    <3>1. /\ Operation(at[t]) = "pushed" /\ Operation(at'[t]) = "nothing"
          /\ \A s \in Threads \ {t} : Operation(at'[s]) = Operation(at[s])
      BY <1>0, <1>4, OperationTable DEF WakePopper, NotifyOne, At
    <3> QED
      BY <3>1, DoingReturns
  <2>2. Contract!Return(t)
    BY <1>4, <2>1 DEF WakePopper, NotifyOne, Contract!Return, Contract!Answer
  <2> QED
    BY <2>2 DEF TakesEffect
<1>5. CASE PopSleeps(t)
  <2>1. doing' = doing
    <3>1. \A s \in Threads : Operation(at'[s]) = Operation(at[s])
      BY <1>0, <1>5, OperationTable DEF PopSleeps, Move
    <3> QED
      BY <3>1, DoingStays
  <2> QED
    BY <1>5, <2>1 DEF PopSleeps, Contract!cvars
<1>6. CASE PopDrained(t)
  <2>1. Contract!Drained(t)
    BY <1>0, <1>6, DoingMoves
       DEF PopDrained, Leave, Move, Operation, Contract!Drained, Contract!Answer
  <2> QED
    BY <2>1 DEF TakesEffect
<1>7. CASE PopTakes(t)
  <2>1. Contract!Effect(t, "pop", "popped")
    <3>1. Move(t, "pop", "wakePusher") /\ UNCHANGED ret
      BY <1>7 DEF PopTakes
    <3> QED
      BY <1>0, <3>1, EffectFacts DEF Operation
  <2>2. Contract!Take(t)
    BY <1>7, <2>1 DEF PopTakes, Contract!Take
  <2> QED
    BY <2>2 DEF TakesEffect
<1>8. CASE WakePusher(t)
  <2>1. doing[t] = "popped" /\ doing' = [doing EXCEPT ![t] = "nothing"]
    <3>1. /\ Operation(at[t]) = "popped" /\ Operation(at'[t]) = "nothing"
          /\ \A s \in Threads \ {t} : Operation(at'[s]) = Operation(at[s])
      BY <1>0, <1>8, OperationTable DEF WakePusher, NotifyOne, At
    <3> QED
      BY <3>1, DoingReturns
  <2>2. Contract!Return(t)
    BY <1>8, <2>1 DEF WakePusher, NotifyOne, Contract!Return, Contract!Answer
  <2> QED
    BY <2>2 DEF TakesEffect
<1>9. CASE SetClosed(t)
  <2>1. Contract!Effect(t, "close", "shut")
    <3>1. Move(t, "close", "wakePoppers") /\ UNCHANGED ret
      BY <1>9 DEF SetClosed
    <3> QED
      BY <1>0, <3>1, EffectFacts DEF Operation
  <2>2. Contract!Shut(t)
    BY <1>9, <2>1 DEF SetClosed, Contract!Shut
  <2> QED
    BY <2>2 DEF TakesEffect
<1>10. CASE WakePoppers(t)
  <2>1. doing' = doing
    <3>1. \A s \in Threads : Operation(at'[s]) = Operation(at[s])
      BY <1>0, <1>10, OperationTable DEF WakePoppers, NotifyAll
    <3> QED
      BY <3>1, DoingStays
  <2> QED
    BY <1>10, <2>1 DEF WakePoppers, NotifyAll, Contract!cvars
<1>11. CASE WakePushers(t)
  <2>1. doing[t] = "shut" /\ doing' = [doing EXCEPT ![t] = "nothing"]
    <3>1. /\ Operation(at[t]) = "shut" /\ Operation(at'[t]) = "nothing"
          /\ \A s \in Threads \ {t} : Operation(at'[s]) = Operation(at[s])
      BY <1>0, <1>11, OperationTable DEF WakePushers, NotifyAll
    <3> QED
      BY <3>1, DoingReturns
  <2>2. ret' = [ret EXCEPT ![t] = "none"]
    BY <1>11 DEF WakePushers, NotifyAll, QueueTypeOK
  <2>3. Contract!Return(t)
    BY <1>11, <2>1, <2>2 DEF WakePushers, NotifyAll, Contract!Return, Contract!Answer
  <2> QED
    BY <2>3 DEF TakesEffect
<1>12. CASE SpuriousWakeup(t)
  <2>1. doing' = doing
    <3>1. \A s \in Threads : Operation(at'[s]) = Operation(at[s])
      BY <1>0, <1>12, OperationTable DEF SpuriousWakeup, Move
    <3> QED
      BY <3>1, DoingStays
  <2> QED
    BY <1>12, <2>1 DEF SpuriousWakeup, Contract!cvars
<1> QED
  BY <1>1, <1>2, <1>3, <1>4, <1>5, <1>6, <1>7, <1>8, <1>9, <1>10, <1>11, <1>12
     DEF QueueStep

\* Calls are calls of the contract's.
LEMMA CallsAreCalls ==
    ASSUME QueueTypeOK, NEW t \in Threads
    PROVE  /\ \A x \in Items : StartPush(t, x) => Contract!Call(t, "push", x)
           /\ StartPop(t) => Contract!Call(t, "pop", NoItem)
           /\ StartClose(t) => Contract!Call(t, "close", NoItem)
<1>0. at \in [Threads -> Places]
  BY DEF QueueTypeOK
<1>1. ASSUME NEW x \in Items, StartPush(t, x) PROVE Contract!Call(t, "push", x)
  BY <1>0, <1>1, DoingMoves DEF StartPush, Enter, Move, Contract!Call, Operation
<1>2. ASSUME StartPop(t) PROVE Contract!Call(t, "pop", NoItem)
  BY <1>0, <1>2, DoingMoves DEF StartPop, Enter, Move, Contract!Call, Operation
<1>3. ASSUME StartClose(t) PROVE Contract!Call(t, "close", NoItem)
  BY <1>0, <1>3, DoingMoves DEF StartClose, Enter, Move, Contract!Call, Operation
<1> QED
  BY <1>1, <1>2, <1>3

LEMMA StepImplements ==
    QueueTypeOK /\ [QueueNext]_qvars => [Contract!Next]_(Contract!cvars)
<1> SUFFICES ASSUME QueueTypeOK, [QueueNext]_qvars
             PROVE  Contract!Next \/ UNCHANGED Contract!cvars
  OBVIOUS
<1>1. ASSUME NEW t \in Producers, NEW x \in Items, StartPush(t, x) PROVE Contract!Next
  BY <1>1, CallsAreCalls DEF Threads, Contract!Next
<1>2. ASSUME NEW t \in Consumers, StartPop(t) PROVE Contract!Next
  BY <1>2, CallsAreCalls DEF Threads, Contract!Next
<1>3. ASSUME NEW t \in Closers, StartClose(t) PROVE Contract!Next
  BY <1>3, CallsAreCalls DEF Threads, Contract!Next
<1>4. ASSUME NEW t \in Threads, QueueStep(t) \/ SpuriousWakeup(t)
      PROVE  Contract!Next \/ UNCHANGED Contract!cvars
  BY <1>4, InsideTakesEffect DEF TakesEffect, Threads, Contract!Threads, Contract!Next
<1>5. CASE UNCHANGED qvars
  BY <1>5 DEF qvars, Contract!cvars, doing
<1> QED
  BY <1>1, <1>2, <1>3, <1>4, <1>5 DEF QueueNext

\* Every behaviour of the queue is one of the bounded FIFO with atomic operations, for
\* any number of threads and any capacity: push(), pop() and close(), their safety.
THEOREM ContractHolds == QueueSpec => Contract!Spec
<1>1. QueueInit => Contract!Init
  BY InitImplements
<1>2. QueueTypeOK /\ [QueueNext]_qvars => [Contract!Next]_(Contract!cvars)
  BY StepImplements
<1> QED
  BY <1>1, <1>2, QueueTypeCorrect, PTL DEF QueueSpec, Contract!Spec
=============================================================================
