----------------------------- MODULE PaymentEvents -----------------------------
(***************************************************************************)
(* PaymentService with the subscribers of                                  *)
(* adapters/InMemoryEventPublisher.hpp, which publish() calls back one     *)
(* after the other, on the thread of the call and under its payer's lock.  *)
(* A callback is the application's own: it may listen, throw, or make a    *)
(* payment itself, which is another call on the same thread.               *)
(***************************************************************************)
EXTENDS PaymentProperties, SequencesExt

CONSTANTS
    Nested,         \* the calls that callbacks may make: they are bounded by these
    Subscribers,
    Early,          \* those registered before the first call, as main() does
    Conducts        \* what each subscriber may do when it is called back

Conduct == {"listens", "throws", "pays"}

\* A function that is registered twice is two subscribers.
ASSUME EventsAssumption ==
    /\ Nested \in SUBSET Calls
    /\ Early \in Seq(Subscribers)
    /\ IsInjective(Early)
    /\ Conducts \in SUBSET [Subscribers -> Conduct]

VARIABLES
    conduct,        \* what they do in this behaviour
    subscribed,     \* subscribers_
    callbacks,      \* what is left of the snapshot a call goes through
    inside,         \* the call its running callback has made
    heard           \* the ids of the transactions a subscriber was told of, in order

evars == <<conduct, subscribed, callbacks, inside, heard>>
allvars == <<vars, evars>>

EventsInit ==
    /\ Init
    /\ conduct \in Conducts
    /\ subscribed = Early
    /\ callbacks = [c \in Calls |-> << >>]
    /\ inside = [c \in Calls |-> NoCall]
    /\ heard = [s \in Subscribers |-> << >>]

-----------------------------------------------------------------------------
InCallback(c) == callbacks[c] # << >>

\* Mutant of Busy: the lock is released, and the callbacks go on.
BusyUntilReleased(c) == InCallback(c) /\ pc[c] # "release"

\* What else the call has to do waits for its callbacks.
Busy(c) == InCallback(c)

Unmade(n) == pc[n] = "mint" /\ \A c \in Calls : inside[c] # n

\* A step of pay(); publish() takes the snapshot with the append to its log.
PayStep(c) ==
    /\ ~Busy(c)
    /\ c \in Nested => \E d \in Calls : inside[d] = c
    /\ Pay(c)
    /\ callbacks' = IF pc[c] = "publish" THEN [callbacks EXCEPT ![c] = subscribed]
                                         ELSE callbacks
    /\ UNCHANGED <<conduct, subscribed, inside, heard>>

\* subscribe()
Subscribe(s) ==
    /\ s \notin ToSet(subscribed)
    /\ subscribed' = Append(subscribed, s)
    /\ UNCHANGED <<vars, conduct, callbacks, inside, heard>>

\* The next callback of the snapshot is called.
Called(c, s) ==
    /\ InCallback(c) /\ inside[c] = NoCall
    /\ s = Head(callbacks[c])
    /\ heard' = [heard EXCEPT ![s] = Append(@, txnId[c])]

\* An exception leaves the loop of publish(), and pay() with it.
ThrowsOut(c) ==
    /\ Return(c, "threw", "NONE", {})
    /\ callbacks' = [callbacks EXCEPT ![c] = << >>]
    /\ UNCHANGED <<req, pc, txnId, status, error, seqs, shared>>

\* Mutant of Hears: the loop over the snapshot ends with the first callback.
HearsAlone(c) ==
    /\ \E s \in Subscribers :
          /\ Called(c, s)
          /\ \/ conduct[s] = "listens"
             \/ conduct[s] = "pays" /\ ~ \E n \in Nested : Unmade(n)
    /\ callbacks' = [callbacks EXCEPT ![c] = << >>]
    /\ UNCHANGED <<vars, conduct, subscribed, inside>>

\* It listens.  One that would pay, with no call left to make, listens as well.
Hears(c) ==
    /\ \E s \in Subscribers :
          /\ Called(c, s)
          /\ \/ conduct[s] = "listens"
             \/ conduct[s] = "pays" /\ ~ \E n \in Nested : Unmade(n)
    /\ callbacks' = [callbacks EXCEPT ![c] = Tail(@)]
    /\ UNCHANGED <<vars, conduct, subscribed, inside>>

Throws(c) ==
    /\ \E s \in Subscribers : Called(c, s) /\ conduct[s] = "throws"
    /\ ThrowsOut(c)
    /\ UNCHANGED <<conduct, subscribed, inside>>

\* It calls pay() in turn.
Pays(c) ==
    /\ \E s \in Subscribers : Called(c, s) /\ conduct[s] = "pays"
    /\ \E n \in Nested : Unmade(n) /\ inside' = [inside EXCEPT ![c] = n]
    /\ UNCHANGED <<vars, conduct, subscribed, callbacks>>

\* ... and comes back from it, with an exception if that threw.
PaidInside(c) ==
    /\ inside[c] # NoCall /\ pc[inside[c]] = "done"
    /\ inside' = [inside EXCEPT ![c] = NoCall]
    /\ IF outcome[inside[c]].tag = "threw"
       THEN ThrowsOut(c)
       ELSE callbacks' = [callbacks EXCEPT ![c] = Tail(@)] /\ UNCHANGED vars
    /\ UNCHANGED <<conduct, subscribed, heard>>

-----------------------------------------------------------------------------
\* The calls c cannot go on without.
WaitsFor(c) ==
    {inside[c]} \cup (IF pc[c] = "acquire" THEN {holder[req[c].payer]} ELSE {})

\* A call that waits for itself through others, or for such a call; and what closes the
\* circle is a callback.
Stuck(c) ==
    \E S \in SUBSET Calls :
        /\ c \in S
        /\ \A d \in S : WaitsFor(d) \cap S # {}
        /\ \E d \in S : inside[d] # NoCall

CallStep(c) == PayStep(c) \/ Hears(c) \/ Throws(c) \/ Pays(c) \/ PaidInside(c)

\* Every call made has returned: the way the system should stop.
AllReturned ==
    /\ \A c \in Calls : pc[c] = "done" \/ (c \in Nested /\ Unmade(c))
    /\ UNCHANGED allvars

\* The other way it may.
LockedUp == (\E c \in Calls : Stuck(c)) /\ UNCHANGED allvars

EventsNext ==
    \/ \E c \in Calls : CallStep(c)
    \/ \E s \in Subscribers : Subscribe(s)
    \/ AllReturned
    \/ LockedUp

\* Threads are scheduled, callbacks return, and a mutex that stays free is granted.
EventsSpec ==
    /\ EventsInit
    /\ [][EventsNext]_allvars
    /\ \A c \in Calls : WF_allvars(CallStep(c))

-----------------------------------------------------------------------------
\* Every subscriber is told of the payments from one account in the order in which they
\* were logged, although each is told by another thread after the log's lock is free:
\* the callbacks run under the payer's lock.
HeardInOrder ==
    \A s \in Subscribers : \A i, j \in DOMAIN heard[s] :
        /\ i < j
        /\ \E c \in OwnersOf(heard[s][i]), d \in OwnersOf(heard[s][j]) :
              req[c].payer = req[d].payer
        => \E m, n \in DOMAIN log :
              m < n /\ log[m].txn = heard[s][i] /\ log[n].txn = heard[s][j]

\* Whatever callbacks do, what was captured stays captured and is announced: a call that
\* left publish(), be it with an exception, has its transaction saved and logged.
ThrowsAfterTheFact ==
    \A c \in Calls :
        pc[c] \in {"release", "done"} /\ status[c] \in {"CAPTURED", "FAILED"}
        => /\ Find(txnId[c]) = {TransactionOf(c)}
           /\ \E i \in DOMAIN log : log[i].txn = txnId[c]

\* A subscriber registered early, or told of an event before, is told of each that is
\* logged from then on, by the time the call that logged it goes on, unless an exception
\* of one called before it ended the loop of publish().
NoEventIsMissed ==
    \A s \in Subscribers : \A n \in DOMAIN log : \A c \in OwnersOf(log[n].txn) :
        /\ \/ s \in ToSet(Early)
           \/ \E m \in 1..(n - 1) : log[m].txn \in ToSet(heard[s])
        /\ ~InCallback(c)
        /\ outcome[c].tag # "threw"
        => log[n].txn \in ToSet(heard[s])

\* Every call that is made returns, whatever locks it waits for and whatever its
\* callbacks do, unless a callback pays from an account whose lock its own thread, or
\* one that waits for it, holds: then those wait for each other for good.
EveryCallReturns ==
    <>(\A c \in Calls : \/ pc[c] = "done"
                        \/ c \in Nested /\ Unmade(c)
                        \/ Stuck(c))

\* What build() throws on, or a handler of the chain.
Unfit(c) == NoId \in {req[c].payer, req[c].payee} \/ Run(Chain, req[c]) = Thrown

\* A claimed key does not stay in limbo: its transaction is saved, unless the call that
\* claimed it is stuck so, or asked for what build() or the chain throws on: such a key
\* stays claimed for good with nothing saved for it.
EveryClaimSettles ==
    <>[](\A k \in Keys : \/ claimed[k] = 0
                         \/ Find(claimed[k]) # {}
                         \/ \E c \in OwnersOf(claimed[k]) : Stuck(c) \/ Unfit(c))

=============================================================================
