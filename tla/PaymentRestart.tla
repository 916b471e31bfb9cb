---------------------------- MODULE PaymentRestart -----------------------------
(***************************************************************************)
(* PaymentService over FileTransactionRepository and with collaborators    *)
(* that refuse, in a process that may die at any moment and is started     *)
(* again.  The file is all that is left of it: the new process wires the   *)
(* service anew, over other in-memory adapters and the transactions it     *)
(* loads, and clients send requests, among them retries.  Here the file    *)
(* opens and takes what is written; FileTransactionRepository has the      *)
(* disk that does not.                                                     *)
(***************************************************************************)
EXTENDS PaymentProperties

CONSTANT Crashes    \* how often the process may die

ASSUME CrashesAssumption == Crashes \in Nat

VARIABLES
    crashes,        \* how often it has died
    charged,        \* how often a posting was accepted under a key, in any process
    discarded       \* what the Statuses pay() discarded have cost an account (or, below
                    \* zero, brought it), in this process

rvars == <<vars, crashes, charged, discarded>>

RestartInit ==
    /\ Init
    /\ crashes = 0
    /\ charged = [k \in Keys |-> 0]
    /\ discarded = [a \in Ids |-> 0]

Serve(c) ==
    /\ Pay(c)
    /\ charged' = IF journal' = journal THEN charged
                  ELSE [charged EXCEPT ![req[c].key] = @ + 1]
    /\ discarded' = [discarded EXCEPT ![req[c].payee] = @ + Discards(c)]
    /\ UNCHANGED crashes

\* flushToDisk() truncates the file and writes the index: a save in progress leaves
\* any part of it.
OnDisk ==
    {store} \cup UNION {SUBSET ((store \ Find(txnId[c])) \cup {TransactionOf(c)}) :
                            c \in {d \in Calls : pc[d] = "save"}}

\* The process dies, and the next one is up with what loadFromDisk() finds: its
\* counters, its idempotency store, its locks, its accounts, its ledger and its event
\* log are new ones.
CrashAndRestart ==
    /\ crashes < Crashes
    /\ crashes' = crashes + 1
    /\ store' \in OnDisk
    /\ req' \in [Calls -> Requests]
    /\ pc' = [c \in Calls |-> "mint"]
    /\ txnId' = [c \in Calls |-> 0]
    /\ status' = [c \in Calls |-> "INITIATED"]
    /\ error' = [c \in Calls |-> "NONE"]
    /\ seqs' = [c \in Calls |-> [debit |-> 0, credit |-> 0]]
    /\ outcome' = [c \in Calls |-> [tag |-> "none", code |-> "NONE", value |-> {}]]
    /\ nextTxn' = 1
    /\ nextSeq' = 1
    /\ claimed' = [k \in Keys |-> 0]
    /\ holder' = [a \in Ids |-> NoCall]
    /\ opened' = Existing
    /\ balance' = Opening
    /\ journal' = << >>
    /\ log' = << >>
    /\ discarded' = [a \in Ids |-> 0]
    /\ UNCHANGED charged

RestartNext ==
    \/ \E c \in Calls : Serve(c)
    \/ CrashAndRestart
    \/ Finished /\ UNCHANGED <<crashes, charged, discarded>>

RestartSpec == RestartInit /\ [][RestartNext]_rvars

-----------------------------------------------------------------------------
\* Live balances and journal differ by what calls under way still have to post or to
\* take back and, for good, by exactly what the credits and compensating debits whose
\* Status pay() discards have failed to move: nothing else gets lost in a failure.
CompensationAccounted ==
    \A a \in Accounts :
        balance[a].minor = Opening[a].minor + DerivedNet(journal, a) + InFlight(a)
                             + discarded[a]

\* A capture on disk was charged for, in this process or in one that died, whatever was
\* refused and compensated: save() comes last.
CapturedWasCharged ==
    \A k \in Keys :
        Cardinality({t \in store : t.key = k /\ t.status = "CAPTURED"}) <= charged[k]

\* A failure that leaves its legs in the journal is a capture the provider refused; no
\* other error of pay() does.
OnlyRefusedCapturesKeepTheMoney ==
    \A c \in Calls :
        status[c] = "FAILED" /\ txnId[c] \in Posted
        => error[c] \in Strategy(c).capture \ {"NONE"}

\* While the process lives, what a call of it has saved is found as it was saved: the
\* ids that start over with each process replace only what an earlier one left.
OwnSavesStay ==
    [][crashes' = crashes =>
          \A t \in store \ store' : \A c \in OwnersOf(t.id) : pc[c] \notin AfterSave]_rvars

-----------------------------------------------------------------------------
\* FileTransactionRepository.hpp: "a captured transaction is on disk, so a retried request
\* after a crash still finds the original and refuses to double-charge".  A call whose
\* posting the ledger has just accepted finds no captured transaction of its key on disk.
RetryNotCharged ==
    \A c \in Calls, t \in store :
        pc[c] = "capture" => ~(t.key = req[c].key /\ t.status = "CAPTURED")
=============================================================================
