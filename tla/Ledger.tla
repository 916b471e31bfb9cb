------------------------------- MODULE Ledger --------------------------------
(***************************************************************************)
(* Double-entry postings: domain/LedgerEntry.hpp and the check that        *)
(* adapters/InMemoryLedgerRepository.hpp makes before it appends a batch.  *)
(***************************************************************************)
EXTENDS Sequences, Money, Result, FiniteSetsExt

Direction == {"DEBIT", "CREDIT"}

\* A LedgerEntry; entryId, unique like seq, is left out.
Entry(txn, account, dir, amount, seq) ==
    [txn |-> txn, account |-> account, dir |-> dir, amount |-> amount, seq |-> seq]

SignedAmount(e) == IF e.dir = "CREDIT" THEN e.amount ELSE Times(e.amount, -1)

\* The sum of the signed minor units of the entries at positions I.
NetAt(entries, I) == SumFunction([i \in I |-> SignedAmount(entries[i]).minor])

\* What post() says of a batch, before it takes the journal's lock.
PostVerdict(entries) ==
    IF \/ entries = << >>
       \/ \E i \in DOMAIN entries : ~SameCcy(entries[i].amount, entries[1].amount)
    THEN "VALIDATION_FAILED"
    ELSE IF NetAt(entries, DOMAIN entries) # 0 THEN "INTERNAL_ERROR" ELSE "NONE"

\* entriesFor(account), as positions, and the balance a reader derives from it.
EntriesFor(journal, account) ==
    {i \in DOMAIN journal : journal[i].account = account}
DerivedNet(journal, account) == NetAt(journal, EntriesFor(journal, account))
=============================================================================
