---------------------- MODULE FileTransactionRepository -----------------------
(***************************************************************************)
(* adapters/FileTransactionRepository.hpp.  A save rewrites the whole file *)
(* from the index, one line per transaction in the map's order, under      *)
(* mtx_: it truncates, writes line after line, and returns, whether or not *)
(* the file could be opened and written.  The process may die at any point *)
(* of it, also within a line, and the next one loads what it finds, or     *)
(* starts with nothing if the file does not open, be it that there is none *)
(* or that there is one.  find() reads the index and is left out.          *)
(***************************************************************************)
EXTENDS Sequences, Integers, FiniteSets

CONSTANTS
    Ids,        \* transaction ids
    Bodies,     \* what a transaction says, but for its id and creation time
    DiskFaults  \* whether the file may fail to open, to be read or to be written,
                \* and a write to it fail

ASSUME DiskAssumption == DiskFaults \in BOOLEAN

\* createdAtEpoch is the last field of a line: "cut" is a time of fewer digits.
Transaction == [id: Ids, body: Bodies, time: {"kept", "cut"}]

\* A line of the file: whole, or cut off in its last field, or before that.
Line == [txn: Transaction, tear: {"whole", "time", "field"}]

VARIABLES
    index,      \* index_, a set of transactions with different ids
    file,       \* the lines of the file
    unwritten,  \* the transactions the running save() has still to write
    saving,     \* the transaction it was given, as a set; {} when none runs
    behind,     \* whether the last flush failed, which nobody looks at
    unread,     \* whether the process could not open the file when it started, which
                \* nobody looks at, and no flush of it has opened the file since
    running,    \* whether there is a process
    flushed,    \* what the last flush to open the file, in any process, was to write
    returned    \* the ids for which a save() has returned, in any process

vars == <<index, file, unwritten, saving, behind, unread, running, flushed, returned>>

FileTypeOK ==
    /\ index \in SUBSET Transaction
    /\ \A t, u \in index : t.id = u.id => t = u
    /\ file \in Seq(Line)
    /\ unwritten \in SUBSET index
    /\ saving \in SUBSET index /\ Cardinality(saving) <= 1
    /\ behind \in BOOLEAN
    /\ unread \in BOOLEAN
    /\ running \in BOOLEAN
    /\ flushed \in SUBSET Transaction
    /\ returned \in SUBSET Ids

\* The file does not exist yet, which reads as an empty one.
Init ==
    /\ index = {}
    /\ file = << >>
    /\ unwritten = {}
    /\ saving = {}
    /\ behind = FALSE
    /\ unread = FALSE
    /\ running = TRUE
    /\ flushed = {}
    /\ returned = {}

\* Mutant of InsertOrAssign: what is there already stays.
InsertOnly(txns, t) ==
    IF \E u \in txns : u.id = t.id THEN txns ELSE txns \cup {t}

InsertOrAssign(txns, t) == {u \in txns : u.id # t.id} \cup {t}

Serialize(t) == [txn |-> t, tear |-> "whole"]

\* Mutant of Deserialize: a field that is not there is empty, not an error.
DeserializeLenient(line) ==
    CASE line.tear = "whole" -> {line.txn}
      [] line.tear = "time"  -> {[line.txn EXCEPT !.time = "cut"]}
      [] line.tear = "field" -> {[line.txn EXCEPT !.body = CHOOSE b \in Bodies : b # @]}

\* An optional as a set: a line without all its fields gives nothing, and one whose
\* last field was cut gives a transaction all the same.
Deserialize(line) ==
    CASE line.tear = "whole" -> {line.txn}
      [] line.tear = "time"  -> {[line.txn EXCEPT !.time = "cut"]}
      [] line.tear = "field" -> {}

\* loadFromDisk: of two lines with one id the later counts.
Load(lines) ==
    {t \in UNION {Deserialize(lines[i]) : i \in DOMAIN lines} :
        \E i \in DOMAIN lines :
            /\ t \in Deserialize(lines[i])
            /\ \A j \in DOMAIN lines : \A u \in Deserialize(lines[j]) :
                  j > i => u.id # t.id}

-----------------------------------------------------------------------------
\* Mutant of Save: the file is written before the index has the transaction.
SaveFlushesFirst(id, body) ==
    LET t == [id |-> id, body |-> body, time |-> "kept"]
    IN  /\ running /\ saving = {}
        /\ index' = InsertOrAssign(index, t)
        /\ saving' = {t}
        /\ file' = << >>
        /\ unwritten' = index' \ {t}
        /\ flushed' = index'
        /\ behind' = FALSE /\ unread' = FALSE
        /\ UNCHANGED <<running, returned>>

\* save(txn), up to and with the truncation in flushToDisk.
Save(id, body) ==
    LET t == [id |-> id, body |-> body, time |-> "kept"]
    IN  /\ running /\ saving = {}
        /\ index' = InsertOrAssign(index, t)
        /\ saving' = {t}
        /\ file' = << >>
        /\ unwritten' = index'
        /\ flushed' = index'
        /\ behind' = FALSE /\ unread' = FALSE
        /\ UNCHANGED <<running, returned>>

\* The file cannot be opened: it stays as it is, and the loop writes to nothing.
SaveUnopened(id, body) ==
    LET t == [id |-> id, body |-> body, time |-> "kept"]
    IN  /\ DiskFaults
        /\ running /\ saving = {}
        /\ index' = InsertOrAssign(index, t)
        /\ saving' = {t}
        /\ behind' = TRUE
        /\ UNCHANGED <<file, unwritten, unread, running, flushed, returned>>

\* One turn of the loop in flushToDisk.
WriteLine(t) ==
    /\ running /\ t \in unwritten
    /\ file' = Append(file, Serialize(t))
    /\ unwritten' = unwritten \ {t}
    /\ UNCHANGED <<index, saving, behind, unread, running, flushed, returned>>

\* What a line may leave in the file when it is not written to its end.
Torn(t) == {file} \cup {Append(file, [txn |-> t, tear |-> tear]) : tear \in {"time", "field"}}

\* Once a write has failed, the stream takes no other.
WriteFails(t) ==
    /\ DiskFaults
    /\ running /\ t \in unwritten
    /\ file' \in Torn(t)
    /\ unwritten' = {}
    /\ behind' = TRUE
    /\ UNCHANGED <<index, saving, unread, running, flushed, returned>>

SaveReturns ==
    /\ running /\ saving # {} /\ unwritten = {}
    /\ saving' = {}
    /\ returned' = returned \cup {t.id : t \in saving}
    /\ UNCHANGED <<index, file, unwritten, behind, unread, running, flushed>>

\* The process dies.  Nothing but the file is left of it; the index and the save it
\* was in stay in the model as a record of what it knew, which nobody reads.
Crash ==
    /\ running
    /\ running' = FALSE
    /\ file' \in {file} \cup UNION {Torn(t) : t \in unwritten}
    /\ UNCHANGED <<index, unwritten, saving, behind, unread, flushed, returned>>

\* What the constructors of the next process below have in common.
Starts ==
    /\ ~running
    /\ running' = TRUE
    /\ unwritten' = {}
    /\ saving' = {}
    /\ behind' = FALSE
    /\ UNCHANGED <<file, flushed, returned>>

\* Mutant of Restart: the loop takes the end of the file for its last line.
RestartStopsShort ==
    /\ Starts
    /\ index' = Load(SubSeq(file, 1, Len(file) - 1))
    /\ unread' = FALSE

\* The constructor of the next process, with loadFromDisk().
Restart ==
    /\ Starts
    /\ index' = Load(file)
    /\ unread' = FALSE

\* The file is there and does not open: if (!in) return, as if there were none.
RestartUnread ==
    /\ DiskFaults
    /\ Starts
    /\ index' = {}
    /\ unread' = TRUE

Next ==
    \/ \E id \in Ids, body \in Bodies : Save(id, body) \/ SaveUnopened(id, body)
    \/ \E t \in index : WriteLine(t) \/ WriteFails(t)
    \/ SaveReturns
    \/ Crash
    \/ Restart
    \/ RestartUnread

Spec == Init /\ [][Next]_vars

-----------------------------------------------------------------------------
\* Whenever no save() is under way, the last one could write and the process has read
\* the file or written it, the file reads back as the index, after any crashes, restarts
\* and failures: insert, then rewrite all of it, under one lock, so that a save also makes
\* up for those before it that failed.
FileIsTheIndex == running /\ saving = {} /\ ~behind /\ ~unread => Load(file) = index

\* Every transaction that can be read back from the file is in the index, at every moment
\* of a process that could open the file when it started: so its next save(), which begins
\* by throwing the file away, throws none away for good.  A process that could not knows
\* nothing of them.
NothingToThrowAway ==
    running /\ ~unread => \A t \in Load(file) : \E u \in index : u.id = t.id

\* A restart brings back what the last flush to open the file was given, of whichever
\* process that was, in that version, though a creation time may have lost digits, and
\* nothing else; and all that the process before it had, as it was, when no save() of that
\* one was under way, its last flush did not fail, and neither of the two failed to read
\* the file: truncate, rewrite and deserialize.
RestartRestores ==
    [][~running /\ running' =>
        /\ \A t \in index' : \E u \in flushed : u.id = t.id /\ u.body = t.body
        /\ saving = {} /\ ~behind /\ ~unread /\ ~unread' => index' = index]_vars

-----------------------------------------------------------------------------
\* FileTransactionRepository.hpp: "transactions survive a restart".  Whatever a save()
\* has returned for is found by every later process.
SavedSurvives == running => returned \subseteq {t.id : t \in index}
=============================================================================
