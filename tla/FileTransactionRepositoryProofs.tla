-------------------- MODULE FileTransactionRepositoryProofs --------------------
(***************************************************************************)
(* What FileTransactionRepository keeps of any transactions, for any       *)
(* number of saves, crashes and restarts and any failures of the disk.     *)
(***************************************************************************)
EXTENDS FileTransactionRepository, FiniteSetTheorems, SequenceTheorems, TLAPS

-----------------------------------------------------------------------------
\* Why: the inductive invariant behind the proofs.

\* While lines are left to write, a flush is under way, none of its writes has failed,
\* and it is the one that opened the file last.
FlushFollows == unwritten # {} => saving # {} /\ ~behind /\ ~unread /\ flushed = index

\* No two lines of the file, torn ones among them, are of one transaction.
LinesAreDistinct ==
    \A i, j \in DOMAIN file : file[i].txn.id = file[j].txn.id => i = j

\* A line reads back as something among txns, in the version that has there.
LinesAreOf(txns) ==
    \A i \in DOMAIN file : \A t \in Deserialize(file[i]) :
        \E u \in txns : u.id = t.id /\ u.body = t.body

\* ... which is what the last flush to open the file was to write, and the index has some
\* version of it, unless its process has not read the file.
LinesAreKnown ==
    /\ LinesAreOf(flushed)
    /\ ~unread => \A i \in DOMAIN file : \A t \in Deserialize(file[i]) :
                     \E u \in index : u.id = t.id

\* A flush that can write leaves whole lines: those of the index it is done with.
FlushIsExact ==
    running /\ saving # {} /\ ~behind =>
        /\ \A i \in DOMAIN file : file[i].tear = "whole"
        /\ {file[i].txn : i \in DOMAIN file} = index \ unwritten

\* At every moment, of a process or between two, the file is the index as far as flushes
\* have come.
DiskFollows ==
    /\ FlushFollows
    /\ LinesAreDistinct
    /\ LinesAreKnown
    /\ FlushIsExact
    /\ saving = {} /\ ~behind /\ ~unread => Load(file) = index

-----------------------------------------------------------------------------
\* The operators the model is built from.

\* A line reads back as the transaction it was written for, in its version, or not at all.
LEMMA DeserializeLine ==
    ASSUME NEW line \in Line, NEW t \in Deserialize(line)
    PROVE  /\ t \in Transaction /\ t.id = line.txn.id /\ t.body = line.txn.body
           /\ \A u \in Deserialize(line) : u = t
BY DEF Deserialize, Line, Transaction

\* Where no two lines are of one transaction, everything that reads back is loaded.
LEMMA LoadDistinct ==
    ASSUME file \in Seq(Line), LinesAreDistinct
    PROVE  \A t : t \in Load(file) <=> \E i \in DOMAIN file : t \in Deserialize(file[i])
<1>1. ASSUME NEW t, t \in Load(file) PROVE \E i \in DOMAIN file : t \in Deserialize(file[i])
    BY <1>1 DEF Load
<1>2. ASSUME NEW i \in DOMAIN file, NEW t \in Deserialize(file[i]) PROVE t \in Load(file)
    <2>1. t \in UNION {Deserialize(file[j]) : j \in DOMAIN file}
        OBVIOUS
    <2>2. ASSUME NEW j \in DOMAIN file, NEW u \in Deserialize(file[j]), j > i
          PROVE  u.id # t.id
        <3>1. file[i] \in Line /\ file[j] \in Line /\ i \in Nat /\ j \in Nat
            OBVIOUS
        <3>2. t.id = file[i].txn.id /\ u.id = file[j].txn.id
            BY <3>1, DeserializeLine
        <3> QED
            BY <2>2, <3>1, <3>2 DEF LinesAreDistinct
    <2> QED
        BY <2>1, <2>2 DEF Load
<1> QED
    BY <1>1, <1>2

\* Whole lines load as the transactions they were written for.
LEMMA LoadWhole ==
    ASSUME file \in Seq(Line), LinesAreDistinct, \A i \in DOMAIN file : file[i].tear = "whole"
    PROVE  Load(file) = {file[i].txn : i \in DOMAIN file}
<1>1. \A i \in DOMAIN file : Deserialize(file[i]) = {file[i].txn}
    BY DEF Deserialize
<1>2. \A t : t \in Load(file) <=> t \in {file[i].txn : i \in DOMAIN file}
    BY <1>1, LoadDistinct
<1> QED
    BY <1>2

\* insert_or_assign keeps ids apart and forgets none.
LEMMA InsertKeepsIds ==
    ASSUME NEW txns \in SUBSET Transaction, NEW t \in Transaction,
           \A u, v \in txns : u.id = v.id => u = v
    PROVE  /\ InsertOrAssign(txns, t) \in SUBSET Transaction
           /\ t \in InsertOrAssign(txns, t)
           /\ \A u, v \in InsertOrAssign(txns, t) : u.id = v.id => u = v
           /\ \A u \in txns : \E v \in InsertOrAssign(txns, t) : v.id = u.id
BY DEF InsertOrAssign

\* A line more.
LEMMA AppendLine ==
    ASSUME file \in Seq(Line), NEW line \in Line, file' = Append(file, line)
    PROVE  /\ file' \in Seq(Line)
           /\ \A i \in DOMAIN file : i \in DOMAIN file' /\ file'[i] = file[i]
           /\ \E n \in DOMAIN file' : /\ n \notin DOMAIN file /\ file'[n] = line
                                      /\ \A i \in DOMAIN file' : i \in DOMAIN file \/ i = n
<1>1. /\ file' \in Seq(Line)
      /\ Len(file) \in Nat
      /\ DOMAIN file = 1..Len(file)
      /\ DOMAIN file' = 1..(Len(file) + 1)
      /\ \A i \in 1..Len(file) : file'[i] = file[i]
      /\ file'[Len(file) + 1] = line
    OBVIOUS
<1>2. /\ Len(file) + 1 \in DOMAIN file' /\ Len(file) + 1 \notin DOMAIN file
      /\ \A i \in DOMAIN file' : i \in DOMAIN file \/ i = Len(file) + 1
    BY <1>1
<1> QED
    BY <1>1, <1>2

-----------------------------------------------------------------------------
\* Steps.

\* What a save has come to write of t, be it all of the line or part of it.
Adds(t) == \E tear \in {"whole", "time", "field"} : file' = Append(file, [txn |-> t, tear |-> tear])

\* Adding a line of a transaction of the index that is still to be written keeps lines
\* distinct and known.
LEMMA LineAdded ==
    ASSUME FileTypeOK, DiskFollows, running, NEW t \in unwritten, Adds(t),
           UNCHANGED <<index, flushed, unread>>
    PROVE  /\ file' \in Seq(Line)
           /\ LinesAreDistinct'
           /\ LinesAreKnown'
<1>1. PICK tear \in {"whole", "time", "field"} : file' = Append(file, [txn |-> t, tear |-> tear])
    BY DEF Adds
<1> DEFINE line == [txn |-> t, tear |-> tear]
<1>2. t \in index /\ line \in Line
    BY DEF FileTypeOK, Line
<1>3. /\ line.txn = t
      /\ \A u \in Deserialize(line) : u.id = t.id /\ u.body = t.body
    BY <1>2, DeserializeLine
<1>4. file' = Append(file, line) /\ file \in Seq(Line)
    BY <1>1 DEF FileTypeOK
<1> HIDE DEF line
<1>5. /\ file' \in Seq(Line)
      /\ \A i \in DOMAIN file : i \in DOMAIN file' /\ file'[i] = file[i]
    BY <1>2, <1>4, AppendLine
<1>6. PICK n \in DOMAIN file' : /\ n \notin DOMAIN file /\ file'[n] = line
                                /\ \A i \in DOMAIN file' : i \in DOMAIN file \/ i = n
    BY <1>2, <1>4, AppendLine
<1>7. \A i \in DOMAIN file : file[i].txn \in index /\ file[i].txn # t
    BY DEF DiskFollows, FlushFollows, FlushIsExact
<1>8. \A i \in DOMAIN file : file[i].txn.id # t.id
    BY <1>2, <1>7 DEF FileTypeOK
<1>9. LinesAreDistinct'
    BY <1>3, <1>5, <1>6, <1>8 DEF DiskFollows, LinesAreDistinct
<1>10. t \in flushed /\ t \in index
    BY <1>2 DEF DiskFollows, FlushFollows
<1>11. ASSUME NEW i \in DOMAIN file', NEW u \in Deserialize(file'[i])
       PROVE  /\ \E v \in flushed : v.id = u.id /\ v.body = u.body
              /\ ~unread => \E v \in index : v.id = u.id
    <2>1. CASE i = n
        BY <1>3, <1>6, <1>10, <2>1
    <2>2. CASE i # n
        <3>1. i \in DOMAIN file /\ u \in Deserialize(file[i])
            BY <1>5, <1>6, <1>11, <2>2
        <3> QED
            BY <3>1 DEF DiskFollows, LinesAreKnown, LinesAreOf
    <2> QED
        BY <2>1, <2>2
<1>12. LinesAreKnown'
    BY <1>11 DEF LinesAreKnown, LinesAreOf, Deserialize
<1> QED
    BY <1>5, <1>9, <1>12

\* A save, whether the file opens or not, begins with the index.
LEMMA IndexAtSave ==
    ASSUME FileTypeOK, NEW id \in Ids, NEW body \in Bodies,
           Save(id, body) \/ SaveUnopened(id, body)
    PROVE  /\ index' \in SUBSET Transaction
           /\ \A t, u \in index' : t.id = u.id => t = u
           /\ \A u \in index : \E v \in index' : v.id = u.id
           /\ saving' \in SUBSET index' /\ Cardinality(saving') <= 1 /\ saving' # {}
           /\ saving = {}
<1> DEFINE t == [id |-> id, body |-> body, time |-> "kept"]
<1>1. t \in Transaction
    BY DEF Transaction
<1>2. index' = InsertOrAssign(index, t) /\ saving' = {t} /\ saving = {}
    BY DEF Save, SaveUnopened
<1> HIDE DEF t
<1>3. Cardinality({t}) = 1
    BY FS_Singleton
<1> QED
    BY <1>1, <1>2, <1>3, InsertKeepsIds DEF FileTypeOK

LEMMA SaveStep ==
    ASSUME FileTypeOK, DiskFollows, NEW id \in Ids, NEW body \in Bodies, Save(id, body)
    PROVE  FileTypeOK' /\ DiskFollows'
<1>1. /\ file' = << >> /\ unwritten' = index' /\ flushed' = index'
      /\ behind' = FALSE /\ unread' = FALSE
      /\ UNCHANGED <<running, returned>>
    BY DEF Save
<1>2. /\ index' \in SUBSET Transaction
      /\ \A t, u \in index' : t.id = u.id => t = u
      /\ saving' \in SUBSET index' /\ Cardinality(saving') <= 1 /\ saving' # {}
    BY IndexAtSave
<1>3. FileTypeOK'
    <2>1. file' \in Seq(Line) /\ unwritten' \in SUBSET index'
        BY <1>1
    <2> QED
        BY <1>1, <1>2, <2>1 DEF FileTypeOK
<1>4. DOMAIN file' = {} /\ {file'[i].txn : i \in DOMAIN file'} = {}
    BY <1>1
<1>5. LinesAreDistinct' /\ LinesAreKnown' /\ FlushIsExact'
    BY <1>1, <1>4 DEF LinesAreDistinct, LinesAreKnown, LinesAreOf, FlushIsExact
<1> QED
    BY <1>1, <1>2, <1>3, <1>5 DEF DiskFollows, FlushFollows

LEMMA SaveUnopenedStep ==
    ASSUME FileTypeOK, DiskFollows, NEW id \in Ids, NEW body \in Bodies,
           SaveUnopened(id, body)
    PROVE  FileTypeOK' /\ DiskFollows'
<1>1. behind' = TRUE /\ UNCHANGED <<file, unwritten, unread, running, flushed, returned>>
    BY DEF SaveUnopened
<1>2. /\ index' \in SUBSET Transaction
      /\ \A t, u \in index' : t.id = u.id => t = u
      /\ \A u \in index : \E v \in index' : v.id = u.id
      /\ saving' \in SUBSET index' /\ Cardinality(saving') <= 1 /\ saving' # {}
      /\ saving = {}
    BY IndexAtSave
<1>3. unwritten = {}
    BY <1>2 DEF DiskFollows, FlushFollows
<1>4. FileTypeOK'
    BY <1>1, <1>2, <1>3 DEF FileTypeOK
<1>5. LinesAreDistinct'
    BY <1>1 DEF DiskFollows, LinesAreDistinct
<1>6. LinesAreKnown'
    <2>1. LinesAreOf(flushed)'
        BY <1>1 DEF DiskFollows, LinesAreKnown, LinesAreOf, Deserialize
    <2>2. ASSUME ~unread, NEW i \in DOMAIN file, NEW t \in Deserialize(file[i])
          PROVE  \E v \in index' : v.id = t.id
        <3>1. PICK u \in index : u.id = t.id
            BY <2>2 DEF DiskFollows, LinesAreKnown
        <3> QED
            BY <1>2, <3>1
    <2> QED
        BY <1>1, <2>1, <2>2 DEF LinesAreKnown, Deserialize
<1> QED
    BY <1>1, <1>2, <1>3, <1>4, <1>5, <1>6 DEF DiskFollows, FlushFollows, FlushIsExact

LEMMA WriteLineStep ==
    ASSUME FileTypeOK, DiskFollows, NEW t \in index, WriteLine(t)
    PROVE  FileTypeOK' /\ DiskFollows'
<1>1. /\ running /\ t \in unwritten
      /\ file' = Append(file, Serialize(t)) /\ unwritten' = unwritten \ {t}
      /\ UNCHANGED <<index, saving, behind, unread, running, flushed, returned>>
    BY DEF WriteLine
<1>2. Serialize(t) = [txn |-> t, tear |-> "whole"] /\ Serialize(t) \in Line
    BY DEF Serialize, Line, FileTypeOK
<1>3. file' \in Seq(Line) /\ LinesAreDistinct' /\ LinesAreKnown'
    BY <1>1, <1>2, LineAdded DEF Adds
<1>4. FileTypeOK'
    BY <1>1, <1>3 DEF FileTypeOK
<1>5. saving # {} /\ ~behind /\ ~unread /\ flushed = index
    BY <1>1 DEF DiskFollows, FlushFollows
<1>6. FlushIsExact'
    <2>1. file \in Seq(Line)
        BY DEF FileTypeOK
    <2>2. \A i \in DOMAIN file : i \in DOMAIN file' /\ file'[i] = file[i]
        BY <1>1, <1>2, <2>1, AppendLine
    <2>3. PICK n \in DOMAIN file' : /\ file'[n] = Serialize(t)
                                    /\ \A i \in DOMAIN file' : i \in DOMAIN file \/ i = n
        BY <1>1, <1>2, <2>1, AppendLine
    <2>4. /\ \A i \in DOMAIN file : file[i].tear = "whole"
          /\ {file[i].txn : i \in DOMAIN file} = index \ unwritten
        BY <1>1, <1>5 DEF DiskFollows, FlushIsExact
    <2>5. Serialize(t).txn = t /\ Serialize(t).tear = "whole"
        BY <1>2
    <2>6. \A i \in DOMAIN file' : file'[i].tear = "whole"
        BY <2>2, <2>3, <2>4, <2>5
    <2>7. {file'[i].txn : i \in DOMAIN file'} = {file[i].txn : i \in DOMAIN file} \cup {t}
        BY <2>2, <2>3, <2>5
    <2>8. {file'[i].txn : i \in DOMAIN file'} = index \ unwritten'
        BY <1>1, <2>4, <2>7 DEF FileTypeOK
    <2> QED
        BY <1>1, <2>6, <2>8 DEF FlushIsExact
<1>7. FlushFollows'
    BY <1>1, <1>5 DEF FlushFollows
<1> QED
    BY <1>1, <1>3, <1>4, <1>5, <1>6, <1>7 DEF DiskFollows

\* Whatever part of a line a failed write or a crash leaves, lines stay distinct and known.
LEMMA TornStep ==
    ASSUME FileTypeOK, DiskFollows, running, NEW t \in unwritten, file' \in Torn(t),
           UNCHANGED <<index, flushed, unread>>
    PROVE  file' \in Seq(Line) /\ LinesAreDistinct' /\ LinesAreKnown'
<1>1. CASE file' = file
    <2>1. LinesAreDistinct /\ LinesAreKnown /\ file \in Seq(Line)
        BY DEF FileTypeOK, DiskFollows
    <2>2. LinesAreDistinct'
        BY <1>1, <2>1 DEF LinesAreDistinct
    <2>3. LinesAreKnown'
        BY <1>1, <2>1 DEF LinesAreKnown, LinesAreOf
    <2> QED
        BY <1>1, <2>1, <2>2, <2>3
<1>2. CASE file' # file
    BY <1>2, LineAdded DEF Torn, Adds
<1> QED
    BY <1>1, <1>2

LEMMA WriteFailsStep ==
    ASSUME FileTypeOK, DiskFollows, NEW t \in index, WriteFails(t)
    PROVE  FileTypeOK' /\ DiskFollows'
<1>1. /\ running /\ t \in unwritten
      /\ file' \in Torn(t) /\ unwritten' = {} /\ behind' = TRUE
      /\ UNCHANGED <<index, saving, unread, running, flushed, returned>>
    BY DEF WriteFails
<1>2. file' \in Seq(Line) /\ LinesAreDistinct' /\ LinesAreKnown'
    BY <1>1, TornStep
<1> QED
    BY <1>1, <1>2 DEF FileTypeOK, DiskFollows, FlushFollows, FlushIsExact

LEMMA SaveReturnsStep ==
    ASSUME FileTypeOK, DiskFollows, SaveReturns
    PROVE  FileTypeOK' /\ DiskFollows'
<1>1. /\ running /\ saving # {} /\ unwritten = {} /\ saving' = {}
      /\ returned' = returned \cup {t.id : t \in saving}
      /\ UNCHANGED <<index, file, unwritten, behind, unread, running, flushed>>
    BY DEF SaveReturns
<1>2. FileTypeOK'
    <2>1. \A t \in saving : t.id \in Ids
        BY DEF FileTypeOK, Transaction
    <2>2. Cardinality({}) = 0
        BY FS_EmptySet
    <2> QED
        BY <1>1, <2>1, <2>2 DEF FileTypeOK
<1>3. ~behind => Load(file) = index
    BY <1>1, LoadWhole DEF FileTypeOK, DiskFollows, FlushIsExact
<1>4. Load(file)' = Load(file)
    BY <1>1 DEF Load, Deserialize
<1>5. LinesAreDistinct' /\ LinesAreKnown'
    <2>1. LinesAreDistinct /\ LinesAreKnown
        BY DEF DiskFollows
    <2> QED
        BY <1>1, <2>1 DEF LinesAreDistinct, LinesAreKnown, LinesAreOf, Deserialize
<1> QED
    BY <1>1, <1>2, <1>3, <1>4, <1>5 DEF DiskFollows, FlushFollows, FlushIsExact

\* Where only the process is gone, if anything is, the disk is what it was.
LEMMA SameDisk ==
    ASSUME FileTypeOK, DiskFollows, running' = running \/ running' = FALSE,
           UNCHANGED <<index, file, unwritten, saving, behind, unread, flushed, returned>>
    PROVE  FileTypeOK' /\ DiskFollows'
<1>1. Load(file)' = Load(file)
    BY DEF Load, Deserialize
<1>2. FileTypeOK'
    BY DEF FileTypeOK
<1>3. LinesAreDistinct' /\ FlushFollows'
    BY DEF DiskFollows, LinesAreDistinct, FlushFollows
<1>4. LinesAreKnown'
    <2>1. LinesAreKnown
        BY DEF DiskFollows
    <2> QED
        BY <2>1 DEF LinesAreKnown, LinesAreOf, Deserialize
<1>5. FlushIsExact'
    BY DEF DiskFollows, FlushIsExact
<1> QED
    BY <1>1, <1>2, <1>3, <1>4, <1>5 DEF DiskFollows

LEMMA CrashStep ==
    ASSUME FileTypeOK, DiskFollows, Crash
    PROVE  FileTypeOK' /\ DiskFollows'
<1>1. /\ running /\ running' = FALSE
      /\ UNCHANGED <<index, unwritten, saving, behind, unread, flushed, returned>>
    BY DEF Crash
<1>2. file' = file \/ \E t \in unwritten : file' \in Torn(t)
    BY DEF Crash
<1>3. CASE file' = file
    BY <1>1, <1>3, SameDisk
<1>4. CASE \E t \in unwritten : file' \in Torn(t)
    <2>1. file' \in Seq(Line) /\ LinesAreDistinct' /\ LinesAreKnown'
        BY <1>1, <1>4, TornStep
    <2>2. saving # {} /\ ~behind
        BY <1>4 DEF DiskFollows, FlushFollows
    <2>3. FlushFollows' /\ FlushIsExact'
        BY <1>1 DEF DiskFollows, FlushFollows, FlushIsExact
    <2>4. FileTypeOK'
        BY <1>1, <2>1 DEF FileTypeOK
    <2> QED
        BY <1>1, <2>1, <2>2, <2>3, <2>4 DEF DiskFollows
<1> QED
    BY <1>2, <1>3, <1>4

LEMMA RestartStep ==
    ASSUME FileTypeOK, DiskFollows, Restart
    PROVE  FileTypeOK' /\ DiskFollows'
<1>1. /\ running' = TRUE /\ index' = Load(file)
      /\ unwritten' = {} /\ saving' = {} /\ behind' = FALSE /\ unread' = FALSE
      /\ UNCHANGED <<file, flushed, returned>>
    BY DEF Restart, Starts
<1>2. \A i \in DOMAIN file : file[i] \in Line
    BY DEF FileTypeOK
<1>3. \A t : t \in index' <=> \E i \in DOMAIN file : t \in Deserialize(file[i])
    BY <1>1, LoadDistinct DEF FileTypeOK, DiskFollows
<1>4. index' \in SUBSET Transaction
    BY <1>2, <1>3, DeserializeLine
<1>5. ASSUME NEW t \in index', NEW u \in index', t.id = u.id PROVE t = u
    <2>1. PICK i \in DOMAIN file : t \in Deserialize(file[i])
        BY <1>3
    <2>2. PICK j \in DOMAIN file : u \in Deserialize(file[j])
        BY <1>3
    <2>3. file[i].txn.id = file[j].txn.id
        BY <1>2, <1>5, <2>1, <2>2, DeserializeLine
    <2>4. i = j
        BY <2>3 DEF DiskFollows, LinesAreDistinct
    <2> QED
        BY <1>2, <2>1, <2>2, <2>4, DeserializeLine
<1>6. Cardinality({}) = 0
    BY FS_EmptySet
<1>7. FileTypeOK'
    <2>1. /\ unwritten' \in SUBSET index' /\ saving' \in SUBSET index'
          /\ behind' \in BOOLEAN /\ unread' \in BOOLEAN /\ running' \in BOOLEAN
        BY <1>1
    <2>2. Cardinality(saving') = 0
        BY <1>1, <1>6
    <2>3. Cardinality(saving') <= 1
        BY <2>2
    <2> QED
        BY <1>1, <1>4, <1>5, <2>1, <2>3 DEF FileTypeOK
<1>8. LinesAreDistinct'
    BY <1>1 DEF DiskFollows, LinesAreDistinct
<1>9. LinesAreKnown'
    <2>1. LinesAreOf(flushed)'
        BY <1>1 DEF DiskFollows, LinesAreKnown, LinesAreOf, Deserialize
    <2>2. \A i \in DOMAIN file : \A t \in Deserialize(file[i]) : \E u \in index' : u.id = t.id
        BY <1>3
    <2> QED
        BY <1>1, <2>1, <2>2 DEF LinesAreKnown, Deserialize
<1>10. Load(file)' = Load(file)
    BY <1>1 DEF Load, Deserialize
<1> QED
    BY <1>1, <1>7, <1>8, <1>9, <1>10 DEF DiskFollows, FlushFollows, FlushIsExact

LEMMA RestartUnreadStep ==
    ASSUME FileTypeOK, DiskFollows, RestartUnread
    PROVE  FileTypeOK' /\ DiskFollows'
<1>1. /\ running' = TRUE /\ index' = {} /\ unread' = TRUE
      /\ unwritten' = {} /\ saving' = {} /\ behind' = FALSE
      /\ UNCHANGED <<file, flushed, returned>>
    BY DEF RestartUnread, Starts
<1>2. FileTypeOK'
    <2>1. Cardinality({}) = 0
        BY FS_EmptySet
    <2>2. Cardinality(saving') = 0
        BY <1>1, <2>1
    <2>3. Cardinality(saving') <= 1
        BY <2>2
    <2> QED
        BY <1>1, <2>3 DEF FileTypeOK
<1>3. LinesAreDistinct' /\ LinesAreKnown'
    <2>1. LinesAreDistinct /\ LinesAreOf(flushed)
        BY DEF DiskFollows, LinesAreKnown
    <2> QED
        BY <1>1, <2>1 DEF LinesAreDistinct, LinesAreKnown, LinesAreOf, Deserialize
<1> QED
    BY <1>1, <1>2, <1>3 DEF DiskFollows, FlushFollows, FlushIsExact

-----------------------------------------------------------------------------
\* The inductive invariant.

LEMMA InitDisk == Init => FileTypeOK /\ DiskFollows
<1> SUFFICES ASSUME Init PROVE FileTypeOK /\ DiskFollows
    OBVIOUS
<1>1. FileTypeOK
    <2>1. Cardinality({}) = 0
        BY FS_EmptySet
    <2>2. Cardinality(saving) = 0
        BY <2>1 DEF Init
    <2>3. Cardinality(saving) <= 1
        BY <2>2
    <2>4. file \in Seq(Line)
        BY DEF Init
    <2> QED
        BY <2>3, <2>4 DEF Init, FileTypeOK
<1>2. LinesAreDistinct /\ LinesAreKnown
    BY DEF Init, LinesAreDistinct, LinesAreKnown, LinesAreOf
<1>3. Load(file) = index
    BY <1>1, <1>2, LoadDistinct DEF Init, FileTypeOK
<1> QED
    BY <1>1, <1>2, <1>3 DEF Init, DiskFollows, FlushFollows, FlushIsExact

LEMMA NextDisk == FileTypeOK /\ DiskFollows /\ [Next]_vars => (FileTypeOK /\ DiskFollows)'
<1> SUFFICES ASSUME FileTypeOK, DiskFollows, [Next]_vars PROVE FileTypeOK' /\ DiskFollows'
    OBVIOUS
<1>1. CASE UNCHANGED vars
    <2>1. UNCHANGED <<index, file, unwritten, saving, behind, unread, running, flushed, returned>>
        BY <1>1 DEF vars
    <2> QED
        BY <2>1, SameDisk
<1> QED
    BY <1>1, SaveStep, SaveUnopenedStep, WriteLineStep, WriteFailsStep, SaveReturnsStep,
       CrashStep, RestartStep, RestartUnreadStep DEF Next

\* The types of the repository's state, whatever the disk does.
THEOREM FileTypeCorrect == Spec => []FileTypeOK
<1> QED
    BY InitDisk, NextDisk, PTL DEF Spec

\* The file follows the index, flush by flush, through crashes and failed writes.
THEOREM DiskHolds == Spec => []DiskFollows
<1> QED
    BY InitDisk, NextDisk, PTL DEF Spec

-----------------------------------------------------------------------------
\* What follows.

\* Between saves the file reads back as the index, unless the last flush failed or the
\* process could not read the file and has not written it.
THEOREM FileReadsBack == Spec => []FileIsTheIndex
<1>1. DiskFollows => FileIsTheIndex
    BY DEF DiskFollows, FileIsTheIndex
<1> QED
    BY <1>1, DiskHolds, PTL

\* What a process that has read its file is about to overwrite, it knows.
THEOREM SavesThrowNothingAway == Spec => []NothingToThrowAway
<1>1. FileTypeOK /\ DiskFollows => NothingToThrowAway
    <2> SUFFICES ASSUME FileTypeOK, DiskFollows, ~unread, NEW t \in Load(file)
                 PROVE  \E u \in index : u.id = t.id
        BY DEF NothingToThrowAway
    <2>1. PICK i \in DOMAIN file : t \in Deserialize(file[i])
        BY LoadDistinct DEF FileTypeOK, DiskFollows
    <2> QED
        BY <2>1 DEF DiskFollows, LinesAreKnown
<1> QED
    BY <1>1, FileTypeCorrect, DiskHolds, PTL

\* A restart brings back nothing but what the last flush to open the file was given, as it
\* was given, and all that the last process had when no save was under way and no flush or
\* reading of the file had failed.
THEOREM RestartIsFaithful == Spec => RestartRestores
<1>1. FileTypeOK /\ DiskFollows /\ [Next]_vars =>
        [~running /\ running' =>
            /\ \A t \in index' : \E u \in flushed : u.id = t.id /\ u.body = t.body
            /\ saving = {} /\ ~behind /\ ~unread /\ ~unread' => index' = index]_vars
    <2> SUFFICES ASSUME FileTypeOK, DiskFollows, [Next]_vars, ~running, running'
                 PROVE  /\ \A t \in index' : \E u \in flushed : u.id = t.id /\ u.body = t.body
                        /\ saving = {} /\ ~behind /\ ~unread /\ ~unread' => index' = index
        OBVIOUS
    <2>1. Restart \/ RestartUnread
        BY DEF Next, Save, SaveUnopened, WriteLine, WriteFails, SaveReturns, Crash, vars
    <2>2. CASE Restart
        <3>1. index' = Load(file)
            BY <2>2 DEF Restart
        <3>2. \A t \in index' : \E i \in DOMAIN file : t \in Deserialize(file[i])
            BY <3>1, LoadDistinct DEF FileTypeOK, DiskFollows
        <3> QED
            BY <3>1, <3>2 DEF DiskFollows, LinesAreKnown, LinesAreOf
    <2>3. CASE RestartUnread
        BY <2>3 DEF RestartUnread
    <2> QED
        BY <2>1, <2>2, <2>3
<1> QED
    BY <1>1, FileTypeCorrect, DiskHolds, PTL DEF Spec, RestartRestores
=============================================================================
