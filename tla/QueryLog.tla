------------------------------ MODULE QueryLog ------------------------------
(***************************************************************************)
(* The query log of backend/querylog.py: a ring in the memory of one life  *)
(* of the API process.  A thread draws the id of its entry before it takes *)
(* the lock under which it appends the entry, so a later id may enter the  *)
(* ring first.  The ring and the counter die with the process.             *)
(***************************************************************************)
EXTENDS Selection, Integers, SequencesExt

CONSTANTS
    Threads,      \* threads that log
    MaxEntries    \* MAX_ENTRIES, the length of the ring

ASSUME RingAssumption == MaxEntries \in Nat \ {0}

VARIABLES
    life,         \* counts the lives of the process
    next,         \* what next(_seq) returns
    entries,      \* _entries, oldest first
    drawn         \* the id a thread has drawn and not yet stored, or 0

logVars == <<life, next, entries, drawn>>

\* The life an entry was logged in tells apart entries of the same id.
Entry == [life : Nat, id : Nat \ {0}]

LogInit ==
    /\ life = 1
    /\ next = 1
    /\ entries = <<>>
    /\ drawn = [t \in Threads |-> 0]

\* Mutant: a list, which keeps every entry.
RingUnbounded(s) == s

\* deque(maxlen = MaxEntries): the oldest entry makes room.
Ring(s) == IF Len(s) > MaxEntries THEN Tail(s) ELSE s

NewEntry(i) == [life |-> life, id |-> i]

\* "id": next(_seq)
Draw(t) ==
    /\ drawn[t] = 0
    /\ drawn' = [drawn EXCEPT ![t] = next]
    /\ next' = next + 1
    /\ UNCHANGED <<life, entries>>

\* with _lock: _entries.append(entry)
Store(t) ==
    /\ drawn[t] # 0
    /\ entries' = Ring(Append(entries, NewEntry(drawn[t])))
    /\ drawn' = [drawn EXCEPT ![t] = 0]
    /\ UNCHANGED <<life, next>>

\* log() called while no other thread runs.
LogAlone ==
    /\ entries' = Ring(Append(entries, NewEntry(next)))
    /\ next' = next + 1
    /\ UNCHANGED <<life, drawn>>

\* The process ends; the next one starts with an empty log.
LogLost ==
    /\ life' = life + 1
    /\ next' = 1
    /\ entries' = <<>>
    /\ drawn' = [t \in Threads |-> 0]

\* Later(since) are the entries above a cursor, in the order of the ring.
Later(since) == Selected(entries, {e \in Range(entries) : e.id > since})

\* The last `limit' of them.
Snapshot(since, limit) ==
    LET items == Later(since)
    IN  SubSeq(items, Max({1, Len(items) - limit + 1}), Len(items))

LogTypeOK ==
    /\ life \in Nat \ {0}
    /\ next \in Nat \ {0}
    /\ entries \in Seq(Entry)
    /\ Len(entries) <= MaxEntries
    /\ drawn \in [Threads -> Nat]
=============================================================================
