----------------------------- MODULE RecordMutex -----------------------------
(***************************************************************************)
(* The lock table of the storage engine (util/thread.h): one mutex per key *)
(* in use, kept in the map records_ with a count of the threads that refer *)
(* to it, and a global lock for FLUSHDB.  A thread that locks a key finds  *)
(* or creates the key's RefMutex while it holds mutex_, and only then, with*)
(* mutex_ released, locks it; Unlock drops the record with its last        *)
(* reference.  mutex_ makes each of the two halves one step.               *)
(*                                                                         *)
(* A RefMutex is a cell of the heap: free while its count is zero, and free*)
(* cells are handed out again.  Every thread unlocks what it locked: DEL,  *)
(* which does not, is part of KeyStore.                                    *)
(***************************************************************************)
EXTENDS Integers, FiniteSets

CONSTANTS
    Keys,
    Cells,          \* memory for RefMutex objects
    Threads,        \* threads that use RecordKeyLock
    Flushers,       \* threads that use Locking<RecordKeyMutex>: FLUSHDB
    None            \* no cell

ASSUME RecordMutexAssumption ==
    /\ Keys # {}
    /\ None \notin Cells
    /\ IsFiniteSet(Threads)

VARIABLES
    gate,       \* is g_mutex_ locked
    records,    \* records_: the cell of each key, or None
    refs,       \* refs_ of each cell; zero when the cell is free
    held,       \* is mu_ of the cell locked
    thread,     \* where each thread is, with which key and cell
    flusher     \* where each flusher is

vars == <<gate, records, refs, held, thread, flusher>>

----------------------------------------------------------------------------

\* Lock: the gate is taken and given back.
PassGate(t, k) ==
    /\ thread[t].pc = "idle"
    /\ ~gate
    /\ thread' = [thread EXCEPT ![t] = [pc |-> "passed", key |-> k, cell |-> None]]
    /\ UNCHANGED <<gate, records, refs, held, flusher>>

\* Faulty RefRecord: a second user is not counted.
RefRecordUncounted(t) ==
    LET k == thread[t].key IN
    /\ thread[t].pc = "passed"
    /\ \E o \in Cells :
         /\ IF records[k] # None
            THEN o = records[k] /\ UNCHANGED <<records, refs, held>>
            ELSE /\ refs[o] = 0
                 /\ records' = [records EXCEPT ![k] = o]
                 /\ refs' = [refs EXCEPT ![o] = 1]
                 /\ held' = [held EXCEPT ![o] = FALSE]
         /\ thread' = [thread EXCEPT ![t] = [pc |-> "waiting", key |-> k, cell |-> o]]
    /\ UNCHANGED <<gate, flusher>>

\* lockKeyInternal, under mutex_: a reference to the key's cell, which is new
\* when the key has none.
RefRecord(t) ==
    LET k == thread[t].key IN
    /\ thread[t].pc = "passed"
    /\ \E o \in Cells :
         /\ IF records[k] # None
            THEN /\ o = records[k]
                 /\ refs' = [refs EXCEPT ![o] = refs[o] + 1]
                 /\ UNCHANGED <<records, held>>
            ELSE /\ refs[o] = 0
                 /\ records' = [records EXCEPT ![k] = o]
                 /\ refs' = [refs EXCEPT ![o] = 1]
                 /\ held' = [held EXCEPT ![o] = FALSE]
         /\ thread' = [thread EXCEPT ![t] = [pc |-> "waiting", key |-> k, cell |-> o]]
    /\ UNCHANGED <<gate, flusher>>

\* ref_mutex->Lock(), after mutex_ is released.
LockRef(t) ==
    /\ thread[t].pc = "waiting"
    /\ ~held[thread[t].cell]
    /\ held' = [held EXCEPT ![thread[t].cell] = TRUE]
    /\ thread' = [thread EXCEPT ![t] = [pc |-> "in", key |-> thread[t].key,
                                        cell |-> thread[t].cell]]
    /\ UNCHANGED <<gate, records, refs, flusher>>

\* Faulty Unlock: the record is erased while it has users.
UnlockAlwaysErases(k) ==
    LET o == records[k] IN
    IF o = None THEN UNCHANGED <<records, refs, held>>
    ELSE /\ records' = [records EXCEPT ![k] = None]
         /\ refs' = [refs EXCEPT ![o] = refs[o] - 1]
         /\ held' = [held EXCEPT ![o] = FALSE]

\* Faulty Unlock: the record is never erased.
UnlockKeepsRecord(k) ==
    LET o == records[k] IN
    IF o = None \/ refs[o] = 0 THEN UNCHANGED <<records, refs, held>>
    ELSE /\ records' = records
         /\ refs' = [refs EXCEPT ![o] = refs[o] - 1]
         /\ held' = [held EXCEPT ![o] = FALSE]

\* Unlock(key) works on whatever cell the map has for the key now.
Unlock(k) ==
    LET o == records[k] IN
    IF o = None THEN UNCHANGED <<records, refs, held>>
    ELSE /\ records' = [records EXCEPT ![k] = IF refs[o] = 1 THEN None ELSE o]
         /\ refs' = [refs EXCEPT ![o] = refs[o] - 1]
         /\ held' = [held EXCEPT ![o] = FALSE]

\* ~RecordLock
UnlockKey(t) ==
    /\ thread[t].pc = "in"
    /\ Unlock(thread[t].key)
    /\ thread' = [thread EXCEPT ![t] = [pc |-> "idle", key |-> thread[t].key, cell |-> None]]
    /\ UNCHANGED <<gate, flusher>>

\* lock(): the gate is closed, and the flusher spins until GetUsage() is zero.
GlobalLock(g) ==
    /\ flusher[g] = "idle"
    /\ ~gate
    /\ gate' = TRUE
    /\ flusher' = [flusher EXCEPT ![g] = "spinning"]
    /\ UNCHANGED <<records, refs, held, thread>>

GlobalEnter(g) ==
    /\ flusher[g] = "spinning"
    /\ \A k \in Keys : records[k] = None
    /\ flusher' = [flusher EXCEPT ![g] = "in"]
    /\ UNCHANGED <<gate, records, refs, held, thread>>

GlobalUnlock(g) ==
    /\ flusher[g] = "in"
    /\ gate' = FALSE
    /\ flusher' = [flusher EXCEPT ![g] = "idle"]
    /\ UNCHANGED <<records, refs, held, thread>>

----------------------------------------------------------------------------

Init ==
    /\ gate = FALSE
    /\ records = [k \in Keys |-> None]
    /\ refs = [o \in Cells |-> 0]
    /\ held = [o \in Cells |-> FALSE]
    /\ thread = [t \in Threads |-> [pc |-> "idle", key |-> CHOOSE k \in Keys : TRUE,
                                    cell |-> None]]
    /\ flusher = [g \in Flushers |-> "idle"]

ThreadStep(t) == RefRecord(t) \/ LockRef(t) \/ UnlockKey(t)

FlusherStep(g) == GlobalEnter(g) \/ GlobalUnlock(g)

Next ==
    \/ \E t \in Threads : ThreadStep(t) \/ \E k \in Keys : PassGate(t, k)
    \/ \E g \in Flushers : GlobalLock(g) \/ FlusherStep(g)

Spec == Init /\ [][Next]_vars

\* Threads that can run are scheduled, and critical sections end.
Fairness ==
    /\ \A t \in Threads : WF_vars(ThreadStep(t))
    /\ \A g \in Flushers : WF_vars(FlusherStep(g))

FairSpec == Spec /\ Fairness

----------------------------------------------------------------------------
(* Properties *)

ThreadState == [pc : {"idle", "passed", "waiting", "in"}, key : Keys, cell : Cells \cup {None}]

\* The threads that wait for, or hold, a cell.
Users(th, o) == {t \in Threads : th[t].pc \in {"waiting", "in"} /\ th[t].cell = o}

TypeOK ==
    /\ gate \in BOOLEAN
    /\ records \in [Keys -> Cells \cup {None}]
    /\ refs \in [Cells -> Nat]
    /\ held \in [Cells -> BOOLEAN]
    /\ thread \in [Threads -> ThreadState]
    /\ flusher \in [Flushers -> {"idle", "spinning", "in"}]

\* What a RecordKeyLock is for: two threads are never inside with the same key,
\* although Unlock works on the cell the map has now and not on the one the
\* thread locked, and cells are freed and handed out again.
MutualExclusion ==
    \A s, t \in Threads :
        s # t /\ thread[s].pc = "in" /\ thread[t].pc = "in" => thread[s].key # thread[t].key

\* No thread waits for, or holds, a RefMutex that was deleted, and refs_ counts
\* the threads that use it ("Lock and Unlock will increase and decrease refs_").
RefsCounted ==
    \A o \in Cells : refs[o] = Cardinality(Users(thread, o))

\* While a flusher is inside its global lock no thread is inside a key's lock.
GlobalExclusion ==
    \A g \in Flushers, t \in Threads : flusher[g] = "in" => thread[t].pc # "in"

\* The global lock is not overtaken: a flusher that closed the gate gets in,
\* because every record is dropped with its last reference.
FlusherEnters == \A g \in Flushers : flusher[g] = "spinning" ~> flusher[g] = "in"

\* The lock table implements the abstract key lock.
Holders == [k \in Keys |-> {t \in Threads : thread[t].pc = "in" /\ thread[t].key = k}]

KL == INSTANCE KeyLock WITH holders <- Holders

ImplementsKeyLock == KL!Spec

----------------------------------------------------------------------------
(* The inductive invariant: a cell in use is the cell of its key, its count  *)
(* is the number of its users, and it is locked exactly by the one inside.   *)

CellsInv ==
    /\ \A t \in Threads : thread[t].pc \in {"waiting", "in"} =>
          /\ thread[t].cell \in Cells
          /\ records[thread[t].key] = thread[t].cell
    /\ \A j, k \in Keys : records[j] = records[k] /\ records[j] # None => j = k
    /\ \A k \in Keys : records[k] # None => Users(thread, records[k]) # {}

HeldInv ==
    /\ \A t \in Threads : thread[t].pc = "in" => held[thread[t].cell]
    /\ \A s, t \in Threads :
          s # t /\ thread[s].pc = "in" /\ thread[t].pc = "in" => thread[s].cell # thread[t].cell

IndInv == TypeOK /\ RefsCounted /\ CellsInv /\ HeldInv
=============================================================================
