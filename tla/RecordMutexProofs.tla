-------------------------- MODULE RecordMutexProofs --------------------------
(***************************************************************************)
(* Proofs about RecordMutex, for any number of threads, keys and flushers. *)
(***************************************************************************)
EXTENDS RecordMutex, FiniteSetTheorems, TLAPS

USE RecordMutexAssumption

LEMMA ThreadFacts ==
    ASSUME TypeOK, NEW t \in Threads
    PROVE  /\ thread[t] \in ThreadState /\ thread[t].key \in Keys
           /\ thread[t].cell \in Cells \cup {None}
           /\ thread[t].pc \in {"idle", "passed", "waiting", "in"}
BY DEF TypeOK, ThreadState

LEMMA UsersFinite ==
    ASSUME NEW th, NEW o
    PROVE  /\ Users(th, o) \subseteq Threads
           /\ IsFiniteSet(Users(th, o)) /\ Cardinality(Users(th, o)) \in Nat
           /\ (Cardinality(Users(th, o)) = 0 <=> Users(th, o) = {})
<1>1. Users(th, o) \subseteq Threads
  BY DEF Users
<1>2. IsFiniteSet(Users(th, o))
  BY <1>1, FS_Subset
<1> QED
  BY <1>1, <1>2, FS_CardinalityType, FS_EmptySet

\* Only one thread is inside with a key.
LEMMA InvExclusion == IndInv => MutualExclusion
<1> SUFFICES ASSUME IndInv, NEW s \in Threads, NEW t \in Threads, s # t,
                    thread[s].pc = "in", thread[t].pc = "in"
             PROVE  thread[s].key # thread[t].key
  BY DEF MutualExclusion
<1>1. records[thread[s].key] = thread[s].cell /\ records[thread[t].key] = thread[t].cell
  BY DEF IndInv, CellsInv
<1>2. thread[s].cell # thread[t].cell
  BY DEF IndInv, HeldInv
<1> QED
  BY <1>1, <1>2

LEMMA InitInv == Init => IndInv
<1> SUFFICES ASSUME Init
             PROVE  IndInv
  OBVIOUS
<1>1. TypeOK
  BY DEF Init, TypeOK, ThreadState
<1>2. \A o : Users(thread, o) = {}
  BY DEF Init, Users
<1>3. RefsCounted
  BY <1>2, FS_EmptySet DEF Init, RefsCounted
<1>4. CellsInv /\ HeldInv
  BY DEF Init, CellsInv, HeldInv
<1> QED
  BY <1>1, <1>3, <1>4 DEF IndInv

----------------------------------------------------------------------------
(* The steps *)

LEMMA PassGateInv ==
    ASSUME IndInv, NEW t \in Threads, NEW k \in Keys, PassGate(t, k)
    PROVE  IndInv'
<1>t. TypeOK /\ RefsCounted /\ CellsInv /\ HeldInv
  BY DEF IndInv
<1>u. /\ thread[t].pc = "idle" /\ UNCHANGED <<gate, records, refs, held, flusher>>
      /\ thread' = [thread EXCEPT ![t] = [pc |-> "passed", key |-> k, cell |-> None]]
  BY DEF PassGate
<1>1. TypeOK'
  BY <1>t, <1>u DEF TypeOK, ThreadState
<1>2. thread'[t].pc = "passed" /\ \A u \in Threads \ {t} : thread'[u] = thread[u]
  BY <1>t, <1>u DEF TypeOK
<1>3. \A o : Users(thread', o) = Users(thread, o)
  BY <1>2, <1>u DEF Users
<1>4. RefsCounted'
  BY <1>t, <1>u, <1>3 DEF RefsCounted
<1>5. CellsInv'
  <2>1. \A u \in Threads : thread'[u].pc \in {"waiting", "in"} =>
            thread'[u].cell \in Cells /\ records'[thread'[u].key] = thread'[u].cell
    BY <1>t, <1>u, <1>2 DEF CellsInv
  <2>2. records' = records
    BY <1>u
  <2>3. \A j \in Keys : records[j] # None => Users(thread', records[j]) # {}
    BY <1>t, <1>3 DEF CellsInv
  <2> QED
    BY <1>t, <2>1, <2>2, <2>3 DEF CellsInv
<1>6. HeldInv'
  BY <1>t, <1>u, <1>2 DEF HeldInv
<1> QED
  BY <1>1, <1>4, <1>5, <1>6 DEF IndInv

LEMMA RefRecordInv ==
    ASSUME IndInv, NEW t \in Threads, RefRecord(t)
    PROVE  IndInv'
<1> DEFINE k == thread[t].key
<1>t. TypeOK /\ RefsCounted /\ CellsInv /\ HeldInv
  BY DEF IndInv
<1>k. k \in Keys
  BY <1>t, ThreadFacts
<1>p. thread[t].pc = "passed" /\ UNCHANGED <<gate, flusher>>
  BY DEF RefRecord
<1>o. PICK o \in Cells :
        /\ IF records[k] # None
           THEN /\ o = records[k]
                /\ refs' = [refs EXCEPT ![o] = refs[o] + 1]
                /\ UNCHANGED <<records, held>>
           ELSE /\ refs[o] = 0
                /\ records' = [records EXCEPT ![k] = o]
                /\ refs' = [refs EXCEPT ![o] = 1]
                /\ held' = [held EXCEPT ![o] = FALSE]
        /\ thread' = [thread EXCEPT ![t] = [pc |-> "waiting", key |-> k, cell |-> o]]
  BY DEF RefRecord
<1> HIDE DEF k
<1>r. refs[o] \in Nat
  BY <1>t DEF TypeOK
<1>1. TypeOK'
  <2>1. thread' \in [Threads -> ThreadState]
    BY <1>t, <1>o, <1>k DEF TypeOK, ThreadState
  <2>2. /\ records' \in [Keys -> Cells \cup {None}] /\ refs' \in [Cells -> Nat]
        /\ held' \in [Cells -> BOOLEAN]
    <3>1. CASE records[k] # None
      <4>1. records' = records /\ held' = held /\ refs' = [refs EXCEPT ![o] = refs[o] + 1]
        BY <1>o, <3>1
      <4>2. records' \in [Keys -> Cells \cup {None}] /\ held' \in [Cells -> BOOLEAN]
        BY <1>t, <4>1 DEF TypeOK
      <4>3. refs' \in [Cells -> Nat]
        BY <1>t, <1>r, <4>1 DEF TypeOK
      <4> QED
        BY <4>2, <4>3
    <3>2. CASE records[k] = None
      <4>1. /\ records' = [records EXCEPT ![k] = o]
            /\ refs' = [refs EXCEPT ![o] = 1]
            /\ held' = [held EXCEPT ![o] = FALSE]
        BY <1>o, <3>2
      <4>2. records' \in [Keys -> Cells \cup {None}]
        BY <1>t, <4>1 DEF TypeOK
      <4>3. refs' \in [Cells -> Nat]
        BY <1>t, <4>1 DEF TypeOK
      <4>4. held' \in [Cells -> BOOLEAN]
        BY <1>t, <4>1 DEF TypeOK
      <4> QED
        BY <4>2, <4>3, <4>4
    <3> QED
      BY <3>1, <3>2
  <2>3. gate' \in BOOLEAN /\ flusher' \in [Flushers -> {"idle", "spinning", "in"}]
    BY <1>t, <1>p DEF TypeOK
  <2> QED
    BY <2>1, <2>2, <2>3 DEF TypeOK
<1>2. /\ thread'[t].pc = "waiting" /\ thread'[t].key = k /\ thread'[t].cell = o
      /\ \A u \in Threads \ {t} : thread'[u] = thread[u]
  BY <1>t, <1>o DEF TypeOK
<1>3. t \notin Users(thread, o)
  BY <1>p DEF Users
<1>4. /\ Users(thread', o) = Users(thread, o) \cup {t}
      /\ \A c \in Cells \ {o} : Users(thread', c) = Users(thread, c)
  BY <1>2, <1>p DEF Users
<1>5. Cardinality(Users(thread', o)) = Cardinality(Users(thread, o)) + 1
  <2>1. IsFiniteSet(Users(thread, o))
    BY UsersFinite
  <2>2. Cardinality(Users(thread, o) \cup {t}) = Cardinality(Users(thread, o)) + 1
    BY <2>1, <1>3, FS_AddElement
  <2> QED
    BY <2>2, <1>4
<1>6. refs'[o] = refs[o] + 1 /\ \A c \in Cells \ {o} : refs'[c] = refs[c]
  BY <1>t, <1>o, <1>r DEF TypeOK
<1>7. RefsCounted'
  <2>1. \A c \in Cells : refs'[c] = Cardinality(Users(thread', c))
    BY <1>t, <1>4, <1>5, <1>6 DEF RefsCounted
  <2> QED
    BY <2>1 DEF RefsCounted
<1>8. records'[k] = o /\ \A j \in Keys \ {k} : records'[j] = records[j]
  BY <1>t, <1>o, <1>k DEF TypeOK
\* A new cell is nobody's.
<1>9. records[k] = None => Users(thread, o) = {} /\ \A j \in Keys : records[j] # o
  <2> SUFFICES ASSUME records[k] = None
               PROVE  Users(thread, o) = {} /\ \A j \in Keys : records[j] # o
    OBVIOUS
  <2>1. Cardinality(Users(thread, o)) = 0
    BY <1>t, <1>o DEF RefsCounted
  <2>2. Users(thread, o) = {}
    BY <2>1, UsersFinite
  <2> QED
    BY <1>t, <2>2 DEF CellsInv
<1>10. \A j \in Keys \ {k} : records[j] # o
  <2>1. CASE records[k] = None
    BY <1>9, <2>1
  <2>2. CASE records[k] # None
    BY <1>t, <1>o, <1>k, <2>2 DEF CellsInv
  <2> QED
    BY <2>1, <2>2
\* Another thread that works with k uses o too.
<1>11. \A u \in Threads \ {t} : thread[u].pc \in {"waiting", "in"} =>
         records'[thread[u].key] = thread[u].cell /\ thread[u].cell \in Cells
  <2> SUFFICES ASSUME NEW u \in Threads \ {t}, thread[u].pc \in {"waiting", "in"}
               PROVE  records'[thread[u].key] = thread[u].cell /\ thread[u].cell \in Cells
    OBVIOUS
  <2>1. records[thread[u].key] = thread[u].cell /\ thread[u].cell \in Cells /\ thread[u].key \in Keys
    BY <1>t, ThreadFacts DEF CellsInv
  <2>2. CASE thread[u].key = k
    BY <1>o, <1>8, <2>1, <2>2
  <2>3. CASE thread[u].key # k
    BY <1>8, <2>1, <2>3
  <2> QED
    BY <2>2, <2>3
<1>12. CellsInv'
  <2>1. \A u \in Threads : thread'[u].pc \in {"waiting", "in"} =>
          thread'[u].cell \in Cells /\ records'[thread'[u].key] = thread'[u].cell
    BY <1>2, <1>8, <1>11
  <2>2. \A i, j \in Keys : records'[i] = records'[j] /\ records'[i] # None => i = j
    BY <1>t, <1>8, <1>10 DEF CellsInv
  <2>3. \A j \in Keys : records'[j] # None => Users(thread', records'[j]) # {}
    <3> SUFFICES ASSUME NEW j \in Keys, records'[j] # None
                 PROVE  Users(thread', records'[j]) # {}
      OBVIOUS
    <3>1. CASE j = k
      BY <1>4, <1>8, <3>1
    <3>2. CASE j # k
      <4>1. records'[j] = records[j] /\ records[j] # o
        BY <1>8, <1>10, <3>2
      <4>2. records[j] \in Cells
        BY <1>t, <4>1 DEF TypeOK
      <4> QED
        BY <1>t, <1>4, <4>1, <4>2 DEF CellsInv
    <3> QED
      BY <3>1, <3>2
  <2> QED
    BY <2>1, <2>2, <2>3 DEF CellsInv
<1>13. HeldInv'
  <2>1. \A u \in Threads : thread'[u].pc = "in" => u # t /\ thread'[u] = thread[u]
    BY <1>2
  <2>2. \A u \in Threads : thread[u].pc = "in" => held'[thread[u].cell]
    <3> SUFFICES ASSUME NEW u \in Threads, thread[u].pc = "in"
                 PROVE  held'[thread[u].cell]
      OBVIOUS
    <3>1. held[thread[u].cell] /\ thread[u].cell \in Cells
      BY <1>t DEF HeldInv, CellsInv
    <3>2. CASE records[k] # None
      BY <1>o, <3>1, <3>2
    <3>3. CASE records[k] = None
      <4>1. u \notin Users(thread, o)
        BY <1>9, <3>3
      <4>2. thread[u].cell # o
        BY <4>1 DEF Users
      <4> QED
        BY <1>t, <1>o, <3>1, <3>3, <4>2 DEF TypeOK
    <3> QED
      BY <3>2, <3>3
  <2>3. \A s, u \in Threads :
          s # u /\ thread'[s].pc = "in" /\ thread'[u].pc = "in" => thread'[s].cell # thread'[u].cell
    BY <1>t, <2>1 DEF HeldInv
  <2> QED
    BY <2>1, <2>2, <2>3 DEF HeldInv
<1> QED
  BY <1>1, <1>7, <1>12, <1>13 DEF IndInv

LEMMA LockRefInv ==
    ASSUME IndInv, NEW t \in Threads, LockRef(t)
    PROVE  IndInv'
<1> DEFINE o == thread[t].cell
<1>t. TypeOK /\ RefsCounted /\ CellsInv /\ HeldInv
  BY DEF IndInv
<1>u. /\ thread[t].pc = "waiting" /\ ~held[o] /\ held' = [held EXCEPT ![o] = TRUE]
      /\ thread' = [thread EXCEPT ![t] = [pc |-> "in", key |-> thread[t].key, cell |-> o]]
      /\ UNCHANGED <<gate, records, refs, flusher>>
  BY DEF LockRef
<1>o. o \in Cells /\ records[thread[t].key] = o /\ thread[t].key \in Keys
  BY <1>t, <1>u, ThreadFacts DEF CellsInv
<1>2. /\ thread'[t].pc = "in" /\ thread'[t].cell = o /\ thread'[t].key = thread[t].key
      /\ \A u \in Threads \ {t} : thread'[u] = thread[u]
  BY <1>t, <1>u DEF TypeOK
<1>h. held'[o] /\ \A c \in Cells \ {o} : held'[c] = held[c]
  BY <1>t, <1>u, <1>o DEF TypeOK
<1>1. TypeOK'
  <2>1. thread' \in [Threads -> ThreadState]
    BY <1>t, <1>u, <1>o DEF TypeOK, ThreadState
  <2> QED
    BY <1>t, <1>u, <2>1 DEF TypeOK
<1>3. \A c : Users(thread', c) = Users(thread, c)
  BY <1>2, <1>u DEF Users
<1> HIDE DEF o
<1>4. RefsCounted'
  BY <1>t, <1>u, <1>3 DEF RefsCounted
<1>5. CellsInv'
  <2>1. \A u \in Threads : thread'[u].pc \in {"waiting", "in"} =>
          thread'[u].cell \in Cells /\ records[thread'[u].key] = thread'[u].cell
    BY <1>t, <1>2, <1>o DEF CellsInv
  <2> QED
    BY <1>t, <1>u, <1>3, <2>1 DEF CellsInv
<1>6. HeldInv'
  <2>1. \A u \in Threads \ {t} : thread[u].pc = "in" =>
          thread[u].cell # o /\ thread[u].cell \in Cells /\ held[thread[u].cell]
    BY <1>t, <1>u DEF HeldInv, CellsInv
  <2> QED
    BY <1>t, <1>2, <1>h, <2>1 DEF HeldInv
<1> QED
  BY <1>1, <1>4, <1>5, <1>6 DEF IndInv

LEMMA UnlockKeyInv ==
    ASSUME IndInv, NEW t \in Threads, UnlockKey(t)
    PROVE  IndInv'
<1> DEFINE k == thread[t].key
           o == thread[t].cell
<1>t. TypeOK /\ RefsCounted /\ CellsInv /\ HeldInv
  BY DEF IndInv
<1>p. /\ thread[t].pc = "in" /\ UNCHANGED <<gate, flusher>> /\ Unlock(k)
      /\ thread' = [thread EXCEPT ![t] = [pc |-> "idle", key |-> k, cell |-> None]]
  BY DEF UnlockKey
<1>o. o \in Cells /\ records[k] = o /\ k \in Keys /\ o # None
  BY <1>t, <1>p, ThreadFacts DEF CellsInv
<1>u. /\ records' = [records EXCEPT ![k] = IF refs[o] = 1 THEN None ELSE o]
      /\ refs' = [refs EXCEPT ![o] = refs[o] - 1]
      /\ held' = [held EXCEPT ![o] = FALSE]
  BY <1>p, <1>o DEF Unlock
<1>2. /\ thread'[t].pc = "idle" /\ \A u \in Threads \ {t} : thread'[u] = thread[u]
  BY <1>t, <1>p DEF TypeOK
<1>3. t \in Users(thread, o)
  BY <1>p DEF Users
<1>4. /\ Users(thread', o) = Users(thread, o) \ {t}
      /\ \A c \in Cells \ {o} : Users(thread', c) = Users(thread, c)
  BY <1>2, <1>p DEF Users
<1>5. /\ refs[o] = Cardinality(Users(thread, o)) /\ refs[o] \in Nat
      /\ Cardinality(Users(thread', o)) = refs[o] - 1
  <2>1. IsFiniteSet(Users(thread, o)) /\ Cardinality(Users(thread, o)) \in Nat
    BY UsersFinite
  <2>2. refs[o] = Cardinality(Users(thread, o))
    BY <1>t, <1>o DEF RefsCounted
  <2>3. Cardinality(Users(thread, o) \ {t}) = Cardinality(Users(thread, o)) - 1
    BY <2>1, <1>3, FS_RemoveElement
  <2> QED
    BY <2>1, <2>2, <2>3, <1>4
<1>6. refs[o] - 1 \in Nat
  <2>1. Cardinality(Users(thread', o)) \in Nat
    BY UsersFinite
  <2> QED
    BY <2>1, <1>5
<1>7. /\ refs'[o] = refs[o] - 1 /\ \A c \in Cells \ {o} : refs'[c] = refs[c]
      /\ \A c \in Cells \ {o} : held'[c] = held[c]
      /\ records'[k] = (IF refs[o] = 1 THEN None ELSE o)
      /\ \A j \in Keys \ {k} : records'[j] = records[j]
  BY <1>t, <1>u, <1>o DEF TypeOK
<1>1. TypeOK'
  <2>1. thread' \in [Threads -> ThreadState]
    BY <1>t, <1>p, <1>o DEF TypeOK, ThreadState
  <2> QED
    BY <1>t, <1>p, <1>u, <1>6, <1>o, <2>1 DEF TypeOK
<1> HIDE DEF k, o
<1>8. RefsCounted'
  <2>1. \A c \in Cells : refs'[c] = Cardinality(Users(thread', c))
    BY <1>t, <1>4, <1>5, <1>7 DEF RefsCounted
  <2> QED
    BY <2>1 DEF RefsCounted
\* The last user takes the record away.
<1>9. refs[o] = 1 <=> Users(thread', o) = {}
  <2>1. Cardinality(Users(thread', o)) = 0 <=> Users(thread', o) = {}
    BY UsersFinite
  <2> QED
    BY <2>1, <1>5
<1>10. \A u \in Threads \ {t} : thread[u].pc \in {"waiting", "in"} =>
         thread[u].cell \in Cells /\ records'[thread[u].key] = thread[u].cell
  <2> SUFFICES ASSUME NEW u \in Threads \ {t}, thread[u].pc \in {"waiting", "in"}
               PROVE  thread[u].cell \in Cells /\ records'[thread[u].key] = thread[u].cell
    OBVIOUS
  <2>1. records[thread[u].key] = thread[u].cell /\ thread[u].cell \in Cells /\ thread[u].key \in Keys
    BY <1>t, ThreadFacts DEF CellsInv
  <2>2. CASE thread[u].key = k
    <3>1. thread[u].cell = o
      BY <1>o, <2>1, <2>2
    <3>2. u \in Users(thread', o)
      BY <1>2, <3>1 DEF Users
    <3> QED
      BY <1>7, <1>9, <2>1, <2>2, <3>1, <3>2
  <2>3. CASE thread[u].key # k
    BY <1>7, <2>1, <2>3
  <2> QED
    BY <2>2, <2>3
<1>11. \A j \in Keys \ {k} : records[j] # o
  BY <1>t, <1>o DEF CellsInv
<1>12. CellsInv'
  <2>1. \A u \in Threads : thread'[u].pc \in {"waiting", "in"} =>
          thread'[u].cell \in Cells /\ records'[thread'[u].key] = thread'[u].cell
    BY <1>2, <1>10
  <2>2. \A i, j \in Keys : records'[i] = records'[j] /\ records'[i] # None => i = j
    BY <1>t, <1>7, <1>11 DEF CellsInv
  <2>3. \A j \in Keys : records'[j] # None => Users(thread', records'[j]) # {}
    <3> SUFFICES ASSUME NEW j \in Keys, records'[j] # None
                 PROVE  Users(thread', records'[j]) # {}
      OBVIOUS
    <3>1. CASE j = k
      BY <1>7, <1>9, <3>1
    <3>2. CASE j # k
      <4>1. records'[j] = records[j] /\ records[j] # o
        BY <1>7, <1>11, <3>2
      <4>2. records[j] \in Cells
        BY <1>t, <4>1 DEF TypeOK
      <4> QED
        BY <1>t, <1>4, <4>1, <4>2 DEF CellsInv
    <3> QED
      BY <3>1, <3>2
  <2> QED
    BY <2>1, <2>2, <2>3 DEF CellsInv
<1>13. HeldInv'
  <2>1. \A u \in Threads : thread'[u].pc = "in" => u # t /\ thread'[u] = thread[u]
    BY <1>2
  <2>2. \A u \in Threads \ {t} : thread[u].pc = "in" => held'[thread[u].cell]
    <3> SUFFICES ASSUME NEW u \in Threads \ {t}, thread[u].pc = "in"
                 PROVE  held'[thread[u].cell]
      OBVIOUS
    <3>1. held[thread[u].cell] /\ thread[u].cell \in Cells
      BY <1>t DEF HeldInv, CellsInv
    <3>2. thread[u].cell # o
      BY <1>t, <1>p DEF HeldInv, o
    <3> QED
      BY <1>7, <3>1, <3>2
  <2>3. \A s, u \in Threads :
          s # u /\ thread'[s].pc = "in" /\ thread'[u].pc = "in" => thread'[s].cell # thread'[u].cell
    BY <1>t, <2>1 DEF HeldInv
  <2> QED
    BY <2>1, <2>2, <2>3 DEF HeldInv
<1> QED
  BY <1>1, <1>8, <1>12, <1>13 DEF IndInv

LEMMA FlusherInv ==
    ASSUME IndInv, NEW g \in Flushers, GlobalLock(g) \/ FlusherStep(g)
    PROVE  IndInv'
<1>1. UNCHANGED <<records, refs, held, thread>>
  BY DEF GlobalLock, FlusherStep, GlobalEnter, GlobalUnlock
<1>2. TypeOK'
  BY <1>1 DEF IndInv, TypeOK, GlobalLock, FlusherStep, GlobalEnter, GlobalUnlock
<1> QED
  BY <1>1, <1>2 DEF IndInv, RefsCounted, CellsInv, HeldInv

LEMMA NextInv ==
    ASSUME IndInv, [Next]_vars
    PROVE  IndInv'
<1>1. ASSUME NEW t \in Threads, ThreadStep(t)
      PROVE  IndInv'
  BY <1>1, RefRecordInv, LockRefInv, UnlockKeyInv DEF ThreadStep
<1>2. ASSUME NEW t \in Threads, NEW k \in Keys, PassGate(t, k)
      PROVE  IndInv'
  BY <1>2, PassGateInv
<1>3. ASSUME NEW g \in Flushers, GlobalLock(g) \/ FlusherStep(g)
      PROVE  IndInv'
  BY <1>3, FlusherInv
<1>4. CASE UNCHANGED vars
  BY <1>4 DEF vars, IndInv, TypeOK, RefsCounted, CellsInv, HeldInv
<1> QED
  BY <1>1, <1>2, <1>3, <1>4 DEF Next

----------------------------------------------------------------------------
(* The theorems *)

\* The lock table stays consistent through lockKeyInternal and Unlock.
THEOREM TableConsistent ==
    Spec => []IndInv
<1>1. Init => IndInv
  BY InitInv
<1>2. IndInv /\ [Next]_vars => IndInv'
  BY NextInv
<1> QED
  BY <1>1, <1>2, PTL DEF Spec

\* RecordMutex::Lock lets one thread in per key.
THEOREM Exclusion ==
    Spec => []MutualExclusion
BY TableConsistent, InvExclusion, PTL

\* refs_ counts the users of a RefMutex, so that none is deleted while in use.
THEOREM CountedRefs ==
    Spec => []RefsCounted
<1>1. IndInv => RefsCounted
  BY DEF IndInv
<1> QED
  BY <1>1, TableConsistent, PTL

\* RecordMutex implements the abstract key lock: LockRef acquires, Unlock
\* releases, and every other step changes no holder.
THEOREM Refinement ==
    Spec => ImplementsKeyLock
<1>1. Init => KL!Init
  BY DEF Init, KL!Init, Holders
<1>2. ASSUME IndInv, [Next]_vars
      PROVE  [KL!Next]_Holders
  <2>t. TypeOK /\ MutualExclusion
    BY <1>2, InvExclusion DEF IndInv
  <2>1. ASSUME NEW t \in Threads, LockRef(t)
        PROVE  KL!Next
    <3> DEFINE k == thread[t].key
    <3>1. k \in Keys /\ thread[t].pc = "waiting"
      BY <2>1, <2>t, ThreadFacts DEF LockRef
    <3>2. /\ thread'[t].pc = "in" /\ thread'[t].key = k
          /\ \A u \in Threads \ {t} : thread'[u] = thread[u]
      BY <2>1, <2>t DEF LockRef, TypeOK
    <3>3. Holders[k] = {}
      <4> SUFFICES ASSUME NEW u \in Threads, thread[u].pc = "in", thread[u].key = k
                   PROVE  FALSE
        BY <3>1 DEF Holders
      <4>1. records[thread[u].key] = thread[u].cell /\ records[k] = thread[t].cell
        BY <1>2, <3>1 DEF IndInv, CellsInv
      <4>2. held[thread[u].cell]
        BY <1>2 DEF IndInv, HeldInv
      <4>3. ~held[thread[t].cell]
        BY <2>1 DEF LockRef
      <4> QED
        BY <4>1, <4>2, <4>3
    <3> HIDE DEF k
    <3>4. Holders' = [Holders EXCEPT ![k] = {t}]
      <4>1. \A j \in Keys \ {k} :
              {u \in Threads : thread'[u].pc = "in" /\ thread'[u].key = j}
                = {u \in Threads : thread[u].pc = "in" /\ thread[u].key = j}
        BY <3>1, <3>2
      <4>2. {u \in Threads : thread'[u].pc = "in" /\ thread'[u].key = k} = {t}
        <5>1. \A u \in Threads : ~(thread[u].pc = "in" /\ thread[u].key = k)
          BY <3>1, <3>3 DEF Holders
        <5> QED
          BY <3>2, <5>1
      <4> QED
        BY <4>1, <4>2 DEF Holders
    <3>5. KL!Acquire(t, k)
      BY <3>3, <3>4 DEF KL!Acquire
    <3> QED
      BY <3>1, <3>5 DEF KL!Next
  <2>2. ASSUME NEW t \in Threads, UnlockKey(t)
        PROVE  KL!Next
    <3> DEFINE k == thread[t].key
    <3>1. k \in Keys /\ thread[t].pc = "in"
      BY <2>2, <2>t, ThreadFacts DEF UnlockKey
    <3>2. /\ thread'[t].pc = "idle"
          /\ \A u \in Threads \ {t} : thread'[u] = thread[u]
      BY <2>2, <2>t DEF UnlockKey, TypeOK
    <3>3. t \in Holders[k] /\ \A j \in Keys \ {k} : t \notin Holders[j]
      BY <3>1 DEF Holders
    <3> HIDE DEF k
    <3>4. \A j \in Keys : {u \in Threads : thread'[u].pc = "in" /\ thread'[u].key = j}
                            = {u \in Threads : thread[u].pc = "in" /\ thread[u].key = j} \ {t}
      BY <3>2
    <3>5. Holders' = [Holders EXCEPT ![k] = Holders[k] \ {t}]
      <4>1. \A j \in Keys : Holders[j] = {u \in Threads : thread[u].pc = "in" /\ thread[u].key = j}
        BY DEF Holders
      <4>2. Holders' = [j \in Keys |-> Holders[j] \ {t}]
        BY <3>4, <4>1 DEF Holders
      <4>3. \A j \in Keys \ {k} : Holders[j] \ {t} = Holders[j]
        BY <3>3
      <4>4. Holders = [j \in Keys |-> Holders[j]]
        BY DEF Holders
      <4> QED
        BY <4>2, <4>3, <4>4
    <3>6. KL!Release(t, k)
      BY <3>3, <3>5 DEF KL!Release
    <3> QED
      BY <3>1, <3>6 DEF KL!Next
  <2>3. ASSUME NEW t \in Threads, RefRecord(t) \/ \E k \in Keys : PassGate(t, k)
        PROVE  Holders' = Holders
    <3>1. /\ thread[t].pc # "in" /\ thread'[t].pc # "in"
          /\ \A u \in Threads \ {t} : thread'[u] = thread[u]
      BY <2>3, <2>t DEF RefRecord, PassGate, TypeOK
    <3>2. \A j \in Keys : {u \in Threads : thread'[u].pc = "in" /\ thread'[u].key = j}
                            = {u \in Threads : thread[u].pc = "in" /\ thread[u].key = j}
      BY <3>1
    <3> QED
      BY <3>2 DEF Holders
  <2>4. ASSUME NEW g \in Flushers, GlobalLock(g) \/ FlusherStep(g)
        PROVE  Holders' = Holders
    BY <2>4 DEF GlobalLock, FlusherStep, GlobalEnter, GlobalUnlock, Holders
  <2>5. CASE UNCHANGED vars
    BY <2>5 DEF vars, Holders
  <2> QED
    BY <1>2, <2>1, <2>2, <2>3, <2>4, <2>5 DEF Next, ThreadStep
<1> QED
  BY <1>1, <1>2, TableConsistent, PTL DEF Spec, ImplementsKeyLock, KL!Spec
=============================================================================
