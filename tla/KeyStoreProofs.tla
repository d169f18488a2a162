--------------------------- MODULE KeyStoreProofs ---------------------------
(***************************************************************************)
(* Proofs about KeyStore, for any number of keys, fields and clients.      *)
(***************************************************************************)
EXTENDS KeyStore, FiniteSetTheorems, TLAPS

USE ConstantsAssumption

MetaRead == [ret : {-1, 0, 1}, ver : Versions, len : Nat]

----------------------------------------------------------------------------
(* Types of the operators the actions are built from *)

LEMMA VersionsFacts ==
    /\ 0 \in Versions
    /\ \A v \in Versions : v \in Nat /\ NextVersion(v) \in Versions
BY DEF Versions, NextVersion

LEMMA EmptyBatchType == EmptyBatch \in Batch
BY DEF EmptyBatch, Batch

LEMMA OneKeyType ==
    ASSUME NEW k \in Keys, NEW m \in MetaVal \cup {NoPut}, NEW put \in SUBSET Items,
           NEW del \in SUBSET Items, NEW mark \in SUBSET Marks, NEW unmark \in SUBSET Marks
    PROVE  OneKey(k, m, put, del, mark, unmark) \in Batch
BY DEF OneKey, Batch

LEMMA AbsentType == Absent \in MetaVal /\ NoPut \notin MetaVal
BY VersionsFacts DEF Absent, NoPut, MetaVal, Types

LEMMA LiveType ==
    ASSUME NEW t \in Types, NEW v \in Versions, NEW n \in Nat
    PROVE  Live(t, v, n) \in MetaVal
BY DEF Live, MetaVal

LEMMA DeadType ==
    ASSUME NEW m \in MetaVal
    PROVE  /\ Dead(m) \in MetaVal /\ Dead(m).st = "dead" 
           /\ Dead(m).ver = m.ver /\ Dead(m).len = m.len /\ Dead(m).type = m.type
BY DEF Dead, MetaVal

LEMMA GetMetaValType ==
    ASSUME TypeOK, NEW k \in Keys, NEW t \in Types
    PROVE  GetMetaVal(k, t) \in MetaRead
<1> DEFINE m == meta[k]
<1>1. m \in MetaVal
  BY DEF TypeOK
<1>2. m.st \in {"absent", "live", "dead"} /\ m.ver \in Versions /\ m.len \in Nat
  BY <1>1 DEF MetaVal
<1>3. NextVersion(m.ver) \in Versions /\ 0 \in Versions
  BY <1>2, VersionsFacts
<1> QED
  BY <1>2, <1>3 DEF GetMetaVal, MetaRead

LEMMA ItemsAtType ==
    ASSUME NEW k \in Keys, NEW v \in Versions, NEW fs \in SUBSET Fields
    PROVE  ItemsAt(k, v, fs) \in SUBSET Items
BY DEF ItemsAt, Items

LEMMA MarkKeyDeletedType ==
    ASSUME TypeOK, NEW k \in Keys
    PROVE  MarkKeyDeleted(k) \in Batch
<1>1. meta[k] \in MetaVal /\ <<k, meta[k].ver>> \in Marks
  BY DEF TypeOK, MetaVal, Marks
<1>2. Dead(meta[k]) \in MetaVal
  BY <1>1, DeadType
<1> QED
  BY <1>1, <1>2, OneKeyType DEF MarkKeyDeleted

LEMMA PutKvType ==
    ASSUME NEW k \in Keys, NEW mv \in MetaRead
    PROVE  PutKv(k, mv) \in Batch
<1>1. Live("kv", mv.ver, 0) \in MetaVal
  BY LiveType DEF MetaRead, Types
<1> QED
  BY <1>1, OneKeyType DEF PutKv

LEMMA IncrSizeType ==
    ASSUME NEW k \in Keys, NEW t \in Types, NEW mv \in MetaRead, NEW incr \in Int,
           mv.len + incr >= 0, NEW put \in SUBSET Fields, NEW del \in SUBSET Fields
    PROVE  IncrSize(k, t, mv, incr, put, del) \in Batch
<1> DEFINE m == CASE incr = 0 -> NoPut
                  [] incr # 0 /\ mv.len + incr = 0 -> Dead(Live(t, mv.ver, mv.len))
                  [] OTHER -> Live(t, mv.ver, mv.len + incr)
           mark == IF incr # 0 /\ mv.len + incr = 0 THEN {<<k, mv.ver>>} ELSE {}
<1>1. mv.ver \in Versions /\ mv.len \in Nat
  BY DEF MetaRead
<1>2. m \in MetaVal \cup {NoPut}
  BY <1>1, LiveType, DeadType
<1>3. mark \in SUBSET Marks
  BY <1>1 DEF Marks
<1>4. ItemsAt(k, mv.ver, put) \in SUBSET Items /\ ItemsAt(k, mv.ver, del) \in SUBSET Items
  BY <1>1, ItemsAtType
<1> HIDE DEF m, mark
<1>5. OneKey(k, m, ItemsAt(k, mv.ver, put), ItemsAt(k, mv.ver, del), mark, {}) \in Batch
  BY <1>2, <1>3, <1>4, OneKeyType
<1> QED
  BY <1>5 DEF IncrSize, m, mark

LEMMA AddToType ==
    ASSUME NEW k \in Keys, NEW b \in Batch, NEW one \in Batch
    PROVE  AddTo(b, k, one) \in Batch
BY DEF AddTo, Batch

LEMMA FieldsAtFinite ==
    ASSUME NEW its, NEW k, NEW v
    PROVE  /\ FieldsAt(its, k, v) \subseteq Fields
           /\ IsFiniteSet(FieldsAt(its, k, v))
           /\ \A S \in SUBSET Fields : IsFiniteSet(S) /\ Cardinality(S) \in Nat
BY FS_Subset, FS_CardinalityType DEF FieldsAt

LEMMA WriteType ==
    ASSUME TypeOK, NEW b \in Batch, Write(b)
    PROVE  meta' \in [Keys -> MetaVal] /\ items' \subseteq Items /\ marks' \subseteq Marks
<1>1. \A k \in Keys : b.meta[k] \in MetaVal \cup {NoPut}
  BY DEF Batch
<1>2. \A k \in Keys : NewMeta(b, k, meta[k]) \in MetaVal
  BY <1>1 DEF NewMeta, TypeOK
<1>3. b.put \subseteq Items /\ b.mark \subseteq Marks
  BY DEF Batch
<1> QED
  BY <1>2, <1>3 DEF Write, NewItems, NewMarks, TypeOK

LEMMA IdleTypes ==
    IdleClient \in ClientState /\ IdleBulk \in BulkState /\ IdleBg \in BgState
<1>1. (CHOOSE k \in Keys : TRUE) \in Keys
  OBVIOUS
<1>2. <<CHOOSE k \in Keys : TRUE, 0>> \in Marks
  BY <1>1, VersionsFacts DEF Marks
<1>3. (CHOOSE d \in Marks : TRUE) \in Marks
  BY <1>2
<1> QED
  BY <1>1, <1>3, EmptyBatchType, AbsentType
     DEF IdleClient, IdleBulk, IdleBg, ClientState, BulkState, BgState

LEMMA BeginType ==
    ASSUME TypeOK, NEW c \in Clients, NEW k \in Keys,
           NEW pc \in {"staged", "replace", "load", "dump"},
           NEW m \in MetaVal, NEW b \in Batch, Begin(c, k, pc, m, b)
    PROVE  TypeOK'
<1>1. [pc |-> pc, key |-> k, seen |-> m, batch |-> b] \in ClientState
  BY DEF ClientState
<1> QED
  BY <1>1 DEF Begin, TypeOK, db

LEMMA StageType ==
    ASSUME TypeOK, NEW c \in Clients, NEW k \in Keys, NEW b \in Batch, Stage(c, k, b)
    PROVE  TypeOK'
BY BeginType, AbsentType DEF Stage

LEMMA StringCommandIs ==
    ASSUME NEW c, NEW k, StringCommand(c, k)
    PROVE  UpdateKvCommon(c, k)
BY DEF StringCommand, Incr, Incrbyfloat, Append, Setbit, Getset, Setrange

\* What RESTORE loads, by the type of the payload.
LEMMA QuickIs ==
    ASSUME NEW t \in Types, NEW k, NEW mv, NEW fs
    PROVE  Quick(k, t, mv, fs)
             = IF t = "kv" THEN PutKv(k, mv) ELSE IncrSize(k, t, mv, Cardinality(fs), fs, {})
BY DEF Types, Quick, QuickKv, QuickHash, QuickSet, IncrSsize

LEMMA FinishType ==
    ASSUME TypeOK, NEW c \in Clients, Finish(c)
    PROVE  lock' \in [Keys -> BOOLEAN] /\ client' \in [Clients -> ClientState]
BY IdleTypes DEF Finish, TypeOK

----------------------------------------------------------------------------
(* Type correctness *)

LEMMA ClientCommandType ==
    ASSUME TypeOK, NEW c \in Clients, ClientCommand(c)
    PROVE  TypeOK'
<1>1. PICK k \in Keys : KeyCommand(c, k)
  BY DEF ClientCommand
<1>t. "kv" \in Types /\ "hash" \in Types /\ "set" \in Types
  BY DEF Types
<1>g. \A t \in Types : GetMetaVal(k, t) \in MetaRead
  BY GetMetaValType
<1>m. meta[k] \in MetaVal
  BY DEF TypeOK
<1>2. ASSUME NEW f \in Fields, NEW nx \in BOOLEAN, HsetCommon(c, k, f, nx)
      PROVE  TypeOK'
  <2> DEFINE mv == GetMetaVal(k, "hash")
             there == f \in FieldsAt(items, k, mv.ver)
  <2>1. PICK n \in HsetOne(there, nx) :
          /\ LenOK(mv, n)
          /\ Stage(c, k, IncrSize(k, "hash", mv, n, IF n = STORAGE_ERR THEN {} ELSE {f}, {}))
    BY <1>2 DEF HsetCommon
  <2>2. mv \in MetaRead /\ n \in Int /\ mv.len + n >= 0
    BY <1>t, <1>g, <2>1 DEF HsetOne, STORAGE_ERR, LenOK
  <2> DEFINE put == IF n = STORAGE_ERR THEN {} ELSE {f}
  <2>3. put \in SUBSET Fields /\ {} \in SUBSET Fields
    BY <1>2
  <2>4. Stage(c, k, IncrSize(k, "hash", mv, n, put, {}))
    BY <2>1
  <2> HIDE DEF put, mv
  <2>5. IncrSize(k, "hash", mv, n, put, {}) \in Batch
    BY <2>2, <2>3, <1>t, IncrSizeType
  <2> QED
    BY <2>4, <2>5, StageType
<1>3. ASSUME NEW f \in Fields, Hincr(c, k, f) \/ Hincrbyfloat(c, k, f)
      PROVE  TypeOK'
  <2> DEFINE mv == GetMetaVal(k, "hash")
             n == IF mv.ret = 1 /\ f \in FieldsAt(items, k, mv.ver) THEN 0 ELSE 1
  <2>1. mv \in MetaRead /\ n \in Int /\ mv.len + n >= 0
    BY <1>t, <1>g DEF MetaRead
  <2>2. IncrSize(k, "hash", mv, n, {f}, {}) \in Batch
    BY <2>1, <1>t, IncrSizeType
  <2>3. Stage(c, k, IncrSize(k, "hash", mv, n, {f}, {}))
    BY <1>3 DEF Hincr, Hincrbyfloat, HincrCommon
  <2> QED
    BY <2>2, <2>3, StageType
<1>4. ASSUME NEW fs \in SUBSET Fields, HmsetNoLock(c, k, fs)
      PROVE  TypeOK'
  <2> DEFINE mv == GetMetaVal(k, "hash")
             n == Cardinality(fs \ FieldsAt(items, k, mv.ver))
  <2>1. mv \in MetaRead /\ n \in Nat
    BY <1>t, <1>g, FieldsAtFinite
  <2>2. mv.len + n >= 0
    BY <2>1 DEF MetaRead
  <2>3. IncrSize(k, "hash", mv, n, fs, {}) \in Batch
    BY <2>1, <2>2, <1>t, IncrSizeType
  <2>4. Stage(c, k, IncrSize(k, "hash", mv, n, fs, {}))
    BY <1>4 DEF HmsetNoLock
  <2> QED
    BY <2>3, <2>4, StageType
<1>5. ASSUME NEW fs \in SUBSET Fields, Hdel(c, k, fs)
      PROVE  TypeOK'
  <2> DEFINE mv == GetMetaVal(k, "hash")
             old == fs \cap FieldsAt(items, k, mv.ver)
  <2>1. mv \in MetaRead /\ old \in SUBSET Fields /\ Cardinality(old) \in Nat
    BY <1>t, <1>g, FieldsAtFinite
  <2>2. /\ mv.len + (-Cardinality(old)) >= 0
        /\ Stage(c, k, IncrSize(k, "hash", mv, -Cardinality(old), {}, old))
    BY <1>5 DEF Hdel, LenOK
  <2>3. IncrSize(k, "hash", mv, -Cardinality(old), {}, old) \in Batch
    BY <2>1, <2>2, <1>t, IncrSizeType
  <2> QED
    BY <2>2, <2>3, StageType
<1>6. ASSUME NEW ms \in SUBSET Fields, SaddNoLock(c, k, ms)
      PROVE  TypeOK'
  <2> DEFINE mv == GetMetaVal(k, "set")
             new == IF mv.ret = 0 THEN ms ELSE ms \ FieldsAt(items, k, mv.ver)
  <2>1. mv \in MetaRead /\ new \in SUBSET Fields /\ Cardinality(new) \in Nat
    BY <1>t, <1>g, FieldsAtFinite
  <2>2. mv.len + Cardinality(new) >= 0
    BY <2>1 DEF MetaRead
  <2>3. IncrSize(k, "set", mv, Cardinality(new), new, {}) \in Batch
    BY <2>1, <2>2, <1>t, IncrSizeType
  <2>4. Stage(c, k, IncrSize(k, "set", mv, Cardinality(new), new, {}))
    BY <1>6 DEF SaddNoLock, GetSetMetaVal, IncrSsize
  <2> QED
    BY <2>3, <2>4, StageType
<1>7. ASSUME NEW ms \in SUBSET Fields, NEW twice \in SUBSET (DupArgs \cap ms),
             Srem(c, k, ms, twice)
      PROVE  TypeOK'
  <2> DEFINE mv == GetMetaVal(k, "set")
             old == ms \cap FieldsAt(items, k, mv.ver)
             num == Cardinality(old) + Cardinality(twice \cap old)
  <2>1. mv \in MetaRead /\ old \in SUBSET Fields /\ twice \cap old \in SUBSET Fields
    BY <1>t, <1>g
  <2>2. num \in Nat
    BY <2>1, FieldsAtFinite
  <2>3. mv.len + (-num) >= 0 /\ Stage(c, k, IncrSize(k, "set", mv, -num, {}, old))
    BY <1>7 DEF Srem, GetSetMetaVal, IncrSsize, LenOK
  <2>4. IncrSize(k, "set", mv, -num, {}, old) \in Batch
    BY <2>1, <2>2, <2>3, <1>t, IncrSizeType
  <2> QED
    BY <2>3, <2>4, StageType
<1>8. ASSUME NEW ms \in SUBSET Fields, Spop(c, k, ms)
      PROVE  TypeOK'
  <2> DEFINE mv == GetMetaVal(k, "set")
  <2>1. mv \in MetaRead /\ Cardinality(ms) \in Nat
    BY <1>t, <1>g, FieldsAtFinite
  <2>2. Cardinality(ms) <= mv.len /\ Stage(c, k, IncrSize(k, "set", mv, -Cardinality(ms), {}, ms))
    BY <1>8 DEF Spop, GetSetMetaVal, IncrSsize
  <2>3. mv.len + (-Cardinality(ms)) >= 0
    BY <2>1, <2>2 DEF MetaRead
  <2>4. IncrSize(k, "set", mv, -Cardinality(ms), {}, ms) \in Batch
    BY <2>1, <2>3, <1>t, IncrSizeType
  <2> QED
    BY <2>2, <2>4, StageType
<1>9. ASSUME NEW flag, SetGeneric(c, k, flag)
      PROVE  TypeOK'
  BY <1>9, <1>t, <1>g, PutKvType, StageType DEF SetGeneric, GetKvMetaVal
<1>10. CASE StringCommand(c, k)
  BY <1>10, <1>t, <1>g, PutKvType, StageType, StringCommandIs DEF UpdateKvCommon, GetKvMetaVal
<1>11. CASE ExpireAtPast(c, k)
  BY <1>11, MarkKeyDeletedType, AbsentType, BeginType DEF ExpireAtPast
<1>12. CASE Restore(c, k)
  BY <1>12, <1>m, DeadType, MarkKeyDeletedType, EmptyBatchType, BeginType DEF Restore
<1>13. CASE ReadCollection(c, k)
  BY <1>13, <1>m, EmptyBatchType, BeginType DEF ReadCollection, Hgetall, Smembers, DumpMeta
<1> QED
  BY <1>1, <1>2, <1>3, <1>4, <1>5, <1>6, <1>7, <1>8, <1>9, <1>10, <1>11, <1>12, <1>13
     DEF KeyCommand

LEMMA ClientStepType ==
    ASSUME TypeOK, NEW c \in Clients, ClientStep(c)
    PROVE  TypeOK'
<1>c. client[c] \in ClientState
  BY DEF TypeOK
<1>f. client[c].key \in Keys /\ client[c].seen \in MetaVal /\ client[c].batch \in Batch
  BY <1>c DEF ClientState
<1>1. CASE Commit(c)
  BY <1>1, <1>f, WriteType, FinishType DEF Commit, TypeOK
<1>2. CASE CommitFails(c)
  BY <1>2, FinishType DEF CommitFails, TypeOK, db
<1>3. CASE RestoreReplace(c)
  <2>1. client' \in [Clients -> ClientState]
    BY <1>3, <1>c, EmptyBatchType DEF RestoreReplace, TypeOK, ClientState
  <2> QED
    BY <1>3, <1>f, <2>1, WriteType DEF RestoreReplace, TypeOK
<1>4. ASSUME NEW t \in Types, NEW fs \in SUBSET Fields, RestoreLoad(c, t, fs)
      PROVE  TypeOK'
  <2> DEFINE k == client[c].key
             mv == [ret |-> 0, ver |-> QuickVersion(client[c].seen), len |-> 0]
             b == Quick(k, t, mv, fs)
  <2>1. client[c].seen.ver \in Versions
    BY <1>f DEF MetaVal
  <2>2. mv \in MetaRead
    BY <2>1, VersionsFacts DEF QuickVersion, MetaRead
  <2>3. Cardinality(fs) \in Nat /\ mv.len + Cardinality(fs) >= 0
    BY FieldsAtFinite
  <2>4. b \in Batch
    BY <1>f, <2>2, <2>3, PutKvType, IncrSizeType, QuickIs
  <2> HIDE DEF b
  <2>5. client' = [client EXCEPT ![c].pc = "staged", ![c].seen = Absent, ![c].batch = b]
    BY <1>4 DEF RestoreLoad, b
  <2>6. client' \in [Clients -> ClientState]
    BY <1>c, <2>4, <2>5, AbsentType DEF TypeOK, ClientState
  <2> QED
    BY <1>4, <2>6 DEF RestoreLoad, TypeOK, db
<1>5. CASE RestoreRefused(c)
  BY <1>5, FinishType DEF RestoreRefused, TypeOK, db
<1>6. CASE DumpSnapshot(c)
  BY <1>6, FinishType DEF DumpSnapshot, TypeOK, db
<1> QED
  BY <1>1, <1>2, <1>3, <1>4, <1>5, <1>6 DEF ClientStep

LEMMA BulkType ==
    ASSUME TypeOK, NEW p \in Deleters \cup Setters,
           DeleterStep(p) \/ SetterStep(p)
    PROVE  TypeOK'
<1>b. bulk[p] \in BulkState
  BY DEF TypeOK
<1>f. /\ bulk[p].todo \in SUBSET Keys /\ bulk[p].keys \in SUBSET Keys
      /\ bulk[p].batch \in Batch /\ bulk[p].batch.meta \in [Keys -> MetaVal \cup {NoPut}]
  BY <1>b DEF BulkState, Batch
<1>1. ASSUME NEW pc \in {"mdel", "mset"}, NEW ks \in SUBSET Keys, BeginBulk(p, pc, ks)
      PROVE  TypeOK'
  <2>1. [pc |-> pc, todo |-> ks, keys |-> ks, batch |-> EmptyBatch] \in BulkState
    BY EmptyBatchType DEF BulkState
  <2> QED
    BY <1>1, <2>1 DEF BeginBulk, TypeOK, db
<1>2. ASSUME NEW k \in Keys, MultiDelKey(p, k)
      PROVE  TypeOK'
  <2> DEFINE nb == IF meta[k].st # "live" THEN bulk[p].batch
                   ELSE AddTo(bulk[p].batch, k, MarkKeyDeleted(k))
  <2>2. nb \in Batch
    BY <1>f, AddToType, MarkKeyDeletedType
  <2>3. bulk' = [bulk EXCEPT ![p].todo = bulk[p].todo \ {k}, ![p].batch = nb]
    BY <1>2 DEF MultiDelKey
  <2>4. bulk' \in [Deleters \cup Setters -> BulkState]
    BY <1>b, <2>2, <2>3 DEF TypeOK, BulkState
  <2> QED
    BY <1>2, <2>4 DEF MultiDelKey, TypeOK, db
<1>3. CASE MultiDelCommit(p)
  <2>1. bulk' \in [Deleters \cup Setters -> BulkState]
    BY <1>3, <1>b, EmptyBatchType DEF MultiDelCommit, TypeOK, BulkState
  <2>2. meta' \in [Keys -> MetaVal] /\ items' \subseteq Items /\ marks' \subseteq Marks
    BY <1>3, <1>f, WriteType DEF MultiDelCommit, db, TypeOK
  <2> QED
    BY <1>3, <2>1, <2>2 DEF MultiDelCommit, TypeOK
<1>4. ASSUME NEW k \in Keys, MultiDelUnlock(p, k)
      PROVE  TypeOK'
  <2>1. bulk' \in [Deleters \cup Setters -> BulkState]
    BY <1>4, <1>b, IdleTypes DEF MultiDelUnlock, TypeOK, BulkState
  <2> QED
    BY <1>4, <2>1 DEF MultiDelUnlock, TypeOK, db
<1>5. ASSUME NEW k \in Keys, MultiSetKey(p, k)
      PROVE  TypeOK'
  <2> DEFINE mv == GetMetaVal(k, "kv")
             nb == AddTo(bulk[p].batch, k, PutKv(k, mv))
  <2>1. mv \in MetaRead
    BY GetMetaValType DEF Types
  <2>2. PutKv(k, mv) \in Batch
    BY <2>1, PutKvType
  <2>3. nb \in Batch
    BY <1>f, <2>2, AddToType
  <2>4. [bulk[p] EXCEPT !.todo = bulk[p].todo \ {k}, !.batch = nb] \in BulkState
    BY <1>b, <2>3 DEF BulkState
  <2>5. bulk' \in [Deleters \cup Setters -> BulkState]
    BY <1>5, <2>4, IdleTypes DEF MultiSetKey, GetKvMetaVal, TypeOK
  <2> QED
    BY <1>5, <2>5 DEF MultiSetKey, TypeOK, db
<1>6. CASE MultiSetCommit(p)
  <2>1. bulk' \in [Deleters \cup Setters -> BulkState]
    BY <1>6, IdleTypes DEF MultiSetCommit, TypeOK
  <2>2. meta' \in [Keys -> MetaVal] /\ items' \subseteq Items /\ marks' \subseteq Marks
    BY <1>6, <1>f, WriteType DEF MultiSetCommit, db, TypeOK
  <2> QED
    BY <1>6, <2>1, <2>2 DEF MultiSetCommit, TypeOK
<1> QED
  BY <1>1, <1>2, <1>3, <1>4, <1>5, <1>6 DEF DeleterStep, SetterStep, MultiDel, MultiSet

LEMMA BgFacts ==
    ASSUME TypeOK
    PROVE  /\ bg.dk \in Marks /\ bg.dk[1] \in Keys /\ bg.dk[2] \in Versions
           /\ bg.scan \subseteq Items /\ bg.delmeta \in BOOLEAN
           /\ bg.dk = <<bg.dk[1], bg.dk[2]>>
BY DEF TypeOK, BgState, Marks

LEMMA BgBatchType ==
    ASSUME TypeOK
    PROVE  BgBatch \in Batch
<1>1. (IF bg.delmeta THEN Absent ELSE NoPut) \in MetaVal \cup {NoPut}
  BY AbsentType
<1> QED
  BY <1>1, BgFacts, OneKeyType DEF BgBatch

LEMMA BgType ==
    ASSUME TypeOK, BgStep
    PROVE  TypeOK'
<1>1. CASE BgLoad
  BY <1>1 DEF BgLoad, TypeOK, db
<1>2. CASE BgPop
  <2>p. PICK d \in tasks : \E scan \in Scans(d) :
          /\ tasks' = tasks \ {d}
          /\ bg' = [pc |-> "scanned", dk |-> d, delmeta |-> FALSE, scan |-> scan]
    BY <1>2 DEF BgPop
  <2>1. PICK scan \in Scans(d) :
          /\ tasks' = tasks \ {d}
          /\ bg' = [pc |-> "scanned", dk |-> d, delmeta |-> FALSE, scan |-> scan]
    BY <2>p
  <2>2. scan \subseteq items
    BY <2>1 DEF Scans
  <2>3. bg' \in BgState
    BY <2>1, <2>2 DEF BgState, TypeOK
  <2> QED
    BY <1>2, <2>1, <2>3 DEF BgPop, TypeOK, db
<1>3. CASE BgLock
  <2>1. bg' \in BgState /\ lock' \in [Keys -> BOOLEAN]
    BY <1>3, BgFacts DEF BgLock, TypeOK, BgState
  <2> QED
    BY <1>3, <2>1 DEF BgLock, TypeOK, db
<1>d. ASSUME BgDone
      PROVE  /\ lock' \in [Keys -> BOOLEAN] /\ bg' \in BgState
             /\ UNCHANGED <<client, bulk, tasks>>
  BY <1>d, BgFacts, IdleTypes DEF BgDone, TypeOK
<1>4. CASE BgCommit
  BY <1>4, <1>d, BgBatchType, WriteType DEF BgCommit, TypeOK
<1>5. CASE BgCommitFails
  BY <1>5, <1>d DEF BgCommitFails, TypeOK, db
<1> QED
  BY <1>1, <1>2, <1>3, <1>4, <1>5 DEF BgStep, BgWrite

LEMMA InitType == Init => TypeOK
BY IdleTypes, AbsentType DEF Init, TypeOK

LEMMA NextType == TypeOK /\ [Next]_vars => TypeOK'
<1> SUFFICES ASSUME TypeOK, [Next]_vars
             PROVE  TypeOK'
  OBVIOUS
<1>1. ASSUME NEW c \in Clients, ClientCommand(c) \/ ClientStep(c)
      PROVE  TypeOK'
  BY <1>1, ClientCommandType, ClientStepType
<1>2. ASSUME NEW p \in Deleters \cup Setters, DeleterStep(p) \/ SetterStep(p)
      PROVE  TypeOK'
  BY <1>2, BulkType
<1>3. CASE BgStep
  BY <1>3, BgType
<1>4. CASE Restart
  BY <1>4, IdleTypes DEF Restart, TypeOK, db
<1>5. CASE UNCHANGED vars
  BY <1>5 DEF vars, TypeOK
<1> QED
  BY <1>1, <1>2, <1>3, <1>4, <1>5 DEF Next, Up

\* Whatever commands run, DEL and MSET, wrapping versions, failing writes and
\* crashes included: versions fit the META record, lengths never go below zero
\* (incr_hsize and incr_ssize refuse first), and batches name known records.
THEOREM TypeCorrect == Spec => []TypeOK
BY InitType, NextType, PTL DEF Spec

----------------------------------------------------------------------------
(* Batches leave their key sound *)

\* A version that no item and no mark of the key has reached.
Fresh(k, v) ==
    /\ meta[k].st # "live"
    /\ FieldsAt(items, k, v) = {}
    /\ \A u \in Versions : <<k, u>> \in marks => u < v

\* A command read a live record of its type, or chose a fresh version.
ReadOK(k, t, mv) ==
    \/ meta[k].st = "live" /\ meta[k].type = t /\ mv.ver = meta[k].ver /\ mv.len = meta[k].len
    \/ Fresh(k, mv.ver) /\ mv.len = 0

LEMMA NextIsFresh ==
    ASSUME TypeOK, NEW k \in Keys, KeyOK(k, meta[k], items, marks),
           meta[k].st # "live", Reusable(k), ~VersionWraps
    PROVE  /\ meta[k].st = "absent" => Fresh(k, 0)
           /\ meta[k].st = "dead" => Fresh(k, NextVersion(meta[k].ver))
<1>1. meta[k].st \in {"absent", "dead"} /\ meta[k].ver \in Versions
  BY DEF TypeOK, MetaVal
<1>2. \A v \in Versions : v \in Nat /\ v <= MaxVersion
  BY DEF Versions
<1>3. CASE meta[k].st = "absent"
  <2>1. \A v \in Versions : <<k, v>> \notin marks
    BY <1>3 DEF KeyOK
  <2>2. FieldsAt(items, k, 0) = {}
    BY <1>3, <2>1, VersionsFacts DEF KeyOK
  <2> QED
    BY <1>3, <2>1, <2>2 DEF Fresh
<1>4. CASE meta[k].st = "dead"
  <2> DEFINE w == NextVersion(meta[k].ver)
  <2>1. w = meta[k].ver + 1 /\ w \in Versions
    BY <1>1, <1>2, <1>4, VersionsFacts DEF NextVersion, Reusable
  <2>2. \A v \in Versions : <<k, v>> \in marks => v < w
    BY <1>1, <1>2, <1>4, <2>1 DEF KeyOK
  <2>3. <<k, w>> \notin marks
    BY <1>2, <2>1, <2>2
  <2>4. FieldsAt(items, k, w) = {}
    BY <1>4, <2>1, <2>3 DEF KeyOK
  <2> QED
    BY <1>4, <2>2, <2>4 DEF Fresh
<1> QED
  BY <1>1, <1>3, <1>4

LEMMA GetMetaValOK ==
    ASSUME TypeOK, NEW k \in Keys, NEW t \in Types, KeyOK(k, meta[k], items, marks),
           Reusable(k), ~VersionWraps, GetMetaVal(k, t).ret >= 0
    PROVE  /\ ReadOK(k, t, GetMetaVal(k, t))
           /\ GetMetaVal(k, t).ret = 1 <=> meta[k].st = "live"
           /\ GetMetaVal(k, t).ret = 0 => FieldsAt(items, k, GetMetaVal(k, t).ver) = {}
<1>1. meta[k].st \in {"absent", "live", "dead"}
  BY DEF TypeOK, MetaVal
<1>2. CASE meta[k].st = "absent"
  <2>1. GetMetaVal(k, t) = [ret |-> 0, ver |-> 0, len |-> 0]
    BY <1>2 DEF GetMetaVal
  <2> QED
    BY <1>2, <2>1, NextIsFresh DEF ReadOK, Fresh
<1>3. CASE meta[k].st = "dead"
  <2>1. GetMetaVal(k, t) = [ret |-> 0, ver |-> NextVersion(meta[k].ver), len |-> 0]
    BY <1>3 DEF GetMetaVal
  <2> QED
    BY <1>3, <2>1, NextIsFresh DEF ReadOK, Fresh
<1>4. CASE meta[k].st = "live"
  <2>1. CASE meta[k].type # t
    <3>1. GetMetaVal(k, t) = [ret |-> -1, ver |-> meta[k].ver, len |-> meta[k].len]
      BY <1>4, <2>1 DEF GetMetaVal
    <3> QED
      BY <3>1
  <2>2. CASE meta[k].type = t
    <3>1. GetMetaVal(k, t) = [ret |-> 1, ver |-> meta[k].ver, len |-> meta[k].len]
      BY <1>4, <2>2 DEF GetMetaVal
    <3> QED
      BY <1>4, <2>2, <3>1 DEF ReadOK
  <2> QED
    BY <2>1, <2>2
<1> QED
  BY <1>1, <1>2, <1>3, <1>4

LEMMA ReadVersionUnmarked ==
    ASSUME TypeOK, NEW k \in Keys, KeyOK(k, meta[k], items, marks),
           NEW t, NEW mv \in MetaRead, ReadOK(k, t, mv)
    PROVE  <<k, mv.ver>> \notin marks
<1>1. mv.ver \in Versions /\ mv.ver \in Nat
  BY VersionsFacts DEF MetaRead
<1> QED
  BY <1>1 DEF ReadOK, Fresh, KeyOK

\* The heart of the matter: a batch whose length change is the change in the
\* number of items leaves its key sound.
LEMMA IncrSizeOK ==
    ASSUME TypeOK, NEW k \in Keys, KeyOK(k, meta[k], items, marks),
           NEW t \in {"hash", "set"}, NEW mv \in MetaRead, ReadOK(k, t, mv),
           NEW incr \in Int, NEW put \in SUBSET Fields, NEW del \in SUBSET Fields,
           Cardinality((FieldsAt(items, k, mv.ver) \ del) \cup put) = mv.len + incr
    PROVE  BatchOK(k, IncrSize(k, t, mv, incr, put, del), meta[k], items, marks)
<1> DEFINE b == IncrSize(k, t, mv, incr, put, del)
           F == FieldsAt(items, k, mv.ver)
           G == (F \ del) \cup put
<1> SUFFICES BatchOK(k, b, meta[k], items, marks)
  OBVIOUS
<1>c. Cardinality(G) = mv.len + incr
  OBVIOUS
<1>v. mv.ver \in Versions /\ mv.ver \in Nat /\ mv.len \in Nat
  BY VersionsFacts DEF MetaRead
<1>m. meta[k] \in MetaVal /\ meta[k].st \in {"absent", "live", "dead"}
  BY DEF TypeOK, MetaVal
<1>n. NoPut \notin MetaVal
  BY AbsentType
<1>u. <<k, mv.ver>> \notin marks
  BY ReadVersionUnmarked
<1>g. IsFiniteSet(G) /\ Cardinality(G) \in Nat /\ (Cardinality(G) = 0 <=> G = {})
  <2>1. G \subseteq Fields
    BY DEF FieldsAt
  <2> QED
    BY <2>1, FieldsAtFinite, FS_EmptySet
<1>b. /\ b.put = ItemsAt(k, mv.ver, put) /\ b.del = ItemsAt(k, mv.ver, del) /\ b.unmark = {}
      /\ \A j \in Keys \ {k} : b.meta[j] = NoPut
  BY DEF IncrSize, OneKey
<1>i. \A v \in Versions :
        FieldsAt(NewItems(b, items), k, v) = IF v = mv.ver THEN G ELSE FieldsAt(items, k, v)
  <2> TAKE v \in Versions
  <2>1. \A f \in Fields :
          /\ <<k, v, f>> \in b.put <=> v = mv.ver /\ f \in put
          /\ <<k, v, f>> \in b.del <=> v = mv.ver /\ f \in del
    BY <1>b DEF ItemsAt
  <2>2. \A f \in Fields : <<k, v, f>> \in NewItems(b, items) <=>
          (<<k, v, f>> \in items /\ <<k, v, f>> \notin b.del) \/ <<k, v, f>> \in b.put
    BY DEF NewItems
  <2> HIDE DEF b
  <2> QED
    BY <2>1, <2>2 DEF FieldsAt
<1>1. \A i \in b.put \cup b.del : i[1] = k /\ <<k, i[2]>> \notin marks
  BY <1>b, <1>u DEF ItemsAt
<1>2. CASE incr = 0
  <2>1. b.meta[k] = NoPut /\ b.mark = {}
    BY <1>2 DEF IncrSize, OneKey
  <2>2. NewMeta(b, k, meta[k]) = meta[k] /\ NewMarks(b, marks) = marks
    BY <2>1, <1>b DEF NewMeta, NewMarks
  <2> HIDE DEF b, G
  <2>3. CASE meta[k].st = "live"
    <3>1. mv.ver = meta[k].ver /\ mv.len = meta[k].len
      BY <2>3 DEF ReadOK, Fresh
    <3>2. KeyOK(k, meta[k], NewItems(b, items), marks)
      BY <1>2, <1>c, <1>i, <1>v, <2>3, <3>1 DEF KeyOK
    <3> QED
      BY <1>1, <1>b, <2>1, <2>2, <3>2 DEF BatchOK
  <2>4. CASE meta[k].st # "live"
    <3>1. F = {} /\ mv.len = 0
      BY <2>4 DEF ReadOK, Fresh
    <3>2. G = F
      BY <1>2, <1>c, <1>g, <3>1
    <3>3. \A v \in Versions : FieldsAt(NewItems(b, items), k, v) = FieldsAt(items, k, v)
      BY <1>i, <3>2
    <3>4. KeyOK(k, meta[k], NewItems(b, items), marks)
      BY <2>4, <3>3 DEF KeyOK
    <3> QED
      BY <1>1, <1>b, <2>1, <2>2, <3>4 DEF BatchOK
  <2> QED
    BY <2>3, <2>4
<1>3. CASE incr # 0 /\ mv.len + incr = 0
  <2> DEFINE m == Dead(Live(t, mv.ver, mv.len))
  <2>1. b.meta[k] = m /\ b.mark = {<<k, mv.ver>>}
    BY <1>3 DEF IncrSize, OneKey
  <2>2. m \in MetaVal /\ m.st = "dead" /\ m.ver = mv.ver
    <3>1. Live(t, mv.ver, mv.len) \in MetaVal /\ Live(t, mv.ver, mv.len).ver = mv.ver
      BY <1>v, LiveType DEF Types, Live
    <3> QED
      BY <3>1, DeadType
  <2>3. NewMeta(b, k, meta[k]) = m /\ NewMarks(b, marks) = marks \cup {<<k, mv.ver>>}
    BY <2>1, <2>2, <1>b, <1>n DEF NewMeta, NewMarks
  <2> HIDE DEF b, m
  <2>4. meta[k].st = "live" /\ mv.ver = meta[k].ver
    BY <1>3, <1>v DEF ReadOK
  <2>5. G = {}
    BY <1>3, <1>c, <1>g
  <2>6. KeyOK(k, m, NewItems(b, items), marks \cup {<<k, mv.ver>>})
    BY <1>i, <1>v, <2>2, <2>4, <2>5 DEF KeyOK
  <2> QED
    BY <1>1, <1>b, <2>1, <2>2, <2>3, <2>4, <2>6 DEF BatchOK
<1>4. CASE incr # 0 /\ mv.len + incr # 0
  <2> DEFINE m == Live(t, mv.ver, mv.len + incr)
  <2>1. b.meta[k] = m /\ b.mark = {}
    BY <1>4 DEF IncrSize, OneKey
  <2>2. /\ m \in MetaVal /\ m.st = "live" /\ m.ver = mv.ver /\ m.len = Cardinality(G)
        /\ m.len > 0 /\ m.type # "kv"
    <3>1. mv.len + incr \in Nat /\ mv.len + incr > 0
      BY <1>4, <1>c, <1>g, <1>v
    <3> QED
      BY <3>1, <1>c, <1>v, LiveType DEF Types, Live
  <2>3. NewMeta(b, k, meta[k]) = m /\ NewMarks(b, marks) = marks
    BY <2>1, <2>2, <1>b, <1>n DEF NewMeta, NewMarks
  <2> HIDE DEF b, m, G
  <2>4. \A v \in Versions : <<k, v>> \in marks => v < mv.ver
    BY <1>m, <1>v, VersionsFacts DEF ReadOK, Fresh, KeyOK
  <2>5. \A v \in Versions : v # mv.ver /\ FieldsAt(items, k, v) # {} => <<k, v>> \in marks
    BY <1>m DEF ReadOK, Fresh, KeyOK
  <2>6. KeyOK(k, m, NewItems(b, items), marks)
    BY <1>i, <1>v, <2>2, <2>4, <2>5 DEF KeyOK
  <2>7. meta[k].st = "live" => mv.ver = meta[k].ver
    BY DEF ReadOK, Fresh
  <2> QED
    BY <1>1, <1>b, <2>1, <2>2, <2>3, <2>6, <2>7 DEF BatchOK
<1> QED
  BY <1>2, <1>3, <1>4

LEMMA PutKvOK ==
    ASSUME TypeOK, NEW k \in Keys, KeyOK(k, meta[k], items, marks),
           NEW mv \in MetaRead, ReadOK(k, "kv", mv)
    PROVE  BatchOK(k, PutKv(k, mv), meta[k], items, marks)
<1> DEFINE b == PutKv(k, mv)
           m == Live("kv", mv.ver, 0)
<1> SUFFICES BatchOK(k, b, meta[k], items, marks)
  OBVIOUS
<1>v. mv.ver \in Versions /\ mv.ver \in Nat
  BY VersionsFacts DEF MetaRead
<1>m. meta[k] \in MetaVal /\ meta[k].st \in {"absent", "live", "dead"}
  BY DEF TypeOK, MetaVal
<1>1. /\ b.put = {} /\ b.del = {} /\ b.mark = {} /\ b.unmark = {} /\ b.meta[k] = m
      /\ \A j \in Keys \ {k} : b.meta[j] = NoPut
  BY DEF PutKv, OneKey
<1>2. m \in MetaVal /\ m.st = "live" /\ m.ver = mv.ver /\ m.len = 0 /\ m.type = "kv"
  BY <1>v, LiveType DEF Types, Live
<1>3. NewMeta(b, k, meta[k]) = m /\ NewItems(b, items) = items /\ NewMarks(b, marks) = marks
  BY <1>1, <1>2, AbsentType DEF NewMeta, NewItems, NewMarks
<1> HIDE DEF b, m
<1>4. \A v \in Versions : <<k, v>> \in marks => v < mv.ver
  BY <1>m, <1>v, VersionsFacts DEF ReadOK, Fresh, KeyOK
<1>5. FieldsAt(items, k, mv.ver) = {}
  <2>1. CASE Fresh(k, mv.ver)
    BY <2>1 DEF Fresh
  <2>2. CASE meta[k].st = "live" /\ meta[k].type = "kv" /\ mv.ver = meta[k].ver
    <3>1. Cardinality(FieldsAt(items, k, mv.ver)) = 0
      BY <2>2 DEF KeyOK
    <3>2. IsFiniteSet(FieldsAt(items, k, mv.ver))
      BY FieldsAtFinite
    <3> QED
      BY <3>1, <3>2, FS_EmptySet
  <2> QED
    BY <2>1, <2>2 DEF ReadOK
<1>6. \A v \in Versions : v # mv.ver /\ FieldsAt(items, k, v) # {} => <<k, v>> \in marks
  BY <1>m DEF ReadOK, Fresh, KeyOK
<1>7. KeyOK(k, m, items, marks)
  BY <1>2, <1>4, <1>5, <1>6, FS_EmptySet DEF KeyOK
<1>8. meta[k].st = "live" => mv.ver = meta[k].ver
  BY DEF ReadOK, Fresh
<1> QED
  BY <1>1, <1>2, <1>3, <1>7, <1>8 DEF BatchOK

LEMMA MarkKeyDeletedOK ==
    ASSUME TypeOK, NEW k \in Keys, KeyOK(k, meta[k], items, marks), meta[k].st = "live"
    PROVE  /\ BatchOK(k, MarkKeyDeleted(k), meta[k], items, marks)
           /\ MarkKeyDeleted(k).meta[k] = Dead(meta[k])
<1> DEFINE b == MarkKeyDeleted(k)
           m == Dead(meta[k])
<1>v. meta[k] \in MetaVal /\ meta[k].ver \in Versions /\ meta[k].ver \in Nat
  BY VersionsFacts DEF TypeOK, MetaVal
<1>1. /\ b.put = {} /\ b.del = {} /\ b.mark = {<<k, meta[k].ver>>} /\ b.unmark = {}
      /\ b.meta[k] = m /\ \A j \in Keys \ {k} : b.meta[j] = NoPut
  BY DEF MarkKeyDeleted, OneKey
<1>2. m \in MetaVal /\ m.st = "dead" /\ m.ver = meta[k].ver
  BY <1>v, DeadType
<1>3. /\ NewMeta(b, k, meta[k]) = m /\ NewItems(b, items) = items
      /\ NewMarks(b, marks) = marks \cup {<<k, meta[k].ver>>}
  BY <1>1, <1>2, AbsentType DEF NewMeta, NewItems, NewMarks
<1> HIDE DEF b, m
<1>4. KeyOK(k, m, items, marks \cup {<<k, meta[k].ver>>})
  BY <1>v, <1>2 DEF KeyOK
<1>5. BatchOK(k, b, meta[k], items, marks)
  BY <1>1, <1>2, <1>3, <1>4 DEF BatchOK
<1> QED
  BY <1>1, <1>5 DEF b, m

----------------------------------------------------------------------------
(* How the number of items changes *)

LEMMA AddCard ==
    ASSUME NEW F \in SUBSET Fields, NEW S \in SUBSET Fields
    PROVE  Cardinality((F \ {}) \cup S) = Cardinality(F) + Cardinality(S \ F)
<1>1. IsFiniteSet(F) /\ IsFiniteSet(S \ F)
  BY FieldsAtFinite
<1>2. F \cap (S \ F) = {} /\ F \cup (S \ F) = (F \ {}) \cup S
  OBVIOUS
<1>3. Cardinality(F \cup (S \ F)) =
        Cardinality(F) + Cardinality(S \ F) - Cardinality(F \cap (S \ F))
  BY <1>1, FS_Union
<1>4. Cardinality(F) \in Nat /\ Cardinality(S \ F) \in Nat
  BY <1>1, FS_CardinalityType
<1>5. Cardinality(F \cap (S \ F)) = 0
  BY <1>2, FS_EmptySet
<1>6. Cardinality((F \ {}) \cup S) = Cardinality(F \cup (S \ F))
  BY <1>2, Zenon
<1> QED
  BY <1>3, <1>4, <1>5, <1>6

LEMMA RemoveCard ==
    ASSUME NEW F \in SUBSET Fields, NEW S \in SUBSET F
    PROVE  /\ Cardinality((F \ S) \cup {}) = Cardinality(F) + (-Cardinality(S))
           /\ Cardinality(S) <= Cardinality(F)
<1>1. IsFiniteSet(F) /\ IsFiniteSet(S) /\ F \cap S = S /\ (F \ S) \cup {} = F \ S
  BY FieldsAtFinite
<1>2. Cardinality(F \ S) = Cardinality(F) - Cardinality(F \cap S)
  BY <1>1, FS_Difference
<1>3. Cardinality(F) \in Nat /\ Cardinality(S) \in Nat /\ Cardinality(S) <= Cardinality(F)
  BY <1>1, FS_CardinalityType, FS_Subset
<1> QED
  BY <1>1, <1>2, <1>3

LEMMA OneCard ==
    ASSUME NEW F \in SUBSET Fields, NEW f \in Fields
    PROVE  Cardinality({f} \ F) = IF f \in F THEN 0 ELSE 1
<1>1. CASE f \in F
  <2>1. {f} \ F = {}
    BY <1>1
  <2> QED
    BY <1>1, <2>1, FS_EmptySet
<1>2. CASE f \notin F
  <2>1. {f} \ F = {f}
    BY <1>2
  <2> QED
    BY <1>2, <2>1, FS_Singleton
<1> QED
  BY <1>1, <1>2

\* For a command that read mv, mv.len is the number of items under mv.ver.
LEMMA ReadLen ==
    ASSUME TypeOK, NEW k \in Keys, KeyOK(k, meta[k], items, marks), NEW t,
           NEW mv \in MetaRead, ReadOK(k, t, mv)
    PROVE  Cardinality(FieldsAt(items, k, mv.ver)) = mv.len
BY FS_EmptySet DEF ReadOK, Fresh, KeyOK

----------------------------------------------------------------------------
(* Every command starts from what it read, and stages a sound batch *)

AllKeysOK == \A k \in Keys : KeyOK(k, meta[k], items, marks)

\* A command may start on the key k: this is what ClientInv will say of it.
StartOK(k, pc, m, b) ==
    /\ pc \in {"staged", "replace"} => BatchOK(k, b, meta[k], items, marks)
    /\ pc = "replace" => m = b.meta[k] /\ m.st = "dead"
    /\ pc = "load" => m = meta[k] /\ m.st # "live"
    /\ pc = "dump" => m = meta[k] /\ m.st = "live"

\* The command c starts on some key.
Starts(c) ==
    \E k \in Keys, pc \in {"staged", "replace", "load", "dump"}, m \in MetaVal, b \in Batch :
        Begin(c, k, pc, m, b) /\ StartOK(k, pc, m, b)

LEMMA StageStarts ==
    ASSUME TypeOK, NEW c \in Clients, NEW k \in Keys, NEW b \in Batch, Stage(c, k, b),
           BatchOK(k, b, meta[k], items, marks)
    PROVE  Starts(c)
<1>1. StartOK(k, "staged", Absent, b)
  BY DEF StartOK
<1>2. Begin(c, k, "staged", Absent, b)
  BY DEF Stage
<1> QED
  BY <1>1, <1>2, AbsentType DEF Starts

\* A command on a hash or a set that read mv, and whose length change is the
\* change in the number of items, starts.
LEMMA IncrSizeStarts ==
    ASSUME TypeOK, AllKeysOK, NEW c \in Clients, NEW k \in Keys, NEW t \in {"hash", "set"},
           NEW mv \in MetaRead, ReadOK(k, t, mv),
           NEW incr \in Int, NEW put \in SUBSET Fields, NEW del \in SUBSET Fields,
           Cardinality((FieldsAt(items, k, mv.ver) \ del) \cup put)
             = Cardinality(FieldsAt(items, k, mv.ver)) + incr,
           Stage(c, k, IncrSize(k, t, mv, incr, put, del))
    PROVE  Starts(c)
<1> DEFINE F == FieldsAt(items, k, mv.ver)
<1>1. KeyOK(k, meta[k], items, marks)
  BY DEF AllKeysOK
<1>2. Cardinality(F) = mv.len
  BY <1>1, ReadLen
<1>3. (F \ del) \cup put \in SUBSET Fields
  BY DEF FieldsAt
<1>4. Cardinality((F \ del) \cup put) = mv.len + incr
  BY <1>2
<1>5. Cardinality((F \ del) \cup put) \in Nat
  BY <1>3, FieldsAtFinite
<1>6. mv.len + incr >= 0
  BY <1>4, <1>5
<1>7. IncrSize(k, t, mv, incr, put, del) \in Batch
  BY <1>6, IncrSizeType DEF Types
<1>8. BatchOK(k, IncrSize(k, t, mv, incr, put, del), meta[k], items, marks)
  BY <1>1, <1>4, IncrSizeOK
<1> QED
  BY <1>7, <1>8, StageStarts

LEMMA CommandStarts ==
    ASSUME Benign, TypeOK, AllKeysOK, NEW c \in Clients, ClientCommand(c)
    PROVE  Starts(c)
<1>1. PICK k \in Keys : KeyCommand(c, k)
  BY DEF ClientCommand
<1>k. KeyOK(k, meta[k], items, marks) /\ meta[k] \in MetaVal
  BY DEF AllKeysOK, TypeOK
<1>w. ~VersionWraps /\ DupArgs = {} /\ ~ReadErrors
  BY DEF Benign
<1>g. ASSUME NEW t \in {"hash", "set", "kv"}, GetMetaVal(k, t).ret >= 0, Reusable(k)
      PROVE  /\ GetMetaVal(k, t) \in MetaRead
             /\ ReadOK(k, t, GetMetaVal(k, t))
             /\ GetMetaVal(k, t).ret = 0 => FieldsAt(items, k, GetMetaVal(k, t).ver) = {}
  BY <1>g, <1>k, <1>w, GetMetaValType, GetMetaValOK DEF Types
<1>f. \A v : FieldsAt(items, k, v) \in SUBSET Fields
  BY DEF FieldsAt
<1>2. ASSUME NEW f \in Fields, NEW nx \in BOOLEAN, HsetCommon(c, k, f, nx)
      PROVE  Starts(c)
  <2> DEFINE mv == GetMetaVal(k, "hash")
             F == FieldsAt(items, k, mv.ver)
             n == IF ~nx /\ f \in F THEN 0 ELSE 1
  <2>1. Stage(c, k, IncrSize(k, "hash", mv, n, {f}, {})) /\ mv.ret >= 0
        /\ ~(nx /\ mv.ret = 1 /\ f \in F)
    <3>1. PICK added \in HsetOne(f \in F, nx) :
            Stage(c, k, IncrSize(k, "hash", mv, added, IF added = STORAGE_ERR THEN {} ELSE {f}, {}))
      BY <1>2 DEF HsetCommon
    <3>2. added = n /\ added # STORAGE_ERR
      BY <3>1, <1>w DEF HsetOne, STORAGE_ERR
    <3> QED
      BY <1>2, <3>1, <3>2 DEF HsetCommon
  <2>2. mv \in MetaRead /\ ReadOK(k, "hash", mv) /\ (mv.ret = 0 => F = {})
    BY <1>g, <2>1 DEF Stage
  <2>3. mv.ret = 1 \/ mv.ret = 0
    BY <2>1, <2>2 DEF MetaRead
  <2>4. n = Cardinality({f} \ F)
    <3>1. n = IF f \in F THEN 0 ELSE 1
      BY <2>1, <2>2, <2>3
    <3> QED
      BY <3>1, <1>f, OneCard
  <2>5. Cardinality((F \ {}) \cup {f}) = Cardinality(F) + n
    BY <1>f, <2>4, AddCard
  <2> HIDE DEF mv
  <2> QED
    BY <2>1, <2>2, <2>5, IncrSizeStarts
<1>3. ASSUME NEW f \in Fields, Hincr(c, k, f) \/ Hincrbyfloat(c, k, f)
      PROVE  Starts(c)
  <2> DEFINE mv == GetMetaVal(k, "hash")
             F == FieldsAt(items, k, mv.ver)
             n == IF mv.ret = 1 /\ f \in F THEN 0 ELSE 1
  <2>1. Stage(c, k, IncrSize(k, "hash", mv, n, {f}, {})) /\ mv.ret >= 0
    BY <1>3 DEF Hincr, Hincrbyfloat, HincrCommon
  <2>2. mv \in MetaRead /\ ReadOK(k, "hash", mv) /\ (mv.ret = 0 => F = {})
    BY <1>g, <2>1 DEF Stage
  <2>3. mv.ret = 1 \/ mv.ret = 0
    BY <2>1, <2>2 DEF MetaRead
  <2>4. n = Cardinality({f} \ F)
    <3>1. n = IF f \in F THEN 0 ELSE 1
      BY <2>1, <2>2, <2>3
    <3> QED
      BY <3>1, <1>f, OneCard
  <2>5. Cardinality((F \ {}) \cup {f}) = Cardinality(F) + n
    BY <1>f, <2>4, AddCard
  <2> HIDE DEF mv
  <2> QED
    BY <2>1, <2>2, <2>5, IncrSizeStarts
<1>4. ASSUME NEW fs \in SUBSET Fields, HmsetNoLock(c, k, fs)
      PROVE  Starts(c)
  <2> DEFINE mv == GetMetaVal(k, "hash")
             F == FieldsAt(items, k, mv.ver)
             n == Cardinality(fs \ F)
  <2>1. Stage(c, k, IncrSize(k, "hash", mv, n, fs, {})) /\ mv.ret >= 0
    BY <1>4 DEF HmsetNoLock
  <2>2. mv \in MetaRead /\ ReadOK(k, "hash", mv)
    BY <1>g, <2>1 DEF Stage
  <2>3. n \in Int
    BY FieldsAtFinite
  <2>4. Cardinality((F \ {}) \cup fs) = Cardinality(F) + n
    BY <1>f, AddCard
  <2> HIDE DEF mv, n
  <2> QED
    BY <2>1, <2>2, <2>3, <2>4, IncrSizeStarts
<1>5. ASSUME NEW fs \in SUBSET Fields, Hdel(c, k, fs)
      PROVE  Starts(c)
  <2> DEFINE mv == GetMetaVal(k, "hash")
             F == FieldsAt(items, k, mv.ver)
             old == fs \cap F
             n == -Cardinality(old)
  <2>1. Stage(c, k, IncrSize(k, "hash", mv, n, {}, old)) /\ mv.ret >= 0
    BY <1>5 DEF Hdel
  <2>2. mv \in MetaRead /\ ReadOK(k, "hash", mv)
    BY <1>g, <2>1 DEF Stage
  <2>3. n \in Int /\ old \in SUBSET Fields /\ old \in SUBSET F
    BY FieldsAtFinite
  <2>4. Cardinality((F \ old) \cup {}) = Cardinality(F) + n
    BY <1>f, <2>3, RemoveCard
  <2> HIDE DEF mv, n, old
  <2> QED
    BY <2>1, <2>2, <2>3, <2>4, IncrSizeStarts
<1>6. ASSUME NEW ms \in SUBSET Fields, SaddNoLock(c, k, ms)
      PROVE  Starts(c)
  <2> DEFINE mv == GetMetaVal(k, "set")
             F == FieldsAt(items, k, mv.ver)
             new == IF mv.ret = 0 THEN ms ELSE ms \ F
             n == Cardinality(new)
  <2>1. Stage(c, k, IncrSize(k, "set", mv, n, new, {})) /\ mv.ret >= 0
    BY <1>6 DEF SaddNoLock, GetSetMetaVal, IncrSsize
  <2>2. mv \in MetaRead /\ ReadOK(k, "set", mv) /\ (mv.ret = 0 => F = {})
    BY <1>g, <2>1 DEF Stage
  <2>3. n \in Int /\ new \in SUBSET Fields
    BY FieldsAtFinite
  <2>4. new = new \ F
    BY <2>2
  <2>5. Cardinality((F \ {}) \cup new) = Cardinality(F) + Cardinality(new \ F)
    BY <1>f, <2>3, AddCard
  <2> HIDE DEF mv, new
  <2>6. Cardinality((F \ {}) \cup new) = Cardinality(F) + n
    BY <2>4, <2>5
  <2> HIDE DEF n
  <2> QED
    BY <2>1, <2>2, <2>3, <2>6, IncrSizeStarts
<1>7. ASSUME NEW ms \in SUBSET Fields, NEW twice \in SUBSET (DupArgs \cap ms),
             Srem(c, k, ms, twice)
      PROVE  Starts(c)
  <2> DEFINE mv == GetMetaVal(k, "set")
             F == FieldsAt(items, k, mv.ver)
             old == ms \cap F
             num == Cardinality(old) + Cardinality(twice \cap old)
             n == -num
  <2>1. Stage(c, k, IncrSize(k, "set", mv, n, {}, old)) /\ mv.ret >= 0
    BY <1>7 DEF Srem, GetSetMetaVal, IncrSsize
  <2>2. mv \in MetaRead /\ ReadOK(k, "set", mv)
    BY <1>g, <2>1 DEF Stage
  <2>3. Cardinality(old) \in Nat /\ old \in SUBSET Fields /\ old \in SUBSET F
    BY FieldsAtFinite
  <2>4. twice \cap old = {}
    BY <1>w
  <2> HIDE DEF mv, old
  <2>5. num = Cardinality(old)
    <3>1. Cardinality(twice \cap old) = 0
      BY <2>4, FS_EmptySet
    <3> QED
      BY <2>3, <3>1
  <2>6. Cardinality((F \ old) \cup {}) = Cardinality(F) + n
    BY <1>f, <2>3, <2>5, RemoveCard
  <2>7. n \in Int
    BY <2>3, <2>5
  <2> HIDE DEF n
  <2> QED
    BY <2>1, <2>2, <2>3, <2>6, <2>7, IncrSizeStarts
<1>8. ASSUME NEW ms \in SUBSET Fields, Spop(c, k, ms)
      PROVE  Starts(c)
  <2> DEFINE mv == GetMetaVal(k, "set")
             F == FieldsAt(items, k, mv.ver)
             n == -Cardinality(ms)
  <2>1. Stage(c, k, IncrSize(k, "set", mv, n, {}, ms)) /\ mv.ret >= 0 /\ ms \subseteq F
    BY <1>8 DEF Spop, GetSetMetaVal, IncrSsize
  <2>2. mv \in MetaRead /\ ReadOK(k, "set", mv)
    BY <1>g, <2>1 DEF Stage
  <2>3. n \in Int
    BY FieldsAtFinite
  <2>4. Cardinality((F \ ms) \cup {}) = Cardinality(F) + n
    BY <1>f, <2>1, RemoveCard
  <2> HIDE DEF mv, n
  <2> QED
    BY <2>1, <2>2, <2>3, <2>4, IncrSizeStarts
<1>9. ASSUME GetMetaVal(k, "kv").ret >= 0, Stage(c, k, PutKv(k, GetMetaVal(k, "kv")))
      PROVE  Starts(c)
  <2> DEFINE mv == GetMetaVal(k, "kv")
  <2>1. mv \in MetaRead /\ ReadOK(k, "kv", mv)
    BY <1>g, <1>9 DEF Stage
  <2> HIDE DEF mv
  <2>2. PutKv(k, mv) \in Batch /\ BatchOK(k, PutKv(k, mv), meta[k], items, marks)
    BY <1>k, <2>1, PutKvType, PutKvOK
  <2> QED
    BY <1>9, <2>2, StageStarts DEF mv
<1>10. ASSUME NEW flag, SetGeneric(c, k, flag)
       PROVE  Starts(c)
  BY <1>9, <1>10 DEF SetGeneric, GetKvMetaVal
<1>11. CASE StringCommand(c, k)
  BY <1>9, <1>11, StringCommandIs DEF UpdateKvCommon, GetKvMetaVal
<1>12. CASE ExpireAtPast(c, k)
  <2>1. StartOK(k, "staged", Absent, MarkKeyDeleted(k)) /\ MarkKeyDeleted(k) \in Batch
    BY <1>12, <1>k, MarkKeyDeletedOK, MarkKeyDeletedType DEF ExpireAtPast, StartOK
  <2> QED
    BY <1>12, <2>1, AbsentType DEF ExpireAtPast, Starts
<1>13. CASE Restore(c, k)
  <2>1. CASE meta[k].st = "live"
    <3>1. Begin(c, k, "replace", Dead(meta[k]), MarkKeyDeleted(k))
      BY <1>13, <2>1 DEF Restore
    <3>2. StartOK(k, "replace", Dead(meta[k]), MarkKeyDeleted(k)) /\ MarkKeyDeleted(k) \in Batch
      BY <2>1, <1>k, MarkKeyDeletedOK, MarkKeyDeletedType, DeadType DEF StartOK
    <3> QED
      BY <3>1, <3>2, <1>k, DeadType DEF Starts
  <2>2. CASE meta[k].st # "live"
    <3>1. Begin(c, k, "load", meta[k], EmptyBatch)
      BY <1>13, <2>2 DEF Restore
    <3>2. StartOK(k, "load", meta[k], EmptyBatch)
      BY <2>2 DEF StartOK
    <3> QED
      BY <3>1, <3>2, <1>k, EmptyBatchType DEF Starts
  <2> QED
    BY <2>1, <2>2
<1>14. CASE ReadCollection(c, k)
  <2>1. DumpMeta(c, k)
    BY <1>14 DEF ReadCollection, Hgetall, Smembers
  <2>2. StartOK(k, "dump", meta[k], EmptyBatch)
    BY <2>1 DEF DumpMeta, StartOK
  <2> QED
    BY <2>1, <2>2, <1>k, EmptyBatchType DEF DumpMeta, Starts
<1> QED
  BY <1>1, <1>2, <1>3, <1>4, <1>5, <1>6, <1>7, <1>8, <1>10, <1>11, <1>12, <1>13, <1>14
     DEF KeyCommand

----------------------------------------------------------------------------
(* A write to one key leaves the others alone *)

\* The step changes only what belongs to the key k.
OnlyKey(k) ==
    \A j \in Keys \ {k} :
        /\ meta'[j] = meta[j]
        /\ \A v \in Versions :
              /\ <<j, v>> \in marks' <=> <<j, v>> \in marks
              /\ FieldsAt(items', j, v) = FieldsAt(items, j, v)

LEMMA NewMetaType ==
    ASSUME NEW b \in Batch, NEW j \in Keys, NEW m \in MetaVal
    PROVE  NewMeta(b, j, m) \in MetaVal
<1>1. b.meta[j] \in MetaVal \cup {NoPut}
  BY DEF Batch
<1> QED
  BY <1>1 DEF NewMeta

\* KeyOK of j depends on what the database holds under j.
LEMMA KeyOKLocal ==
    ASSUME NEW j \in Keys, NEW m \in MetaVal, NEW its, NEW mks, NEW its2, NEW mks2,
           \A v \in Versions : <<j, v>> \in mks2 <=> <<j, v>> \in mks,
           \A v \in Versions : FieldsAt(its2, j, v) = FieldsAt(its, j, v),
           KeyOK(j, m, its, mks)
    PROVE  KeyOK(j, m, its2, mks2)
<1>1. m.ver \in Versions
  BY DEF MetaVal
<1> QED
  BY <1>1 DEF KeyOK

LEMMA BatchOKLocal ==
    ASSUME NEW j \in Keys, NEW m \in MetaVal, NEW b \in Batch,
           NEW its, NEW mks, NEW its2, NEW mks2,
           \A v \in Versions : <<j, v>> \in mks2 <=> <<j, v>> \in mks,
           \A v \in Versions : FieldsAt(its2, j, v) = FieldsAt(its, j, v),
           BatchOK(j, b, m, its, mks)
    PROVE  BatchOK(j, b, m, its2, mks2)
<1>1. b.put \subseteq Items /\ b.del \subseteq Items
  BY DEF Batch
<1>2. \A i \in b.put \cup b.del : i[1] = j /\ <<j, i[2]>> \notin mks2
  <2> SUFFICES ASSUME NEW i \in b.put \cup b.del
               PROVE  i[1] = j /\ <<j, i[2]>> \notin mks2
    OBVIOUS
  <2>1. i[2] \in Versions
    BY <1>1 DEF Items
  <2> QED
    BY <2>1 DEF BatchOK
<1>3. \A v \in Versions : FieldsAt(NewItems(b, its2), j, v) = FieldsAt(NewItems(b, its), j, v)
  <2> TAKE v \in Versions
  <2>1. \A f \in Fields : <<j, v, f>> \in its2 <=> <<j, v, f>> \in its
    BY DEF FieldsAt
  <2> QED
    BY <2>1 DEF FieldsAt, NewItems
<1>4. \A v \in Versions : <<j, v>> \in NewMarks(b, mks2) <=> <<j, v>> \in NewMarks(b, mks)
  BY DEF NewMarks
<1>5. NewMeta(b, j, m) \in MetaVal
  BY NewMetaType
<1>6. KeyOK(j, NewMeta(b, j, m), NewItems(b, its), NewMarks(b, mks))
  BY DEF BatchOK
<1>7. KeyOK(j, NewMeta(b, j, m), NewItems(b, its2), NewMarks(b, mks2))
  BY <1>3, <1>4, <1>5, <1>6, KeyOKLocal
<1> QED
  BY <1>2, <1>7 DEF BatchOK

LEMMA OtherKey ==
    ASSUME TypeOK, NEW k \in Keys, OnlyKey(k), NEW j \in Keys \ {k}
    PROVE  /\ KeyOK(j, meta[j], items, marks) => KeyOK(j, meta'[j], items', marks')
           /\ \A b \in Batch : BatchOK(j, b, meta[j], items, marks)
                                 => BatchOK(j, b, meta'[j], items', marks')
<1>1. meta[j] \in MetaVal /\ meta'[j] = meta[j]
  BY DEF TypeOK, OnlyKey
<1>2. \A v \in Versions : <<j, v>> \in marks' <=> <<j, v>> \in marks
  BY DEF OnlyKey
<1>3. \A v \in Versions : FieldsAt(items', j, v) = FieldsAt(items, j, v)
  BY DEF OnlyKey
<1>4. KeyOK(j, meta[j], items, marks) => KeyOK(j, meta[j], items', marks')
  BY <1>1, <1>2, <1>3, KeyOKLocal
<1>5. \A b \in Batch : BatchOK(j, b, meta[j], items, marks)
                         => BatchOK(j, b, meta[j], items', marks')
  BY <1>1, <1>2, <1>3, BatchOKLocal
<1> QED
  BY <1>1, <1>4, <1>5

\* Writing a sound batch.
LEMMA WriteOK ==
    ASSUME TypeOK, AllKeysOK, NEW k \in Keys, NEW b \in Batch,
           BatchOK(k, b, meta[k], items, marks), Write(b)
    PROVE  /\ OnlyKey(k)
           /\ AllKeysOK'
           /\ meta'[k] = NewMeta(b, k, meta[k])
<1>1. \A i \in b.put \cup b.del : i[1] = k
  BY DEF BatchOK
<1>2. OnlyKey(k)
  <2> SUFFICES ASSUME NEW j \in Keys \ {k}
               PROVE  /\ meta'[j] = meta[j]
                      /\ \A v \in Versions :
                            /\ <<j, v>> \in marks' <=> <<j, v>> \in marks
                            /\ FieldsAt(items', j, v) = FieldsAt(items, j, v)
    BY DEF OnlyKey
  <2>1. meta'[j] = meta[j]
    BY DEF Write, NewMeta, BatchOK
  <2>2. ASSUME NEW v \in Versions
        PROVE  <<j, v>> \in marks' <=> <<j, v>> \in marks
    <3>1. <<j, v>> \notin b.mark /\ b.unmark = {}
      BY DEF BatchOK
    <3> QED
      BY <3>1 DEF Write, NewMarks
  <2>3. ASSUME NEW v \in Versions
        PROVE  FieldsAt(items', j, v) = FieldsAt(items, j, v)
    <3>1. \A f \in Fields : <<j, v, f>> \notin b.put \cup b.del
      BY <1>1
    <3> QED
      BY <3>1 DEF Write, NewItems, FieldsAt
  <2> QED
    BY <2>1, <2>2, <2>3
<1>3. meta'[k] = NewMeta(b, k, meta[k])
  BY DEF Write
<1>4. KeyOK(k, meta'[k], items', marks')
  BY <1>3 DEF BatchOK, Write
<1>5. \A j \in Keys : KeyOK(j, meta'[j], items', marks')
  BY <1>2, <1>4, OtherKey DEF AllKeysOK
<1> QED
  BY <1>2, <1>3, <1>5 DEF AllKeysOK

----------------------------------------------------------------------------
(* The steps of the clients *)

\* The parts of IndInv.
LEMMA IndInvParts ==
    /\ IndInv <=> TypeOK /\ AllKeysOK /\ LockInv /\ ClientInv /\ TaskInv /\ BgInv
    /\ IndInv' <=> TypeOK' /\ AllKeysOK' /\ LockInv' /\ ClientInv' /\ TaskInv' /\ BgInv'
BY DEF IndInv, AllKeysOK

\* ClientInv, one client at a time.
OneClientInv(s, m, its, mks) ==
    /\ s.pc \in {"staged", "replace"} => BatchOK(s.key, s.batch, m, its, mks)
    /\ s.pc = "replace" => s.seen = s.batch.meta[s.key] /\ s.seen.st = "dead"
    /\ s.pc = "load" => s.seen = m /\ s.seen.st # "live"
    /\ s.pc = "dump" => s.seen = m /\ s.seen.st = "live"

LEMMA ClientInvParts ==
    /\ ClientInv <=> \A c \in Clients :
                        OneClientInv(client[c], meta[client[c].key], items, marks)
    /\ ClientInv' <=> \A c \in Clients :
                        OneClientInv(client'[c], meta'[client'[c].key], items', marks')
BY DEF ClientInv, OneClientInv

LEMMA ClientFacts ==
    ASSUME TypeOK, NEW c \in Clients
    PROVE  /\ client[c] \in ClientState /\ client[c].key \in Keys
           /\ client[c].batch \in Batch /\ client[c].seen \in MetaVal
BY DEF TypeOK, ClientState

LEMMA IdleFacts == IdleClient.pc = "idle" /\ IdleBg.pc = "idle"
BY DEF IdleClient, IdleBg

\* The database and the reaper stay: the part of IndInv about them does.
LEMMA SameDb ==
    ASSUME IndInv, UNCHANGED <<db, tasks, bg>>
    PROVE  AllKeysOK' /\ TaskInv' /\ BgInv'
<1>1. meta' = meta /\ items' = items /\ marks' = marks /\ tasks' = tasks /\ bg' = bg
  BY DEF db
<1> QED
  BY <1>1 DEF IndInv, AllKeysOK, TaskInv, BgInv, SmallerMarks

LEMMA StartsInv ==
    ASSUME IndInv, NEW c \in Clients, Starts(c)
    PROVE  IndInv'
<1>1. PICK k \in Keys, pc \in {"staged", "replace", "load", "dump"}, m \in MetaVal, b \in Batch :
        Begin(c, k, pc, m, b) /\ StartOK(k, pc, m, b)
  BY DEF Starts
<1> DEFINE s == [pc |-> pc, key |-> k, seen |-> m, batch |-> b]
<1>t. TypeOK /\ LockInv /\ ClientInv
  BY DEF IndInv
<1>u. /\ client[c].pc = "idle" /\ ~lock[k] /\ lock' = [lock EXCEPT ![k] = TRUE]
      /\ client' = [client EXCEPT ![c] = s] /\ UNCHANGED <<db, tasks, bg>>
  BY <1>1 DEF Begin
<1>d. meta' = meta /\ items' = items /\ marks' = marks /\ bg' = bg
  BY <1>u DEF db
<1>2. TypeOK'
  BY <1>1, <1>t, BeginType
<1>3. AllKeysOK' /\ TaskInv' /\ BgInv'
  BY <1>u, SameDb
<1>c. client'[c] = s /\ \A e \in Clients \ {c} : client'[e] = client[e]
  BY <1>t, <1>u DEF TypeOK
<1>k. s.key = k /\ s.pc = pc /\ s.seen = m /\ s.batch = b /\ s.pc # "idle"
  OBVIOUS
<1>l. lock'[k] /\ \A j \in Keys \ {k} : lock'[j] = lock[j]
  BY <1>t, <1>u DEF TypeOK
<1>f. \A e \in Clients : client[e].key \in Keys
  BY <1>t, ClientFacts
<1>g. bg.dk[1] \in Keys
  BY <1>t, BgFacts
<1> HIDE DEF s
<1>o. \A e \in Clients : client[e].pc # "idle" => client[e].key # k
  BY <1>t, <1>u DEF LockInv
<1>p. bg.pc = "locked" => bg.dk[1] # k
  BY <1>t, <1>u DEF LockInv
<1>4. LockInv'
  <2>1. \A e \in Clients : client'[e].pc # "idle" => lock'[client'[e].key]
    BY <1>t, <1>c, <1>k, <1>l, <1>f DEF LockInv
  <2>2. \A e, h \in Clients :
          e # h /\ client'[e].pc # "idle" /\ client'[h].pc # "idle"
            => client'[e].key # client'[h].key
    BY <1>t, <1>c, <1>k, <1>o DEF LockInv
  <2>3. bg.pc = "locked" =>
          /\ lock'[bg.dk[1]]
          /\ \A e \in Clients : client'[e].pc # "idle" => client'[e].key # bg.dk[1]
    BY <1>t, <1>c, <1>k, <1>l, <1>g, <1>p DEF LockInv
  <2> QED
    BY <2>1, <2>2, <2>3, <1>d DEF LockInv
<1>5. ClientInv'
  <2>1. OneClientInv(s, meta[s.key], items, marks)
    BY <1>1, <1>k DEF StartOK, OneClientInv
  <2>2. \A e \in Clients : OneClientInv(client[e], meta[client[e].key], items, marks)
    BY <1>t, ClientInvParts
  <2>3. \A e \in Clients : OneClientInv(client'[e], meta'[client'[e].key], items', marks')
    BY <2>1, <2>2, <1>c, <1>d
  <2> QED
    BY <2>3, ClientInvParts
<1> QED
  BY <1>2, <1>3, <1>4, <1>5, IndInvParts

\* A client that ends releases a lock nobody else relies on.
LEMMA FinishLock ==
    ASSUME TypeOK, LockInv, NEW c \in Clients, client[c].pc # "idle", Finish(c), bg' = bg
    PROVE  /\ LockInv'
           /\ client'[c].pc = "idle"
           /\ \A e \in Clients \ {c} : client'[e] = client[e]
<1> DEFINE k == client[c].key
<1>f. k \in Keys /\ bg.dk[1] \in Keys /\ \A e \in Clients : client[e].key \in Keys
  BY ClientFacts, BgFacts
<1>u. lock' = [lock EXCEPT ![k] = FALSE] /\ client' = [client EXCEPT ![c] = IdleClient]
  BY DEF Finish
<1>c. client'[c].pc = "idle" /\ \A e \in Clients \ {c} : client'[e] = client[e]
  BY <1>u, IdleFacts DEF TypeOK
<1>o. \A e \in Clients \ {c} : client[e].pc # "idle" => client[e].key # k
  BY DEF LockInv
<1>p. bg.pc = "locked" => bg.dk[1] # k
  BY DEF LockInv
<1>l. \A j \in Keys \ {k} : lock'[j] = lock[j]
  BY <1>u, <1>f DEF TypeOK
<1> HIDE DEF k
<1>1. \A e \in Clients : client'[e].pc # "idle" => lock'[client'[e].key]
  BY <1>c, <1>o, <1>l, <1>f DEF LockInv
<1>2. \A e, h \in Clients :
        e # h /\ client'[e].pc # "idle" /\ client'[h].pc # "idle"
          => client'[e].key # client'[h].key
  BY <1>c DEF LockInv
<1>3. bg.pc = "locked" =>
        /\ lock'[bg.dk[1]]
        /\ \A e \in Clients : client'[e].pc # "idle" => client'[e].key # bg.dk[1]
  BY <1>c, <1>p, <1>l, <1>f DEF LockInv
<1> QED
  BY <1>1, <1>2, <1>3, <1>c DEF LockInv

\* A client ends without writing.
LEMMA FinishInv ==
    ASSUME IndInv, NEW c \in Clients, client[c].pc # "idle", Finish(c),
           UNCHANGED <<db, bulk, tasks, bg>>
    PROVE  IndInv'
<1>t. TypeOK /\ LockInv /\ ClientInv
  BY DEF IndInv
<1>d. meta' = meta /\ items' = items /\ marks' = marks /\ bg' = bg
  BY DEF db
<1>1. TypeOK'
  BY <1>t, FinishType DEF TypeOK, db
<1>2. AllKeysOK' /\ TaskInv' /\ BgInv'
  BY SameDb
<1>3. LockInv' /\ client'[c].pc = "idle" /\ \A e \in Clients \ {c} : client'[e] = client[e]
  BY <1>t, <1>d, FinishLock
<1>4. OneClientInv(client'[c], meta'[client'[c].key], items', marks')
  BY <1>3 DEF OneClientInv
<1>5. \A e \in Clients \ {c} : OneClientInv(client'[e], meta'[client'[e].key], items', marks')
  BY <1>t, <1>3, <1>d, ClientInvParts
<1>6. ClientInv'
  BY <1>4, <1>5, ClientInvParts
<1> QED
  BY <1>1, <1>2, <1>3, <1>6, IndInvParts

\* A client writes its batch: the reaper and the other clients do not notice.
LEMMA ClientWrite ==
    ASSUME IndInv, NEW c \in Clients, client[c].pc \in {"staged", "replace"},
           Write(client[c].batch), UNCHANGED <<tasks, bg>>
    PROVE  /\ AllKeysOK' /\ TaskInv' /\ BgInv'
           /\ meta'[client[c].key] = NewMeta(client[c].batch, client[c].key, meta[client[c].key])
           /\ \A e \in Clients \ {c} :
                 OneClientInv(client[e], meta'[client[e].key], items', marks')
<1> DEFINE k == client[c].key
           b == client[c].batch
<1>t. TypeOK /\ AllKeysOK /\ LockInv /\ ClientInv /\ TaskInv /\ BgInv
  BY IndInvParts
<1>f. k \in Keys /\ b \in Batch /\ \A e \in Clients : client[e].key \in Keys /\ client[e].batch \in Batch
  BY <1>t, ClientFacts
<1>o. \A e \in Clients : OneClientInv(client[e], meta[client[e].key], items, marks)
  BY <1>t, ClientInvParts
<1>b. BatchOK(k, b, meta[k], items, marks) /\ Write(b)
  BY <1>o DEF OneClientInv
<1>p. bg.pc = "locked" => bg.dk[1] # k
  BY <1>t DEF LockInv
<1>q. \A e \in Clients \ {c} : client[e].pc # "idle" => client[e].key # k
  BY <1>t DEF LockInv
<1> HIDE DEF k, b
<1>1. OnlyKey(k) /\ AllKeysOK' /\ meta'[k] = NewMeta(b, k, meta[k])
  BY <1>t, <1>f, <1>b, WriteOK
<1>2. \A e \in Clients \ {c} : OneClientInv(client[e], meta'[client[e].key], items', marks')
  <2> SUFFICES ASSUME NEW e \in Clients \ {c}, client[e].pc # "idle"
               PROVE  OneClientInv(client[e], meta'[client[e].key], items', marks')
    BY DEF OneClientInv
  <2> DEFINE j == client[e].key
  <2>1. j \in Keys \ {k} /\ client[e].batch \in Batch
    BY <1>f, <1>q
  <2>2. OneClientInv(client[e], meta[j], items, marks)
    BY <1>o
  <2>3. meta'[j] = meta[j]
    BY <1>1, <2>1 DEF OnlyKey
  <2>4. BatchOK(j, client[e].batch, meta[j], items, marks)
          => BatchOK(j, client[e].batch, meta'[j], items', marks')
    BY <1>1, <1>t, <1>f, <2>1, OtherKey
  <2> QED
    BY <2>2, <2>3, <2>4 DEF OneClientInv
<1>3. /\ marks \subseteq marks'
      /\ \A d \in marks' \ marks : meta[k].st = "live" /\ d = <<k, meta[k].ver>>
  BY <1>b DEF BatchOK, Write, NewMarks
\* A new mark is the youngest of its key.
<1>4. \A d \in marks : SmallerMarks(marks', d) = SmallerMarks(marks, d)
  <2> SUFFICES ASSUME NEW d \in marks, NEW e \in marks' \ marks, e[1] = d[1], e[2] < d[2]
               PROVE  FALSE
    BY <1>3 DEF SmallerMarks
  <2>1. meta[k].st = "live" /\ e[1] = k /\ e[2] = meta[k].ver
    BY <1>3
  <2>2. d[1] = k /\ d[2] \in Versions /\ <<k, d[2]>> \in marks
    <3>1. d \in Marks
      BY <1>t DEF TypeOK
    <3>2. d = <<d[1], d[2]>> /\ d[2] \in Versions
      BY <3>1 DEF Marks
    <3>3. d[1] = k
      BY <2>1
    <3> QED
      BY <3>2, <3>3
  <2>3. d[2] < meta[k].ver
    <3>1. KeyOK(k, meta[k], items, marks)
      BY <1>t, <1>f DEF AllKeysOK
    <3> QED
      BY <2>1, <2>2, <3>1 DEF KeyOK
  <2>4. d[2] \in Nat /\ meta[k].ver \in Nat
    BY <1>t, <1>f, <2>2, VersionsFacts DEF TypeOK, MetaVal
  <2> QED
    BY <2>1, <2>3, <2>4
<1>5. tasks' = tasks /\ bg' = bg
  OBVIOUS
<1>6. TaskInv'
  <2>1. tasks \subseteq marks'
    BY <1>t, <1>3 DEF TaskInv
  <2>2. \A d \in tasks : SmallerMarks(marks', d) = SmallerMarks(marks, d)
    BY <1>t, <1>4 DEF TaskInv
  <2> QED
    BY <1>t, <1>5, <2>1, <2>2 DEF TaskInv, SmallerMarks
<1>7. BgInv'
  <2>1. CASE bg.pc = "idle"
    BY <1>5, <2>1 DEF BgInv
  <2>2. CASE bg.pc # "idle"
    <3>1. /\ bg.dk \in marks \ tasks /\ SmallerMarks(marks, bg.dk) = {}
          /\ bg.scan = {i \in items : i[1] = bg.dk[1] /\ i[2] = bg.dk[2]}
      BY <1>t, <2>2 DEF BgInv
    <3>2. bg.dk \in marks' \ tasks /\ SmallerMarks(marks', bg.dk) = {}
      BY <1>3, <1>4, <3>1
    <3>3. bg.dk = <<bg.dk[1], bg.dk[2]>> /\ bg.dk[1] \in Keys
      BY <1>t, BgFacts
    <3>4. \A i \in b.put \cup b.del : ~(i[1] = bg.dk[1] /\ i[2] = bg.dk[2])
      <4>1. <<bg.dk[1], bg.dk[2]>> \in marks
        BY <3>1, <3>3
      <4> QED
        BY <1>b, <4>1 DEF BatchOK
    <3>5. bg.scan = {i \in items' : i[1] = bg.dk[1] /\ i[2] = bg.dk[2]}
      <4>1. items' = (items \ b.del) \cup b.put
        BY <1>b DEF Write, NewItems
      <4>2. \A i : i \in items' /\ i[1] = bg.dk[1] /\ i[2] = bg.dk[2]
                    <=> i \in items /\ i[1] = bg.dk[1] /\ i[2] = bg.dk[2]
        BY <3>4, <4>1
      <4> QED
        BY <3>1, <4>2
    <3>6. bg.pc = "locked" => meta'[bg.dk[1]] = meta[bg.dk[1]]
      BY <1>1, <1>p, <3>3 DEF OnlyKey
    <3>7. bg.pc = "locked" =>
            bg.delmeta = (meta'[bg.dk[1]].st = "dead" /\ meta'[bg.dk[1]].ver = bg.dk[2])
      BY <1>t, <3>6 DEF BgInv
    <3> QED
      BY <1>5, <3>2, <3>5, <3>7 DEF BgInv, SmallerMarks
  <2> QED
    BY <2>1, <2>2
<1> QED
  BY <1>1, <1>2, <1>6, <1>7 DEF k, b

LEMMA CommitInv ==
    ASSUME IndInv, NEW c \in Clients, Commit(c)
    PROVE  IndInv'
<1>t. TypeOK /\ LockInv
  BY DEF IndInv
<1>u. /\ client[c].pc = "staged" /\ client[c].pc # "idle" /\ Write(client[c].batch) /\ Finish(c)
      /\ UNCHANGED <<tasks, bg>> /\ bg' = bg
  BY DEF Commit
<1>1. TypeOK'
  BY <1>t, ClientStepType DEF ClientStep
<1>2. /\ AllKeysOK' /\ TaskInv' /\ BgInv'
      /\ \A e \in Clients \ {c} : OneClientInv(client[e], meta'[client[e].key], items', marks')
  BY <1>u, ClientWrite
<1>3. LockInv' /\ client'[c].pc = "idle" /\ \A e \in Clients \ {c} : client'[e] = client[e]
  BY <1>t, <1>u, FinishLock
<1>4. OneClientInv(client'[c], meta'[client'[c].key], items', marks')
  BY <1>3 DEF OneClientInv
<1>5. ClientInv'
  BY <1>2, <1>3, <1>4, ClientInvParts
<1> QED
  BY <1>1, <1>2, <1>3, <1>5, IndInvParts

\* A client that goes on with the same key keeps the lock.
LEMMA SameKeyLock ==
    ASSUME LockInv, NEW c \in Clients, client[c].pc # "idle",
           client'[c].key = client[c].key, \A e \in Clients \ {c} : client'[e] = client[e],
           UNCHANGED <<lock, bg>>
    PROVE  LockInv'
<1>1. \A e \in Clients : client'[e].key = client[e].key
                           /\ (client'[e].pc # "idle" => client[e].pc # "idle")
  OBVIOUS
<1>2. lock' = lock /\ bg' = bg
  OBVIOUS
<1>3. \A e \in Clients : client'[e].pc # "idle" => lock[client'[e].key]
  BY <1>1 DEF LockInv
<1>4. \A e, h \in Clients :
        e # h /\ client'[e].pc # "idle" /\ client'[h].pc # "idle"
          => client'[e].key # client'[h].key
  BY <1>1 DEF LockInv
<1>5. bg.pc = "locked" =>
        /\ lock[bg.dk[1]]
        /\ \A e \in Clients : client'[e].pc # "idle" => client'[e].key # bg.dk[1]
  BY <1>1 DEF LockInv
<1> QED
  BY <1>2, <1>3, <1>4, <1>5 DEF LockInv

LEMMA RestoreReplaceInv ==
    ASSUME IndInv, NEW c \in Clients, RestoreReplace(c)
    PROVE  IndInv'
<1> DEFINE k == client[c].key
           b == client[c].batch
<1>t. TypeOK /\ LockInv /\ ClientInv
  BY DEF IndInv
<1>u. /\ client[c].pc = "replace" /\ client[c].pc # "idle" /\ Write(b)
      /\ UNCHANGED <<tasks, bg>> /\ UNCHANGED <<lock, bg>>
  BY DEF RestoreReplace
<1>f. k \in Keys /\ client[c].seen \in MetaVal
  BY <1>t, ClientFacts
<1>1. TypeOK'
  BY <1>t, ClientStepType DEF ClientStep
<1>2. /\ AllKeysOK' /\ TaskInv' /\ BgInv' /\ meta'[k] = NewMeta(b, k, meta[k])
      /\ \A e \in Clients \ {c} : OneClientInv(client[e], meta'[client[e].key], items', marks')
  BY <1>u, ClientWrite
<1>3. /\ client'[c].pc = "load" /\ client'[c].key = k /\ client'[c].seen = client[c].seen
      /\ \A e \in Clients \ {c} : client'[e] = client[e]
  BY <1>t DEF RestoreReplace, TypeOK, ClientState
<1>4. LockInv'
  BY <1>t, <1>u, <1>3, SameKeyLock
<1>5. client[c].seen = b.meta[k] /\ client[c].seen.st = "dead"
  BY <1>t, <1>u DEF ClientInv
<1>6. meta'[k] = client[c].seen
  BY <1>2, <1>5, <1>f, AbsentType DEF NewMeta
<1>7. OneClientInv(client'[c], meta'[client'[c].key], items', marks')
  BY <1>3, <1>5, <1>6 DEF OneClientInv
<1>8. ClientInv'
  BY <1>2, <1>3, <1>7, ClientInvParts
<1> QED
  BY <1>1, <1>2, <1>4, <1>8, IndInvParts

LEMMA RestoreLoadInv ==
    ASSUME Benign, IndInv, NEW c \in Clients, NEW t \in Types, NEW fs \in SUBSET Fields,
           RestoreLoad(c, t, fs)
    PROVE  IndInv'
<1> DEFINE k == client[c].key
           mv == [ret |-> 0, ver |-> QuickVersion(client[c].seen), len |-> 0]
           b == Quick(k, t, mv, fs)
<1>t. TypeOK /\ AllKeysOK /\ LockInv /\ ClientInv
  BY IndInvParts
<1>f. k \in Keys /\ client[c] \in ClientState
  BY <1>t, ClientFacts
<1>w. ~VersionWraps
  BY DEF Benign
<1>u. /\ client[c].pc = "load" /\ client[c].pc # "idle" /\ Reusable(k)
      /\ client' = [client EXCEPT ![c].pc = "staged", ![c].seen = Absent, ![c].batch = b]
      /\ UNCHANGED <<db, tasks, bg>> /\ UNCHANGED <<lock, bg>>
  BY DEF RestoreLoad
<1>d. meta' = meta /\ items' = items /\ marks' = marks
  BY <1>u DEF db
<1>1. TypeOK'
  BY <1>t, ClientStepType DEF ClientStep
<1>2. AllKeysOK' /\ TaskInv' /\ BgInv'
  BY <1>u, SameDb
<1>3. KeyOK(k, meta[k], items, marks) /\ meta[k] \in MetaVal
  BY <1>t, <1>f DEF AllKeysOK, TypeOK
<1>4. client[c].seen = meta[k] /\ meta[k].st # "live"
  BY <1>t, <1>u DEF ClientInv
<1>5. meta[k].st \in {"absent", "dead"} /\ meta[k].ver \in Versions
  BY <1>3, <1>4 DEF MetaVal
<1>6. Fresh(k, mv.ver) /\ mv \in MetaRead /\ mv.len = 0
  <2>1. mv.ver = IF meta[k].st = "dead" THEN NextVersion(meta[k].ver) ELSE 0
    BY <1>4 DEF QuickVersion
  <2>2. mv.ver \in Versions
    BY <1>5, <2>1, VersionsFacts
  <2>3. Fresh(k, mv.ver)
    BY <1>f, <1>t, <1>u, <1>w, <1>3, <1>4, <1>5, <2>1, NextIsFresh
  <2> QED
    BY <2>2, <2>3 DEF MetaRead
<1> HIDE DEF mv
<1>7. ReadOK(k, t, mv)
  BY <1>6 DEF ReadOK
<1>8. BatchOK(k, b, meta[k], items, marks)
  <2>1. CASE t = "kv"
    BY <1>t, <1>f, <1>3, <1>6, <1>7, <2>1, PutKvOK, QuickIs
  <2>2. CASE t # "kv"
    <3> DEFINE F == FieldsAt(items, k, mv.ver)
               n == Cardinality(fs)
    <3>1. F = {} /\ (F \ {}) \cup fs = fs
      BY <1>6 DEF Fresh
    <3>2. n \in Nat
      BY FieldsAtFinite
    <3> HIDE DEF n, F
    <3>3. Cardinality((F \ {}) \cup fs) = mv.len + n
      BY <1>6, <3>1, <3>2 DEF n
    <3>4. t \in {"hash", "set"}
      BY <2>2 DEF Types
    <3>5. BatchOK(k, IncrSize(k, t, mv, n, fs, {}), meta[k], items, marks)
      BY <1>t, <1>f, <1>3, <1>6, <1>7, <3>2, <3>3, <3>4, IncrSizeOK DEF F
    <3> QED
      BY <2>2, <3>5, QuickIs DEF n
  <2> QED
    BY <2>1, <2>2
<1> HIDE DEF b
<1>9. /\ client'[c].pc = "staged" /\ client'[c].key = k /\ client'[c].batch = b
      /\ \A e \in Clients \ {c} : client'[e] = client[e]
  BY <1>t, <1>u, <1>f DEF TypeOK, ClientState
<1>10. LockInv'
  BY <1>t, <1>u, <1>9, SameKeyLock
<1>11. OneClientInv(client'[c], meta'[client'[c].key], items', marks')
  BY <1>8, <1>9, <1>d DEF OneClientInv
<1>12. \A e \in Clients \ {c} : OneClientInv(client'[e], meta'[client'[e].key], items', marks')
  BY <1>t, <1>9, <1>d, ClientInvParts
<1>13. ClientInv'
  BY <1>11, <1>12, ClientInvParts
<1> QED
  BY <1>1, <1>2, <1>10, <1>13, IndInvParts

LEMMA ClientStepInv ==
    ASSUME Benign, IndInv, NEW c \in Clients, ClientStep(c)
    PROVE  IndInv'
<1>1. CASE Commit(c)
  BY <1>1, CommitInv
<1>2. CASE CommitFails(c) \/ RestoreRefused(c) \/ DumpSnapshot(c)
  BY <1>2, FinishInv DEF CommitFails, RestoreRefused, DumpSnapshot
<1>3. CASE RestoreReplace(c)
  BY <1>3, RestoreReplaceInv
<1>4. ASSUME NEW t \in Types, NEW fs \in SUBSET Fields, RestoreLoad(c, t, fs)
      PROVE  IndInv'
  BY <1>4, RestoreLoadInv
<1> QED
  BY <1>1, <1>2, <1>3, <1>4 DEF ClientStep

----------------------------------------------------------------------------
(* The steps of the reaper *)

LEMMA MarkPair ==
    ASSUME TypeOK, NEW d \in marks
    PROVE  d = <<d[1], d[2]>> /\ d[1] \in Keys /\ d[2] \in Versions
<1>1. d \in Marks
  BY DEF TypeOK
<1> QED
  BY <1>1 DEF Marks

LEMMA BgLoadInv ==
    ASSUME IndInv, BgLoad
    PROVE  IndInv'
<1>t. TypeOK /\ AllKeysOK /\ LockInv /\ ClientInv /\ TaskInv /\ BgInv
  BY IndInvParts
<1>u. /\ bg.pc = "idle" /\ meta' = meta /\ items' = items /\ marks' = marks /\ bg' = bg
      /\ lock' = lock /\ client' = client
  BY DEF BgLoad, db
<1>1. TypeOK'
  BY <1>t, BgType DEF BgStep, BgWrite, BgCommit
<1>2. AllKeysOK' /\ LockInv' /\ ClientInv'
  BY <1>t, <1>u DEF AllKeysOK, LockInv, ClientInv
<1>3. TaskInv'
  <2>1. tasks' \subseteq marks /\ \A d \in tasks' : SmallerMarks(marks, d) \subseteq tasks'
    BY DEF BgLoad
  <2> QED
    BY <1>u, <2>1 DEF TaskInv, SmallerMarks
<1>4. BgInv'
  BY <1>u DEF BgInv
<1> QED
  BY <1>1, <1>2, <1>3, <1>4, IndInvParts

LEMMA BgPopInv ==
    ASSUME Benign, IndInv, BgPop
    PROVE  IndInv'
<1>t. TypeOK /\ AllKeysOK /\ LockInv /\ ClientInv /\ TaskInv /\ BgInv
  BY IndInvParts
<1>u. /\ bg.pc = "idle" /\ meta' = meta /\ items' = items /\ marks' = marks
      /\ lock' = lock /\ client' = client
  BY DEF BgPop, db
<1>p. PICK d \in tasks :
        /\ SmallerMarks(tasks, d) = {}
        /\ tasks' = tasks \ {d}
        /\ bg' = [pc |-> "scanned", dk |-> d, delmeta |-> FALSE,
                  scan |-> {i \in items : i[1] = d[1] /\ i[2] = d[2]}]
  BY DEF BgPop, Scans, Benign
<1>q. /\ bg'.pc = "scanned" /\ bg'.dk = d
      /\ bg'.scan = {i \in items : i[1] = d[1] /\ i[2] = d[2]}
  BY <1>p
<1>1. TypeOK'
  BY <1>t, BgType DEF BgStep, BgWrite, BgCommit
<1>2. AllKeysOK' /\ ClientInv'
  BY <1>t, <1>u DEF AllKeysOK, ClientInv
<1>3. LockInv'
  BY <1>t, <1>u, <1>q DEF LockInv
<1>m. d \in marks /\ tasks \subseteq marks /\ \A e \in tasks : SmallerMarks(marks, e) \subseteq tasks
  BY <1>t, <1>u DEF TaskInv
<1>4. TaskInv'
  <2>1. \A e \in tasks' : SmallerMarks(marks, e) \subseteq tasks' \cup {d}
    BY <1>m, <1>p
  <2> QED
    BY <1>u, <1>p, <1>q, <1>m, <2>1 DEF TaskInv, SmallerMarks
<1>5. BgInv'
  <2>1. SmallerMarks(marks, d) = {}
    BY <1>p, <1>m DEF SmallerMarks
  <2>2. d \in marks \ tasks'
    BY <1>m, <1>p
  <2> QED
    BY <1>u, <1>q, <2>1, <2>2 DEF BgInv, SmallerMarks
<1> QED
  BY <1>1, <1>2, <1>3, <1>4, <1>5, IndInvParts

LEMMA BgLockInv ==
    ASSUME IndInv, BgLock
    PROVE  IndInv'
<1> DEFINE k == bg.dk[1]
<1>t. TypeOK /\ AllKeysOK /\ LockInv /\ ClientInv /\ TaskInv /\ BgInv
  BY IndInvParts
<1>u. /\ bg.pc = "scanned" /\ meta' = meta /\ items' = items /\ marks' = marks
      /\ tasks' = tasks /\ client' = client
      /\ ~lock[k] /\ lock' = [lock EXCEPT ![k] = TRUE]
  BY DEF BgLock, db
<1>q. /\ bg'.pc = "locked" /\ bg'.dk = bg.dk /\ bg'.scan = bg.scan
      /\ bg'.delmeta = (meta[k].st = "dead" /\ meta[k].ver = bg.dk[2])
  BY <1>t DEF BgLock, TypeOK, BgState
<1>k. k \in Keys /\ \A c \in Clients : client[c].key \in Keys
  BY <1>t, BgFacts, ClientFacts
<1>l. lock'[k] /\ \A j \in Keys \ {k} : lock'[j] = lock[j]
  BY <1>t, <1>u, <1>k DEF TypeOK
<1>1. TypeOK'
  BY <1>t, BgType DEF BgStep, BgWrite, BgCommit
<1>2. AllKeysOK' /\ ClientInv'
  BY <1>t, <1>u DEF AllKeysOK, ClientInv
<1>3. LockInv'
  <2>1. \A c \in Clients : client[c].pc # "idle" => client[c].key # k /\ lock'[client[c].key]
    BY <1>t, <1>u, <1>k, <1>l DEF LockInv
  <2>2. \A c, e \in Clients :
          c # e /\ client[c].pc # "idle" /\ client[e].pc # "idle"
            => client[c].key # client[e].key
    BY <1>t DEF LockInv
  <2> QED
    BY <1>u, <1>q, <1>l, <2>1, <2>2 DEF LockInv
<1>4. TaskInv'
  BY <1>t, <1>u, <1>q DEF TaskInv, SmallerMarks
<1>5. BgInv'
  BY <1>t, <1>u, <1>q DEF BgInv, SmallerMarks
<1> QED
  BY <1>1, <1>2, <1>3, <1>4, <1>5, IndInvParts

LEMMA BgCommitInv ==
    ASSUME IndInv, BgCommit
    PROVE  IndInv'
<1> DEFINE k == bg.dk[1]
           w == bg.dk[2]
<1>t. TypeOK /\ AllKeysOK /\ LockInv /\ ClientInv /\ TaskInv /\ BgInv
  BY IndInvParts
<1>k. k \in Keys /\ w \in Versions /\ bg.dk = <<k, w>>
  BY <1>t, BgFacts
<1>i. /\ bg.pc = "locked" /\ bg.dk \in marks /\ bg.dk \notin tasks
      /\ SmallerMarks(marks, bg.dk) = {}
      /\ bg.scan = {i \in items : i[1] = k /\ i[2] = w}
      /\ bg.delmeta = (meta[k].st = "dead" /\ meta[k].ver = w)
  BY <1>t DEF BgCommit, BgInv
<1>u. /\ bg'.pc = "idle" /\ lock' = [lock EXCEPT ![k] = FALSE]
      /\ client' = client /\ tasks' = tasks
  BY IdleFacts DEF BgCommit, BgDone
<1>w. /\ items' = items \ bg.scan /\ marks' = marks \ {bg.dk}
      /\ meta'[k] = IF bg.delmeta THEN Absent ELSE meta[k]
      /\ \A j \in Keys \ {k} : meta'[j] = meta[j]
  <2>1. /\ BgBatch.put = {} /\ BgBatch.del = bg.scan /\ BgBatch.mark = {}
        /\ BgBatch.unmark = {bg.dk}
        /\ BgBatch.meta[k] = (IF bg.delmeta THEN Absent ELSE NoPut)
        /\ \A j \in Keys \ {k} : BgBatch.meta[j] = NoPut
    BY <1>k DEF BgBatch, OneKey
  <2>2. Absent # NoPut
    BY AbsentType
  <2>3. Write(BgBatch)
    BY DEF BgCommit
  <2>4. \A j \in Keys : meta'[j] = NewMeta(BgBatch, j, meta[j])
    BY <2>3 DEF Write
  <2> QED
    BY <1>k, <2>1, <2>2, <2>3, <2>4 DEF Write, NewMeta, NewItems, NewMarks
<1> HIDE DEF k, w
<1>1. TypeOK'
  BY <1>t, BgType DEF BgStep, BgWrite, BgCommit
<1>2. /\ \A j \in Keys, v \in Versions : <<j, v>> # <<k, w>> =>
            FieldsAt(items', j, v) = FieldsAt(items, j, v)
      /\ FieldsAt(items', k, w) = {}
  BY <1>w, <1>i DEF FieldsAt
<1>3. /\ \A j \in Keys, v \in Versions : <<j, v>> # <<k, w>> =>
            (<<j, v>> \in marks' <=> <<j, v>> \in marks)
      /\ <<k, w>> \notin marks'
  BY <1>w, <1>k
<1>4. OnlyKey(k)
  BY <1>w, <1>2, <1>3 DEF OnlyKey
<1>m. meta[k] \in MetaVal /\ meta[k].ver \in Versions /\ meta[k].st \in {"absent", "live", "dead"}
  BY <1>t, <1>k DEF TypeOK, MetaVal
<1>o. KeyOK(k, meta[k], items, marks) /\ <<k, w>> \in marks
  BY <1>t, <1>k, <1>i DEF AllKeysOK
<1>n. \A v \in Versions : v \in Nat
  BY VersionsFacts
<1>5. KeyOK(k, meta'[k], items', marks')
  <2>1. CASE bg.delmeta
    <3>1. meta'[k] = Absent /\ Absent.st = "absent"
      BY <1>w, <2>1 DEF Absent
    <3>2. meta[k].st = "dead" /\ meta[k].ver = w
      BY <1>i, <2>1
    <3>3. \A v \in Versions : <<k, v>> \in marks => v = w
      <4> SUFFICES ASSUME NEW v \in Versions, <<k, v>> \in marks, v # w
                   PROVE  FALSE
        OBVIOUS
      <4>1. v < w
        BY <1>o, <3>2 DEF KeyOK
      <4>2. <<k, v>> \in SmallerMarks(marks, bg.dk)
        BY <4>1, <1>k DEF SmallerMarks
      <4> QED
        BY <4>2, <1>i
    <3>4. \A v \in Versions : <<k, v>> \notin marks'
      BY <1>3, <1>k, <3>3
    <3>5. \A v \in Versions : FieldsAt(items', k, v) = {}
      <4> SUFFICES ASSUME NEW v \in Versions, v # w
                   PROVE  FieldsAt(items', k, v) = {}
        BY <1>2
      <4>1. FieldsAt(items', k, v) = FieldsAt(items, k, v)
        BY <1>2, <1>k
      <4>2. <<k, v>> \notin marks
        BY <3>3
      <4> QED
        BY <4>1, <4>2, <1>o, <3>2 DEF KeyOK
    <3> QED
      BY <3>1, <3>4, <3>5 DEF KeyOK
  <2>2. CASE ~bg.delmeta
    <3>1. meta'[k] = meta[k] /\ ~(meta[k].st = "dead" /\ meta[k].ver = w)
      BY <1>w, <1>i, <2>2
    <3>2. w # meta[k].ver
      BY <1>o, <1>k, <1>m, <1>n, <3>1 DEF KeyOK
    <3>3. \A v \in Versions : v # w =>
            /\ FieldsAt(items', k, v) = FieldsAt(items, k, v)
            /\ <<k, v>> \in marks' <=> <<k, v>> \in marks
      BY <1>2, <1>3, <1>k
    <3> QED
      BY <1>2, <1>3, <1>o, <1>m, <3>1, <3>2, <3>3 DEF KeyOK
  <2> QED
    BY <2>1, <2>2
<1>6. AllKeysOK'
  <2>1. \A j \in Keys : KeyOK(j, meta'[j], items', marks')
    BY <1>t, <1>k, <1>4, <1>5, OtherKey DEF AllKeysOK
  <2> QED
    BY <2>1 DEF AllKeysOK
<1>b. \A c \in Clients : client[c].pc # "idle" => client[c].key \in Keys \ {k}
  BY <1>t, <1>i, ClientFacts DEF LockInv, k
<1>7. LockInv'
  <2>1. \A j \in Keys \ {k} : lock'[j] = lock[j]
    BY <1>t, <1>u, <1>k DEF TypeOK
  <2>2. \A c \in Clients : client[c].pc # "idle" => lock'[client[c].key]
    BY <1>t, <1>b, <2>1 DEF LockInv
  <2>3. \A c, e \in Clients :
          c # e /\ client[c].pc # "idle" /\ client[e].pc # "idle"
            => client[c].key # client[e].key
    BY <1>t DEF LockInv
  <2> QED
    BY <1>u, <2>2, <2>3 DEF LockInv
<1>8. ClientInv'
  <2>1. ASSUME NEW c \in Clients
        PROVE  OneClientInv(client'[c], meta'[client'[c].key], items', marks')
    <3> DEFINE j == client[c].key
    <3>1. client'[c] = client[c] /\ client[c].batch \in Batch
      BY <1>t, <1>u, ClientFacts
    <3>2. OneClientInv(client[c], meta[j], items, marks)
      BY <1>t, ClientInvParts
    <3>3. CASE client[c].pc = "idle"
      BY <3>1, <3>3 DEF OneClientInv
    <3>4. CASE client[c].pc # "idle"
      <4>1. j \in Keys \ {k}
        BY <1>b, <3>4
      <4>2. meta'[j] = meta[j]
        BY <1>w, <4>1
      <4>3. BatchOK(j, client[c].batch, meta[j], items, marks)
              => BatchOK(j, client[c].batch, meta'[j], items', marks')
        BY <1>t, <1>k, <1>4, <3>1, <4>1, OtherKey
      <4> QED
        BY <3>1, <3>2, <4>2, <4>3 DEF OneClientInv
    <3> QED
      BY <3>3, <3>4
  <2> QED
    BY <2>1, ClientInvParts
<1>9. TaskInv'
  <2>1. tasks \subseteq marks'
    BY <1>t, <1>i, <1>w DEF TaskInv
  <2>2. \A d \in tasks : SmallerMarks(marks, d) \subseteq tasks \cup {bg.dk}
    BY <1>t, <1>i DEF TaskInv
  <2>3. \A d \in tasks : SmallerMarks(marks', d) \subseteq tasks
    BY <1>w, <2>2 DEF SmallerMarks
  <2> QED
    BY <1>u, <2>1, <2>3 DEF TaskInv, SmallerMarks
<1>10. BgInv'
  BY <1>u DEF BgInv
<1> QED
  BY <1>1, <1>6, <1>7, <1>8, <1>9, <1>10, IndInvParts

----------------------------------------------------------------------------
(* The inductive invariant *)

LEMMA InitInv == Init => IndInv
<1> SUFFICES ASSUME Init
             PROVE  IndInv
  OBVIOUS
<1>1. TypeOK
  BY InitType
<1>2. \A k \in Keys : meta[k] = Absent /\ Absent.st = "absent"
  BY DEF Init, Absent
<1>3. \A k \in Keys : \A v : FieldsAt(items, k, v) = {}
  BY DEF Init, FieldsAt
<1>4. AllKeysOK
  BY <1>2, <1>3 DEF Init, AllKeysOK, KeyOK
<1>5. LockInv /\ ClientInv /\ TaskInv /\ BgInv
  BY IdleFacts DEF Init, LockInv, ClientInv, TaskInv, BgInv
<1> QED
  BY <1>1, <1>4, <1>5, IndInvParts

LEMMA RestartInv ==
    ASSUME IndInv, Restart
    PROVE  IndInv'
<1>t. TypeOK /\ AllKeysOK
  BY IndInvParts
<1>u. /\ meta' = meta /\ items' = items /\ marks' = marks /\ tasks' = {} /\ bg' = IdleBg
      /\ \A c \in Clients : client'[c] = IdleClient
  BY DEF Restart, db
<1>1. TypeOK'
  BY <1>t, IdleTypes DEF Restart, TypeOK, db
<1>2. AllKeysOK'
  BY <1>t, <1>u DEF AllKeysOK
<1>3. LockInv' /\ ClientInv' /\ TaskInv' /\ BgInv'
  BY <1>u, IdleFacts DEF LockInv, ClientInv, TaskInv, BgInv
<1> QED
  BY <1>1, <1>2, <1>3, IndInvParts

LEMMA NextInv ==
    ASSUME Benign, IndInv, [Next]_vars
    PROVE  IndInv'
<1>1. ASSUME NEW c \in Clients, ClientCommand(c)
      PROVE  IndInv'
  BY <1>1, CommandStarts, StartsInv, IndInvParts
<1>2. ASSUME NEW c \in Clients, ClientStep(c)
      PROVE  IndInv'
  BY <1>2, ClientStepInv
<1>3. CASE BgStep
  BY <1>3, BgLoadInv, BgPopInv, BgLockInv, BgCommitInv DEF BgStep, BgWrite, BgCommitFails, Benign
<1>4. CASE Restart
  BY <1>4, RestartInv
<1>5. CASE UNCHANGED vars
  BY <1>5 DEF vars, IndInv, TypeOK, LockInv, ClientInv, TaskInv, BgInv, SmallerMarks
<1>6. Deleters = {} /\ Setters = {}
  BY DEF Benign
<1> QED
  BY <1>1, <1>2, <1>3, <1>4, <1>5, <1>6 DEF Next, Up

\* No command but DEL and MSET, no crash and no step of the reaper breaks the
\* invariant that ties a key's META record, items, marks and lock together
\* (hsetCommon, hmsetNoLock, hdel, saddNoLock, srem, spop, SetGeneric, restore,
\* delete_key_loop).
THEOREM KeysSound ==
    ASSUME Benign
    PROVE  Spec => []IndInv
<1>1. Init => IndInv
  BY InitInv
<1>2. IndInv /\ [Next]_vars => IndInv'
  BY NextInv
<1> QED
  BY <1>1, <1>2, PTL DEF Spec

\* HLEN and SCARD (the length in the META record) count the stored items, so
\* that incr_hsize and incr_ssize flag a key dead exactly when it is empty.
THEOREM LengthsMatch ==
    ASSUME Benign
    PROVE  Spec => []LengthMatches
<1>1. IndInv => LengthMatches
  BY DEF IndInv, KeyOK, LengthMatches, LenOf
<1> QED
  BY <1>1, KeysSound, PTL

\* The assertion of rdbSaveObject ("metakey length dismatch") does not fail.
THEOREM DumpsMatch ==
    ASSUME Benign
    PROVE  Spec => []DumpMatches
<1>1. IndInv => DumpMatches
  <2> SUFFICES ASSUME IndInv, NEW c \in Clients, client[c].pc = "dump"
               PROVE  LenOf(client[c].seen, items, client[c].key) = client[c].seen.len
    BY DEF DumpMatches
  <2>1. client[c].seen = meta[client[c].key] /\ client[c].seen.st = "live"
    BY DEF IndInv, ClientInv
  <2>2. KeyOK(client[c].key, meta[client[c].key], items, marks)
    BY ClientFacts DEF IndInv
  <2> QED
    BY <2>1, <2>2 DEF KeyOK, LenOf
<1> QED
  BY <1>1, KeysSound, PTL

\* Items never outlive their key without a DELETE mark for delete_key_loop.
THEOREM NoOrphans ==
    ASSUME Benign
    PROVE  Spec => []NoOrphanItems
<1>1. IndInv => NoOrphanItems
  <2> SUFFICES ASSUME IndInv, NEW i \in items
               PROVE  \/ meta[i[1]].st = "live" /\ meta[i[1]].ver = i[2]
                      \/ <<i[1], i[2]>> \in marks
    BY DEF NoOrphanItems
  <2>1. i \in Items
    BY DEF IndInv, TypeOK
  <2>2. i[1] \in Keys /\ i[2] \in Versions /\ i[3] \in Fields /\ <<i[1], i[2], i[3]>> \in items
    BY <2>1 DEF Items
  <2>3. FieldsAt(items, i[1], i[2]) # {}
    BY <2>2 DEF FieldsAt
  <2>4. KeyOK(i[1], meta[i[1]], items, marks)
    BY <2>2 DEF IndInv
  <2> QED
    BY <2>2, <2>3, <2>4 DEF KeyOK
<1> QED
  BY <1>1, KeysSound, PTL

\* delete_key_loop never holds, queues or is asked for a version in use.
THEOREM LiveUnmarked ==
    ASSUME Benign
    PROVE  Spec => []LiveNotMarked
<1>1. IndInv => LiveNotMarked
  <2> SUFFICES ASSUME IndInv, NEW k \in Keys, meta[k].st = "live"
               PROVE  /\ <<k, meta[k].ver>> \notin marks \cup tasks
                      /\ bg.pc # "idle" => bg.dk # <<k, meta[k].ver>>
    BY DEF LiveNotMarked
  <2>1. meta[k].ver \in Versions /\ meta[k].ver \in Nat
    BY VersionsFacts DEF IndInv, TypeOK, MetaVal
  <2>2. KeyOK(k, meta[k], items, marks)
    BY DEF IndInv
  <2>3. <<k, meta[k].ver>> \notin marks
    BY <2>1, <2>2 DEF KeyOK
  <2>4. tasks \subseteq marks /\ (bg.pc # "idle" => bg.dk \in marks)
    BY DEF IndInv, TaskInv, BgInv
  <2> QED
    BY <2>3, <2>4
<1> QED
  BY <1>1, KeysSound, PTL

\* The batch of a client that is written ends an incarnation only with a mark.
LEMMA WriteMarks ==
    ASSUME TypeOK, NEW k \in Keys, NEW b \in Batch,
           BatchOK(k, b, meta[k], items, marks), Write(b), NEW j \in Keys,
           meta[j].st = "live", ~(meta'[j].st = "live" /\ meta'[j].ver = meta[j].ver)
    PROVE  meta'[j].st = "dead" /\ <<j, meta[j].ver>> \in marks'
<1>1. meta'[j] = NewMeta(b, j, meta[j]) /\ b.mark \subseteq marks'
  BY DEF Write, NewMarks
<1>2. CASE j # k
  BY <1>1, <1>2 DEF BatchOK, NewMeta
<1>3. CASE j = k
  BY <1>1, <1>3 DEF BatchOK
<1> QED
  BY <1>2, <1>3

\* A key's incarnation ends with a dead META record and a DELETE mark
\* (mark_key_deleted, incr_hsize, incr_ssize), never by a plain overwrite.
THEOREM DeathsMarked ==
    ASSUME Benign
    PROVE  Spec => DeathIsMarked
<1> DEFINE A == \A k \in Keys :
                  meta[k].st = "live" /\ ~(meta'[k].st = "live" /\ meta'[k].ver = meta[k].ver)
                    => meta'[k].st = "dead" /\ <<k, meta[k].ver>> \in marks'
<1>1. ASSUME IndInv, [Next]_vars
      PROVE  [A]_vars
  <2>1. CASE UNCHANGED db
    BY <2>1 DEF db
  <2>2. ASSUME NEW c \in Clients, Commit(c) \/ RestoreReplace(c)
        PROVE  A
    <3>1. client[c].pc \in {"staged", "replace"} /\ Write(client[c].batch)
      BY <2>2 DEF Commit, RestoreReplace
    <3>2. client[c].key \in Keys /\ client[c].batch \in Batch /\ TypeOK
      BY <1>1, ClientFacts DEF IndInv
    <3>3. BatchOK(client[c].key, client[c].batch, meta[client[c].key], items, marks)
      BY <1>1, <3>1 DEF IndInv, ClientInv
    <3> QED
      BY <3>1, <3>2, <3>3, WriteMarks
  <2>3. CASE BgCommit
    <3>1. bg.delmeta => meta[bg.dk[1]].st = "dead"
      BY <1>1, <2>3 DEF IndInv, BgInv, BgCommit
    <3>2. bg.dk[1] \in Keys
      BY <1>1, BgFacts DEF IndInv
    <3>3. Write(BgBatch)
      BY <2>3 DEF BgCommit
    <3>4. \A k \in Keys : BgBatch.meta[k] = IF k = bg.dk[1] /\ bg.delmeta THEN Absent ELSE NoPut
      BY DEF BgBatch, OneKey
    <3>5. \A k \in Keys : meta'[k] = NewMeta(BgBatch, k, meta[k])
      BY <3>3 DEF Write
    <3>6. \A k \in Keys : meta[k].st = "live" => meta'[k] = meta[k]
      BY <3>1, <3>4, <3>5 DEF NewMeta
    <3> QED
      BY <3>6
  <2>4. ASSUME NEW c \in Clients, ClientCommand(c)
        PROVE  UNCHANGED db
    <3>1. Starts(c)
      BY <1>1, <2>4, CommandStarts, IndInvParts
    <3> QED
      BY <3>1 DEF Starts, Begin
  <2>5. ASSUME NEW c \in Clients, ClientStep(c)
        PROVE  UNCHANGED db \/ Commit(c) \/ RestoreReplace(c)
    BY <2>5 DEF ClientStep, CommitFails, RestoreLoad, RestoreRefused, DumpSnapshot
  <2>6. ASSUME BgStep
        PROVE  UNCHANGED db \/ BgCommit
    BY <2>6 DEF BgStep, BgWrite, BgLoad, BgPop, BgLock, BgCommitFails
  <2>7. Restart \/ UNCHANGED vars => UNCHANGED db
    BY DEF Restart, vars, db
  <2>8. Deleters = {} /\ Setters = {}
    BY DEF Benign
  <2> QED
    BY <1>1, <2>1, <2>2, <2>3, <2>4, <2>5, <2>6, <2>7, <2>8 DEF Next, Up
<1> QED
  BY <1>1, KeysSound, PTL DEF Spec, DeathIsMarked
=============================================================================
