------------------------------ MODULE KeyStore ------------------------------
(***************************************************************************)
(* The life of a key in the storage engine (SSDBImpl).                     *)
(*                                                                         *)
(* RocksDB holds, for every user key, one META record, the ITEM records of *)
(* the collection the key names, and DELETE marks.  A key is deleted in    *)
(* O(1): its META record is flagged dead and a DELETE mark (key, version)  *)
(* is written; a background thread later reaps the items of the marked     *)
(* version.  A dead key that is written again comes back under the next    *)
(* version, so that the reaper and the new incarnation never touch the     *)
(* same items.  This module models the commands that create, change and    *)
(* delete keys, the reaper, write errors and crashes.                      *)
(*                                                                         *)
(* A command that locks its key is two steps: it takes the key's lock,     *)
(* reads, and builds its WriteBatch; then it writes the batch and releases *)
(* the lock.  DEL and MSET, which do not hold the locks, are longer.       *)
(* Values are left out: no decision of these commands depends on them.     *)
(***************************************************************************)
EXTENDS Integers, FiniteSets

CONSTANTS
    Keys,           \* user keys
    Fields,         \* hash fields and set members
    Clients,        \* connections running commands that lock their key
    Deleters,       \* connections running DEL
    Setters,        \* connections running MSET
    MaxVersion,     \* UINT16_MAX in the code
    LoadLimit,      \* marks the reaper loads at once, 1000 in the code
    DupArgs,        \* members that an SREM may name twice
    VersionWraps,   \* whether a key may be re-created past MaxVersion
    BgWriteErrors,  \* whether a write of the reaper may fail
    ReadErrors      \* whether a read of ITEM records may fail

ASSUME ConstantsAssumption ==
    /\ Keys # {}
    /\ IsFiniteSet(Fields)
    /\ MaxVersion \in Nat
    /\ LoadLimit \in Nat \ {0}
    /\ DupArgs \subseteq Fields
    /\ VersionWraps \in BOOLEAN
    /\ BgWriteErrors \in BOOLEAN
    /\ ReadErrors \in BOOLEAN

VARIABLES
    meta,       \* META records, by key
    items,      \* ITEM records: <<key, version, field>>
    marks,      \* DELETE marks: <<key, version>>
    lock,       \* is the mutex of the key locked
    client,     \* the command each client runs
    bulk,       \* the command each deleter or setter runs
    tasks,      \* the reaper's queue (tasks_), as the set of its marks
    bg          \* the reaper thread

db == <<meta, items, marks>>
vars == <<meta, items, marks, lock, client, bulk, tasks, bg>>

----------------------------------------------------------------------------
(* Records *)

Versions == 0..MaxVersion
Types == {"kv", "hash", "set"}
Items == Keys \X Versions \X Fields
Marks == Keys \X Versions

\* A META record: absent, enabled (live) or flagged KEY_DELETE_MASK (dead).
MetaVal == [st : {"absent", "live", "dead"}, type : Types, ver : Versions, len : Nat]

Absent == [st |-> "absent", type |-> "kv", ver |-> 0, len |-> 0]

Live(t, v, n) == [st |-> "live", type |-> t, ver |-> v, len |-> n]

Dead(m) == [m EXCEPT !.st = "dead"]

\* A batch leaves the META record of a key alone.
NoPut == [st |-> "noput", type |-> "kv", ver |-> 0, len |-> 0]

\* A WriteBatch: META records put (or deleted), items put and deleted, DELETE
\* marks put and deleted.  RocksDB applies it atomically.
Batch == [meta : [Keys -> MetaVal \cup {NoPut}],
          put : SUBSET Items, del : SUBSET Items,
          mark : SUBSET Marks, unmark : SUBSET Marks]

EmptyBatch == [meta |-> [k \in Keys |-> NoPut], put |-> {}, del |-> {},
               mark |-> {}, unmark |-> {}]

\* A batch about one key.
OneKey(k, m, put, del, mark, unmark) ==
    [meta |-> [j \in Keys |-> IF j = k THEN m ELSE NoPut], put |-> put, del |-> del,
     mark |-> mark, unmark |-> unmark]

\* What a batch makes of a META record m, of items and of marks.
NewMeta(b, k, m) == IF b.meta[k] = NoPut THEN m ELSE b.meta[k]
NewItems(b, its) == (its \ b.del) \cup b.put
NewMarks(b, mks) == (mks \ b.unmark) \cup b.mark

Write(b) ==
    /\ meta' = [k \in Keys |-> NewMeta(b, k, meta[k])]
    /\ items' = NewItems(b, items)
    /\ marks' = NewMarks(b, marks)

\* The fields of a set of ITEM records found under a key and a version.
FieldsAt(its, k, v) == {f \in Fields : <<k, v, f>> \in its}

ItemsAt(k, v, fs) == {<<k, v, f>> : f \in fs}

----------------------------------------------------------------------------
(* What a command learns from a key's META record: ret is 1 for a live key, *)
(* 0 for a missing one and -1 for a wrong type.                             *)

\* Faulty NextVersion: versions do not wrap.
NextVersionNoWrap(v) == v + 1

NextVersion(v) == IF v = MaxVersion THEN 0 ELSE v + 1

\* The version bound: without VersionWraps no command re-creates a key whose
\* dead record has the last version.
Reusable(k) == VersionWraps \/ meta[k].st # "dead" \/ meta[k].ver < MaxVersion

\* GetHashMetaVal; GetSetMetaVal and GetKvMetaVal expect another type.
GetMetaVal(k, t) ==
    LET m == meta[k] IN
    CASE m.st = "absent" -> [ret |-> 0, ver |-> 0, len |-> 0]
      [] m.st = "dead" -> [ret |-> 0, ver |-> NextVersion(m.ver), len |-> 0]
      [] m.st = "live" /\ m.type # t -> [ret |-> -1, ver |-> m.ver, len |-> m.len]
      [] OTHER -> [ret |-> 1, ver |-> m.ver, len |-> m.len]

GetSetMetaVal(k) == GetMetaVal(k, "set")

GetKvMetaVal(k) == GetMetaVal(k, "kv")

----------------------------------------------------------------------------
(* Batches the commands build *)

\* Faulty MarkKeyDeleted: no mark is left.
MarkKeyDeletedNoMark(k) == OneKey(k, Dead(meta[k]), {}, {}, {}, {})

\* mark_key_deleted of a live META record.
MarkKeyDeleted(k) == OneKey(k, Dead(meta[k]), {}, {}, {<<k, meta[k].ver>>}, {})

\* incr_hsize / incr_ssize: is the new length acceptable?
LenOK(mv, incr) == mv.len + incr >= 0

\* Faulty IncrSize: an emptied key leaves no mark.
IncrSizeNoMark(k, t, mv, incr, put, del) ==
    OneKey(k, CASE incr = 0 -> NoPut
                [] incr # 0 /\ mv.len + incr = 0 -> Dead(Live(t, mv.ver, mv.len))
                [] OTHER -> Live(t, mv.ver, mv.len + incr),
           ItemsAt(k, mv.ver, put), ItemsAt(k, mv.ver, del), {}, {})

\* incr_hsize, and incr_ssize for a set: the META record, and the DELETE mark when the last
\* item goes, added to a batch that puts and deletes items of the version mv.ver.
\* A key that becomes empty keeps its old length in the dead record.
IncrSize(k, t, mv, incr, put, del) ==
    OneKey(k, CASE incr = 0 -> NoPut
                [] incr # 0 /\ mv.len + incr = 0 -> Dead(Live(t, mv.ver, mv.len))
                [] OTHER -> Live(t, mv.ver, mv.len + incr),
           ItemsAt(k, mv.ver, put), ItemsAt(k, mv.ver, del),
           IF incr # 0 /\ mv.len + incr = 0 THEN {<<k, mv.ver>>} ELSE {}, {})

IncrSsize(k, mv, incr, put, del) == IncrSize(k, "set", mv, incr, put, del)

\* SetGeneric, updateKvCommon and quickKv write a string's META record, which
\* holds the value itself.
PutKv(k, mv) == OneKey(k, Live("kv", mv.ver, 0), {}, {}, {}, {})

----------------------------------------------------------------------------
(* Commands that hold the key's lock (RecordKeyLock) from the read to the   *)
(* write.  A command that finds nothing to do, or an error, returns with    *)
(* the database untouched and takes no step here.  The exception is HSET,   *)
(* which goes on after an error.                                            *)

IdleClient == [pc |-> "idle", key |-> CHOOSE k \in Keys : TRUE, seen |-> Absent,
               batch |-> EmptyBatch]

Begin(c, k, pc, m, b) ==
    /\ client[c].pc = "idle"
    /\ ~lock[k]
    /\ lock' = [lock EXCEPT ![k] = TRUE]
    /\ client' = [client EXCEPT ![c] = [pc |-> pc, key |-> k, seen |-> m, batch |-> b]]
    /\ UNCHANGED <<db, bulk, tasks, bg>>

Stage(c, k, b) == Reusable(k) /\ Begin(c, k, "staged", Absent, b)

Finish(c) ==
    /\ lock' = [lock EXCEPT ![client[c].key] = FALSE]
    /\ client' = [client EXCEPT ![c] = IdleClient]

STORAGE_ERR == -2

\* hset_one: what is added to the length, or the error of a failed read.  HSETNX
\* has looked the field up before.
HsetOne(there, nx) ==
    {IF ~nx /\ there THEN 0 ELSE 1} \cup (IF ReadErrors /\ ~nx THEN {STORAGE_ERR} ELSE {})

\* HSET (nx FALSE) and HSETNX (nx TRUE).  The test for an error compares the
\* pointer added, so that an error is added to the length like a number.
HsetCommon(c, k, f, nx) ==
    LET mv == GetMetaVal(k, "hash")
        there == f \in FieldsAt(items, k, mv.ver)
    IN /\ mv.ret >= 0
       /\ ~(nx /\ mv.ret = 1 /\ there)
       /\ \E added \in HsetOne(there, nx) :
            /\ LenOK(mv, added)
            /\ Stage(c, k, IncrSize(k, "hash", mv, added,
                                   IF added = STORAGE_ERR THEN {} ELSE {f}, {}))

\* HMSET
HmsetNoLock(c, k, fs) ==
    LET mv == GetMetaVal(k, "hash")
        new == fs \ FieldsAt(items, k, mv.ver)
    IN /\ mv.ret >= 0
       /\ Stage(c, k, IncrSize(k, "hash", mv, Cardinality(new), fs, {}))

\* HDEL takes a set of fields.
Hdel(c, k, fs) ==
    LET mv == GetMetaVal(k, "hash")
        old == fs \cap FieldsAt(items, k, mv.ver)
    IN /\ mv.ret = 1
       /\ LenOK(mv, -Cardinality(old))
       /\ Stage(c, k, IncrSize(k, "hash", mv, -Cardinality(old), {}, old))

\* The field is read only when the key is live.
HincrCommon(c, k, f) ==
    LET mv == GetMetaVal(k, "hash")
        there == mv.ret = 1 /\ f \in FieldsAt(items, k, mv.ver)
    IN /\ mv.ret >= 0
       /\ Stage(c, k, IncrSize(k, "hash", mv, IF there THEN 0 ELSE 1, {f}, {}))

Hincr(c, k, f) == HincrCommon(c, k, f)
Hincrbyfloat(c, k, f) == HincrCommon(c, k, f)

\* SADD: members are looked up only when the key is live.
SaddNoLock(c, k, ms) ==
    LET mv == GetSetMetaVal(k)
        new == IF mv.ret = 0 THEN ms ELSE ms \ FieldsAt(items, k, mv.ver)
    IN /\ mv.ret >= 0
       /\ Stage(c, k, IncrSsize(k, mv, Cardinality(new), new, {}))

\* Faulty Srem: the length is not lowered.
SremKeepsLen(c, k, ms, twice) ==
    LET mv == GetSetMetaVal(k)
        old == ms \cap FieldsAt(items, k, mv.ver)
    IN /\ mv.ret = 1
       /\ Stage(c, k, IncrSsize(k, mv, 0, {}, old))

\* SREM reads its arguments one by one and counts a member every time it is
\* named: twice holds the members that are named a second time.
Srem(c, k, ms, twice) ==
    LET mv == GetSetMetaVal(k)
        old == ms \cap FieldsAt(items, k, mv.ver)
        num == Cardinality(old) + Cardinality(twice \cap old)
    IN /\ mv.ret = 1
       /\ LenOK(mv, -num)
       /\ Stage(c, k, IncrSsize(k, mv, -num, {}, old))

\* SPOP with a count: the members are a random choice.
Spop(c, k, ms) ==
    LET mv == GetSetMetaVal(k) IN
    /\ mv.ret = 1 /\ mv.len # 0
    /\ ms \subseteq FieldsAt(items, k, mv.ver)
    /\ Cardinality(ms) <= mv.len
    /\ Stage(c, k, IncrSsize(k, mv, -Cardinality(ms), {}, ms))

\* SET; with NX or XX it writes nothing when the key exists, or does not.
SetGeneric(c, k, flag) ==
    LET mv == GetKvMetaVal(k) IN
    /\ mv.ret >= 0
    /\ ~(flag = "XX" /\ mv.ret = 0) /\ ~(flag = "NX" /\ mv.ret = 1)
    /\ Stage(c, k, PutKv(k, mv))

\* The commands that compute a string from the old one, or from nothing.
UpdateKvCommon(c, k) ==
    LET mv == GetKvMetaVal(k) IN
    /\ mv.ret >= 0
    /\ Stage(c, k, PutKv(k, mv))

Incr(c, k) == UpdateKvCommon(c, k)
Incrbyfloat(c, k) == UpdateKvCommon(c, k)
Append(c, k) == UpdateKvCommon(c, k)
Setbit(c, k) == UpdateKvCommon(c, k)

\* GETSET and SETRANGE have code of their own that does the same to the key; an
\* empty SETRANGE of a missing key does nothing.
Getset(c, k) == UpdateKvCommon(c, k)

Setrange(c, k, empty) ==
    /\ ~(empty /\ GetKvMetaVal(k).ret = 0)
    /\ UpdateKvCommon(c, k)

StringCommand(c, k) ==
    \/ Incr(c, k) \/ Incrbyfloat(c, k) \/ Append(c, k) \/ Setbit(c, k) \/ Getset(c, k)
    \/ \E empty \in BOOLEAN : Setrange(c, k, empty)

\* EXPIRE with a time that has passed deletes the key, under its lock.
ExpireAtPast(c, k) ==
    /\ meta[k].st = "live"
    /\ Begin(c, k, "staged", Absent, MarkKeyDeleted(k))

\* CommitBatch succeeds.
Commit(c) ==
    /\ client[c].pc = "staged"
    /\ Write(client[c].batch)
    /\ Finish(c)
    /\ UNCHANGED <<bulk, tasks, bg>>

\* CommitBatch fails: the command answers STORAGE_ERR.
CommitFails(c) ==
    /\ client[c].pc \in {"staged", "replace"}
    /\ Finish(c)
    /\ UNCHANGED <<db, bulk, tasks, bg>>

----------------------------------------------------------------------------
(* RESTORE: a live key is first deleted (REPLACE), with a write of its own; *)
(* only then is the payload verified and loaded.                            *)

Restore(c, k) ==
    IF meta[k].st = "live"
    THEN Begin(c, k, "replace", Dead(meta[k]), MarkKeyDeleted(k))
    ELSE Begin(c, k, "load", meta[k], EmptyBatch)

RestoreReplace(c) ==
    /\ client[c].pc = "replace"
    /\ Write(client[c].batch)
    /\ client' = [client EXCEPT ![c].pc = "load", ![c].batch = EmptyBatch]
    /\ UNCHANGED <<lock, bulk, tasks, bg>>

\* The version quickKv, quickHash and quickSet load the payload under.
QuickVersion(m) == IF m.st = "dead" THEN NextVersion(m.ver) ELSE 0

\* The batches they write; the payload has no duplicates.
QuickKv(k, mv) == PutKv(k, mv)
QuickHash(k, mv, fs) == IncrSize(k, "hash", mv, Cardinality(fs), fs, {})
QuickSet(k, mv, fs) == IncrSsize(k, mv, Cardinality(fs), fs, {})

Quick(k, t, mv, fs) ==
    CASE t = "kv" -> QuickKv(k, mv)
      [] t = "hash" -> QuickHash(k, mv, fs)
      [] t = "set" -> QuickSet(k, mv, fs)

RestoreLoad(c, t, fs) ==
    LET k == client[c].key
        mv == [ret |-> 0, ver |-> QuickVersion(client[c].seen), len |-> 0]
    IN /\ client[c].pc = "load"
       /\ Reusable(k)
       /\ (t = "kv") = (fs = {})
       /\ client' = [client EXCEPT ![c].pc = "staged", ![c].seen = Absent,
                                   ![c].batch = Quick(k, t, mv, fs)]
       /\ UNCHANGED <<db, lock, bulk, tasks, bg>>

\* verifyDumpPayload or a decoder fails, or the payload is empty.
RestoreRefused(c) ==
    /\ client[c].pc = "load"
    /\ Finish(c)
    /\ UNCHANGED <<db, bulk, tasks, bg>>

----------------------------------------------------------------------------
(* DUMP, and HGETALL and SMEMBERS alike: the META record is read and a      *)
(* snapshot taken under the lock; the items are then read in the snapshot.  *)

\* Faulty DumpMeta: the lock is not taken.
DumpMetaNoLock(c, k) ==
    /\ client[c].pc = "idle"
    /\ meta[k].st = "live"
    /\ meta[k].type # "kv"
    /\ client' = [client EXCEPT ![c] = [pc |-> "dump", key |-> k, seen |-> meta[k],
                                        batch |-> EmptyBatch]]
    /\ UNCHANGED <<db, lock, bulk, tasks, bg>>

DumpMeta(c, k) ==
    /\ meta[k].st = "live"
    /\ meta[k].type # "kv"
    /\ Begin(c, k, "dump", meta[k], EmptyBatch)

Hgetall(c, k) == meta[k].type = "hash" /\ DumpMeta(c, k)

Smembers(c, k) == meta[k].type = "set" /\ DumpMeta(c, k)

ReadCollection(c, k) == DumpMeta(c, k) \/ Hgetall(c, k) \/ Smembers(c, k)

DumpSnapshot(c) ==
    /\ client[c].pc = "dump"
    /\ Finish(c)
    /\ UNCHANGED <<db, bulk, tasks, bg>>

----------------------------------------------------------------------------
(* DEL and MSET *)

IdleBulk == [pc |-> "idle", todo |-> {}, keys |-> {}, batch |-> EmptyBatch]

BeginBulk(p, pc, ks) ==
    /\ bulk[p].pc = "idle"
    /\ bulk' = [bulk EXCEPT ![p] = [pc |-> pc, todo |-> ks, keys |-> ks,
                                    batch |-> EmptyBatch]]
    /\ UNCHANGED <<db, lock, client, tasks, bg>>

\* multi_del: constructing RecordLocks locks nothing.
MultiDel(d, ks) == BeginBulk(d, "mdel", ks)

\* What a batch about one key adds to a larger one.
AddTo(b, k, one) == [b EXCEPT !.meta[k] = one.meta[k], !.mark = b.mark \cup one.mark]

\* del_key_internal of one key, added to the batch.
MultiDelKey(d, k) ==
    LET s == bulk[d] IN
    /\ s.pc = "mdel"
    /\ k \in s.todo
    /\ bulk' = [bulk EXCEPT
                  ![d].todo = s.todo \ {k},
                  ![d].batch = IF meta[k].st # "live" THEN s.batch
                               ELSE AddTo(s.batch, k, MarkKeyDeleted(k))]
    /\ UNCHANGED <<db, lock, client, tasks, bg>>

\* Written or refused, the locks are then released by the destructor.
MultiDelCommit(d) ==
    /\ bulk[d].pc = "mdel" /\ bulk[d].todo = {}
    /\ Write(bulk[d].batch) \/ UNCHANGED db
    /\ bulk' = [bulk EXCEPT ![d].pc = "munlock", ![d].batch = EmptyBatch,
                            ![d].todo = bulk[d].keys]
    /\ UNCHANGED <<lock, client, tasks, bg>>

\* ~RecordLocks unlocks every key, whoever locked it.
MultiDelUnlock(d, k) ==
    /\ bulk[d].pc = "munlock"
    /\ k \in bulk[d].todo
    /\ lock' = [lock EXCEPT ![k] = FALSE]
    /\ bulk' = [bulk EXCEPT ![d] = IF bulk[d].todo = {k} THEN IdleBulk
                                   ELSE [bulk[d] EXCEPT !.todo = bulk[d].todo \ {k}]]
    /\ UNCHANGED <<db, client, tasks, bg>>

MultiSet(s, ks) == BeginBulk(s, "mset", ks)

\* The key's lock is held only while SetGeneric reads the META record.  A key
\* of another type ends the command.
MultiSetKey(s, k) ==
    LET mv == GetKvMetaVal(k) IN
    /\ bulk[s].pc = "mset"
    /\ k \in bulk[s].todo
    /\ ~lock[k]
    /\ Reusable(k)
    /\ bulk' = [bulk EXCEPT
                  ![s] = IF mv.ret < 0 THEN IdleBulk
                         ELSE [bulk[s] EXCEPT
                                 !.todo = bulk[s].todo \ {k},
                                 !.batch = AddTo(bulk[s].batch, k, PutKv(k, mv))]]
    /\ UNCHANGED <<db, lock, client, tasks, bg>>

MultiSetCommit(s) ==
    /\ bulk[s].pc = "mset" /\ bulk[s].todo = {}
    /\ Write(bulk[s].batch) \/ UNCHANGED db
    /\ bulk' = [bulk EXCEPT ![s] = IdleBulk]
    /\ UNCHANGED <<lock, client, tasks, bg>>

----------------------------------------------------------------------------
(* The background thread that reaps deleted keys (runBGTask)                *)

IdleBg == [pc |-> "idle", dk |-> CHOOSE d \in Marks : TRUE, scan |-> {}, delmeta |-> FALSE]

\* The marks of a key are stored, loaded and popped in the order of versions.
SmallerMarks(S, d) == {e \in S : e[1] = d[1] /\ e[2] < d[2]}

\* load_delete_keys_from_db, when the queue is empty: the first LoadLimit marks.
BgLoad ==
    /\ bg.pc = "idle" /\ tasks = {} /\ marks # {}
    /\ \E S \in SUBSET marks :
         /\ Cardinality(S) = LoadLimit \/ (S = marks /\ Cardinality(S) <= LoadLimit)
         /\ \A d \in S : SmallerMarks(marks, d) \subseteq S
         /\ tasks' = S
    /\ UNCHANGED <<db, lock, client, bulk, bg>>

\* What the iterators find of a version: one that fails ends like one that is
\* at its end.
Scans(d) ==
    LET its == {i \in items : i[1] = d[1] /\ i[2] = d[2]}
    IN  IF ReadErrors THEN SUBSET its ELSE {its}

\* The front of the queue is popped and its items are scanned, without a lock.
BgPop ==
    /\ bg.pc = "idle"
    /\ \E d \in tasks : \E scan \in Scans(d) :
         /\ SmallerMarks(tasks, d) = {}
         /\ tasks' = tasks \ {d}
         /\ bg' = [pc |-> "scanned", dk |-> d, delmeta |-> FALSE, scan |-> scan]
    /\ UNCHANGED <<db, lock, client, bulk>>

\* Faulty BgLock: any dead META record is deleted.
BgLockAnyVersion ==
    LET k == bg.dk[1] IN
    /\ bg.pc = "scanned"
    /\ ~lock[k]
    /\ lock' = [lock EXCEPT ![k] = TRUE]
    /\ bg' = [bg EXCEPT !.pc = "locked", !.delmeta = (meta[k].st = "dead")]
    /\ UNCHANGED <<db, client, bulk, tasks>>

\* delete_meta_key: the dead META record goes with the version it belongs to.
BgLock ==
    LET k == bg.dk[1] IN
    /\ bg.pc = "scanned"
    /\ ~lock[k]
    /\ lock' = [lock EXCEPT ![k] = TRUE]
    /\ bg' = [bg EXCEPT !.pc = "locked",
                        !.delmeta = meta[k].st = "dead" /\ meta[k].ver = bg.dk[2]]
    /\ UNCHANGED <<db, client, bulk, tasks>>

\* Faulty BgBatch: the mark stays.
BgBatchKeepsMark ==
    OneKey(bg.dk[1], IF bg.delmeta THEN Absent ELSE NoPut, {}, bg.scan, {}, {})

\* The batch of delete_key_loop.
BgBatch ==
    OneKey(bg.dk[1], IF bg.delmeta THEN Absent ELSE NoPut, {}, bg.scan, {}, {bg.dk})

\* Faulty BgDone: the lock is kept.
BgDoneKeepsLock ==
    /\ bg' = IdleBg
    /\ UNCHANGED <<lock, client, bulk, tasks>>

BgDone ==
    /\ bg' = IdleBg
    /\ lock' = [lock EXCEPT ![bg.dk[1]] = FALSE]
    /\ UNCHANGED <<client, bulk, tasks>>

BgCommit == bg.pc = "locked" /\ Write(BgBatch) /\ BgDone

\* The write fails: the mark stays in the database for a later load.
BgCommitFails == bg.pc = "locked" /\ BgWriteErrors /\ UNCHANGED db /\ BgDone

\* The end of the loop, whatever becomes of the write.
BgWrite == bg.pc = "locked" /\ (BgCommit \/ BgCommitFails)

----------------------------------------------------------------------------
(* A crash or a restart loses what is not in RocksDB.                       *)

Restart ==
    /\ lock' = [k \in Keys |-> FALSE]
    /\ client' = [c \in Clients |-> IdleClient]
    /\ bulk' = [p \in Deleters \cup Setters |-> IdleBulk]
    /\ tasks' = {}
    /\ bg' = IdleBg
    /\ UNCHANGED db

\* flushdb holds the global lock, so that no key is locked; it empties the
\* database but not the reaper's queue.
FlushDb ==
    /\ \A k \in Keys : ~lock[k]
    /\ meta' = [k \in Keys |-> Absent]
    /\ items' = {}
    /\ marks' = {}
    /\ UNCHANGED <<lock, client, bulk, tasks, bg>>

----------------------------------------------------------------------------

Init ==
    /\ meta = [k \in Keys |-> Absent]
    /\ items = {}
    /\ marks = {}
    /\ lock = [k \in Keys |-> FALSE]
    /\ client = [c \in Clients |-> IdleClient]
    /\ bulk = [p \in Deleters \cup Setters |-> IdleBulk]
    /\ tasks = {}
    /\ bg = IdleBg

KeyCommand(c, k) ==
    \/ \E f \in Fields, nx \in BOOLEAN : HsetCommon(c, k, f, nx)
    \/ \E f \in Fields : Hincr(c, k, f) \/ Hincrbyfloat(c, k, f)
    \/ \E fs \in (SUBSET Fields) \ {{}} : HmsetNoLock(c, k, fs)
    \/ \E fs \in (SUBSET Fields) \ {{}} : Hdel(c, k, fs)
    \/ \E ms \in (SUBSET Fields) \ {{}} : SaddNoLock(c, k, ms)
    \/ \E ms \in (SUBSET Fields) \ {{}} : \E twice \in SUBSET (DupArgs \cap ms) :
          Srem(c, k, ms, twice)
    \/ \E ms \in (SUBSET Fields) \ {{}} : Spop(c, k, ms)
    \/ \E flag \in {"none", "NX", "XX"} : SetGeneric(c, k, flag)
    \/ StringCommand(c, k)
    \/ ExpireAtPast(c, k)
    \/ Restore(c, k)
    \/ ReadCollection(c, k)

ClientCommand(c) == \E k \in Keys : KeyCommand(c, k)

ClientStep(c) ==
    \/ Commit(c)
    \/ CommitFails(c)
    \/ RestoreReplace(c)
    \/ \E t \in Types, fs \in SUBSET Fields : RestoreLoad(c, t, fs)
    \/ RestoreRefused(c)
    \/ DumpSnapshot(c)

DeleterStep(d) ==
    \/ \E ks \in (SUBSET Keys) \ {{}} : MultiDel(d, ks)
    \/ \E k \in Keys : MultiDelKey(d, k)
    \/ MultiDelCommit(d)
    \/ \E k \in Keys : MultiDelUnlock(d, k)

SetterStep(s) ==
    \/ \E ks \in (SUBSET Keys) \ {{}} : MultiSet(s, ks)
    \/ \E k \in Keys : MultiSetKey(s, k)
    \/ MultiSetCommit(s)

BgStep == BgLoad \/ BgPop \/ BgLock \/ BgWrite

\* The server while it stays up.
Up ==
    \/ \E c \in Clients : ClientCommand(c) \/ ClientStep(c)
    \/ \E d \in Deleters : DeleterStep(d)
    \/ \E s \in Setters : SetterStep(s)
    \/ BgStep

Next == Up \/ Restart

Spec == Init /\ [][Next]_vars

\* The same system with FLUSHDB.
NextFlush == Next \/ FlushDb

SpecFlush == Init /\ [][NextFlush]_vars

\* Threads that can run are scheduled; a key mutex that is released again and
\* again is granted in the end; a write that is retried for ever succeeds.
Fairness ==
    /\ \A c \in Clients : WF_vars(ClientStep(c))
    /\ WF_vars(BgLoad) /\ WF_vars(BgPop) /\ WF_vars(BgWrite)
    /\ \A d \in Marks : SF_vars(BgLock /\ bg.dk = d) /\ SF_vars(BgCommit /\ bg.dk = d)

FairSpec == Init /\ [][Up]_vars /\ Fairness

----------------------------------------------------------------------------
(* Properties *)

ClientState == [pc : {"idle", "staged", "replace", "load", "dump"}, key : Keys,
                seen : MetaVal, batch : Batch]
BulkState == [pc : {"idle", "mdel", "munlock", "mset"}, todo : SUBSET Keys,
              keys : SUBSET Keys, batch : Batch]
BgState == [pc : {"idle", "scanned", "locked"}, dk : Marks, scan : SUBSET Items,
            delmeta : BOOLEAN]

\* Every record, batch and queue stays within its type; in particular versions
\* fit the uint16_t of the META record and lengths never go below zero.
TypeOK ==
    /\ meta \in [Keys -> MetaVal]
    /\ items \subseteq Items
    /\ marks \subseteq Marks
    /\ lock \in [Keys -> BOOLEAN]
    /\ client \in [Clients -> ClientState]
    /\ bulk \in [Deleters \cup Setters -> BulkState]
    /\ tasks \subseteq Marks
    /\ bg \in BgState

\* The length in a live META record is the number of items stored under the
\* key's version (no items for a string), and a live collection is not empty:
\* HLEN, SCARD and the choice between live and dead rest on it.
LenOf(m, its, k) == Cardinality(FieldsAt(its, k, m.ver))

LengthMatches ==
    \A k \in Keys : meta[k].st = "live" =>
        /\ LenOf(meta[k], items, k) = meta[k].len
        /\ (meta[k].type = "kv") = (meta[k].len = 0)

\* What rdbSaveObject asserts ("metakey length dismatch"): the items DUMP can
\* see in its snapshot are as many as the META record it read says.
DumpMatches ==
    \A c \in Clients : client[c].pc = "dump" =>
        LenOf(client[c].seen, items, client[c].key) = client[c].seen.len

\* No item leaks: an item belongs to its key's current incarnation or to a
\* version that is marked for the reaper.
NoOrphanItems ==
    \A i \in items :
        \/ meta[i[1]].st = "live" /\ meta[i[1]].ver = i[2]
        \/ <<i[1], i[2]>> \in marks

\* The reaper has no business with the current incarnation of a key: its
\* version is never marked for deletion, queued, or being reaped.
LiveNotMarked ==
    \A k \in Keys : meta[k].st = "live" =>
        /\ <<k, meta[k].ver>> \notin marks \cup tasks
        /\ bg.pc # "idle" => bg.dk # <<k, meta[k].ver>>

\* A step that ends a key's incarnation leaves a mark for its items: the META
\* record never just disappears or moves to another version.
DeathIsMarked ==
    [][\A k \in Keys :
          meta[k].st = "live" /\ ~(meta'[k].st = "live" /\ meta'[k].ver = meta[k].ver)
            => meta'[k].st = "dead" /\ <<k, meta[k].ver>> \in marks']_vars

\* Every deleted version is reaped in the end, whatever DEL and MSET do to the
\* locks, and although a failed write drops the task from the queue.
MarksReaped == \A d \in Marks : d \in marks ~> d \notin marks

----------------------------------------------------------------------------
(* Why the properties hold while no DEL, no MSET, no repeated SREM argument, *)
(* no wrapping version, no failed write of the reaper and no failed read     *)
(* interferes: the inductive invariant of the theorems of KeyStoreProofs.    *)

Benign ==
    /\ Deleters = {} /\ Setters = {}
    /\ DupArgs = {}
    /\ ~VersionWraps /\ ~BgWriteErrors /\ ~ReadErrors

\* A key is sound: its length is right, its items are live or marked, its marks
\* are older than its current incarnation, and a dead record is marked.
KeyOK(k, m, its, mks) ==
    /\ m.st = "live" => /\ Cardinality(FieldsAt(its, k, m.ver)) = m.len
                        /\ (m.type = "kv") = (m.len = 0)
    /\ \A v \in Versions : FieldsAt(its, k, v) # {} =>
          (m.st = "live" /\ v = m.ver) \/ <<k, v>> \in mks
    /\ \A v \in Versions : <<k, v>> \in mks =>
          (m.st # "absent" /\ v < m.ver) \/ (m.st = "dead" /\ v = m.ver)
    /\ m.st = "dead" => <<k, m.ver>> \in mks

\* A batch changes one key, leaves it sound, touches no marked version, adds at
\* most the mark of the key's current incarnation, and ends it only with a mark.
BatchOK(k, b, m, its, mks) ==
    /\ \A j \in Keys \ {k} : b.meta[j] = NoPut
    /\ \A i \in b.put \cup b.del : i[1] = k /\ <<k, i[2]>> \notin mks
    /\ b.mark # {} => m.st = "live" /\ b.mark = {<<k, m.ver>>}
    /\ b.unmark = {}
    /\ m.st = "live" => \/ NewMeta(b, k, m).st = "live" /\ NewMeta(b, k, m).ver = m.ver
                        \/ NewMeta(b, k, m).st = "dead" /\ <<k, m.ver>> \in b.mark
    /\ KeyOK(k, NewMeta(b, k, m), NewItems(b, its), NewMarks(b, mks))

\* At most one process works on a key, and its lock is taken meanwhile.
LockInv ==
    /\ \A c \in Clients : client[c].pc # "idle" => lock[client[c].key]
    /\ \A c, e \in Clients :
          c # e /\ client[c].pc # "idle" /\ client[e].pc # "idle"
            => client[c].key # client[e].key
    /\ bg.pc = "locked" =>
          /\ lock[bg.dk[1]]
          /\ \A c \in Clients : client[c].pc # "idle" => client[c].key # bg.dk[1]

\* What a command has read or staged is still right when it is used.
ClientInv ==
    \A c \in Clients :
        LET s == client[c] IN
        /\ s.pc \in {"staged", "replace"} => BatchOK(s.key, s.batch, meta[s.key], items, marks)
        /\ s.pc = "replace" => s.seen = s.batch.meta[s.key] /\ s.seen.st = "dead"
        /\ s.pc = "load" => s.seen = meta[s.key] /\ s.seen.st # "live"
        /\ s.pc = "dump" => s.seen = meta[s.key] /\ s.seen.st = "live"

\* The queue holds marks of the database, oldest incarnations first.
TaskInv ==
    /\ tasks \subseteq marks
    /\ \A d \in tasks :
          SmallerMarks(marks, d) \subseteq tasks \cup (IF bg.pc = "idle" THEN {} ELSE {bg.dk})

\* The reaper works on the oldest mark of its key and has scanned all its items.
BgInv ==
    /\ bg.pc # "idle" =>
          /\ bg.dk \in marks \ tasks
          /\ SmallerMarks(marks, bg.dk) = {}
          /\ bg.scan = {i \in items : i[1] = bg.dk[1] /\ i[2] = bg.dk[2]}
    /\ bg.pc = "locked" =>
          bg.delmeta = (meta[bg.dk[1]].st = "dead" /\ meta[bg.dk[1]].ver = bg.dk[2])

IndInv ==
    /\ TypeOK
    /\ \A k \in Keys : KeyOK(k, meta[k], items, marks)
    /\ LockInv
    /\ ClientInv
    /\ TaskInv
    /\ BgInv
=============================================================================
