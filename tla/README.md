# Verification of vcdb

vcdb is a server with the Redis protocol that stores its keys in RocksDB. This
directory holds TLA+ models of its storage engine and of what the commands make of it
(`src/storage`, `src/proc`, `src/codec`, parts of `src/util` of the repository), TLC
configurations that check them, and TLAPS proofs.

```
tlc -config KeyStoreSafety.cfg MCKeyStore      # any run of PROJECT.json
tlapm KeyStoreProofs.tla                       # any of the eight modules with theorems
```

## The system

| Part | State | Operations | Hard behaviour | What makes it correct |
|---|---|---|---|---|
| Key life cycle (`t_kv`, `t_hash`, `t_set`, `t_keys`) | META record per key (type, version, live or dead, length), ITEM records, DELETE marks | commands that create, change, empty and delete keys; DUMP, RESTORE | deletion is O(1) and leaves the items to a background thread; a re-created key gets the next version; DEL and MSET do not hold the locks they rely on | lengths match items; no item leaks; the reaper never meets a live incarnation |
| Reaper (`ssdb_impl.cpp`, `runBGTask`) | `tasks_` | load marks, pop, scan, lock, write | scans without a lock, competes for the key's lock, write errors, restarts | every mark is reaped, oldest first |
| Key locks (`util/thread.h`) | `records_` (key to counted `RefMutex`), `g_mutex_` | Lock, Unlock, global lock of FLUSHDB | reference taken under `mutex_`, mutex locked after it; unlock by key | one holder for each key; no mutex freed in use; FLUSHDB gets in, and alone |
| Expiration (`ttl.cpp`, `t_eset.cpp`, `sorted_set.h`) | EKEY and ESCORE records; `fast_keys`, `first_timeout` | EXPIRE, PERSIST, SET, the expire thread | memory is changed before the database, the thread loads and deletes without locks | every time to live is filed; the thread wakes up in time; due keys go, others stay |
| Lists (`t_list`, `proc_list`) | META with `left_seq`, `right_seq`; a record per element | push, pop, set, trim, ranges | sequence numbers wrap; elements are found by arithmetic | behaves as a sequence |
| Sorted sets (`t_zset`, `proc_zset`) | ITEM and ZSCORE records | add, incr, remove, ranges by rank, score and member | two records per member; ends of ranges are moved by 1e-15; ZREMRANGEBYRANK takes two locks | the two agree; behaves as a map with an order |
| Strings (`t_kv`, `proc_kv`, `strings.h`) | META with the value | set, append, ranges, bits, increments | integers and long doubles as text, limits and buffers | behaves as a string |
| Hashes and sets (`t_hash`, `t_set`, `proc_hash`, `proc_set`) | META with the length; a record per field | set, increment, remove, pop, reads | the length is kept apart from the fields | behaves as a map, or as a set |
| Cursors (`t_cursor`, `t_scan.h`, `iterator.cpp`) | cursor table in memory | SCAN family, clear | a page reads META, cursor and records at different moments; numbers are used again | a scan gets what stays, once, and ends |
| Encoding (`codec/kv`, `codec/util.h`) | none | keys and META values | byte order is scan order | order is preserved, decode inverts encode |
| RDB (`codec/rdb`) | none | DUMP, RESTORE | forms of lengths and integers that depend on their size | RESTORE loads what DUMP wrote |
| Backup (`save`), options, logging, network, `redis/` | - | - | - | not modelled |

Client commands run on worker threads; they share RocksDB, the lock table and the
expiration handler. A command takes its key's lock, reads META and items, builds a
`WriteBatch`, and writes it atomically with `CommitBatch`. The reaper and the expire
thread are two more threads; the latter deletes keys with `multi_del`, the
implementation of DEL.

## Modules

| Module | Models |
|---|---|
| `KeyStore` | META, ITEM and DELETE records, the string, hash and set commands, DUMP, RESTORE, DEL, MSET, the reaper, write errors, restarts, FLUSHDB |
| `RecordMutex` | the lock table; `KeyLock` is what it promises, and `RecordMutex` is shown to implement it |
| `Expiration` | EKEY, ESCORE, `fast_keys`, `first_timeout`, the commands that touch them, the expire thread |
| `ListSeq` | one list as records; `ListAbs` is the sequence it stands for |
| `Zset` | one sorted set as ITEM and ZSCORE records; `ZsetAbs` is the map it stands for |
| `StringKv` | one string as bytes, with its time to live; `StringAbs` is what the commands mean |
| `HashSet` | one hash or set with its values; `HashAbs` is the map it stands for |
| `Scan` | SCAN, HSCAN, SSCAN and ZSCAN in pages, the table of cursors, writers and the reaper |
| `RecordCode` | keys and META values as bytes, their decoders and their order; `Numerals` is what digits are |
| `RdbCode` | dumps as bytes, and their decoder |
| `KeyStoreProofs`, `RecordMutexProofs`, `ExpirationProofs`, `ListSeqProofs`, `ScanProofs` | theorems about the module of that name |
| `CollectionProofs` | theorems about `Zset` and `HashSet` |
| `ByteProofs` | theorems about `RecordCode`, `RdbCode` and `StringKv` |
| `RankTheorems` | lemmas they share: least and greatest elements, induction, quotients, ranks in a finite order |
| `MCKeyStore`, `MCReap`, `MCRecordMutex`, `MCExpiration`, `MCQuiet`, `MCTypes`, `MCScan` | instances for TLC |

Operators commented as faulty (`SremKeepsLen`, `BgLockAnyVersion`, ...) are definitions
with one plausible bug each; they show that the properties can fail, and no
specification uses them.

### KeyStore

`meta[k]` is the META record, `items` the ITEM records as `<<key, version, field>>`,
`marks` the DELETE records. `lock[k]` is the key's mutex: that a `RecordKeyLock` is
such a mutex is what `RecordMutex` shows. A command is a step that takes the lock,
reads and stages a batch (`HsetCommon`, `Srem`, ...), and a step that writes it and
releases the lock (`Commit`), or fails to (`CommitFails`). A command that returns
without a write takes no step; so does one that fails to read, except HSET, which takes the
error for a number (`ReadErrors`, `HsetOne`), and the reaper, whose iterator may end early (`Scans`). RESTORE has a third step, for the write of REPLACE.
DUMP, HGETALL and SMEMBERS read META and take the snapshot under the lock: while
`pc = "dump"` the two must agree. DEL (`MultiDel*`) reads key by key, writes, and
unlocks key by key without having locked; MSET (`MultiSet*`) reads each key under its
lock and writes later. The expire thread is one more user of `multi_del`, so
`Deleters` stands for it too.

The reaper's scan needs the items of one version of a key to be contiguous, and marks to sort by
key and then version; both follow from the encoding (length-prefixed key, big-endian
version), which `KeyStore` assumes and `RecordCode` checks. Values are left out. The types
are strings, hashes and sets: lists and sorted sets go through the same META life cycle and
have modules of their own.

`Reusable` bounds the versions: with `VersionWraps` FALSE a key is not re-created past
`MaxVersion`; with TRUE versions wrap like the code's `uint16_t`.

### RecordMutex

A `RefMutex` is a cell of memory that is free while its count is 0 and may be handed
out again. `PassGate` is the touch of `g_mutex_` in `Lock`, `RefRecord` the part of
`lockKeyInternal` under `mutex_`, `LockRef` the lock of the mutex after it. `Unlock`
works, as in the code, on the cell the map has for the key at that moment.
Every thread unlocks what it locked, as a `RecordLock` does. `~RecordLocks` of `multi_del`
does not; that unlock is `MultiDelUnlock` of `KeyStore` and `Expiration`.

### Expiration

A command changes `fast_keys` and `first_timeout` and stages its batch in one step
under the key's lock, and writes the batch in the next: the window between memory and
database is what matters here. The expire thread is split at every point where it
gives up its mutex: `Wake` (with the iterator's snapshot), `LoadKey` for each record,
`LoadDone`, `PopDue`, and the steps of `multi_del`. The database at the start is
any that an earlier run can have left. Of META only liveness is kept.

### ListSeq, Zset, StringKv, HashSet

Each module has one key of its type, seen by its own commands, RESTORE and DEL. A command
holds the key's lock from its first read to its write, so that it is one step; what
several commands, the reaper and write errors do to each other is in `KeyStore`. Where a
command does not hold one lock it has several steps: ZREMRANGEBYRANK reads
(`ZremrangebyrankRead`) and deletes (`ZremrangebyrankDel`). Commands that read META and
then one item without a lock (HGET, SISMEMBER, HMGET) are one step here: what is shown of
them holds while nobody writes. `meta`, `item` (`zmeta`, `smeta`, `hmeta`, ...) are the
records, of the versions the key has had; `out` (`zout`, ...) is the answer to the last
command.

*ListSeq.* `W` stands for 2^64; `Plus` and `Minus` are the code's additions with their
tests for wrapping. *Zset.* Scores are `-Inf..Inf`; `Fine` are those for which
`score + 1e-15` differs from `score`, which the code takes for granted. Keys of the
iterators lie between scores, as `str(score)` without a member does. *StringKv.* A byte
has `ByteBits` bits, an integer `IntBits`; texts of integers are in base 2. `LdMax` is the
greatest long double, beyond which there are two infinities; a text out of range is refused, the texts of the infinities are not; `FloatBuf` and `FloatDigits` the two buffers. INCR reads its
argument with `strtoll`, so that one beyond the range counts as the integer next to it, and
DECR negates that; `StringAbs` says so in `Counts`. *HashSet.* A value is a
text or an integer.

The abstract modules state each command as a relation between the value before, the value
after and the answer, from the command's meaning and not from the records. `BehavesAsAMap`,
`BehavesAsAString` and `BehavesAsACollection` are refinements (`INSTANCE ... WITH`);
`BehavesAsAList` says the same command by command. Where the code deviates from Redis
on purpose or by its limits the abstract module says so in a comment (a range by member
that ends with the empty string, RESTORE of a ziplist).

### Scan

A record is `<<type, key, version, score, element>>`, in the order of its encoding. A
client begins an iteration and asks for page after page. SCAN makes its page in one step,
since the iterator is of one moment; the other three first read META (`ReadMeta`), and the
page is read later, when the key may have died and come back. `Page` finds the cursor's
record, lets `DoScanGeneric` collect the page and stores the record the iterator is at
under the next number. Another client makes cursors (`OtherCursor`); cursors are forgotten
(`Forget`: `cursor_cleanup`, FLUSHDB, a restart), after which the number may be another
client's. The iteration keeps, as history, what it still owes the client.

### RecordCode, RdbCode

Bytes are small numbers, so that every carry and every form of a length happens with short
strings. `RecordCode` fills a database of at most `MaxRecords` records; `RdbCode` makes one dump
per behavior. CRC64 and LZF are stand-ins: what matters is that both sides compute the
same.

## Runs

| Run | Result | Shows |
|---|---|---|
| `key_safety` | pass | one key, two fields, versions 0..3, two clients, reaper, crashes: `LengthMatches`, `DumpMatches`, `NoOrphanItems`, `LiveNotMarked`, `DeathIsMarked` |
| `reap` | pass | `MarksReaped` against contending clients, DEL, MSET, wrapping versions, failing writes and reads; versions stay in range |
| `del_race` | violation | DUMP finds a number of items that its META record denies, after DEL, which runs without the locks |
| `lock_table` | pass | exclusion, reference counts, refinement of `KeyLock`, FLUSHDB gets in |
| `ttl_index` | pass | `TTLIndexed` and `WakesInTime`, with failing writes and crashes |
| `ttl_quiet` | pass | `DueKeysExpire` when nobody gives new times to live, against a client and DEL; a load gets half of the keys |
| `ttl_lost`, `ttl_premature` | violation | a forgotten key; a key deleted after PERSIST or SET |
| `types` | pass | a list, a sorted set, a string, a hash or set under all sequences of its commands, the encoding of records and that of dumps, one of them in each behavior |
| `zset_bound` | violation | a range by score misses the members at its upper end, from 16 on and at infinity |
| `incrbyfloat` | violation | INCRBYFLOAT stores infinity, refuses negative sums, loses long values |
| `scan` | pass | iterations next to writers, the reaper, other cursors and forgotten cursors: complete, nothing twice, nothing that was not there, and they end |

The constants of `KeyStore` switch on what `key_safety` switches off. Each of these
violates `DumpMatches`, and together they delimit the assumption `Benign` of the theorems;
to see one, set the constant in `KeyStoreDel.cfg`, with `Deleters = {}`:

| Constant | What happens |
|---|---|
| `Deleters = {d1}` (the run `del_race`) | DEL's batch is stale when it is written, and DEL releases a lock that another command holds |
| SPECIFICATION `SpecFlush` | a mark queued before FLUSHDB reaps the first incarnation after it |
| `Setters = {s1}` | MSET writes META records that it read under locks it has given back |
| `VersionWraps = TRUE` | a re-created key gets a version whose mark is still pending |
| `DupArgs = {f1}`, `Fields = {f1, f2, f3}` | SREM counts a member once for every time it is named |
| `ReadErrors = TRUE`, `Fields = {f1, f2, f3}` | HSET adds the error of a failed read, -2, to the length (`t_hash.cpp:322` compares the pointer with 0), and a hash of two fields dies of it |
| `BgWriteErrors = TRUE` | after a failed write a later mark is reaped first, the dead META record goes, and versions start again at 0 |

With `ReadErrors = TRUE`, `NoOrphanItems` (add it to the cfg) fails too: an iterator that fails ends
like one at its end (`iterator.cpp:63`), so that the reaper removes a mark whose items it has not
all seen.

Two more things the models show, of which no run is kept. In `RecordMutex`,
`GlobalExclusion` is violated (add it to `RecordMutexTable.cfg`): a thread that has passed
`g_mutex_` but has no record yet enters its key's lock while FLUSHDB is inside the global
lock (`thread.h:211`). In `Scan`, an iteration whose cursor was forgotten starts at the
beginning of the database, meets a record that is not its own and ends, with an answer
that looks complete: `ScanComplete` holds only because `Forget` clears `due`.

### Bounds

Two clients suffice for two commands to overlap with the reaper and with each other.
Four versions allow a live incarnation, a mark being reaped, one queued and one not yet
loaded. `LoadLimit` is 2 where the code has 1000, so that the limit is met; in the liveness runs it is
at least the number of marks of a key: with fewer, and versions that wrap, new marks of small versions
could be loaded before an old one for ever, which takes 1000 pending marks in the code. Wrapping is checked with `MaxVersion` 1 for 65535.
Two fields are enough in `reap` for a failed read of HSET to lower a length to 0.
Three threads are a holder, a waiter and a newcomer; there are as many cells as threads.
`MaxTime` 2 has a time that is over, one that is now and one to come; `ttl_quiet`, with two keys and
DEL, has one time at which both are due and, with `PopLimit` 1, are popped in two rounds. `BatchSize` and
`PopLimit` are 1 in `ttl_index` and in `ttl_quiet`, so that one load does not get all keys. `MCQuiet`
leaves out that every key of a full load is cancelled before `LoadDone` looks, which takes 1000
cancellations in the code: the thread would go to sleep although ESCORE has more, and with
`FairSpec` in place of `MCFairSpec` TLC shows that. `WriteErrors` is FALSE there: a PERSIST that fails after its key left
`fast_keys` can have the same effect.

In `types` the list has up to 3 elements and 9 sequence numbers, the ends of a fresh list
being next to the wrap, so that pushes on either side cross it; indices run from before the
first element to past the last. The sorted set has 3 members and 5 scores, two of them infinite; all
but the infinite ones are fine, and `zset_bound` is the same instance with bounds that are not. Strings have up to
4 bytes of 2 bits, integers 3 bits: each increment overflows somewhere, and -5 and 5 are beyond
the range themselves. Two versions of
each key are enough for a key to die, leave records behind and come back. Texts of
integers in `RdbCode` lie on both sides of each limit, as do the lengths, from the empty string to the third
form; the 64-bit form is out of reach of a string and is not met, but the proof covers it. In `scan` two keys, one with two versions and three records,
and pages of 1 and 2 give iterations of up to three pages.

`MCView` of `MCTypes` leaves out the last request and answer, which no command reads, and
records of earlier versions, which no command reads either, and keeps the part the behavior is about. `MCView` of `MCScan` keeps of the
table what the client's cursor finds, whether another client may still get a cursor, and whether that
would have the client's number: states that agree in these have the same steps, so that the
liveness property is not affected.

### Fairness

Liveness is about a server that stays up (`Up`, without `Restart`). Threads that can run
are scheduled: weak fairness of each. For the reaper, strong fairness says that a mutex
that is released again and again is granted in the end, and that a write that is
retried for ever succeeds once; both are needed, since clients may hold the key's lock
again and again, and a failed write is retried by a later load. `RecordMutex` needs
that critical sections end. Nothing obliges a client to issue a
command, except in `Scan`, where a client that has begun an iteration goes on asking for
pages: weak fairness of `Walk`. Cursors are forgotten once in an iteration: a server that forgets them
all the time lets no iteration end.

## Proofs

All proofs are for any sets of keys, fields, clients and threads.

*KeyStore.* `TypeCorrect` holds without assumptions. The others assume `Benign`.
None of the properties is inductive: what a command staged must still be right when it
is written. `IndInv` says that each key is sound (`KeyOK`: the length is right, items are
live or marked, marks are older than the current incarnation, a dead record is marked),
that a locked key has one user (`LockInv`), that a staged batch leaves its key sound and
touches no marked version (`ClientInv`, with `BatchOK`), that the queue holds marks
oldest first (`TaskInv`), and that the reaper works on its key's oldest mark and has
scanned all its items (`BgInv`). The commands are reduced to three batches (`IncrSizeOK`,
`PutKvOK`, `MarkKeyDeletedOK`); a write to one key leaves what others staged for other
keys right (`BatchOKLocal`, `OtherKey`).

*RecordMutex.* A cell in use is the cell of its key, its count is the
number of its users, and it is locked by the one inside (`CellsInv`, `RefsCounted`,
`HeldInv`). Exclusion, and the refinement of `KeyLock`, follow.

*Expiration.* No assumption: every staged batch that sets EKEY also files the time, and one
that leaves EKEY alone deletes nothing from ESCORE (`OpsInv`); so `TTLIndexed` survives
batches that are stale and written in any order. `WakesInTime` needs that the thread is in
`multi_del` only at the end of a round (`LoopInv`).

*ListSeq.* No assumption but on the width: `ListShape` is inductive together with
`TypeOK` and `UnusedClean`, which says that a new incarnation finds no records under its
version. The arithmetic is in a few lemmas about `Plus`, `Minus` and `Steps`, the number of
steps from one sequence number to another modulo `W`: growing at the head or at the tail,
and shrinking at both ends (`HeadGrows`, `TailGrows`, `Shrinks`). Each command is then
one of these. From the shape follows that the records are a sequence, which each command
changes as `ListAbs` says (`BehavesAsASequence`), and that LINDEX and LRANGE read it
(`ReadsAreRight`).

*Zset.* `ZsetAgrees`, `ZUnusedClean` and `ZTypeOK` are inductive together (`ZIndInv`):
a command changes the ITEM and the ZSCORE record of a member in one batch, and the length
by the number of members that are new or gone. Reads are about positions in an order; the
order of `<<score, member>>` pairs is total, and in a finite total order the ranks are
exactly the numbers from 0 to the size, one for each element (`RankRange`,
`RankInjective`, `RankOnto` of `RankTheorems`). `RankReads` and `LexReads` need nothing
more. `ScoreReads` has the hypothesis `Bounds \subseteq Fine`, that each bound differs
from itself moved by 1e-15; `zset_bound` shows what happens without it. In the refinement
(`ImplementsAMap`) the abstract ZADD takes its pairs one after the other, by recursion,
where the code has made a sorted set of them; a closed form of the recursion (`Closed`,
`WalkIs`) joins the two.

*Scan.* `ScanComplete` is about the end of an iteration, so `IndInv` says what holds
between its pages: what is still due is in the store, of the version that META had, of the
cursor's kind and not before it (`DueInv`); what was returned is before the cursor
(`TopInv`); the records of the version that was read are known to the history
(`EverInv`). A page takes the first records from the cursor on: what it does not take is
not before the cursor it leaves, and between a cursor and a due record lie only records of
the same run, so that the page cannot end early. Writers and the reaper keep this because
they add only to the version META has and remove what is no longer due.

*RecordCode.* Nothing is assumed of names, fields and numbers but that they fit their
widths, and in particular names may contain each other. By induction over the digits,
`Value` inverts `Digits` for a number its width holds (`ValueOfDigits`), `Digits` inverts
`Value` for any string (`DigitsOfValue`), and strings of one length are in the order of their
values (`ValueOrder`). A string that follows another of known length decides only if
those are equal (`ConcatOrder`, `StartsConcat`, `SplitConcat`). An encoded key is a chain of parts, each of a length
that the parts before determine, so that decoding (`DecodeEncodes`), order (`BytesKeepOrder`) and
prefixes (`PrefixIsVersion`) go part by part. `encodeScore` keeps the order of doubles
(`ScoreFacts`). `CodeInd` says that the database has exactly the bytes of the records that
were written.

*RdbCode.* `DumpRestores` is inductive as it stands; the work is in what the decoder does with bytes
that it has not yet told apart. Each part is shown to be read back *whatever follows it*:
a length in each of its four forms (`LenReads`), an integer through the cast to an unsigned one and
back (`CastBack`, `IntReads`), a compressed and a plain string (`LzfReads`, `RawReads`), an
element of each type (`ElementReads`). That `IsInt` asks the text to be the one that its
number is printed as is all that is used of `TextOf`. For the whole, `Rests` names the bytes from
each element on: what was written is the count and the first of them
(`ObjectParts`), and the loop of RESTORE goes from one to the next and ends at the empty
one (`ElementsRead`). Assumed are only that strings, scores and counts fit 64 bits, that the
base is a multiple of 4 of at least 16.

*StringKv.* No assumption but on the widths. `SInd` says that the record keeps its type,
that no string is longer than `MaxLen` and that only a key that is there expires. What
`Str` prints of an integer is read back as that integer (`StrReads`), from the lemmas about `Value`
and `Digits` in base 2; the code's tests before it adds are exactly that the sum is
no integer (`OverflowIs`). A byte is what is above a bit, the bit, and what is below
(`Made`), so that SETBIT changes one bit and no other. `StringReadsAgree` compares the readers
with each other: the set bits of a part of the string, counted byte by byte, are the
offsets in the string at which GETBIT finds one (`PartBits`, by a bijection between the two).
In the refinement (`ImplementsAString`) INCRBYFLOAT is only required to keep the
time to live, since `StringAbs` leaves its sum open; what it stores is the subject of `incrbyfloat`.

*HashSet.* `HInd`: the length counts the records and is not 0, records of a set are
those of members, versions not handed out have none. Both theorems have the hypothesis
`NoMemberTwice`, that no SREM names a member twice: `srem` counts it each time (`DupArgs` in
the table above), and the invariant fails without it. HDEL needs no such hypothesis, since the code
makes a set of the fields first. What a batch does to the map is in `OverIs` and `WithoutIs`,
and that the increment of the length fits it in `CommitIs`; HMSET's pairs, one after the other in
`HashAbs` and a map in the code, are joined by `PairWalkIs`, as for ZADD. SPOP and
SRANDMEMBER read runs of the order in which the members are stored; that a finite set of
numbers has one increasing sequence (`OnlyInOrder`) makes such a run a set of members.

The library's induction theorems cannot be cited by these provers, since they take a
predicate as parameter; `NatSetInduction` takes a set, and `Recursion` says that a
function defined by recursion on `0..w` exists. A `CASE` with guards that overlap means
any of them to the provers, and the first to TLC; definitions that are proved about use `IF`.

Every invariant and every refinement that a passing run checks has its theorem. Only
model-checked are the liveness properties (`MarksReaped`, `FlusherEnters`, `DueKeysExpire`, `ScanEnds`),
for which the prover has no rules of fairness, and the violations.

## Not modelled

- Backup (`save`) and the snapshot registry: calls of RocksDB.
- HMGET field by field: it takes a snapshot and does not read from it (`t_hash.cpp:164`).
- In `Expiration` the start-up order (the thread starts before `ssdb->expiration` is
  assigned), `contrlExpiration` (never called) and the time to live of RESTORE for other
  types than strings.
- In `RdbCode` the compact forms of Redis (ziplist, intset, quicklist), which RESTORE accepts and DUMP
  never writes; in `RecordCode` keys longer than 65535 bytes, whose length the code truncates.
- Failed reads other than those of `ReadErrors`: they end the command. The iterators of DUMP,
  SPOP and the SCAN family may end early like the reaper's.
- COUNT 0 of the SCAN family, which the code accepts.
- The parsing of words, server commands, network, options, logging and the vendored Redis
  code.

## Plan

1. Done: `KeyStore`, `RecordMutex` with `KeyLock`, `Expiration`, and their proofs.
2. Done: `ListSeq`, `Zset`, `StringKv`, `HashSet`, `Scan`, `RecordCode`, `RdbCode`.
3. Done: proofs about `ListSeq`, `Zset`, `Scan`, `RecordCode`, `RdbCode`, `StringKv` and
   `HashSet`.
4. Not done: the start and stop of the threads; RESTORE's time to live in `Expiration`.
