-------------------------------- MODULE Scan --------------------------------
(* SCAN, HSCAN, SSCAN and ZSCAN: a client walks over the keys, or over the    *)
(* elements of one key, a page at a time, while others write.  Between two    *)
(* pages only a cursor is kept: a number, and in a table in memory the first  *)
(* record of the next page.  A page is read through an iterator of RocksDB,   *)
(* which sees the database of one moment; the commands that walk over one key *)
(* read its META record before that, without a lock.                          *)
(* A record is <<type, key, version, score, element>>, in the order of its    *)
(* encoding; keys, elements and scores are numbers in their order.            *)
EXTENDS Integers, Sequences, FiniteSets

CONSTANTS
    Keys,           \* the keys
    Slots,          \* what writers put in collections: <<key, score, element>>, the
                    \* score 0 in a hash or a set
    Counts,         \* the COUNTs a client gives
    Patterns,       \* what MATCH may select: sets of keys
    HScans,         \* the keys HSCAN is asked for, each with such a set of elements
    MaxVersion,     \* bound on the versions of each key
    MaxCursor,      \* bound on the cursors
    MaxOther,       \* bound on the cursors that others make
    OtherAt         \* the keys their cursors may be at

ASSUME ScanAssumption ==
    /\ Keys \subseteq Nat /\ IsFiniteSet(Keys)
    /\ Slots \subseteq Keys \X Nat \X Nat /\ IsFiniteSet(Slots)
    /\ Counts \subseteq Nat \ {0} /\ MaxVersion \in [Keys -> Nat]
    /\ MaxCursor \in Nat /\ MaxOther \in 0..MaxCursor
    /\ OtherAt \subseteq Keys /\ \A h \in HScans : h[1] \in Keys

VARIABLES
    meta,      \* META records
    item,      \* ITEM records of hashes and sets, ZSCORE records of sorted sets
    mark,      \* DELETE marks
    cursors,   \* m_redis_cursor_table
    walk       \* the iteration of the client

store == <<meta, item, mark>>
vars == <<store, cursors, walk>>

----------------------------------------------------------------------------
(* Records *)

Versions == UNION {0..MaxVersion[k] : k \in Keys}
Delete == 0     \* the order of the characters D, M, S or z; the records of the
Meta == 1       \* expiration, E before M and T after S, are passed over or end a
Item == 2       \* page like D and S
Collections == {s[1] : s \in Slots}

MetaKey(k) == <<Meta, k, 0, 0, 0>>
Before(a, b) ==
    \/ a[1] < b[1]
    \/ a[1] = b[1] /\ a[2] < b[2]
    \/ a[1] = b[1] /\ a[2] = b[2] /\ a[3] < b[3]
    \/ a[1] = b[1] /\ a[2] = b[2] /\ a[3] = b[3] /\ a[4] < b[4]
    \/ a[1] = b[1] /\ a[2] = b[2] /\ a[3] = b[3] /\ a[4] = b[4] /\ a[5] < b[5]

Records ==
    {<<Delete, d[1], d[2], 0, 0>> : d \in mark} \cup item
    \cup {MetaKey(k) : k \in {j \in Keys : meta[j].st # "absent"}}

\* iterator: Seek, and the records from there on
From(start) == {r \in Records : ~Before(r, start)}
Least(rs) == CHOOSE r \in rs : \A q \in rs : ~Before(q, r)
Greatest(rs) == CHOOSE r \in rs : \A q \in rs : ~Before(r, q)
\* The first n of rs
First(rs, n) == {r \in rs : Cardinality({q \in rs : Before(q, r)}) < n}

----------------------------------------------------------------------------
(* The table of cursors *)

\* Faulty NewCursor: the first is 0, which means the end.
NewCursorFromZero == Cardinality(DOMAIN cursors)
\* GetNewRedisCursor: one more than the last, 1 if there is none.
NewCursor == IF cursors = <<>> THEN 1 ELSE 1 + CHOOSE c \in DOMAIN cursors : \A d \in DOMAIN cursors : d <= c
\* FindElementByRedisCursor leaves the start empty for a cursor it does not know.
Nowhere == <<-1, 0, 0, 0, 0>>
FindElement(c) == IF c \in DOMAIN cursors THEN cursors[c] ELSE Nowhere
AddCursor(c, r) == cursors' = [d \in DOMAIN cursors \cup {c} |-> IF d = c THEN r ELSE cursors[d]]

----------------------------------------------------------------------------
(* A page *)

\* MIterator::next stops at a record that is not META; HIterator, SIterator and
\* ZIterator pass over those they cannot decode, and stop at another key or version.
Decoded(w, r) == w.cmd = "scan" \/ r[1] = Item
\* Faulty Mine: the version of a record is not compared.
MineAnyVersion(w, r) == IF w.cmd = "scan" THEN r[1] = Meta ELSE r[1] = Item /\ r[2] = w.key
Mine(w, r) == IF w.cmd = "scan" THEN r[1] = Meta ELSE r[1] = Item /\ r[2] = w.key /\ r[3] = w.ver

\* What next returns, one after the other, before it fails
Run(w, rs) == {r \in rs : Mine(w, r) /\ \A q \in rs : Before(q, r) => Mine(w, q)}

\* Faulty DoScanGeneric: the next page starts after the record next is at.
DoScanGenericSkips(w, rs, limit) ==
    LET rest == Run(w, rs) \ First(rs, limit)
    IN  [got |-> Run(w, rs) \cap First(rs, limit), end |-> Cardinality(rest) < 2,
         next |-> IF Cardinality(rest) < 2 THEN Nowhere ELSE Least(rest \ {Least(rest)})]
\* Faulty DoScanGeneric: the next page starts with the last record of this one.
DoScanGenericRepeats(w, rs, limit) ==
    LET got == Run(w, rs) \cap First(rs, limit)
    IN  [got |-> got, end |-> Cardinality(got) < limit, next |-> IF got = {} THEN Nowhere ELSE Greatest(got)]
\* Faulty DoScanGeneric: it gives a cursor at the end too.
DoScanGenericEndless(w, rs, limit) ==
    LET rest == Run(w, rs) \ First(rs, limit)
    IN  [got |-> Run(w, rs) \cap First(rs, limit), end |-> FALSE,
         next |-> IF rest = {} THEN <<Item + 1, 0, 0, 0, 0>> ELSE Least(rest)]

\* doScanGeneric: the records of the page, and the one next is at when the page
\* is full, which the next page starts with.
DoScanGeneric(w, rs, limit) ==
    LET rest == Run(w, rs) \ First(rs, limit)
    IN  [got |-> Run(w, rs) \cap First(rs, limit), end |-> rest = {},
         next |-> IF rest = {} THEN Nowhere ELSE Least(rest)]

\* What a record stands for, and MATCH
Name(r) == IF r[1] = Meta THEN r[2] ELSE r[5]
Matching(w, rs) == {r \in rs : Name(r) \in w.pattern}

Start(w) ==
    IF w.cursor # 0 THEN FindElement(w.cursor)
    ELSE IF w.cmd = "scan" THEN <<Meta, 0, 0, 0, 0>> ELSE <<Item, w.key, w.ver, 0, 0>>

----------------------------------------------------------------------------
(* The iteration.  What it is about are the META records of the keys that are *)
(* not reaped, or the elements of a live key.  It keeps, of those it should   *)
(* return, the ones that were there from its beginning and were not returned  *)
(* (due), those of META's version that were there during the call (ever), the *)
(* greatest one returned so far (top), and whether its cursor was forgotten   *)
(* (lost), after which nothing is due and there is no greatest one.           *)

InStore(w, m, its) ==
    IF w.cmd = "scan" THEN {MetaKey(k) : k \in {j \in Keys : m[j].st # "absent"}}
    ELSE {r \in its : r[2] = w.key /\ m[w.key].st = "live" /\ r[3] = m[w.key].ver}

Watched(w, m, its) ==
    CASE w.pc = "call" -> [w EXCEPT !.due = @ \cap InStore(w, m, its)]
      [] w.pc = "page" -> [w EXCEPT !.due = @ \cap InStore(w, m, its),
                                    !.ever = @ \cup {r \in InStore(w, m, its) : r[3] = w.ver}]
      [] OTHER -> w

Idle == [pc |-> "idle", cmd |-> "scan", key |-> 0, ver |-> 0, pattern |-> {}, cursor |-> 0,
         top |-> Nowhere, due |-> {}, ever |-> {}, lost |-> FALSE]

Begin(cmd, k, p) ==
    /\ walk.pc = "idle"
    /\ LET w == [Idle EXCEPT !.pc = "call", !.cmd = cmd, !.key = k, !.pattern = p]
       IN  walk' = [w EXCEPT !.due = {r \in InStore(w, meta, item) : Name(r) \in p}]
    /\ UNCHANGED <<store, cursors>>

\* hscan, sscan, zscan: the META record; there is an answer at once if the key
\* is not live.
ReadMeta ==
    /\ walk.pc = "call" /\ walk.cmd = "hscan"
    /\ walk' = IF meta[walk.key].st = "live"
               THEN [walk EXCEPT !.pc = "page", !.ver = meta[walk.key].ver,
                                 !.ever = InStore(walk, meta, item)]
               ELSE [walk EXCEPT !.pc = "done"]
    /\ UNCHANGED <<store, cursors>>

\* scan, and what the others do next: the page that is read now
Paging == IF walk.cmd = "scan" THEN walk.pc = "call" ELSE walk.pc = "page"
PageNow(count) ==
    CHOOSE page \in {DoScanGeneric(walk, rs, count) :
                        rs \in {{r \in From(Start(walk)) : Decoded(walk, r)}}} : TRUE

Page(count) ==
    /\ Paging
    /\ \E page \in {PageNow(count)} :
          LET got == Matching(walk, page.got)
              w == [walk EXCEPT !.due = @ \ got, !.ever = {},
                                !.top = IF got = {} THEN @ ELSE Greatest(got)]
          IN  IF page.end
              THEN walk' = [w EXCEPT !.pc = "done"] /\ UNCHANGED cursors
              ELSE /\ NewCursor <= MaxCursor
                   /\ AddCursor(NewCursor, page.next)
                   /\ walk' = [w EXCEPT !.pc = "call", !.cursor = NewCursor]
    /\ UNCHANGED store

----------------------------------------------------------------------------
(* Writers, as in KeyStore and Zset: each writes one batch *)

\* (nothing is of interest after the iteration has ended)
Written(m, its, mks) ==
    /\ walk.pc # "done"
    /\ meta' = m /\ item' = its /\ mark' = mks
    /\ walk' = Watched(walk, m, its)
    /\ UNCHANGED cursors

WriteVersion(k) ==
    CASE meta[k].st = "live" -> meta[k].ver [] meta[k].st = "dead" -> meta[k].ver + 1 [] OTHER -> 0
Live(v) == [st |-> "live", ver |-> v]
OfElement(k, v, e) == {r \in item : r[2] = k /\ r[3] = v /\ r[5] = e}

\* HSET, SADD; ZADD moves the member to its new score.  For SCAN a string is
\* no different.
Put(k, s, e) ==
    LET v == WriteVersion(k) IN
    /\ v <= MaxVersion[k]
    /\ Written([meta EXCEPT ![k] = Live(v)],
               (item \ OfElement(k, v, e)) \cup {<<Item, k, v, s, e>>}, mark)

Killed(k, its) ==
    Written([meta EXCEPT ![k].st = "dead"], its, mark \cup {<<k, meta[k].ver>>})
\* HDEL, SREM, ZREM: the key dies with its last element.
RemoveElement(k, e) ==
    LET its == item \ OfElement(k, meta[k].ver, e) IN
    /\ meta[k].st = "live" /\ its # item
    /\ IF \E r \in its : r[2] = k /\ r[3] = meta[k].ver
       THEN Written(meta, its, mark) ELSE Killed(k, its)
Del(k) == meta[k].st = "live" /\ Killed(k, item)

\* delete_key_loop
Reap(d) ==
    /\ d \in mark
    /\ Written(IF meta[d[1]] = [st |-> "dead", ver |-> d[2]]
               THEN [meta EXCEPT ![d[1]] = [st |-> "absent", ver |-> 0]] ELSE meta,
               {r \in item : r[2] # d[1] \/ r[3] # d[2]}, mark \ {d})

\* Another client that scans the keys has got a cursor.
OtherCursor(k) == NewCursor <= MaxOther /\ AddCursor(NewCursor, MetaKey(k)) /\ UNCHANGED <<store, walk>>

\* ClearExpireRedisCursor: the oldest cursors go; all of them with ClearAllCursor
\* and with the process.  (An iteration loses its cursor at most once.)
Forget ==
    /\ ~walk.lost /\ walk.pc # "done"
    /\ \E c \in DOMAIN cursors :
          /\ cursors' = [d \in {e \in DOMAIN cursors : e > c} |-> cursors[d]]
          /\ walk' = IF walk.cursor \in DOMAIN cursors /\ walk.cursor <= c
                     THEN [walk EXCEPT !.lost = TRUE, !.due = {}, !.top = Nowhere] ELSE walk
    /\ UNCHANGED store

----------------------------------------------------------------------------
Init ==
    /\ meta = [k \in Keys |-> [st |-> "absent", ver |-> 0]]
    /\ item = {} /\ mark = {}
    /\ cursors = <<>> /\ walk = Idle

Write ==
    \/ \E s \in Slots : Put(s[1], s[2], s[3])
    \/ \E k \in Keys : Del(k)
    \/ \E k \in Collections, e \in {s[3] : s \in Slots} : RemoveElement(k, e)
    \/ \E d \in Keys \X Versions : Reap(d)

Walk == ReadMeta \/ \E count \in Counts : Page(count)

Next ==
    \/ Write
    \/ \E p \in Patterns : Begin("scan", 0, p)
    \/ \E h \in HScans : Begin("hscan", h[1], h[2])
    \/ Walk
    \/ \E k \in OtherAt : OtherCursor(k)
    \/ Forget

\* A client that has begun keeps asking.
Spec == Init /\ [][Next]_vars /\ WF_vars(Walk)

----------------------------------------------------------------------------
(* Properties *)

TypeOK ==
    /\ meta \in [Keys -> [st : {"absent", "live", "dead"}, ver : Versions]]
    /\ \A r \in item : r \in {Item} \X Keys \X Versions \X Nat \X Nat /\ <<r[2], r[4], r[5]>> \in Slots
    /\ mark \subseteq Keys \X Versions
    /\ DOMAIN cursors \subseteq 1..MaxCursor
    /\ walk.pc \in {"idle", "call", "page", "done"}

\* An iteration that has ended has returned every record that was there from its
\* beginning to its end and matches, whatever was written meanwhile, unless its
\* cursor was forgotten (doScanGeneric, RedisCursorService).
ScanComplete == walk.pc = "done" => walk.due = {}

\* A page returns nothing that was not there at some moment of the call: no
\* field of an incarnation that was over before, although META is read before
\* the iterator is made and without a lock, and although the number of a cursor
\* may by now be that of another client's (hscan, sscan, zscan).
OnlyWhatWas ==
    Paging => \A count \in Counts : PageNow(count).got \subseteq (walk.ever \cup InStore(walk, meta, item))

\* An iteration returns no record twice: a page continues after the last one,
\* unless the cursor was forgotten since (doScanGeneric).
InOrder ==
    Paging => \A count \in Counts : \A r \in PageNow(count).got : Before(walk.top, r)

\* It ends, although others go on writing, and although it starts at the
\* beginning, or elsewhere, once its cursor is forgotten (doScanGeneric).
ScanEnds == walk.pc \in {"call", "page"} ~> walk.pc = "done"
=============================================================================
