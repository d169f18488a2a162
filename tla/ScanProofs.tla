----------------------------- MODULE ScanProofs -----------------------------
(* An iteration returns what stays, nothing that was not there, and in order, *)
(* for any number of keys, records, versions, pages and other clients.        *)
EXTENDS Scan, RankTheorems

Rec == Int \X Int \X Int \X Int \X Int

WalkVal ==
    [pc : {"idle", "call", "page", "done"}, cmd : {"scan", "hscan"}, key : Keys \cup {0},
     ver : Int, pattern : {{}} \cup Patterns \cup {h[2] : h \in HScans}, cursor : Nat,
     top : Rec, due : SUBSET Rec, ever : SUBSET Rec, lost : BOOLEAN]

Finite == IsFiniteSet(item) /\ IsFiniteSet(mark)

Cursors == cursors \in [DOMAIN cursors -> Rec]

\* HSCAN is about a key, and only it reads META before the page.
WalkInv ==
    /\ walk \in WalkVal
    /\ walk.cmd = "hscan" => walk.key \in Keys
    /\ walk.pc = "page" => walk.cmd = "hscan"

\* While it goes on, the client's cursor is beyond what was returned.
TopInv ==
    \/ walk.pc = "done" \/ walk.top = Nowhere
    \/ /\ walk.cursor # 0 /\ walk.cursor \in DOMAIN cursors
       /\ Before(walk.top, cursors[walk.cursor])

\* The records of the version META had when it was read are known.
EverInv == walk.pc = "page" => \A r \in item : r[2] = walk.key /\ r[3] = walk.ver => r \in walk.ever

\* What is due is there, of one version, and not before the cursor, which is
\* among its kind.
SameRun(r, start) ==
    /\ r[1] = start[1]
    /\ walk.cmd = "hscan" => r[2] = start[2] /\ r[3] = start[3]
DueInv ==
    /\ \A r \in walk.due :
          /\ r \in InStore(walk, meta, item) /\ Name(r) \in walk.pattern
          /\ walk.pc = "page" => r[3] = walk.ver
          /\ walk.cursor # 0 => /\ walk.cursor \in DOMAIN cursors
                                /\ SameRun(r, cursors[walk.cursor])
                                /\ ~Before(r, cursors[walk.cursor])
    /\ walk.pc \in {"idle", "done"} => walk.due = {}

IndInv == TypeOK /\ Finite /\ Cursors /\ WalkInv /\ TopInv /\ EverInv /\ DueInv

----------------------------------------------------------------------------
(* The order of records *)

LEMMA RecParts ==
    ASSUME NEW a \in Rec
    PROVE  /\ a[1] \in Int /\ a[2] \in Int /\ a[3] \in Int /\ a[4] \in Int /\ a[5] \in Int
           /\ a = <<a[1], a[2], a[3], a[4], a[5]>>
BY DEF Rec

LEMMA BeforeIrreflexive == ASSUME NEW a \in Rec PROVE ~Before(a, a)
BY RecParts DEF Before

LEMMA BeforeTransitive ==
    ASSUME NEW a \in Rec, NEW b \in Rec, NEW c \in Rec, Before(a, b), Before(b, c)
    PROVE  Before(a, c)
<1>1. /\ a[1] \in Int /\ a[2] \in Int /\ a[3] \in Int /\ a[4] \in Int /\ a[5] \in Int
      /\ b[1] \in Int /\ b[2] \in Int /\ b[3] \in Int /\ b[4] \in Int /\ b[5] \in Int
      /\ c[1] \in Int /\ c[2] \in Int /\ c[3] \in Int /\ c[4] \in Int /\ c[5] \in Int
  BY RecParts
<1> QED
  BY <1>1 DEF Before

LEMMA BeforeTotal ==
    ASSUME NEW a \in Rec, NEW b \in Rec
    PROVE  a = b \/ Before(a, b) \/ Before(b, a)
<1>1. /\ a[1] \in Int /\ a[2] \in Int /\ a[3] \in Int /\ a[4] \in Int /\ a[5] \in Int
      /\ b[1] \in Int /\ b[2] \in Int /\ b[3] \in Int /\ b[4] \in Int /\ b[5] \in Int
  BY RecParts
<1>2. Before(a, b) \/ Before(b, a)
      \/ (a[1] = b[1] /\ a[2] = b[2] /\ a[3] = b[3] /\ a[4] = b[4] /\ a[5] = b[5])
  BY <1>1 DEF Before
<1> QED
  BY <1>2, RecParts

\* Less than one that is not after: less.
LEMMA BeforeNotAfter ==
    ASSUME NEW a \in Rec, NEW b \in Rec, NEW c \in Rec, Before(a, b), ~Before(c, b)
    PROVE  Before(a, c)
<1>1. b = c \/ Before(b, c)
  BY BeforeTotal
<1> QED
  BY <1>1, BeforeTransitive

Order(rs) == {p \in rs \X rs : Before(p[1], p[2])}

LEMMA OrderOrders ==
    ASSUME NEW rs \in SUBSET Rec
    PROVE  /\ \A a, b \in rs : <<a, b>> \in Order(rs) <=> Before(a, b)
           /\ StrictOrder(Order(rs), rs)
<1>1. \A a, b \in rs : <<a, b>> \in Order(rs) <=> Before(a, b)
  BY DEF Order
<1>2. \A a \in rs : <<a, a>> \notin Order(rs)
  BY <1>1, BeforeIrreflexive
<1>3. \A a, b, c \in rs : <<a, b>> \in Order(rs) /\ <<b, c>> \in Order(rs) => <<a, c>> \in Order(rs)
  BY <1>1, BeforeTransitive
<1> QED
  BY <1>1, <1>2, <1>3 DEF StrictOrder

LEMMA LeastIs ==
    ASSUME NEW rs \in SUBSET Rec, IsFiniteSet(rs), rs # {}
    PROVE  Least(rs) \in rs /\ \A q \in rs : ~Before(q, Least(rs))
<1>1. \E r \in rs : \A q \in rs : ~Before(q, r)
  <2>1. StrictOrder(Order(rs), rs)
    BY OrderOrders
  <2>2. PICK r \in rs : \A q \in rs : <<q, r>> \notin Order(rs)
    BY <2>1, FiniteMinimum
  <2> QED
    BY <2>2, OrderOrders
<1> QED
  BY <1>1 DEF Least

LEMMA GreatestIs ==
    ASSUME NEW rs \in SUBSET Rec, IsFiniteSet(rs), rs # {}
    PROVE  Greatest(rs) \in rs
<1>1. \E r \in rs : \A q \in rs : ~Before(r, q)
  <2>1. StrictOrder(Order(rs), rs)
    BY OrderOrders
  <2>2. PICK r \in rs : \A q \in rs : <<r, q>> \notin Order(rs)
    BY <2>1, FiniteMaximum
  <2> QED
    BY <2>2, OrderOrders
<1> QED
  BY <1>1 DEF Greatest

\* The first n come before the others.
LEMMA FirstBefore ==
    ASSUME NEW rs \in SUBSET Rec, IsFiniteSet(rs), NEW n \in Nat,
           NEW p \in First(rs, n), NEW q \in rs \ First(rs, n)
    PROVE  Before(p, q)
<1>1. p \in rs /\ q \in rs
  BY DEF First
<1>2. \A r \in rs : Lower(Order(rs), rs, r) = {x \in rs : Before(x, r)}
  BY OrderOrders DEF Lower
<1>3. RankOf(Order(rs), rs, p) < n /\ ~(RankOf(Order(rs), rs, q) < n)
  BY <1>1, <1>2 DEF First, RankOf
<1>4. RankOf(Order(rs), rs, p) \in Nat /\ RankOf(Order(rs), rs, q) \in Nat
  BY LowerFinite
<1>5. ~Before(q, p)
  <2> SUFFICES ASSUME Before(q, p)
               PROVE  FALSE
    OBVIOUS
  <2>1. RankOf(Order(rs), rs, q) < RankOf(Order(rs), rs, p)
    BY <1>1, OrderOrders, RankGrows
  <2> QED
    BY <1>3, <1>4, <2>1
<1>6. p # q
  OBVIOUS
<1> QED
  BY <1>1, <1>5, <1>6, BeforeTotal

----------------------------------------------------------------------------
(* The records, and the page *)

LEMMA NowhereRec == Nowhere \in Rec /\ \A r \in Rec : r[1] >= 0 => Before(Nowhere, r)
BY RecParts DEF Nowhere, Rec, Before

LEMMA VersionsNat == Versions \subseteq Nat
BY ScanAssumption DEF Versions

LEMMA FiniteImage ==
    ASSUME NEW S, IsFiniteSet(S), NEW T, NEW f \in [S -> T], T = {f[x] : x \in S}
    PROVE  IsFiniteSet(T)
<1>1. f \in Surjection(S, T)
  BY DEF Surjection
<1> QED
  BY <1>1, FS_Surjection

\* An element's record
LEMMA ItemRec ==
    ASSUME TypeOK, NEW r \in item
    PROVE  /\ r \in Rec /\ r[1] = Item /\ r[2] \in Keys /\ r[2] \in Nat /\ r[3] \in Versions
           /\ r[4] \in Nat /\ r[5] \in Nat
<1>1. r \in {Item} \X Keys \X Versions \X Nat \X Nat
  BY DEF TypeOK
<1>2. PICK k \in Keys, v \in Versions, s \in Nat, e \in Nat : r = <<Item, k, v, s, e>>
  BY <1>1
<1>3. k \in Nat /\ v \in Nat /\ Item \in Nat
  BY ScanAssumption, VersionsNat DEF Item
<1> QED
  BY <1>2, <1>3 DEF Rec

LEMMA MetaRec ==
    ASSUME NEW k \in Keys
    PROVE  /\ MetaKey(k) \in Rec /\ MetaKey(k)[1] = Meta /\ MetaKey(k)[2] = k /\ MetaKey(k)[3] = 0
           /\ MetaKey(k)[4] = 0 /\ MetaKey(k)[5] = 0 /\ k \in Nat
BY ScanAssumption DEF Rec, MetaKey, Meta

DeleteRecords == {<<Delete, d[1], d[2], 0, 0>> : d \in mark}
Present == {k \in Keys : meta[k].st # "absent"}
MetaRecords == {MetaKey(k) : k \in Present}

LEMMA RecordsAre == Records = DeleteRecords \cup item \cup MetaRecords
BY DEF Records, DeleteRecords, MetaRecords, Present

LEMMA DeleteRec ==
    ASSUME TypeOK, NEW r \in DeleteRecords
    PROVE  r \in Rec /\ r[1] = Delete
<1>1. PICK d \in mark : r = <<Delete, d[1], d[2], 0, 0>>
  BY DEF DeleteRecords
<1>2. d \in Keys \X Versions
  BY DEF TypeOK
<1>3. d[1] \in Nat /\ d[2] \in Nat
  BY <1>2, VersionsNat, ScanAssumption
<1> QED
  BY <1>1, <1>3 DEF Rec, Delete

LEMMA RecordsFinite ==
    ASSUME IsFiniteSet(item), IsFiniteSet(mark)
    PROVE  IsFiniteSet(Records)
<1>1. IsFiniteSet(DeleteRecords)
  <2> DEFINE f == [d \in mark |-> <<Delete, d[1], d[2], 0, 0>>]
  <2>1. f \in [mark -> DeleteRecords] /\ DeleteRecords = {f[x] : x \in mark}
    BY DEF DeleteRecords
  <2> HIDE DEF f
  <2> QED
    BY <2>1, FiniteImage
<1>2. IsFiniteSet(MetaRecords)
  <2> DEFINE f == [k \in Present |-> MetaKey(k)]
  <2>1. f \in [Present -> MetaRecords] /\ MetaRecords = {f[x] : x \in Present}
    BY DEF MetaRecords
  <2>2. IsFiniteSet(Present)
    BY ScanAssumption, FS_Subset DEF Present
  <2> QED
    BY <2>1, <2>2, FiniteImage
<1> QED
  BY <1>1, <1>2, RecordsAre, FS_Union

\* Which record is of which kind
LEMMA RecordsFacts ==
    ASSUME TypeOK, NEW r \in Records
    PROVE  /\ r \in Rec /\ r[1] >= 0
           /\ r[1] = Item => r \in item
           /\ r[1] = Meta => \E k \in Present : r = MetaKey(k)
<1>1. CASE r \in DeleteRecords
  BY <1>1, DeleteRec DEF Delete, Item, Meta
<1>2. CASE r \in item
  BY <1>2, ItemRec DEF Item, Meta
<1>3. CASE r \in MetaRecords
  BY <1>3, MetaRec DEF MetaRecords, Item, Meta, Present
<1> QED
  BY <1>1, <1>2, <1>3, RecordsAre

Seen == {r \in From(Start(walk)) : Decoded(walk, r)}

LEMMA PageNowIs == ASSUME NEW count PROVE PageNow(count) = DoScanGeneric(walk, Seen, count)
BY DEF PageNow, Seen

LEMMA SeenFacts ==
    ASSUME TypeOK, Finite
    PROVE  /\ Seen \in SUBSET Rec /\ IsFiniteSet(Seen)
           /\ \A r \in Seen : r \in Records /\ ~Before(r, Start(walk))
<1>1. Seen \subseteq Records /\ \A r \in Seen : ~Before(r, Start(walk))
  BY DEF Seen, From
<1>2. IsFiniteSet(Records)
  BY RecordsFinite DEF Finite
<1> QED
  BY <1>1, <1>2, RecordsFacts, FS_Subset

\* What a page holds, and where the next one starts
LEMMA PageFacts ==
    ASSUME TypeOK, Finite, NEW count \in Counts, NEW page, page = PageNow(count)
    PROVE  /\ page.got \subseteq Run(walk, Seen)
           /\ page.end \in BOOLEAN
           /\ page.end => page.got = Run(walk, Seen)
           /\ ~page.end => /\ page.next \in Run(walk, Seen)
                           /\ \A g \in page.got : Before(g, page.next)
                           /\ \A r \in Run(walk, Seen) \ page.got : ~Before(r, page.next)
<1> DEFINE run == Run(walk, Seen)
           rest == run \ First(Seen, count)
<1>1. /\ page.got = run \cap First(Seen, count)
      /\ page.end = (rest = {})
      /\ page.next = IF rest = {} THEN Nowhere ELSE Least(rest)
  BY PageNowIs DEF DoScanGeneric
<1>2. run \subseteq Seen /\ Seen \in SUBSET Rec /\ IsFiniteSet(Seen)
  BY SeenFacts DEF Run
<1>3. count \in Nat
  BY ScanAssumption
<1>4. rest # {} => Least(rest) \in rest /\ \A q \in rest : ~Before(q, Least(rest))
  BY <1>2, LeastIs, FS_Subset
<1>5. \A p \in First(Seen, count), q \in Seen \ First(Seen, count) : Before(p, q)
  BY <1>2, <1>3, FirstBefore
<1> HIDE DEF run
<1> QED
  BY <1>1, <1>2, <1>4, <1>5 DEF run

----------------------------------------------------------------------------
(* What is due is in the page's run *)

LEMMA DueSameRun ==
    ASSUME IndInv, Paging, NEW r \in walk.due
    PROVE  /\ r \in Records /\ r \in Rec /\ Mine(walk, r) /\ Decoded(walk, r)
           /\ Start(walk) \in Rec /\ SameRun(r, Start(walk)) /\ ~Before(r, Start(walk))
<1> USE DEF IndInv
<1>1. r \in InStore(walk, meta, item)
  BY DEF DueInv
<1>2. CASE walk.cmd = "scan"
  <2>1. PICK k \in Present : r = MetaKey(k)
    BY <1>1, <1>2 DEF InStore, Present
  <2>2. r \in Records /\ r \in Rec /\ r[1] = Meta /\ r[2] = k /\ r[3] = 0 /\ r[4] = 0 /\ r[5] = 0
        /\ k \in Nat
    BY <2>1, RecordsAre, MetaRec DEF MetaRecords, Present
  <2>3. Mine(walk, r) /\ Decoded(walk, r)
    BY <1>2, <2>2 DEF Mine, Decoded
  <2>4. CASE walk.cursor = 0
    <3>1. Start(walk) = <<Meta, 0, 0, 0, 0>>
      BY <1>2, <2>4 DEF Start
    <3> QED
      BY <1>2, <2>2, <2>3, <3>1 DEF Rec, Before, SameRun, Meta
  <2>5. CASE walk.cursor # 0
    <3>1. Start(walk) = cursors[walk.cursor] /\ walk.cursor \in DOMAIN cursors
      BY <2>5 DEF Start, FindElement, DueInv
    <3> QED
      BY <2>2, <2>3, <2>5, <3>1 DEF DueInv, Cursors
  <2> QED
    BY <2>4, <2>5
<1>3. CASE walk.cmd = "hscan"
  <2>1. r \in item /\ r[2] = walk.key /\ r[3] = walk.ver
    BY <1>1, <1>3 DEF InStore, Paging, DueInv
  <2>2. r \in Records /\ r \in Rec /\ r[1] = Item /\ r[2] \in Int /\ r[3] \in Int /\ r[4] \in Nat /\ r[5] \in Nat
    BY <2>1, RecordsAre, ItemRec, RecParts
  <2>3. Mine(walk, r) /\ Decoded(walk, r)
    BY <1>3, <2>1, <2>2 DEF Mine, Decoded
  <2>4. CASE walk.cursor = 0
    <3>1. Start(walk) = <<Item, r[2], r[3], 0, 0>>
      BY <1>3, <2>1, <2>4 DEF Start
    <3>2. Start(walk) \in Rec /\ Start(walk)[1] = Item /\ Start(walk)[2] = r[2] /\ Start(walk)[3] = r[3]
          /\ Start(walk)[4] = 0 /\ Start(walk)[5] = 0
      BY <2>2, <3>1 DEF Rec, Item
    <3> QED
      BY <2>2, <2>3, <3>2 DEF Before, SameRun, Item
  <2>5. CASE walk.cursor # 0
    <3>1. Start(walk) = cursors[walk.cursor] /\ walk.cursor \in DOMAIN cursors
      BY <2>5 DEF Start, FindElement, DueInv
    <3> QED
      BY <2>2, <2>3, <2>5, <3>1 DEF DueInv, Cursors
  <2> QED
    BY <2>4, <2>5
<1> QED
  BY <1>2, <1>3 DEF WalkInv, WalkVal

\* Between the start of a page and a record of its run are only records of the run.
LEMMA BetweenSameRun ==
    ASSUME NEW s \in Rec, NEW q \in Rec, NEW r \in Rec, SameRun(r, s), ~Before(q, s), Before(q, r)
    PROVE  SameRun(q, r)
<1>1. /\ s[1] \in Int /\ s[2] \in Int /\ s[3] \in Int /\ s[4] \in Int /\ s[5] \in Int
      /\ q[1] \in Int /\ q[2] \in Int /\ q[3] \in Int /\ q[4] \in Int /\ q[5] \in Int
      /\ r[1] \in Int /\ r[2] \in Int /\ r[3] \in Int /\ r[4] \in Int /\ r[5] \in Int
  BY RecParts
<1> QED
  BY <1>1 DEF Before, SameRun

LEMMA DueInRun ==
    ASSUME IndInv, Paging
    PROVE  walk.due \subseteq Run(walk, Seen)
<1> SUFFICES ASSUME NEW r \in walk.due
             PROVE  r \in Run(walk, Seen)
  OBVIOUS
<1>1. /\ r \in Records /\ r \in Rec /\ Mine(walk, r) /\ Decoded(walk, r)
      /\ Start(walk) \in Rec /\ SameRun(r, Start(walk)) /\ ~Before(r, Start(walk))
  BY DueSameRun
<1>2. r \in Seen
  BY <1>1 DEF Seen, From
<1>3. ASSUME NEW q \in Seen, Before(q, r)
      PROVE  Mine(walk, q)
  <2>1. q \in Rec /\ ~Before(q, Start(walk))
    BY SeenFacts DEF IndInv
  <2>2. SameRun(q, r)
    BY <1>1, <1>3, <2>1, BetweenSameRun
  <2> QED
    BY <1>1, <2>2 DEF SameRun, Mine, IndInv, WalkInv, WalkVal
<1> QED
  BY <1>1, <1>2, <1>3 DEF Run

\* A new cursor is not one of the table.
LEMMA NewCursorIsNew ==
    ASSUME TypeOK, Cursors
    PROVE  NewCursor \in Nat \ {0} /\ NewCursor \notin DOMAIN cursors
<1>1. CASE cursors = <<>>
  <2>1. DOMAIN cursors = {}
    BY <1>1
  <2> QED
    BY <1>1, <2>1 DEF NewCursor
<1>2. CASE cursors # <<>> /\ DOMAIN cursors # {}
  <2> DEFINE D == DOMAIN cursors
  <2>1. D \in SUBSET Nat /\ MaxCursor \in Nat /\ \A n \in D : n <= MaxCursor
    BY ScanAssumption DEF TypeOK
  <2>2. \E c \in D : \A d \in D : d <= c
    BY <1>2, <2>1, GreatestNat
  <2>3. PICK c \in D : NewCursor = 1 + c /\ \A d \in D : d <= c
    BY <1>2, <2>2 DEF NewCursor
  <2> QED
    BY <2>1, <2>3
<1> QED
  BY <1>1, <1>2 DEF Cursors

LEMMA AddCursorKeeps ==
    ASSUME TypeOK, Cursors, NEW r \in Rec, NewCursor <= MaxCursor, AddCursor(NewCursor, r)
    PROVE  /\ DOMAIN cursors' = DOMAIN cursors \cup {NewCursor}
           /\ DOMAIN cursors' \subseteq 1..MaxCursor /\ Cursors'
           /\ cursors'[NewCursor] = r
           /\ \A c \in DOMAIN cursors : cursors'[c] = cursors[c]
<1>1. NewCursor \in Nat \ {0} /\ NewCursor \notin DOMAIN cursors
  BY NewCursorIsNew
<1> DEFINE n == NewCursor
<1>2. cursors' = [d \in DOMAIN cursors \cup {n} |-> IF d = n THEN r ELSE cursors[d]]
  BY DEF AddCursor
<1>3. DOMAIN cursors' = DOMAIN cursors \cup {n}
  BY <1>2
<1>4. DOMAIN cursors' \subseteq 1..MaxCursor
  BY <1>1, <1>3, ScanAssumption DEF TypeOK
<1>5. cursors'[n] = r /\ \A c \in DOMAIN cursors : cursors'[c] = cursors[c]
  BY <1>1, <1>2
<1>6. Cursors'
  BY <1>2, <1>3, <1>5 DEF Cursors
<1> QED
  BY <1>3, <1>4, <1>5, <1>6

----------------------------------------------------------------------------
(* Writers *)

MetaVal == [Keys -> [st : {"absent", "live", "dead"}, ver : Versions]]
ItemVal(its) ==
    \A r \in its : r \in {Item} \X Keys \X Versions \X Nat \X Nat /\ <<r[2], r[4], r[5]>> \in Slots

\* A batch that adds elements only of the version META then has
LEMMA WrittenInv ==
    ASSUME IndInv, NEW m \in MetaVal, NEW its, ItemVal(its), IsFiniteSet(its),
           NEW mks \in SUBSET (Keys \X Versions), IsFiniteSet(mks),
           \A r \in its \ item : m[r[2]] = Live(r[3]),
           Written(m, its, mks)
    PROVE  IndInv'
<1> USE DEF IndInv
<1>1. /\ meta' = m /\ item' = its /\ mark' = mks /\ cursors' = cursors
      /\ walk' = Watched(walk, m, its) /\ walk.pc # "done"
  BY DEF Written
<1>2. ItemVal(item')
  BY <1>1
<1> DEFINE now == InStore(walk, m, its)
<1>3. now \in SUBSET Rec
  <2>1. \A r \in its : r \in Rec
    <3> SUFFICES ASSUME NEW r \in its PROVE r \in Rec
      OBVIOUS
    <3>0. r \in {Item} \X Keys \X Versions \X Nat \X Nat
      BY DEF ItemVal
    <3>1. PICK k \in Keys, v \in Versions, s \in Nat, e \in Nat : r = <<Item, k, v, s, e>>
      BY <3>0
    <3> QED
      BY <3>1, ScanAssumption, VersionsNat DEF Rec, Item
  <2> QED
    BY <2>1, MetaRec DEF InStore
<1>4. /\ walk'.pc = walk.pc /\ walk'.cmd = walk.cmd /\ walk'.key = walk.key /\ walk'.ver = walk.ver
      /\ walk'.pattern = walk.pattern /\ walk'.cursor = walk.cursor /\ walk'.top = walk.top
      /\ walk.pc \in {"call", "page"} => walk'.due = walk.due \cap now
      /\ walk.pc \notin {"call", "page"} => walk' = walk
      /\ walk.pc = "page" => walk'.ever = walk.ever \cup {r \in now : r[3] = walk.ver}
      /\ walk' \in WalkVal
  <2>1. walk \in WalkVal /\ walk.pc \in {"idle", "call", "page"}
    BY <1>1 DEF WalkInv, WalkVal
  <2>2. CASE walk.pc = "call"
    <3>1. walk' = [walk EXCEPT !.due = @ \cap now]
      BY <1>1, <2>2 DEF Watched
    <3> HIDE DEF now
    <3> QED
      BY <2>1, <2>2, <3>1, <1>3 DEF WalkVal
  <2>3. CASE walk.pc = "page"
    <3>1. walk' = [walk EXCEPT !.due = @ \cap now, !.ever = @ \cup {r \in now : r[3] = walk.ver}]
      BY <1>1, <2>3 DEF Watched
    <3> HIDE DEF now
    <3> QED
      BY <2>1, <2>3, <3>1, <1>3 DEF WalkVal
  <2>4. CASE walk.pc = "idle"
    BY <1>1, <2>1, <2>4 DEF Watched
  <2> QED
    BY <2>1, <2>2, <2>3, <2>4
<1>5. TypeOK'
  <2>1. meta' \in MetaVal /\ mark' \subseteq Keys \X Versions /\ DOMAIN cursors' \subseteq 1..MaxCursor
    BY <1>1 DEF TypeOK
  <2>2. walk'.pc \in {"idle", "call", "page", "done"}
    BY <1>4 DEF TypeOK
  <2> QED
    BY <2>1, <2>2, <1>2 DEF TypeOK, MetaVal, ItemVal
<1>6. Finite' /\ Cursors' /\ WalkInv' /\ TopInv'
  BY <1>1, <1>4 DEF Finite, Cursors, WalkInv, TopInv
<1>7. EverInv'
  <2> SUFFICES ASSUME walk.pc = "page", NEW r \in its, r[2] = walk.key, r[3] = walk.ver
               PROVE  r \in walk'.ever
    BY <1>1, <1>4 DEF EverInv
  <2>1. CASE r \in item
    BY <1>4, <2>1 DEF EverInv
  <2>2. CASE r \notin item
    <3>0. m[r[2]] = Live(r[3])
      BY <2>2
    <3>1. m[r[2]].st = "live" /\ m[r[2]].ver = r[3]
      BY <3>0 DEF Live
    <3>2. r \in now
      BY <3>1 DEF InStore, WalkInv
    <3> QED
      BY <1>4, <3>2
  <2> QED
    BY <2>1, <2>2
<1>8. DueInv'
  <2>1. walk.pc \in {"idle", "call", "page"}
    BY <1>1 DEF WalkInv, WalkVal
  <2>2. InStore(walk, meta, item)' = now
    BY <1>1, <1>4 DEF InStore
  <2>3. \A r \in walk'.due : r \in walk.due /\ r \in now
    BY <1>4, <2>1 DEF DueInv
  <2>4. walk'.pc \in {"idle", "done"} => walk'.due = {}
    BY <1>4, <2>1 DEF DueInv
  <2>5. \A r, s : SameRun(r, s)' = SameRun(r, s)
    BY <1>4 DEF SameRun
  <2> HIDE DEF now
  <2> QED
    BY <1>1, <1>4, <2>2, <2>3, <2>4 DEF DueInv, SameRun
<1> QED
  BY <1>5, <1>6, <1>7, <1>8

LEMMA StoreVal ==
    ASSUME IndInv
    PROVE  /\ meta \in MetaVal /\ ItemVal(item) /\ IsFiniteSet(item)
           /\ mark \in SUBSET (Keys \X Versions) /\ IsFiniteSet(mark)
BY DEF IndInv, TypeOK, MetaVal, ItemVal, Finite

\* Removing elements keeps the rest as it was.
LEMMA FewerItems ==
    ASSUME ItemVal(item), IsFiniteSet(item), NEW its \in SUBSET item
    PROVE  ItemVal(its) /\ IsFiniteSet(its) /\ its \ item = {}
BY FS_Subset DEF ItemVal

LEMMA VersionIn == ASSUME NEW k \in Keys, NEW v \in 0..MaxVersion[k] PROVE v \in Versions
BY DEF Versions

LEMMA PutInv ==
    ASSUME IndInv, NEW x \in Slots, Put(x[1], x[2], x[3])
    PROVE  IndInv'
<1> DEFINE k == x[1]
           v == WriteVersion(k)
           m == [meta EXCEPT ![k] = Live(v)]
           new == <<Item, k, v, x[2], x[3]>>
           kept == item \ OfElement(k, v, x[3])
           its == kept \cup {new}
<1>1. k \in Keys /\ x[2] \in Nat /\ x[3] \in Nat /\ x = <<k, x[2], x[3]>>
  <2>1. x \in Keys \X Nat \X Nat
    BY ScanAssumption
  <2> QED
    BY <2>1
<1>2. v <= MaxVersion[k] /\ Written(m, its, mark)
  BY DEF Put
<1>3. v \in Versions
  <2>1. v \in Nat
    <3>1. meta[k] \in [st : {"absent", "live", "dead"}, ver : Versions]
      BY <1>1, StoreVal DEF MetaVal
    <3>2. meta[k].ver \in Nat
      BY <3>1, VersionsNat
    <3> QED
      BY <3>1, <3>2 DEF WriteVersion
  <2>2. MaxVersion[k] \in Nat
    BY <1>1, ScanAssumption
  <2> QED
    BY <1>1, <1>2, <2>1, <2>2, VersionIn
<1> HIDE DEF v, k
<1>4. m \in MetaVal
  BY <1>1, <1>3, StoreVal DEF MetaVal, Live
<1>5. ItemVal(kept) /\ IsFiniteSet(kept) /\ kept \ item = {}
  BY StoreVal, FewerItems
<1>6. /\ new \in {Item} \X Keys \X Versions \X Nat \X Nat /\ <<new[2], new[4], new[5]>> \in Slots
      /\ m[new[2]] = Live(new[3])
  BY <1>1, <1>3, StoreVal DEF MetaVal
<1> HIDE DEF new, kept
<1>7. ItemVal(its) /\ IsFiniteSet(its)
  BY <1>5, <1>6, FS_AddElement DEF ItemVal
<1>8. \A r \in its \ item : m[r[2]] = Live(r[3])
  BY <1>5, <1>6
<1> QED
  BY <1>2, <1>4, <1>7, <1>8, StoreVal, WrittenInv

LEMMA KilledInv ==
    ASSUME IndInv, NEW k \in Keys, NEW its \in SUBSET item, Killed(k, its)
    PROVE  IndInv'
<1> DEFINE m == [meta EXCEPT ![k].st = "dead"]
           mks == mark \cup {<<k, meta[k].ver>>}
<1>1. Written(m, its, mks)
  BY DEF Killed
<1>2. m \in MetaVal /\ meta[k].ver \in Versions
  BY StoreVal DEF MetaVal
<1>3. mks \in SUBSET (Keys \X Versions) /\ IsFiniteSet(mks)
  <2>1. <<k, meta[k].ver>> \in Keys \X Versions
    BY <1>2
  <2>2. mark \in SUBSET (Keys \X Versions) /\ IsFiniteSet(mark)
    BY StoreVal
  <2> QED
    BY <2>1, <2>2, FS_AddElement
<1>4. ItemVal(its) /\ IsFiniteSet(its) /\ its \ item = {}
  BY StoreVal, FewerItems
<1> HIDE DEF m, mks
<1> QED
  BY <1>1, <1>2, <1>3, <1>4, WrittenInv

LEMMA RemoveElementInv ==
    ASSUME IndInv, NEW k \in Keys, NEW e, RemoveElement(k, e)
    PROVE  IndInv'
<1> DEFINE its == item \ OfElement(k, meta[k].ver, e)
<1>1. Written(meta, its, mark) \/ Killed(k, its)
  BY DEF RemoveElement
<1>2. its \in SUBSET item
  OBVIOUS
<1>3. ItemVal(its) /\ IsFiniteSet(its) /\ its \ item = {}
  BY StoreVal, FewerItems
<1> HIDE DEF its
<1> QED
  BY <1>1, <1>2, <1>3, StoreVal, WrittenInv, KilledInv

LEMMA ReapInv ==
    ASSUME IndInv, NEW d \in Keys \X Versions, Reap(d)
    PROVE  IndInv'
<1> DEFINE m == IF meta[d[1]] = [st |-> "dead", ver |-> d[2]]
                THEN [meta EXCEPT ![d[1]] = [st |-> "absent", ver |-> 0]] ELSE meta
           its == {r \in item : r[2] # d[1] \/ r[3] # d[2]}
           mks == mark \ {d}
<1>1. Written(m, its, mks)
  BY DEF Reap
<1>2. 0 \in Versions
  BY ScanAssumption DEF Versions
<1>3. m \in MetaVal
  BY <1>2, StoreVal DEF MetaVal
<1>4. mks \in SUBSET (Keys \X Versions) /\ IsFiniteSet(mks)
  BY StoreVal, FS_Subset
<1>5. ItemVal(its) /\ IsFiniteSet(its) /\ its \ item = {}
  <2>1. its \in SUBSET item
    OBVIOUS
  <2> QED
    BY <2>1, StoreVal, FewerItems
<1> HIDE DEF m, its, mks
<1> QED
  BY <1>1, <1>3, <1>4, <1>5, WrittenInv

LEMMA WriteInv ==
    ASSUME IndInv, Write
    PROVE  IndInv'
<1>1. CASE \E s \in Slots : Put(s[1], s[2], s[3])
  BY <1>1, PutInv
<1>2. CASE \E k \in Keys : Del(k)
  BY <1>2, KilledInv DEF Del
<1>3. CASE \E k \in Collections, e \in {s[3] : s \in Slots} : RemoveElement(k, e)
  <2>1. Collections \subseteq Keys
    <3> SUFFICES ASSUME NEW s \in Slots PROVE s[1] \in Keys
      BY DEF Collections
    <3>1. s \in Keys \X Nat \X Nat
      BY ScanAssumption
    <3> QED
      BY <3>1
  <2> QED
    BY <1>3, <2>1, RemoveElementInv
<1>4. CASE \E d \in Keys \X Versions : Reap(d)
  BY <1>4, ReapInv
<1> QED
  BY <1>1, <1>2, <1>3, <1>4 DEF Write

----------------------------------------------------------------------------
(* The client, and the table of cursors *)

LEMMA StoreSame ==
    ASSUME TypeOK, Finite, UNCHANGED store
    PROVE  /\ meta' = meta /\ item' = item /\ mark' = mark /\ Finite'
           /\ (DOMAIN cursors' \subseteq 1..MaxCursor /\ walk'.pc \in {"idle", "call", "page", "done"}
               => TypeOK')
BY DEF TypeOK, Finite, store

LEMMA BeginInv ==
    ASSUME IndInv, NEW cmd, NEW k, NEW p, Begin(cmd, k, p),
           \/ cmd = "scan" /\ k = 0 /\ p \in Patterns
           \/ cmd = "hscan" /\ k \in Keys /\ p \in {h[2] : h \in HScans}
    PROVE  IndInv'
<1> USE DEF IndInv
<1> DEFINE w == [Idle EXCEPT !.pc = "call", !.cmd = cmd, !.key = k, !.pattern = p]
           new == {r \in InStore(w, meta, item) : Name(r) \in p}
<1>1. walk' = [w EXCEPT !.due = new] /\ UNCHANGED store /\ cursors' = cursors
  BY DEF Begin
<1>2. w.cmd = cmd /\ w.key = k
  BY DEF Idle
<1>3. new \in SUBSET Rec
  BY ItemRec, MetaRec DEF InStore
<1>4. InStore(walk, meta, item)' = InStore(w, meta, item)
  BY <1>1, <1>2, StoreSame DEF InStore, Idle
<1> HIDE DEF new
<1>5. /\ walk'.pc = "call" /\ walk'.cmd = cmd /\ walk'.key = k /\ walk'.pattern = p /\ walk'.cursor = 0
      /\ walk'.top = Nowhere /\ walk'.due = new /\ walk' \in WalkVal
  <2>1. walk' = [pc |-> "call", cmd |-> cmd, key |-> k, ver |-> 0, pattern |-> p, cursor |-> 0,
                 top |-> Nowhere, due |-> new, ever |-> {}, lost |-> FALSE]
    BY <1>1 DEF Idle
  <2>2. cmd \in {"scan", "hscan"} /\ k \in Keys \cup {0} /\ p \in {{}} \cup Patterns \cup {h[2] : h \in HScans}
    OBVIOUS
  <2>3. Nowhere \in Rec
    BY NowhereRec
  <2> QED
    BY <1>3, <2>1, <2>2, <2>3 DEF WalkVal
<1>6. TypeOK' /\ Finite' /\ Cursors' /\ WalkInv' /\ TopInv' /\ EverInv'
  BY <1>1, <1>5, StoreSame DEF TypeOK, Cursors, WalkInv, TopInv, EverInv
<1>7. DueInv'
  <2>1. \A r \in new : r \in InStore(w, meta, item) /\ Name(r) \in p
    BY DEF new
  <2> HIDE DEF w
  <2> QED
    BY <1>4, <1>5, <2>1 DEF DueInv
<1> QED
  BY <1>6, <1>7

LEMMA ReadMetaInv ==
    ASSUME IndInv, ReadMeta
    PROVE  IndInv'
<1> USE DEF IndInv
<1>1. walk.pc = "call" /\ walk.cmd = "hscan" /\ UNCHANGED store /\ cursors' = cursors
  BY DEF ReadMeta
<1>2. walk.key \in Keys /\ walk \in WalkVal
  BY <1>1 DEF WalkInv
<1> DEFINE now == InStore(walk, meta, item)
<1>3. now \in SUBSET Rec /\ meta[walk.key].ver \in Int
  <2>1. meta[walk.key].ver \in Versions
    BY <1>2 DEF TypeOK
  <2> QED
    <3>1. now \in SUBSET item
      BY <1>1 DEF InStore
    <3>2. \A r \in item : r \in Rec
      BY ItemRec
    <3>3. meta[walk.key].ver \in Nat
      BY <2>1, VersionsNat
    <3> HIDE DEF now
    <3> QED
      BY <3>1, <3>2, <3>3
<1>4. CASE meta[walk.key].st = "live"
  <2>1. walk' = [walk EXCEPT !.pc = "page", !.ver = meta[walk.key].ver, !.ever = now]
    BY <1>4 DEF ReadMeta
  <2>2. \A r \in item : r[2] = walk.key /\ r[3] = meta[walk.key].ver => r \in now
    BY <1>1, <1>4 DEF InStore
  <2>3. InStore(walk, meta, item)' = now /\ \A r \in now : r[3] = meta[walk.key].ver
    BY <1>1, <1>2, <2>1, StoreSame DEF InStore, WalkVal
  <2> HIDE DEF now
  <2>4. /\ walk'.pc = "page" /\ walk'.cmd = "hscan" /\ walk'.key = walk.key /\ walk'.pattern = walk.pattern
        /\ walk'.cursor = walk.cursor /\ walk'.top = walk.top /\ walk'.due = walk.due
        /\ walk'.ever = now /\ walk'.ver = meta[walk.key].ver /\ walk' \in WalkVal
    BY <1>1, <1>2, <1>3, <2>1 DEF WalkVal
  <2>5. TypeOK' /\ Finite' /\ Cursors' /\ WalkInv'
    BY <1>1, <1>2, <2>4, StoreSame DEF TypeOK, Cursors, WalkInv
  <2>6. TopInv' /\ EverInv'
    BY <1>1, <2>2, <2>4, StoreSame DEF TopInv, EverInv
  <2>7. DueInv'
    BY <1>1, <2>3, <2>4, StoreSame DEF DueInv, SameRun, now
  <2> QED
    BY <2>5, <2>6, <2>7
<1>5. CASE meta[walk.key].st # "live"
  <2>1. walk' = [walk EXCEPT !.pc = "done"]
    BY <1>5 DEF ReadMeta
  <2>2. walk.due = {}
    BY <1>1, <1>5 DEF DueInv, InStore
  <2>3. /\ walk'.pc = "done" /\ walk'.cmd = walk.cmd /\ walk'.key = walk.key /\ walk'.due = {}
        /\ walk' \in WalkVal
    BY <1>2, <2>1, <2>2 DEF WalkVal
  <2> QED
    BY <1>1, <1>2, <2>3, StoreSame DEF TypeOK, Cursors, WalkInv, TopInv, EverInv, DueInv
<1> QED
  BY <1>4, <1>5

\* What is returned comes after what was returned before.
LEMMA PageAfterTop ==
    ASSUME IndInv, Paging, NEW r \in Seen
    PROVE  walk.top \in Rec /\ Before(walk.top, r)
<1> USE DEF IndInv
<1>1. r \in Rec /\ r[1] >= 0 /\ ~Before(r, Start(walk)) /\ walk.top \in Rec
  BY SeenFacts, RecordsFacts DEF WalkInv, WalkVal
<1>2. CASE walk.top = Nowhere
  BY <1>1, <1>2, NowhereRec
<1>3. CASE walk.top # Nowhere
  <2>1. /\ walk.cursor # 0 /\ walk.cursor \in DOMAIN cursors
        /\ Before(walk.top, cursors[walk.cursor])
    BY <1>3 DEF TopInv, Paging
  <2>2. Start(walk) = cursors[walk.cursor] /\ Start(walk) \in Rec
    BY <2>1 DEF Start, FindElement, Cursors
  <2> QED
    BY <1>1, <2>1, <2>2, BeforeNotAfter
<1> QED
  BY <1>2, <1>3

\* Two records of a run are of the same kind.
LEMMA RunSame ==
    ASSUME NEW w, NEW rs, NEW r \in Run(w, rs), NEW q \in Run(w, rs)
    PROVE  r[1] = q[1] /\ (w.cmd # "scan" => r[2] = q[2] /\ r[3] = q[3])
BY DEF Run, Mine

LEMMA PageInv ==
    ASSUME IndInv, NEW count \in Counts, Page(count)
    PROVE  IndInv'
<1> USE DEF IndInv
<1>1. Paging /\ UNCHANGED store
  BY DEF Page
<1> DEFINE page == PageNow(count)
           got == Matching(walk, page.got)
           w == [walk EXCEPT !.due = @ \ got, !.ever = {}, !.top = IF got = {} THEN @ ELSE Greatest(got)]
<1>2. /\ page.end => walk' = [w EXCEPT !.pc = "done"] /\ cursors' = cursors
      /\ ~page.end => /\ NewCursor <= MaxCursor /\ AddCursor(NewCursor, page.next)
                      /\ walk' = [w EXCEPT !.pc = "call", !.cursor = NewCursor]
  BY DEF Page
<1>3. /\ page.got \subseteq Run(walk, Seen)
      /\ page.end \in BOOLEAN
      /\ page.end => page.got = Run(walk, Seen)
      /\ ~page.end => /\ page.next \in Run(walk, Seen)
                      /\ \A g \in page.got : Before(g, page.next)
                      /\ \A r \in Run(walk, Seen) \ page.got : ~Before(r, page.next)
  BY PageFacts
<1>4. Run(walk, Seen) \subseteq Seen /\ Seen \in SUBSET Rec /\ IsFiniteSet(Seen)
  BY SeenFacts DEF Run
<1>5. walk.due \subseteq Run(walk, Seen)
  BY <1>1, DueInRun
<1> HIDE DEF page
<1>6. got \in SUBSET page.got /\ got \in SUBSET Rec /\ IsFiniteSet(got)
  <2>1. got \in SUBSET page.got
    BY DEF Matching
  <2>2. got \in SUBSET Seen
    BY <1>3, <1>4, <2>1
  <2> QED
    BY <1>4, <2>1, <2>2, FS_Subset
<1>7. \A r \in walk.due : r \in page.got => r \in got
  BY DEF Matching, DueInv
<1> HIDE DEF got
<1>8. got # {} => Greatest(got) \in got
  BY <1>6, GreatestIs
<1>9. walk \in WalkVal /\ walk.pc \in {"call", "page"}
  BY <1>1 DEF WalkInv, Paging
<1> DEFINE top == IF got = {} THEN walk.top ELSE Greatest(got)
<1>10. top \in Rec
  BY <1>6, <1>8, <1>9 DEF WalkVal
<1>11. w = [walk EXCEPT !.due = walk.due \ got, !.ever = {}, !.top = top]
  BY <1>9 DEF WalkVal
<1> HIDE DEF w, top
<1>12. CASE page.end
  <2>1. walk' = [w EXCEPT !.pc = "done"] /\ cursors' = cursors
    BY <1>2, <1>12
  <2>2. walk.due \ got = {}
    BY <1>3, <1>5, <1>7, <1>12
  <2>3. /\ walk'.pc = "done" /\ walk'.cmd = walk.cmd /\ walk'.key = walk.key
        /\ walk'.due = {} /\ walk' \in WalkVal
    BY <1>9, <1>10, <1>11, <2>1, <2>2 DEF WalkVal
  <2>4. TypeOK' /\ Finite' /\ Cursors' /\ WalkInv'
    BY <1>1, <2>1, <2>3, StoreSame DEF TypeOK, Cursors, WalkInv
  <2>5. TopInv' /\ EverInv' /\ DueInv'
    BY <2>3 DEF TopInv, EverInv, DueInv
  <2> QED
    BY <2>4, <2>5
<1>13. CASE ~page.end
  <2> DEFINE n == NewCursor
  <2>1. /\ NewCursor <= MaxCursor /\ AddCursor(NewCursor, page.next)
        /\ walk' = [w EXCEPT !.pc = "call", !.cursor = n]
    BY <1>2, <1>13
  <2>2. page.next \in Seen /\ page.next \in Rec
    BY <1>3, <1>4, <1>13
  <2>3. /\ DOMAIN cursors' = DOMAIN cursors \cup {n}
        /\ DOMAIN cursors' \subseteq 1..MaxCursor /\ Cursors' /\ cursors'[n] = page.next
    BY <2>1, <2>2, AddCursorKeeps
  <2>4. n \in Nat \ {0}
    BY NewCursorIsNew
  <2> HIDE DEF n
  <2>5. /\ walk'.pc = "call" /\ walk'.cmd = walk.cmd /\ walk'.key = walk.key /\ walk'.cursor = n
        /\ walk'.pattern = walk.pattern /\ walk'.top = top /\ walk'.due = walk.due \ got /\ walk' \in WalkVal
    BY <1>9, <1>10, <1>11, <2>1, <2>4 DEF WalkVal
  <2>6. TypeOK' /\ Finite' /\ WalkInv' /\ EverInv'
    BY <1>1, <2>3, <2>5, StoreSame DEF WalkInv, EverInv
  <2>7. Before(top, page.next)
    <3>1. CASE got = {}
      BY <1>1, <2>2, <3>1, PageAfterTop DEF top
    <3>2. CASE got # {}
      BY <1>3, <1>6, <1>8, <1>13, <3>2 DEF top
    <3> QED
      BY <3>1, <3>2
  <2>8. TopInv'
    BY <2>3, <2>4, <2>5, <2>7 DEF TopInv
  <2>9. DueInv'
    <3> SUFFICES ASSUME NEW r \in walk.due \ got
                 PROVE  /\ (r \in InStore(walk, meta, item))' /\ Name(r) \in walk'.pattern
                        /\ r[1] = page.next[1] /\ ~Before(r, page.next)
                        /\ walk'.cmd = "hscan" => r[2] = page.next[2] /\ r[3] = page.next[3]
      BY <2>3, <2>4, <2>5 DEF DueInv, SameRun
    <3>1. r \in InStore(walk, meta, item) /\ Name(r) \in walk.pattern
      BY DEF DueInv
    <3>2. InStore(walk, meta, item)' = InStore(walk, meta, item)
      BY <1>1, <2>5, StoreSame DEF InStore
    <3>3. r \in Run(walk, Seen) /\ r \notin page.got
      BY <1>5, <1>7
    <3>4. r[1] = page.next[1] /\ (walk.cmd # "scan" => r[2] = page.next[2] /\ r[3] = page.next[3])
      BY <1>3, <1>13, <3>3, RunSame
    <3>5. (walk'.cmd = "hscan" => r[2] = page.next[2] /\ r[3] = page.next[3])
      BY <2>5, <3>4
    <3> QED
      BY <1>3, <1>13, <2>5, <3>1, <3>2, <3>3, <3>4, <3>5
  <2> QED
    BY <2>3, <2>6, <2>8, <2>9
<1> QED
  BY <1>3, <1>12, <1>13

LEMMA OtherCursorInv ==
    ASSUME IndInv, NEW k \in OtherAt, OtherCursor(k)
    PROVE  IndInv'
<1> USE DEF IndInv
<1>1. NewCursor <= MaxOther /\ AddCursor(NewCursor, MetaKey(k)) /\ UNCHANGED store /\ walk' = walk
  BY DEF OtherCursor
<1>2. MetaKey(k) \in Rec
  BY MetaRec, ScanAssumption
<1>3. NewCursor <= MaxCursor
  BY <1>1, NewCursorIsNew, ScanAssumption
<1>4. /\ DOMAIN cursors \subseteq DOMAIN cursors'
      /\ DOMAIN cursors' \subseteq 1..MaxCursor /\ Cursors'
      /\ \A c \in DOMAIN cursors : cursors'[c] = cursors[c]
  BY <1>1, <1>2, <1>3, AddCursorKeeps
<1>5. TypeOK' /\ Finite' /\ WalkInv' /\ EverInv'
  BY <1>1, <1>4, StoreSame DEF TypeOK, WalkInv, EverInv
<1>6. TopInv'
  BY <1>1, <1>4 DEF TopInv
<1>7. DueInv'
  BY <1>1, <1>4, StoreSame DEF DueInv, SameRun, InStore
<1> QED
  BY <1>4, <1>5, <1>6, <1>7

LEMMA ForgetInv ==
    ASSUME IndInv, Forget
    PROVE  IndInv'
<1> USE DEF IndInv
<1>1. PICK c \in DOMAIN cursors :
        /\ cursors' = [d \in {e \in DOMAIN cursors : e > c} |-> cursors[d]]
        /\ walk' = IF walk.cursor \in DOMAIN cursors /\ walk.cursor <= c
                   THEN [walk EXCEPT !.lost = TRUE, !.due = {}, !.top = Nowhere] ELSE walk
  BY DEF Forget
<1>2. UNCHANGED store /\ walk \in WalkVal
  BY DEF Forget, WalkInv
<1>3. /\ DOMAIN cursors' = {e \in DOMAIN cursors : e > c}
      /\ \A d \in DOMAIN cursors' : cursors'[d] = cursors[d]
  BY <1>1
<1>4. DOMAIN cursors' \subseteq 1..MaxCursor /\ Cursors'
  <2>1. DOMAIN cursors' \subseteq 1..MaxCursor
    BY <1>3 DEF TypeOK
  <2>2. Cursors'
    BY <1>1, <1>3 DEF Cursors
  <2> QED
    BY <2>1, <2>2
<1>5. CASE walk.cursor \in DOMAIN cursors /\ walk.cursor <= c
  <2>1. /\ walk'.pc = walk.pc /\ walk'.cmd = walk.cmd /\ walk'.key = walk.key /\ walk'.ver = walk.ver
        /\ walk'.ever = walk.ever /\ walk'.due = {} /\ walk'.top = Nowhere /\ walk' \in WalkVal
    <3>1. walk' = [walk EXCEPT !.lost = TRUE, !.due = {}, !.top = Nowhere] /\ Nowhere \in Rec
      BY <1>1, <1>5, NowhereRec
    <3> QED
      BY <1>2, <3>1 DEF WalkVal
  <2>2. TypeOK' /\ Finite'
    BY <1>2, <1>4, <2>1, StoreSame DEF TypeOK
  <2>3. WalkInv' /\ TopInv' /\ EverInv' /\ DueInv'
    BY <1>2, <2>1, StoreSame DEF WalkInv, TopInv, EverInv, DueInv
  <2> QED
    BY <1>4, <2>2, <2>3
<1>6. CASE ~(walk.cursor \in DOMAIN cursors /\ walk.cursor <= c)
  <2>1. walk' = walk
    BY <1>1, <1>6
  <2>2. walk.cursor \in DOMAIN cursors => walk.cursor \in DOMAIN cursors'
    <3>1. c \in Int /\ walk.cursor \in Int
      BY <1>2 DEF TypeOK, WalkVal
    <3> QED
      BY <1>3, <1>6, <3>1
  <2>3. TypeOK' /\ Finite' /\ WalkInv' /\ EverInv'
    BY <1>2, <1>4, <2>1, StoreSame DEF TypeOK, WalkInv, EverInv
  <2>4. TopInv'
    BY <1>3, <2>1, <2>2 DEF TopInv
  <2>5. DueInv'
    BY <1>2, <1>3, <2>1, <2>2, StoreSame DEF DueInv, SameRun, InStore
  <2> QED
    BY <1>4, <2>3, <2>4, <2>5
<1> QED
  BY <1>5, <1>6

----------------------------------------------------------------------------
(* The theorems *)

LEMMA InitInd == Init => IndInv
<1> SUFFICES ASSUME Init PROVE IndInv
  OBVIOUS
<1>1. 0 \in Versions \/ Keys = {}
  BY ScanAssumption DEF Versions
<1>2. TypeOK
  <2>1. meta \in [Keys -> [st : {"absent", "live", "dead"}, ver : Versions]]
    BY <1>1 DEF Init
  <2> QED
    BY <2>1 DEF Init, TypeOK, Idle
<1>3. Finite /\ Cursors
  BY FS_EmptySet DEF Init, Finite, Cursors
<1>4. WalkInv
  BY NowhereRec DEF Init, WalkInv, WalkVal, Idle
<1>5. TopInv /\ EverInv /\ DueInv
  BY DEF Init, TopInv, EverInv, DueInv, Idle
<1> QED
  BY <1>2, <1>3, <1>4, <1>5 DEF IndInv

LEMMA NextInd == IndInv /\ [Next]_vars => IndInv'
<1> SUFFICES ASSUME IndInv, [Next]_vars PROVE IndInv'
  OBVIOUS
<1>1. CASE Write
  BY <1>1, WriteInv
<1>2. CASE \E p \in Patterns : Begin("scan", 0, p)
  BY <1>2, BeginInv
<1>3. CASE \E h \in HScans : Begin("hscan", h[1], h[2])
  BY <1>3, BeginInv, ScanAssumption
<1>4. CASE Walk
  BY <1>4, ReadMetaInv, PageInv DEF Walk
<1>5. CASE \E k \in OtherAt : OtherCursor(k)
  BY <1>5, OtherCursorInv
<1>6. CASE Forget
  BY <1>6, ForgetInv
<1>7. CASE UNCHANGED vars
  <2>1. meta' = meta /\ item' = item /\ mark' = mark /\ cursors' = cursors /\ walk' = walk
    BY <1>7 DEF vars, store
  <2>2. TypeOK' /\ Finite' /\ Cursors' /\ WalkInv'
    BY <2>1 DEF IndInv, TypeOK, Finite, Cursors, WalkInv
  <2>3. TopInv' /\ EverInv' /\ DueInv'
    BY <2>1 DEF IndInv, TopInv, EverInv, DueInv, InStore, SameRun
  <2> QED
    BY <2>2, <2>3 DEF IndInv
<1> QED
  BY <1>1, <1>2, <1>3, <1>4, <1>5, <1>6, <1>7 DEF Next

\* What the iterations and the writers keep between them.
THEOREM IndInvHolds == Spec => []IndInv
BY InitInd, NextInd, PTL DEF Spec

\* The types, for any keys, slots, patterns and bounds.
THEOREM TypeCorrect == Spec => []TypeOK
<1>1. IndInv => TypeOK
  BY DEF IndInv
<1> QED
  BY <1>1, IndInvHolds, PTL

\* However many pages an iteration takes, and whatever is written between and
\* during the calls, it misses nothing that stays (doScanGeneric, HIterator,
\* SIterator, ZIterator, MIterator).
THEOREM ScanIsComplete == Spec => []ScanComplete
<1>1. IndInv => ScanComplete
  BY DEF IndInv, DueInv, ScanComplete
<1> QED
  BY <1>1, IndInvHolds, PTL

\* A page has nothing that was not there during its call, also when META is
\* overwritten between the two reads and when the cursor is now another
\* client's (hscan, sscan, zscan, scan).
THEOREM ReturnsOnlyWhatWas == Spec => []OnlyWhatWas
<1>1. IndInv => OnlyWhatWas
  <2> SUFFICES ASSUME IndInv, Paging, NEW count \in Counts, NEW r \in PageNow(count).got
               PROVE  r \in walk.ever \cup InStore(walk, meta, item)
    BY DEF OnlyWhatWas
  <2> USE DEF IndInv
  <2>1. r \in Run(walk, Seen)
    BY PageFacts
  <2>2. r \in Records /\ Mine(walk, r)
    BY <2>1, SeenFacts DEF Run
  <2>3. CASE walk.cmd = "scan"
    <3>1. PICK k \in Present : r = MetaKey(k)
      BY <2>2, <2>3, RecordsFacts DEF Mine
    <3> QED
      BY <2>3, <3>1 DEF InStore, Present
  <2>4. CASE walk.cmd # "scan"
    <3>1. r \in item /\ r[2] = walk.key /\ r[3] = walk.ver
      BY <2>2, <2>4, RecordsFacts DEF Mine
    <3> QED
      BY <2>4, <3>1 DEF Paging, EverInv
  <2> QED
    BY <2>3, <2>4
<1> QED
  BY <1>1, IndInvHolds, PTL

\* Each page goes on after the last record of the pages before it, so no record
\* is returned twice (doScanGeneric).
THEOREM PagesAreInOrder == Spec => []InOrder
<1>1. IndInv => InOrder
  <2> SUFFICES ASSUME IndInv, Paging, NEW count \in Counts, NEW r \in PageNow(count).got
               PROVE  Before(walk.top, r)
    BY DEF InOrder
  <2>1. r \in Run(walk, Seen)
    BY PageFacts DEF IndInv
  <2>2. r \in Seen
    BY <2>1 DEF Run
  <2> QED
    BY <2>2, PageAfterTop
<1> QED
  BY <1>1, IndInvHolds, PTL
=============================================================================
