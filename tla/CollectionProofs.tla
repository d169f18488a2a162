-------------------------- MODULE CollectionProofs --------------------------
(* Sorted sets, hashes and sets.  A sorted set's three kinds of records agree *)
(* after every command, the length of a hash or a set counts its records, and *)
(* the commands that write and those that read do to the key what the maps of *)
(* ZsetAbs and HashAbs promise, for any members, fields, scores and values.   *)
EXTENDS Zset, HashSet, RankTheorems, SequenceTheorems

ZIndInv == ZTypeOK /\ ZsetAgrees /\ ZUnusedClean

----------------------------------------------------------------------------
(* The order of the keys *)

Keyed == Int \X Int
LessOn(S) == {p \in S \X S : Less(p[1], p[2])}

LEMMA LessOrders ==
    ASSUME NEW S \in SUBSET Keyed
    PROVE  /\ \A a, b \in S : <<a, b>> \in LessOn(S) <=> Less(a, b)
           /\ StrictOrder(LessOn(S), S) /\ TotalOn(LessOn(S), S)
<1>1. \A a, b \in S : <<a, b>> \in LessOn(S) <=> Less(a, b)
  BY DEF LessOn
<1>2. \A a \in S : a[1] \in Int /\ a[2] \in Int /\ a = <<a[1], a[2]>>
  BY DEF Keyed
<1>3. \A a \in S : ~Less(a, a)
  BY <1>2 DEF Less
<1>4. \A a, b, c \in S : Less(a, b) /\ Less(b, c) => Less(a, c)
  BY <1>2 DEF Less
<1>5. \A a, b \in S : a = b \/ Less(a, b) \/ Less(b, a)
  BY <1>2 DEF Less
<1> QED
  BY <1>1, <1>3, <1>4, <1>5 DEF StrictOrder, TotalOn

\* A finite set of keys in their order: all of them, each once.
LEMMA OrderedFacts ==
    ASSUME NEW S \in SUBSET Keyed, IsFiniteSet(S)
    PROVE  /\ Cardinality(S) \in Nat
           /\ Ordered(S) \in [1..Cardinality(S) -> S]
           /\ Ordered(S) \in Seq(S) /\ Len(Ordered(S)) = Cardinality(S)
           /\ \A r \in S : \E i \in 1..Cardinality(S) : Ordered(S)[i] = r
           /\ \A i, j \in 1..Cardinality(S) : i < j => Less(Ordered(S)[i], Ordered(S)[j])
<1> DEFINE n == Cardinality(S)
           R == LessOn(S)
           o == Ordered(S)
<1>1. n \in Nat
  BY FS_CardinalityType
<1>2. StrictOrder(R, S) /\ TotalOn(R, S) /\ \A a, b \in S : <<a, b>> \in R <=> Less(a, b)
  BY LessOrders
<1>3. \A r \in S : Cardinality({q \in S : Less(q, r)}) = RankOf(R, S, r)
  <2> SUFFICES ASSUME NEW r \in S PROVE {q \in S : Less(q, r)} = Lower(R, S, r)
    BY DEF RankOf
  <2> QED
    BY <1>2 DEF Lower
<1>4. \A r \in S : RankOf(R, S, r) \in 0..(n - 1)
  BY <1>2, RankRange
<1> HIDE DEF R, n
<1>5. ASSUME NEW i \in 1..n
      PROVE  o[i] \in S /\ RankOf(R, S, o[i]) = i - 1
  <2>1. i - 1 \in 0..(Cardinality(S) - 1)
    BY <1>1 DEF n
  <2>2. \E r \in S : Cardinality({q \in S : Less(q, r)}) = i - 1
    BY <1>2, <1>3, <2>1, RankOnto
  <2>3. o[i] = CHOOSE r \in S : Cardinality({q \in S : Less(q, r)}) = i - 1
    BY DEF Ordered, n
  <2> HIDE DEF o
  <2>4. o[i] \in S /\ Cardinality({q \in S : Less(q, o[i])}) = i - 1
    BY <2>2, <2>3
  <2> QED
    BY <1>3, <2>4
<1>6. o \in [1..n -> S] /\ o \in Seq(S) /\ Len(o) = n
  <2> DEFINE C(i) == CHOOSE r \in S : Cardinality({q \in S : Less(q, r)}) = i - 1
  <2>1. o = [i \in 1..n |-> C(i)]
    BY DEF Ordered, n
  <2> HIDE DEF C
  <2> HIDE DEF o
  <2> QED
    BY <1>1, <1>5, <2>1
<1> HIDE DEF o
<1>7. ASSUME NEW r \in S
      PROVE  \E i \in 1..n : o[i] = r
  <2> DEFINE k == RankOf(R, S, r) + 1
  <2>1. k \in 1..n /\ k - 1 = RankOf(R, S, r)
    BY <1>1, <1>4
  <2>2. o[k] \in S /\ RankOf(R, S, o[k]) = RankOf(R, S, r)
    BY <1>5, <2>1
  <2>3. o[k] = r
    BY <1>2, <2>2, RankInjective
  <2> QED
    BY <2>1, <2>3
<1>8. ASSUME NEW i \in 1..n, NEW j \in 1..n, i < j
      PROVE  Less(o[i], o[j])
  <2>1. o[i] \in S /\ o[j] \in S /\ RankOf(R, S, o[i]) = i - 1 /\ RankOf(R, S, o[j]) = j - 1
    BY <1>5
  <2>2. o[i] # o[j]
    BY <1>8, <2>1
  <2>3. <<o[j], o[i]>> \notin R
    <3> SUFFICES ASSUME <<o[j], o[i]>> \in R PROVE FALSE
      OBVIOUS
    <3>1. RankOf(R, S, o[j]) < RankOf(R, S, o[i])
      BY <1>2, <2>1, RankGrows
    <3> QED
      BY <1>8, <2>1, <3>1
  <2> QED
    BY <1>2, <2>1, <2>2, <2>3 DEF TotalOn
<1> QED
  BY <1>1, <1>6, <1>7, <1>8 DEF o, n

----------------------------------------------------------------------------
(* One version's records *)

ItemMaps == [Members -> Scores \cup {NoScore}]
Scored(f) == {m \in Members : f[m] # NoScore}
KeysOf(f) == {<<f[m], m>> : m \in Scored(f)}

LEMMA ThereFinite ==
    ASSUME NEW f
    PROVE  /\ IsFiniteSet(Scored(f)) /\ Cardinality(Scored(f)) \in Nat
           /\ (Cardinality(Scored(f)) = 0 <=> Scored(f) = {})
<1>1. IsFiniteSet(Scored(f))
  BY ZsetAssumption, FS_Subset DEF Scored
<1> QED
  BY <1>1, FS_CardinalityType, FS_EmptySet

\* The pairs of members have as many as the members.
LEMMA PairsCount ==
    ASSUME NEW f, NEW S, IsFiniteSet(S)
    PROVE  LET T == {<<f[m], m>> : m \in S} IN IsFiniteSet(T) /\ Cardinality(T) = Cardinality(S)
<1> DEFINE T == {<<f[m], m>> : m \in S}
           g == [m \in S |-> <<f[m], m>>]
<1>1. g \in Bijection(S, T)
  BY DEF Bijection, Injection, Surjection, IsInjective
<1> HIDE DEF g, T
<1>2. IsFiniteSet(T) /\ Cardinality(T) = Cardinality(S)
  BY <1>1, FS_Bijection DEF ExistsBijection
<1> QED
  BY <1>2 DEF T

LEMMA ScoresInt ==
    /\ \A s \in Scores : s \in Int /\ -Inf <= s /\ s <= Inf
    /\ \A m \in Members : m \in Nat /\ m \in Int
    /\ Inf \in Int /\ Inf > 0
<1>1. Inf \in Int /\ Inf > 0
  BY ZsetAssumption
<1>2. \A m \in Members : m \in Nat
  BY ZsetAssumption
<1> QED
  BY <1>1, <1>2 DEF Scores

LEMMA KeysOfFacts ==
    ASSUME NEW f \in ItemMaps
    PROVE  /\ KeysOf(f) \in SUBSET Pairs /\ KeysOf(f) \in SUBSET Keyed
           /\ IsFiniteSet(KeysOf(f)) /\ Cardinality(KeysOf(f)) = Cardinality(Scored(f))
<1>1. \A m \in Scored(f) : m \in Members /\ f[m] \in Scores
  BY DEF Scored, ItemMaps
<1>2. KeysOf(f) \in SUBSET Pairs /\ KeysOf(f) \in SUBSET Keyed
  <2> SUFFICES ASSUME NEW m \in Scored(f) PROVE <<f[m], m>> \in Pairs /\ <<f[m], m>> \in Keyed
    BY DEF KeysOf
  <2>1. m \in Members /\ f[m] \in Scores /\ m \in Int /\ f[m] \in Int
    BY <1>1, ScoresInt
  <2> QED
    BY <2>1 DEF Pairs, Keyed
<1> QED
  BY <1>2, PairsCount, ThereFinite DEF KeysOf

LEMMA InSetIs == ASSUME NEW v PROVE InSet(v) = Scored(zitem[v])
BY DEF InSet, Scored

\* What the invariant says of the live version, and of an unused one
LEMMA LiveFacts ==
    ASSUME ZIndInv, ZFound
    PROVE  /\ zmeta.ver \in ZVersions /\ zitem[zmeta.ver] \in ItemMaps
           /\ zscore[zmeta.ver] = KeysOf(zitem[zmeta.ver])
           /\ zmeta.len = Cardinality(Scored(zitem[zmeta.ver])) /\ zmeta.len \in Nat \ {0}
<1>1. zmeta.ver \in ZVersions /\ zmeta.len \in Nat
  BY DEF ZIndInv, ZTypeOK
<1>2. zitem[zmeta.ver] \in ItemMaps
  BY <1>1 DEF ZIndInv, ZTypeOK, ItemMaps
<1> QED
  BY <1>1, <1>2, InSetIs DEF ZIndInv, ZsetAgrees, KeysOf

LEMMA UnusedFacts ==
    ASSUME ZIndInv, ZNextVersion <= MaxZVersion
    PROVE  /\ ZNextVersion \in ZVersions /\ zitem[ZNextVersion] \in ItemMaps
           /\ Scored(zitem[ZNextVersion]) = {} /\ zscore[ZNextVersion] = {}
           /\ ZNextVersion > zmeta.ver \/ zmeta.st = "absent"
           /\ \A m \in Members : zitem[ZNextVersion][m] = NoScore
<1>1. zmeta.ver \in 0..MaxZVersion /\ MaxZVersion \in Nat
  BY ZsetAssumption DEF ZIndInv, ZTypeOK, ZVersions
<1>2. ZNextVersion \in ZVersions /\ (ZNextVersion > zmeta.ver \/ zmeta.st = "absent")
  BY <1>1 DEF ZNextVersion, ZVersions
<1>3. zitem[ZNextVersion] \in ItemMaps
  BY <1>2 DEF ZIndInv, ZTypeOK, ItemMaps
<1>4. Scored(zitem[ZNextVersion]) = {} /\ zscore[ZNextVersion] = {}
  BY <1>2, InSetIs DEF ZIndInv, ZUnusedClean
<1> QED
  BY <1>2, <1>3, <1>4 DEF Scored

----------------------------------------------------------------------------
(* The batch *)

PickedOK == picked = <<>> \/ picked \in [{1} -> SUBSET Members]

\* A batch that writes ITEM and ZSCORE records that agree, and adds to the
\* length what the set grows by: the records agree with META after it, and the
\* set is what was written.
LEMMA CommitInv ==
    ASSUME ZIndInv, NEW zv,
           \/ ZFound /\ zv = zmeta
           \/ zv = ZLive(0, ZNextVersion) /\ ZNextVersion <= MaxZVersion,
           NEW its \in ItemMaps, NEW incr \in Int, NEW reply,
           zv.len + incr = Cardinality(Scored(its)),
           incr = 0 => (ZFound /\ zv = zmeta) \/ (~ZFound /\ Scored(its) = {} /\ its = zitem[zv.ver]),
           ZCommit(zv, its, KeysOf(its), incr, reply), PickedOK'
    PROVE  ZIndInv' /\ Map' = its /\ zout' = reply
<1> DEFINE n == Cardinality(Scored(its))
<1>1. n \in Nat /\ (n = 0 <=> Scored(its) = {})
  BY ThereFinite
<1>2. /\ zmeta \in [st : {"absent", "live", "dead"}, len : Nat, ver : ZVersions]
      /\ zitem \in [ZVersions -> ItemMaps] /\ zscore \in [ZVersions -> SUBSET Pairs]
  BY DEF ZIndInv, ZTypeOK, ItemMaps
<1>3. /\ zv.len \in Nat /\ zv.ver \in ZVersions
      /\ zv.ver > zmeta.ver \/ zmeta.st = "absent" \/ zv.ver = zmeta.ver
  BY <1>2, UnusedFacts DEF ZLive
<1>4. /\ zmeta' = IncrZsize(zv, incr) /\ IncrZsize(zv, incr).st # "error"
      /\ zitem' = [zitem EXCEPT ![zv.ver] = its]
      /\ zscore' = [zscore EXCEPT ![zv.ver] = KeysOf(its)]
      /\ zout' = reply
  <2>1. IncrZsize(zv, incr).st # "error"
    <3>1. ~(zv.len + incr < 0)
      BY <1>1
    <3> QED
      BY <1>2, <3>1 DEF IncrZsize, ZDead, ZLive
  <2> QED
    BY <2>1 DEF ZCommit, ZSizeError
<1>5. KeysOf(its) \in SUBSET Pairs
  BY KeysOfFacts
<1>6. /\ zitem' \in [ZVersions -> ItemMaps] /\ zscore' \in [ZVersions -> SUBSET Pairs]
      /\ zitem'[zv.ver] = its /\ zscore'[zv.ver] = KeysOf(its)
      /\ \A v \in ZVersions : v # zv.ver => zitem'[v] = zitem[v] /\ zscore'[v] = zscore[v]
  BY <1>2, <1>3, <1>4, <1>5
<1>7. /\ zmeta' \in [st : {"absent", "live", "dead"}, len : Nat, ver : ZVersions]
      /\ \/ zmeta' = zmeta /\ incr = 0
         \/ zmeta' = ZDead(zv.ver) /\ n = 0 /\ incr # 0
         \/ zmeta' = ZLive(n, zv.ver) /\ n # 0 /\ incr # 0
  <2>1. CASE incr = 0
    BY <1>2, <1>4, <2>1 DEF IncrZsize
  <2>2. CASE incr # 0 /\ n = 0
    BY <1>3, <1>4, <2>2 DEF IncrZsize, ZDead
  <2>3. CASE incr # 0 /\ n # 0
    BY <1>1, <1>3, <1>4, <2>3 DEF IncrZsize, ZLive
  <2> QED
    BY <2>1, <2>2, <2>3
<1> HIDE DEF n
<1>8. ZTypeOK'
  BY <1>6, <1>7 DEF ZTypeOK, ItemMaps, PickedOK
<1>9. \A v \in ZVersions : InSet(v)' = Scored(zitem'[v])
  BY DEF InSet, Scored
<1>10. \A v \in ZVersions : v > zmeta.ver \/ zmeta.st = "absent" => Scored(zitem[v]) = {} /\ zscore[v] = {}
  BY InSetIs DEF ZIndInv, ZUnusedClean
<1>11. CASE ZFound /\ zv = zmeta
  <2>1. zmeta.st = "live" /\ zmeta.ver = zv.ver
    BY <1>11 DEF ZFound
  <2>2. zmeta'.ver = zv.ver /\ zmeta'.st # "absent"
    BY <1>7, <2>1 DEF ZDead, ZLive
  <2>3. zmeta'.st = "live" => zmeta'.len = n /\ n # 0
    <3>1. CASE zmeta' = zmeta /\ incr = 0
      BY <1>3, <1>11, <3>1, LiveFacts DEF n
    <3> QED
      BY <1>7, <3>1 DEF ZDead, ZLive
  <2>4. ZsetAgrees'
    <3> SUFFICES ASSUME zmeta'.st = "live"
                 PROVE  /\ zscore'[zv.ver] = {<<zitem'[zv.ver][m], m>> : m \in Scored(zitem'[zv.ver])}
                        /\ zmeta'.len = Cardinality(Scored(zitem'[zv.ver])) /\ zmeta'.len # 0
      BY <1>3, <1>9, <2>2 DEF ZsetAgrees, ZFound
    <3> QED
      BY <1>6, <2>3 DEF KeysOf, n
  <2>5. ZUnusedClean'
    <3> SUFFICES ASSUME NEW v \in ZVersions, v > zv.ver
                 PROVE  Scored(zitem'[v]) = {} /\ zscore'[v] = {}
      BY <1>9, <2>2 DEF ZUnusedClean
    <3>1. v # zv.ver /\ v > zmeta.ver
      BY <1>3, <2>1 DEF ZVersions
    <3> QED
      BY <1>6, <1>10, <3>1
  <2>6. Map' = its
    <3>1. CASE zmeta'.st = "live"
      BY <1>6, <2>2, <3>1 DEF Map, ZFound
    <3>2. CASE zmeta'.st # "live"
      <4>1. Scored(its) = {}
        BY <1>1, <1>7, <2>1, <3>2 DEF ZLive, n
      <4>2. its = [m \in Members |-> NoScore]
        BY <4>1 DEF Scored, ItemMaps
      <4> QED
        BY <3>2, <4>2 DEF Map, ZFound
    <3> QED
      BY <3>1, <3>2
  <2> QED
    BY <1>4, <1>8, <2>4, <2>5, <2>6 DEF ZIndInv
<1>12. CASE zv = ZLive(0, ZNextVersion) /\ ZNextVersion <= MaxZVersion /\ incr # 0
  <2>1. zv.ver = ZNextVersion /\ zv.len = 0 /\ incr = n
    BY <1>1, <1>12 DEF ZLive, n
  <2>2. zmeta' = ZLive(n, zv.ver) /\ n # 0
    BY <1>7, <1>12, <2>1
  <2>3. zmeta'.st = "live" /\ zmeta'.len = n /\ zmeta'.ver = zv.ver
    BY <2>2 DEF ZLive
  <2>4. ZsetAgrees'
    <3> SUFFICES /\ zscore'[zv.ver] = {<<zitem'[zv.ver][m], m>> : m \in Scored(zitem'[zv.ver])}
                 /\ zmeta'.len = Cardinality(Scored(zitem'[zv.ver])) /\ zmeta'.len # 0
      BY <1>3, <1>9, <2>3 DEF ZsetAgrees, ZFound
    <3> QED
      BY <1>6, <2>2, <2>3 DEF KeysOf, n
  <2>5. ZUnusedClean'
    <3> SUFFICES ASSUME NEW v \in ZVersions, v > zv.ver
                 PROVE  Scored(zitem'[v]) = {} /\ zscore'[v] = {}
      BY <1>9, <2>3 DEF ZUnusedClean
    <3>1. v # zv.ver /\ (v > zmeta.ver \/ zmeta.st = "absent")
      BY <1>2, <1>3 DEF ZVersions
    <3> QED
      BY <1>6, <1>10, <3>1
  <2>6. Map' = its
    BY <1>6, <2>3 DEF Map, ZFound
  <2> QED
    BY <1>4, <1>8, <2>4, <2>5, <2>6 DEF ZIndInv
<1>13. CASE incr = 0 /\ ~(ZFound /\ zv = zmeta)
  <2>1. ~ZFound /\ Scored(its) = {} /\ its = zitem[zv.ver] /\ zv.ver = ZNextVersion /\ ZNextVersion <= MaxZVersion
    BY <1>13 DEF ZLive
  <2>2. KeysOf(its) = zscore[zv.ver]
    BY <2>1, UnusedFacts DEF KeysOf
  <2>3. zmeta' = zmeta /\ zitem' = zitem /\ zscore' = zscore
    BY <1>2, <1>4, <1>7, <1>13, <2>1, <2>2
  <2>4. ZsetAgrees' /\ ZUnusedClean'
    BY <2>3 DEF ZIndInv, ZsetAgrees, ZUnusedClean, InSet, ZFound
  <2>5. its = [m \in Members |-> NoScore]
    BY <2>1 DEF Scored, ItemMaps
  <2>6. Map' = its
    BY <2>1, <2>3, <2>5 DEF Map, ZFound
  <2> QED
    BY <1>4, <1>8, <2>4, <2>6 DEF ZIndInv
<1> QED
  BY <1>11, <1>12, <1>13

----------------------------------------------------------------------------
(* ZADD, ZINCRBY, RESTORE *)

\* The records a command works on: the live ones, or none, of a version that was
\* not used.
Base(zv) ==
    \/ ZFound /\ zv = zmeta
    \/ zv = ZLive(0, ZNextVersion) /\ ZNextVersion <= MaxZVersion

LEMMA BaseFacts ==
    ASSUME ZIndInv, NEW zv, Base(zv)
    PROVE  /\ zv.ver \in ZVersions /\ zitem[zv.ver] \in ItemMaps
           /\ zscore[zv.ver] = KeysOf(zitem[zv.ver])
           /\ zv.len = Cardinality(Scored(zitem[zv.ver])) /\ zv.len \in Nat
           /\ \A m \in Members : OldScore(zv, m) = zitem[zv.ver][m]
           /\ ~(ZFound /\ zv = zmeta) => Scored(zitem[zv.ver]) = {}
<1>1. CASE ZFound /\ zv = zmeta
  BY <1>1, LiveFacts DEF OldScore
<1>2. CASE zv = ZLive(0, ZNextVersion) /\ ZNextVersion <= MaxZVersion
  <2>1. zv.ver = ZNextVersion /\ zv.len = 0
    BY <1>2 DEF ZLive
  <2>2. /\ ZNextVersion \in ZVersions /\ zitem[ZNextVersion] \in ItemMaps
        /\ Scored(zitem[ZNextVersion]) = {} /\ zscore[ZNextVersion] = {}
        /\ \A m \in Members : zitem[ZNextVersion][m] = NoScore
    BY <1>2, UnusedFacts
  <2>3. Cardinality(Scored(zitem[ZNextVersion])) = 0
    BY <2>2, ThereFinite
  <2>4. \A m \in Members : OldScore(zv, m) = zitem[zv.ver][m]
    BY <2>1, <2>2 DEF OldScore
  <2> QED
    BY <2>1, <2>2, <2>3, <2>4 DEF KeysOf
<1> QED
  BY <1>1, <1>2 DEF Base

Put(zv, new, flags) == Added(zv, new, flags) \cup Updated(zv, new, flags)
After(zv, new, flags) ==
    [m \in Members |-> IF m \in Put(zv, new, flags) THEN new[m] ELSE zitem[zv.ver][m]]
KeysAfter(zv, new, flags) ==
    (zscore[zv.ver] \ {<<OldScore(zv, m), m>> : m \in Put(zv, new, flags)})
    \cup {<<new[m], m>> : m \in Put(zv, new, flags)}

\* What is written, and how many are new
LEMMA AfterFacts ==
    ASSUME ZIndInv, NEW zv, Base(zv), NEW D \in SUBSET Members, NEW new \in [D -> Scores], NEW flags
    PROVE  /\ Put(zv, new, flags) \in SUBSET D /\ Added(zv, new, flags) \in SUBSET D
           /\ After(zv, new, flags) \in ItemMaps
           /\ KeysAfter(zv, new, flags) = KeysOf(After(zv, new, flags))
           /\ Scored(After(zv, new, flags)) = Scored(zitem[zv.ver]) \cup Added(zv, new, flags)
           /\ Scored(zitem[zv.ver]) \cap Added(zv, new, flags) = {}
           /\ IsFiniteSet(Added(zv, new, flags)) /\ Cardinality(Added(zv, new, flags)) \in Nat
           /\ zv.len + Cardinality(Added(zv, new, flags)) = Cardinality(Scored(After(zv, new, flags)))
<1> DEFINE put == Put(zv, new, flags)
           f == After(zv, new, flags)
           added == Added(zv, new, flags)
           base == zitem[zv.ver]
           old == {<<OldScore(zv, m), m>> : m \in put}
<1>1. /\ base \in ItemMaps /\ zscore[zv.ver] = KeysOf(base)
      /\ zv.len = Cardinality(Scored(base)) /\ \A m \in Members : OldScore(zv, m) = base[m]
  BY BaseFacts
<1>2. put \in SUBSET D /\ added \in SUBSET D /\ put \in SUBSET Members /\ added \in SUBSET Members
      /\ added \in SUBSET put
  BY DEF Put, Added, Updated
<1>3. \A m \in put : new[m] \in Scores /\ new[m] # NoScore
  BY <1>2, ZsetAssumption
<1>4. \A m \in Members : (m \in added => base[m] = NoScore) /\ (m \in put /\ m \notin added => base[m] # NoScore)
  BY <1>1, <1>2 DEF Put, Added, Updated
<1> HIDE DEF put, added, base
<1>5. f \in ItemMaps /\ \A m \in Members : f[m] = IF m \in put THEN new[m] ELSE base[m]
  BY <1>1, <1>3 DEF After, ItemMaps, put, base
<1> HIDE DEF f
<1>6. KeysAfter(zv, new, flags) = KeysOf(f)
  <2> DEFINE L == (zscore[zv.ver] \ old) \cup {<<new[m], m>> : m \in put}
  <2>1. ASSUME NEW p \in L PROVE p \in KeysOf(f)
    <3>1. CASE p \in {<<new[m], m>> : m \in put}
      <4>1. PICK m \in put : p = <<new[m], m>>
        BY <3>1
      <4>2. m \in Scored(f) /\ f[m] = new[m]
        BY <1>2, <1>3, <1>5, <4>1 DEF Scored
      <4> QED
        BY <4>1, <4>2 DEF KeysOf
    <3>2. CASE p \in KeysOf(base) /\ p \notin old
      <4>1. PICK m \in Scored(base) : p = <<base[m], m>>
        BY <3>2 DEF KeysOf
      <4>2. m \notin put
        BY <1>1, <1>2, <3>2, <4>1
      <4>3. m \in Scored(f) /\ f[m] = base[m]
        BY <1>5, <4>1, <4>2 DEF Scored
      <4> QED
        BY <4>1, <4>3 DEF KeysOf
    <3> QED
      BY <1>1, <3>1, <3>2
  <2>2. ASSUME NEW p \in KeysOf(f) PROVE p \in L
    <3>1. PICK m \in Scored(f) : p = <<f[m], m>>
      BY DEF KeysOf
    <3>2. CASE m \in put
      BY <1>2, <1>5, <3>1, <3>2
    <3>3. CASE m \notin put
      <4>1. m \in Scored(base) /\ p = <<base[m], m>>
        BY <1>5, <3>1, <3>3 DEF Scored
      <4>2. p \in KeysOf(base)
        BY <4>1 DEF KeysOf
      <4>3. p \notin old
        BY <3>3, <4>1
      <4> QED
        BY <1>1, <4>2, <4>3
    <3> QED
      BY <3>2, <3>3
  <2> HIDE DEF L
  <2>3. L = KeysOf(f)
    BY <2>1, <2>2
  <2> QED
    BY <2>3 DEF L, KeysAfter, put
<1>7. Scored(f) = Scored(base) \cup added /\ Scored(base) \cap added = {}
  BY <1>2, <1>3, <1>4, <1>5 DEF Scored
<1>8. IsFiniteSet(added) /\ Cardinality(added) \in Nat
  BY <1>2, ZsetAssumption, FS_Subset, FS_CardinalityType
<1>9. zv.len + Cardinality(added) = Cardinality(Scored(f))
  <2>1. /\ IsFiniteSet(Scored(base)) /\ Cardinality(Scored(base)) \in Nat
        /\ Cardinality(Scored(f))
           = Cardinality(Scored(base)) + Cardinality(added) - Cardinality(Scored(base) \cap added)
    BY <1>7, <1>8, ThereFinite, FS_Union
  <2>2. Cardinality(Scored(base) \cap added) = 0
    BY <1>7, FS_EmptySet
  <2> QED
    BY <1>1, <1>8, <2>1, <2>2
<1> QED
  BY <1>2, <1>5, <1>6, <1>7, <1>8, <1>9 DEF put, added, base, f

LEMMA ZsetOneInv ==
    ASSUME ZIndInv, NEW zv, Base(zv), NEW D \in SUBSET Members, NEW new \in [D -> Scores], NEW flags, NEW reply,
           ~(ZFound /\ zv = zmeta) /\ Cardinality(Added(zv, new, flags)) = 0 => ~ZFound,
           ZsetOne(zv, new, flags, Cardinality(Added(zv, new, flags)), reply), PickedOK'
    PROVE  ZIndInv' /\ Map' = After(zv, new, flags) /\ zout' = reply
<1> DEFINE incr == Cardinality(Added(zv, new, flags))
           f == After(zv, new, flags)
<1>1. /\ f \in ItemMaps /\ incr \in Nat /\ zv.len + incr = Cardinality(Scored(f))
      /\ KeysAfter(zv, new, flags) = KeysOf(f)
  BY AfterFacts
<1>2. ZCommit(zv, f, KeysOf(f), incr, reply)
  <2>1. ZCommit(zv, f, KeysAfter(zv, new, flags), incr, reply)
    BY DEF ZsetOne, After, Put, KeysAfter
  <2> QED
    BY <1>1, <2>1
<1>3. incr = 0 => (ZFound /\ zv = zmeta) \/ (~ZFound /\ Scored(f) = {} /\ f = zitem[zv.ver])
  <2> SUFFICES ASSUME incr = 0, ~(ZFound /\ zv = zmeta)
               PROVE  Scored(f) = {} /\ f = zitem[zv.ver]
    OBVIOUS
  <2>1. Added(zv, new, flags) = {}
    BY AfterFacts, FS_EmptySet
  <2>2. Scored(zitem[zv.ver]) = {} /\ zitem[zv.ver] \in ItemMaps /\ \A m \in Members : OldScore(zv, m) = zitem[zv.ver][m]
    BY BaseFacts
  <2>3. Updated(zv, new, flags) = {}
    BY <2>2 DEF Updated, Scored
  <2>4. f = zitem[zv.ver]
    BY <2>1, <2>2, <2>3 DEF After, Put, ItemMaps
  <2> QED
    BY <2>2, <2>4
<1> HIDE DEF f, incr
<1>4. ZIndInv' /\ Map' = f /\ zout' = reply
  BY <1>1, <1>2, <1>3, CommitInv DEF Base
<1> QED
  BY <1>4 DEF f

Named(pairs) == {pairs[i][2] : i \in DOMAIN pairs}
Of(pairs, m) == {i \in DOMAIN pairs : pairs[i][2] = m}

\* The pair that counts is the first or the last one of its member.
LEMMA SortedSetFacts ==
    ASSUME NEW pairs \in Seq(Scores \X Members), NEW nx \in BOOLEAN
    PROVE  /\ Named(pairs) \in SUBSET Members
           /\ SortedSet(pairs, nx) \in [Named(pairs) -> Scores]
           /\ \A m \in Named(pairs) :
                 \E i \in Of(pairs, m) : /\ SortedSet(pairs, nx)[m] = pairs[i][1]
                                         /\ \A j \in Of(pairs, m) : IF nx THEN i <= j ELSE j <= i
<1>1. DOMAIN pairs = 1..Len(pairs) /\ Len(pairs) \in Nat /\ \A i \in DOMAIN pairs : pairs[i] \in Scores \X Members
  OBVIOUS
<1>2. Named(pairs) \in SUBSET Members
  BY <1>1 DEF Named
<1>3. ASSUME NEW m \in Named(pairs)
      PROVE  \E i \in Of(pairs, m) : \A j \in Of(pairs, m) : IF nx THEN i <= j ELSE j <= i
  <2> DEFINE is == Of(pairs, m)
  <2>1. is # {} /\ is \in SUBSET Nat /\ \A i \in is : i <= Len(pairs)
    BY <1>1 DEF Named, Of
  <2> HIDE DEF is
  <2>2. \E i \in is : \A j \in is : i <= j
    BY <2>1, LeastNat
  <2>3. \E i \in is : \A j \in is : j <= i
    BY <1>1, <2>1, GreatestNat
  <2> QED
    BY <2>2, <2>3 DEF is
<1> DEFINE pick(m) == CHOOSE i \in Of(pairs, m) : \A j \in Of(pairs, m) : IF nx THEN i <= j ELSE j <= i
<1>4. \A m \in Named(pairs) : /\ pick(m) \in Of(pairs, m)
                              /\ \A j \in Of(pairs, m) : IF nx THEN pick(m) <= j ELSE j <= pick(m)
  BY <1>3
<1>5. SortedSet(pairs, nx) = [m \in Named(pairs) |-> pairs[pick(m)][1]]
  BY DEF SortedSet, Named, Of
<1> HIDE DEF pick
<1>6. \A m \in Named(pairs) : pairs[pick(m)][1] \in Scores
  BY <1>1, <1>4 DEF Of
<1> QED
  BY <1>2, <1>4, <1>5, <1>6

LEMMA MetaValBase == ASSUME ZCanBeVersioned PROVE Base(GetZSetMetaVal)
BY DEF Base, GetZSetMetaVal, ZCanBeVersioned

LEMMA GetZSetLive == ZFound => GetZSetMetaVal = zmeta
BY DEF GetZSetMetaVal

LEMMA PickedSame == ASSUME ZIndInv, picked' = picked PROVE PickedOK'
BY DEF PickedOK, ZIndInv, ZTypeOK

LEMMA ReplyInv ==
    ASSUME ZIndInv, NEW x, ZReply(x), PickedOK'
    PROVE  ZIndInv' /\ Map' = Map /\ zout' = x
<1>1. zmeta' = zmeta /\ zitem' = zitem /\ zscore' = zscore /\ zout' = x
  BY DEF ZReply
<1> QED
  BY <1>1 DEF ZIndInv, ZTypeOK, ZsetAgrees, ZUnusedClean, InSet, ZFound, PickedOK, Map

LEMMA ZsetNoLockInv ==
    ASSUME ZIndInv, ZCanBeVersioned, NEW D \in SUBSET Members, NEW new \in [D -> Scores], NEW flags,
           ZsetNoLock(new, flags), PickedOK'
    PROVE  /\ ZIndInv' /\ Map' = After(GetZSetMetaVal, new, flags)
           /\ zout' = Number(IF "ch" \in flags
                             THEN Cardinality(Added(GetZSetMetaVal, new, flags))
                                  + Cardinality(Updated(GetZSetMetaVal, new, flags))
                             ELSE Cardinality(Added(GetZSetMetaVal, new, flags)))
<1> DEFINE zv == GetZSetMetaVal
           added == Cardinality(Added(zv, new, flags))
           reply == Number(IF "ch" \in flags THEN added + Cardinality(Updated(zv, new, flags)) ELSE added)
<1>1. ZsetOne(zv, new, flags, added, reply)
  BY DEF ZsetNoLock
<1>2. Base(zv) /\ (ZFound => zv = zmeta)
  BY MetaValBase, GetZSetLive
<1> HIDE DEF zv, reply
<1> QED
  BY <1>1, <1>2, ZsetOneInv DEF zv, reply

LEMMA ScoreSumIn == ASSUME NEW a \in Scores, NEW b \in Scores PROVE ScoreSum(a, b) \in Scores \cup {NaN}
<1>1. a \in Int /\ b \in Int /\ -Inf <= a /\ a <= Inf /\ -Inf <= b /\ b <= Inf /\ Inf \in Int /\ Inf > 0
  BY ScoresInt
<1> QED
  BY <1>1 DEF ScoreSum, Scores

IncrScore(m, by, flags) ==
    LET old == OldScore(GetZSetMetaVal, m)
    IN  IF old = NoScore \/ "nx" \in flags THEN by ELSE ScoreSum(old, by)
Nop(m, flags) ==
    IF OldScore(GetZSetMetaVal, m) = NoScore THEN "xx" \in flags ELSE "nx" \in flags

LEMMA ZincrInv ==
    ASSUME ZIndInv, ZCanBeVersioned, NEW m \in Members, NEW by \in Scores, NEW flags,
           Zincr(m, by, flags), PickedOK'
    PROVE  /\ ZIndInv'
           /\ IF IncrScore(m, by, flags) = NaN
              THEN zout' = Error /\ Map' = Map
              ELSE /\ IncrScore(m, by, flags) \in Scores
                   /\ Map' = After(GetZSetMetaVal, [x \in {m} |-> IncrScore(m, by, flags)], flags)
                   /\ zout' = IF Nop(m, flags) THEN Nil ELSE Number(IncrScore(m, by, flags))
<1> DEFINE zv == GetZSetMetaVal
           score == IncrScore(m, by, flags)
           new == [x \in {m} |-> score]
           reply == IF Nop(m, flags) THEN Nil ELSE Number(score)
<1>1. Base(zv) /\ (ZFound => zv = zmeta)
  BY MetaValBase, GetZSetLive
<1>2. OldScore(zv, m) \in Scores \cup {NoScore}
  BY <1>1, BaseFacts DEF ItemMaps
<1>3. score \in Scores \cup {NaN}
  BY <1>2, ScoreSumIn DEF IncrScore
<1>4. CASE score = NaN
  <2>1. ZReply(Error)
    BY <1>4 DEF Zincr, IncrScore
  <2> QED
    BY <1>4, <2>1, ReplyInv
<1>5. CASE score # NaN
  <2>1. ZsetOne(zv, new, flags, Cardinality(Added(zv, new, flags)), reply)
    BY <1>5 DEF Zincr, IncrScore, Nop
  <2>2. new \in [{m} -> Scores] /\ {m} \in SUBSET Members /\ score \in Scores
    BY <1>3, <1>5
  <2> HIDE DEF zv, new, reply, score
  <2>3. ZIndInv' /\ Map' = After(zv, new, flags) /\ zout' = reply
    BY <1>1, <2>1, <2>2, ZsetOneInv
  <2> QED
    BY <1>5, <2>2, <2>3 DEF zv, new, reply, score
<1> QED
  BY <1>4, <1>5

----------------------------------------------------------------------------
(* Commands that remove *)

LEMMA ZdelNoLockInv ==
    ASSUME ZIndInv, NEW ms \in SUBSET Members, ZdelNoLock(ms), PickedOK'
    PROVE  /\ ZIndInv'
           /\ Map' = [m \in Members |-> IF m \in ms THEN NoScore ELSE Map[m]]
           /\ zout' = Number(Cardinality({m \in ms : Map[m] # NoScore}))
<1>1. CASE ~ZFound
  <2>1. ZReply(Number(0))
    BY <1>1 DEF ZdelNoLock
  <2>2. Map = [m \in Members |-> NoScore]
    BY <1>1 DEF Map
  <2>3. {m \in ms : Map[m] # NoScore} = {}
    BY <2>2
  <2>4. Cardinality({m \in ms : Map[m] # NoScore}) = 0
    BY <2>3, FS_EmptySet
  <2>5. ZIndInv' /\ Map' = Map /\ zout' = Number(0)
    BY <2>1, ReplyInv
  <2> QED
    BY <2>2, <2>4, <2>5
<1>2. CASE ZFound
  <2> DEFINE base == zitem[zmeta.ver]
             there == {m \in ms : base[m] # NoScore}
             f == [m \in Members |-> IF m \in there THEN NoScore ELSE base[m]]
             keys == zscore[zmeta.ver] \ {<<base[m], m>> : m \in there}
             n == Cardinality(there)
  <2>1. ZCommit(zmeta, f, keys, -n, Number(n))
    BY <1>2 DEF ZdelNoLock
  <2>2. /\ base \in ItemMaps /\ zscore[zmeta.ver] = KeysOf(base)
        /\ zmeta.len = Cardinality(Scored(base)) /\ Map = base
    BY <1>2, LiveFacts DEF Map
  <2> HIDE DEF base
  <2>3. f \in ItemMaps
    BY <2>2 DEF ItemMaps
  <2>4. \A m \in Members : f[m] = IF m \in there THEN NoScore ELSE base[m]
    OBVIOUS
  <2>5. there \in SUBSET Scored(base)
    BY DEF Scored
  <2>6. \A m \in Members : f[m] = IF m \in ms THEN NoScore ELSE base[m]
    OBVIOUS
  <2>7. f = [m \in Members |-> IF m \in ms THEN NoScore ELSE Map[m]]
    BY <2>2
  <2> HIDE DEF there, f
  <2>8. Scored(f) = Scored(base) \ there
    BY <2>4 DEF Scored
  <2>9. keys = KeysOf(f)
    <3>1. ASSUME NEW p \in keys PROVE p \in KeysOf(f)
      <4>1. PICK m \in Scored(base) : p = <<base[m], m>>
        BY <2>2 DEF KeysOf
      <4>2. m \notin there
        BY <4>1
      <4>3. m \in Scored(f) /\ f[m] = base[m]
        BY <2>4, <2>8, <4>1, <4>2 DEF Scored
      <4> QED
        BY <4>1, <4>3 DEF KeysOf
    <3>2. ASSUME NEW p \in KeysOf(f) PROVE p \in keys
      <4>1. PICK m \in Scored(f) : p = <<f[m], m>>
        BY DEF KeysOf
      <4>2. m \in Scored(base) /\ m \notin there /\ p = <<base[m], m>>
        BY <2>4, <2>8, <4>1 DEF Scored
      <4> QED
        BY <2>2, <4>2 DEF KeysOf
    <3> HIDE DEF keys
    <3> QED
      BY <3>1, <3>2
  <2>10. /\ n \in Nat /\ zmeta.len + (-n) = Cardinality(Scored(f))
    <3>1. IsFiniteSet(Scored(base)) /\ Cardinality(Scored(base)) \in Nat
      BY ThereFinite
    <3>2. IsFiniteSet(there) /\ n \in Nat
      BY <2>5, <3>1, FS_Subset, FS_CardinalityType
    <3>3. Scored(base) \cap there = there
      BY <2>5
    <3>4. Cardinality(Scored(base) \ there) = Cardinality(Scored(base)) - Cardinality(Scored(base) \cap there)
      BY <3>1, FS_Difference
    <3> QED
      BY <2>2, <2>8, <3>1, <3>2, <3>3, <3>4
  <2> HIDE DEF keys
  <2>11. ZIndInv' /\ Map' = f /\ zout' = Number(n)
    BY <1>2, <2>1, <2>3, <2>9, <2>10, CommitInv
  <2>12. there = {m \in ms : Map[m] # NoScore}
    BY <2>2 DEF there
  <2> QED
    BY <2>7, <2>11, <2>12
<1> QED
  BY <1>1, <1>2

IntMembers == Int \X Members

LEMMA IntMembersKeyed == ASSUME NEW p \in IntMembers PROVE p \in Keyed /\ p[2] \in Members
<1>1. PICK s \in Int, m \in Members : p = <<s, m>>
  BY DEF IntMembers
<1> QED
  BY <1>1, ScoresInt DEF Keyed

\* What a scan returns: as many members as records, in the records' order.
LEMMA ForwardFacts ==
    ASSUME NEW S \in SUBSET IntMembers, IsFiniteSet(S)
    PROVE  /\ Cardinality(S) \in Nat /\ Len(Forward(S)) = Cardinality(S)
           /\ Forward(S) \in Seq(Members) /\ DOMAIN Forward(S) = 1..Cardinality(S)
           /\ \A i \in 1..Cardinality(S) : Ordered(S)[i] \in S /\ Forward(S)[i] = Ordered(S)[i][2]
           /\ {Forward(S)[i] : i \in DOMAIN Forward(S)} = {p[2] : p \in S}
<1> DEFINE n == Cardinality(S)
           o == Ordered(S)
           f == Forward(S)
<1>1. S \in SUBSET Keyed /\ \A p \in S : p[2] \in Members
  BY IntMembersKeyed
<1>2. /\ n \in Nat /\ o \in [1..n -> S] /\ o \in Seq(S) /\ Len(o) = n
      /\ \A r \in S : \E i \in 1..n : o[i] = r
  BY <1>1, OrderedFacts
<1>3. f = [i \in 1..Len(o) |-> o[i][2]]
  BY DEF Forward, MembersOf
<1> HIDE DEF n, o, f
<1>4. f = [i \in 1..n |-> o[i][2]] /\ \A i \in 1..n : o[i] \in S /\ o[i][2] \in Members
  BY <1>1, <1>2, <1>3
<1>5. f \in Seq(Members) /\ Len(f) = n /\ DOMAIN f = 1..n /\ \A i \in 1..n : f[i] = o[i][2]
  <2>1. f \in [1..n -> Members]
    BY <1>4
  <2> QED
    BY <1>2, <1>4, <2>1
<1>6. {f[i] : i \in DOMAIN f} = {p[2] : p \in S}
  BY <1>2, <1>4, <1>5
<1> QED
  BY <1>2, <1>4, <1>5, <1>6 DEF n, o, f

LEMMA BackwardFacts ==
    ASSUME NEW S \in SUBSET IntMembers, IsFiniteSet(S)
    PROVE  Backward(S) = Reversed(Forward(S)) /\ Reversed(Forward(S)) \in Seq(Members)
           /\ Len(Reversed(Forward(S))) = Cardinality(S)
<1> DEFINE n == Cardinality(S)
           o == Ordered(S)
           f == Forward(S)
<1>1. /\ n \in Nat /\ Len(f) = n /\ f \in Seq(Members)
      /\ \A i \in 1..n : f[i] = o[i][2]
  BY ForwardFacts
<1>2. Len(o) = n
  <2>1. S \in SUBSET Keyed
    BY IntMembersKeyed
  <2> QED
    BY <2>1, OrderedFacts
<1> HIDE DEF n, o, f
<1> DEFINE ro == [i \in 1..n |-> o[n + 1 - i]]
           rf == [i \in 1..n |-> f[n + 1 - i]]
<1>3. Reversed(o) = ro /\ Reversed(f) = rf /\ Len(ro) = n
  BY <1>1, <1>2 DEF Reversed
<1>4. MembersOf(ro) = rf
  <2>1. \A i \in 1..n : n + 1 - i \in 1..n
    BY <1>1
  <2>2. MembersOf(ro) = [i \in 1..n |-> ro[i][2]]
    BY <1>3 DEF MembersOf
  <2> QED
    BY <1>1, <2>1, <2>2
<1>5. rf \in Seq(Members) /\ Len(rf) = n
  BY <1>1
<1> QED
  BY <1>3, <1>4, <1>5 DEF Backward, n, o, f

LEMMA PairsFinite == IsFiniteSet(Pairs) /\ Pairs \subseteq IntMembers
<1>1. IsFiniteSet(Scores)
  BY ZsetAssumption, FS_Interval DEF Scores
<1>2. IsFiniteSet(Pairs)
  BY <1>1, ZsetAssumption, FS_Product DEF Pairs
<1>3. Pairs \subseteq IntMembers
  BY ScoresInt DEF Pairs, IntMembers
<1> QED
  BY <1>2, <1>3

\* Sets of records of the live version can be put in order.
LEMMA ScanFacts ==
    ASSUME ZIndInv, NEW S \in SUBSET zscore[zmeta.ver]
    PROVE  S \in SUBSET Pairs /\ S \in SUBSET IntMembers /\ IsFiniteSet(S)
<1>1. zscore[zmeta.ver] \in SUBSET Pairs
  BY DEF ZIndInv, ZTypeOK
<1>2. S \in SUBSET Pairs
  BY <1>1
<1> QED
  BY <1>2, PairsFinite, FS_Subset

LEMMA ForwardScanIn == ASSUME NEW a, NEW b PROVE ForwardScan(a, b) \in SUBSET zscore[zmeta.ver]
BY DEF ForwardScan
LEMMA BackwardScanIn == ASSUME NEW a, NEW b PROVE BackwardScan(a, b) \in SUBSET zscore[zmeta.ver]
BY DEF BackwardScan

LEMMA ScoreSelectedIn == ASSUME ZIndInv, NEW r PROVE ScoreSelected(r) \in SUBSET Members
<1> DEFINE S == InScoreRange(ForwardScan(Moved(r.min, -1), Moved(r.max, 1)), r)
<1>1. S \in SUBSET zscore[zmeta.ver]
  BY ForwardScanIn DEF InScoreRange
<1>2. S \in SUBSET Pairs
  BY <1>1, ScanFacts
<1> HIDE DEF S
<1>3. \A p \in S : p[2] \in Members
  BY <1>2 DEF Pairs
<1> QED
  BY <1>3 DEF ScoreSelected, S

LexIn(min, max) == {m \in LexScan(min.at, max.at) : LexGteMin(m, min) /\ LexLteMax(m, max)}
LexRecords(min, max) == {<<0, m>> : m \in LexIn(min, max)}

LEMMA LexRecordsFacts ==
    ASSUME NEW min, NEW max
    PROVE  /\ LexIn(min, max) \in SUBSET Members /\ LexRecords(min, max) \in SUBSET IntMembers
           /\ IsFiniteSet(LexRecords(min, max))
           /\ Cardinality(LexRecords(min, max)) = Cardinality(LexIn(min, max))
<1>1. LexIn(min, max) \in SUBSET Members
  BY DEF LexIn, LexScan
<1>2. LexRecords(min, max) \in SUBSET IntMembers
  BY <1>1 DEF LexRecords, IntMembers
<1>3. IsFiniteSet(LexIn(min, max))
  BY <1>1, ZsetAssumption, FS_Subset
<1> DEFINE f == [m \in Members |-> 0]
           T == {<<f[m], m>> : m \in LexIn(min, max)}
<1>4. LexRecords(min, max) = T
  BY <1>1 DEF LexRecords
<1>5. IsFiniteSet(T) /\ Cardinality(T) = Cardinality(LexIn(min, max))
  BY <1>3, PairsCount
<1> QED
  BY <1>1, <1>2, <1>4, <1>5

LEMMA LexSelectedIn ==
    ASSUME NEW min, NEW max
    PROVE  LexSelected(min, max) \in Seq(Members)
<1>1. Forward(LexRecords(min, max)) \in Seq(Members)
  BY LexRecordsFacts, ForwardFacts
<1>2. LexSelected(min, max) = IF EmptyLexRange(min, max) \/ ~ZFound THEN <<>> ELSE Forward(LexRecords(min, max))
  BY DEF LexSelected, LexRecords, LexIn
<1> QED
  BY <1>1, <1>2

LEMMA ZrangeIn ==
    ASSUME ZIndInv, NEW b \in Int, NEW l \in Int
    PROVE  \A i \in DOMAIN Zrange(b, l) : Zrange(b, l)[i] \in Members
<1> DEFINE all == Forward(ForwardScan(First, Last))
<1>1. all \in Seq(Members)
  <2>1. ForwardScan(First, Last) \in SUBSET IntMembers /\ IsFiniteSet(ForwardScan(First, Last))
    BY ForwardScanIn, ScanFacts
  <2> QED
    BY <2>1, ForwardFacts
<1> HIDE DEF all
<1>2. zmeta.len \in Nat
  BY DEF ZIndInv, ZTypeOK
<1> DEFINE llen == zmeta.len
           bb == IF b < 0 THEN llen + b ELSE b
           start == IF bb < 0 THEN 0 ELSE bb
           e == IF l < 0 THEN llen + l ELSE l
           end == IF e >= llen THEN llen - 1 ELSE e
           to == IF end + 1 <= Len(all) THEN end + 1 ELSE Len(all)
<1>3. Zrange(b, l) = IF ~ZFound \/ start > e \/ start >= llen THEN <<>> ELSE SubSeq(all, start + 1, to)
  BY DEF Zrange, ZrangeGeneric, all
<1>4. start \in Nat /\ to \in Int /\ to <= Len(all)
  BY <1>1, <1>2
<1> HIDE DEF start, to, e, llen
<1>5. SubSeq(all, start + 1, to) \in Seq(Members)
  BY <1>1, <1>4
<1>6. Zrange(b, l) \in Seq(Members)
  BY <1>3, <1>5
<1> QED
  BY <1>6

----------------------------------------------------------------------------
(* The invariant *)

LEMMA ZInitInv == ZInit => ZIndInv
<1> SUFFICES ASSUME ZInit PROVE ZIndInv
  OBVIOUS
<1>1. MaxZVersion \in Nat /\ 0 \in ZVersions
  BY ZsetAssumption DEF ZVersions
<1>2. ZTypeOK
  BY <1>1 DEF ZInit, ZTypeOK, ZAbsent
<1>3. ZsetAgrees
  BY DEF ZInit, ZsetAgrees, ZFound, ZAbsent
<1>4. ZUnusedClean
  BY DEF ZInit, ZUnusedClean, InSet
<1> QED
  BY <1>2, <1>3, <1>4 DEF ZIndInv

LEMMA ProcZaddInv ==
    ASSUME ZIndInv, NEW flags, NEW pairs \in ZaddArgs, ProcZadd(flags, pairs)
    PROVE  ZIndInv'
<1>1. PickedOK'
  BY PickedSame DEF ProcZadd
<1>2. pairs \in Seq(Scores \X Members) /\ pairs # <<>>
  BY ZsetAssumption
<1>3. CASE {"nx", "xx"} \subseteq flags \/ ("incr" \in flags /\ Len(pairs) > 1)
  BY <1>1, <1>3, ReplyInv DEF ProcZadd
<1>4. CASE ~({"nx", "xx"} \subseteq flags \/ ("incr" \in flags /\ Len(pairs) > 1))
  <2>1. ZCanBeVersioned
    BY <1>4 DEF ProcZadd
  <2>2. CASE "incr" \in flags
    <3>1. pairs[1] \in Scores \X Members
      BY <1>2
    <3>2. pairs[1][2] \in Members /\ pairs[1][1] \in Scores
      BY <3>1
    <3>3. Zincr(pairs[1][2], pairs[1][1], flags)
      BY <1>4, <2>2 DEF ProcZadd
    <3> QED
      BY <1>1, <2>1, <3>2, <3>3, ZincrInv
  <2>3. CASE "incr" \notin flags
    <3> DEFINE nx == "nx" \in flags
               new == SortedSet(pairs, nx)
    <3>1. ZsetNoLock(new, flags)
      BY <1>4, <2>3 DEF ProcZadd
    <3>2. Named(pairs) \in SUBSET Members /\ new \in [Named(pairs) -> Scores]
      <4>1. nx \in BOOLEAN
        OBVIOUS
      <4> HIDE DEF nx
      <4> QED
        BY <1>2, <4>1, SortedSetFacts
    <3> HIDE DEF new
    <3> QED
      BY <1>1, <2>1, <3>1, <3>2, ZsetNoLockInv
  <2> QED
    BY <2>2, <2>3
<1> QED
  BY <1>3, <1>4

LEMMA KillInv ==
    ASSUME ZIndInv, NEW x, ZKill(x), ZFound, PickedOK'
    PROVE  ZIndInv' /\ Map' = [m \in Members |-> NoScore] /\ zout' = x
<1>1. zmeta' = ZDead(zmeta.ver) /\ zitem' = zitem /\ zscore' = zscore /\ zout' = x
  BY DEF ZKill
<1>2. zmeta'.st = "dead" /\ zmeta'.ver = zmeta.ver /\ zmeta'.len = 0
  BY <1>1 DEF ZDead
<1>3. ZTypeOK'
  BY <1>1 DEF ZIndInv, ZTypeOK, PickedOK, ZDead
<1>4. ZsetAgrees' /\ ZUnusedClean'
  BY <1>1, <1>2 DEF ZIndInv, ZsetAgrees, ZUnusedClean, InSet, ZFound
<1> QED
  BY <1>1, <1>2, <1>3, <1>4 DEF ZIndInv, Map, ZFound

LEMMA QuickZsetInv ==
    ASSUME ZIndInv, NEW new \in ZPayload, ZNextVersion <= MaxZVersion, QuickZset(new), PickedOK'
    PROVE  /\ ZIndInv' /\ zout' = Number(1)
           /\ Map' = [m \in Members |-> IF m \in DOMAIN new THEN new[m] ELSE NoScore]
<1> DEFINE zv == ZLive(0, ZNextVersion)
<1>1. PICK D \in SUBSET Members : D # {} /\ new \in [D -> Scores]
  BY ZsetAssumption
<1>2. Base(zv) /\ zv.ver = ZNextVersion
  BY DEF Base, ZLive
<1>3. \A m \in Members : OldScore(zv, m) = NoScore /\ zitem[zv.ver][m] = NoScore
  BY <1>2, BaseFacts, UnusedFacts
<1>4. DOMAIN new = D
  BY <1>1
<1>5. Added(zv, new, {}) = D /\ Updated(zv, new, {}) = {}
  BY <1>3, <1>4 DEF Added, Updated
<1>6. Cardinality(D) # 0
  <2>1. IsFiniteSet(D)
    BY ZsetAssumption, FS_Subset
  <2> QED
    BY <1>1, <2>1, FS_EmptySet
<1>7. ZsetOne(zv, new, {}, Cardinality(Added(zv, new, {})), Number(1))
  BY <1>4, <1>5 DEF QuickZset
<1> HIDE DEF zv
<1>8. ZIndInv' /\ Map' = After(zv, new, {}) /\ zout' = Number(1)
  BY <1>1, <1>2, <1>5, <1>6, <1>7, ZsetOneInv
<1>9. After(zv, new, {}) = [m \in Members |-> IF m \in DOMAIN new THEN new[m] ELSE NoScore]
  BY <1>3, <1>4, <1>5 DEF After, Put
<1> QED
  BY <1>8, <1>9

LEMMA ZRestoreInv ==
    ASSUME ZIndInv, NEW new \in ZPayload, NEW replace, ZRestore(new, replace)
    PROVE  ZIndInv'
<1>1. PickedOK'
  BY PickedSame DEF ZRestore
<1>2. \/ ZReply(Error) \/ (ZFound /\ ZKill(Error)) \/ (ZNextVersion <= MaxZVersion /\ QuickZset(new))
  BY DEF ZRestore
<1> QED
  BY <1>1, <1>2, ReplyInv, KillInv, QuickZsetInv

LEMMA ZNextInv == ZIndInv /\ [ZNext]_zvars => ZIndInv'
<1> SUFFICES ASSUME ZIndInv, [ZNext]_zvars PROVE ZIndInv'
  OBVIOUS
<1>1. ASSUME NEW fs, NEW ps \in ZaddArgs, ProcZadd(fs, ps) PROVE ZIndInv'
  BY <1>1, ProcZaddInv
<1>2. ASSUME NEW m \in Members, NEW by \in Scores, ProcZincrby(m, by) PROVE ZIndInv'
  BY <1>2, ZincrInv, PickedSame DEF ProcZincrby
<1>3. ASSUME NEW ms \in SUBSET Members, Zrem(ms), PickedOK' PROVE ZIndInv'
  BY <1>3, ZdelNoLockInv DEF Zrem
<1>4. ASSUME NEW ms \in (SUBSET Members) \ {{}}, MultiZdel(ms) PROVE ZIndInv'
  BY <1>3, <1>4, PickedSame DEF MultiZdel
<1>5. ASSUME NEW r \in ScoreRanges, Zremrangebyscore(r) PROVE ZIndInv'
  BY <1>3, <1>5, ScoreSelectedIn, PickedSame DEF Zremrangebyscore
<1>6. ASSUME NEW min, NEW max, Zremrangebylex(min, max) PROVE ZIndInv'
  <2> DEFINE found == LexSelected(min, max)
             ms == {found[i] : i \in DOMAIN found}
  <2>1. Zrem(ms) /\ PickedOK'
    BY <1>6, PickedSame DEF Zremrangebylex
  <2>2. found \in Seq(Members)
    BY LexSelectedIn
  <2> HIDE DEF found
  <2>3. ms \in SUBSET Members
    BY <2>2
  <2> QED
    BY <1>3, <2>1, <2>3
<1>7. ASSUME NEW b \in Ranks, NEW l \in Ranks, ZremrangebyrankRead(b, l) PROVE ZIndInv'
  <2>1. CASE ZFound
    <3> DEFINE s == Zrange(b, l)
               ms == {s[i] : i \in DOMAIN s}
    <3>1. picked' = <<ms>> /\ zmeta' = zmeta /\ zitem' = zitem /\ zscore' = zscore
      BY <1>7, <2>1 DEF ZremrangebyrankRead
    <3>2. b \in Int /\ l \in Int
      <4>1. Cardinality(Members) \in Nat
        BY ZsetAssumption, FS_CardinalityType
      <4> QED
        BY <4>1 DEF Ranks
    <3>3. \A i \in DOMAIN s : s[i] \in Members
      BY <3>2, ZrangeIn
    <3> HIDE DEF s
    <3>4. ms \in SUBSET Members
      BY <3>3
    <3> HIDE DEF ms
    <3>5. picked' \in [{1} -> SUBSET Members]
      BY <3>1, <3>4
    <3> QED
      BY <3>1, <3>5 DEF ZIndInv, ZTypeOK, ZsetAgrees, ZUnusedClean, InSet, ZFound
  <2>2. CASE ~ZFound
    BY <1>7, <2>2, ReplyInv, PickedSame DEF ZremrangebyrankRead
  <2> QED
    BY <2>1, <2>2
<1>8. CASE ZremrangebyrankDel
  <2>1. picked # <<>> /\ Zrem(picked[1]) /\ picked' = <<>>
    BY <1>8 DEF ZremrangebyrankDel
  <2>2. picked[1] \in SUBSET Members
    BY <2>1 DEF ZIndInv, ZTypeOK
  <2>3. PickedOK'
    BY <2>1 DEF PickedOK
  <2> QED
    BY <1>3, <2>1, <2>2, <2>3
<1>9. ASSUME NEW new \in ZPayload, NEW r, ZRestore(new, r) PROVE ZIndInv'
  BY <1>9, ZRestoreInv
<1>10. CASE ZDel
  BY <1>10, KillInv, ReplyInv, PickedSame DEF ZDel
<1>11. CASE UNCHANGED zvars
  <2>1. zmeta' = zmeta /\ zitem' = zitem /\ zscore' = zscore /\ picked' = picked
    BY <1>11 DEF zvars
  <2> QED
    BY <2>1 DEF ZIndInv, ZTypeOK, ZsetAgrees, ZUnusedClean, InSet, ZFound
<1> QED
  BY <1>1, <1>2, <1>4, <1>5, <1>6, <1>7, <1>8, <1>9, <1>10, <1>11 DEF ZNext

\* What every command keeps.
THEOREM ZIndInvHolds == ZSpec => []ZIndInv
BY ZInitInv, ZNextInv, PTL DEF ZSpec

\* The types, for any members, scores and arguments.
THEOREM ZTypeCorrect == ZSpec => []ZTypeOK
<1>1. ZIndInv => ZTypeOK
  BY DEF ZIndInv
<1> QED
  BY <1>1, ZIndInvHolds, PTL

\* META's length, the ITEM records and the ZSCORE records never disagree
\* (zset_one, zdel_one, incr_zsize, quickZset).
THEOREM ZsetAlwaysAgrees == ZSpec => []ZsetAgrees
<1>1. ZIndInv => ZsetAgrees
  BY DEF ZIndInv
<1> QED
  BY <1>1, ZIndInvHolds, PTL

\* No record is ever written under a version that is still to come
\* (GetZSetMetaVal).
THEOREM ZUnusedStaysClean == ZSpec => []ZUnusedClean
<1>1. ZIndInv => ZUnusedClean
  BY DEF ZIndInv
<1> QED
  BY <1>1, ZIndInvHolds, PTL

----------------------------------------------------------------------------
(* What the commands that read find *)

LEMMA WindowAll ==
    ASSUME NEW S, NEW s \in Seq(S)
    PROVE  Window(s, 0, -1) = s
BY DEF Window

LEMMA ReversedSeq ==
    ASSUME NEW S, NEW s \in Seq(S)
    PROVE  Reversed(s) \in Seq(S) /\ Len(Reversed(s)) = Len(s)
           /\ \A i \in 1..Len(s) : Len(s) + 1 - i \in 1..Len(s) /\ Reversed(s)[i] = s[Len(s) + 1 - i]
<1>1. \A i \in 1..Len(s) : Len(s) + 1 - i \in 1..Len(s) /\ s[Len(s) + 1 - i] \in S
  OBVIOUS
<1>2. Reversed(s) \in [1..Len(s) -> S]
  BY <1>1 DEF Reversed
<1> QED
  BY <1>1, <1>2 DEF Reversed

LEMMA NoneFound ==
    ASSUME ~ZFound
    PROVE  /\ Map = [m \in Members |-> NoScore] /\ Ranking = <<>>
           /\ \A m \in Members : Map[m] = NoScore
BY DEF Map, Ranking

\* The members between two bounds
LexWanted(min, max) ==
    LET Above(m) == min.sign = "-" \/ (min.sign = "[" /\ m >= min.at) \/ (min.sign = "(" /\ m > min.at)
        Below(m) == \/ max.sign = "+"
                    \/ max.at # 0 /\ (IF max.sign = "[" THEN m <= max.at ELSE m < max.at)
    IN  {m \in Members : Map[m] # NoScore /\ Above(m) /\ Below(m)}

LEMMA LexWantedIs ==
    ASSUME NEW min \in LexItems, NEW max \in LexItems
    PROVE  /\ EmptyLexRange(min, max) => LexWanted(min, max) = {}
           /\ ~ZFound => LexWanted(min, max) = {}
           /\ ~EmptyLexRange(min, max) /\ ZFound => LexWanted(min, max) = LexIn(min, max)
<1>1. /\ min.at \in Nat /\ max.at \in Nat
      /\ min.sign \in {"(", "[", "-", "+"} /\ max.sign \in {"(", "[", "-", "+"}
      /\ min.sign \in {"-", "+"} => min.at = 0
      /\ max.sign \in {"-", "+"} => max.at = 0
  BY ScoresInt DEF LexItems
<1>2. \A m \in Members : m \in Nat
  BY ScoresInt
<1>3. EmptyLexRange(min, max) => LexWanted(min, max) = {}
  <2>1. CASE min.sign = "+" \/ max.sign = "-"
    BY <1>1, <2>1 DEF LexWanted
  <2>2. CASE max.sign # "+" /\ (min.at > max.at \/ (min.at = 0 /\ max.at = 0))
    BY <1>1, <1>2, <2>2 DEF LexWanted
  <2>3. CASE min.at = max.at /\ max.at # 0 /\ "(" \in {min.sign, max.sign}
    BY <1>1, <1>2, <2>3 DEF LexWanted
  <2> QED
    BY <2>1, <2>2, <2>3 DEF EmptyLexRange
<1>4. ASSUME ~EmptyLexRange(min, max), ZFound
      PROVE  LexWanted(min, max) = LexIn(min, max)
  <2>1. Map = zitem[zmeta.ver]
    BY <1>4 DEF Map
  <2>2. /\ min.sign # "+" /\ max.sign # "-"
        /\ max.sign # "+" => min.at <= max.at /\ max.at # 0
    BY <1>1, <1>4 DEF EmptyLexRange
  <2> QED
    BY <1>1, <1>2, <2>1, <2>2 DEF LexWanted, LexIn, LexScan, LexGteMin, LexLteMax
<1>5. ~ZFound => LexWanted(min, max) = {}
  BY NoneFound DEF LexWanted
<1> QED
  BY <1>3, <1>4, <1>5

LEMMA LexReadsHold ==
    ASSUME NEW min \in LexItems, NEW max \in LexItems
    PROVE  LET s == Zrangebylex(min, max, 0, -1)
           IN  /\ {s[i] : i \in DOMAIN s} = LexWanted(min, max)
               /\ \A i, j \in DOMAIN s : i < j => s[i] < s[j]
               /\ Zrevrangebylex(max, min, 0, -1) = Reversed(s)
               /\ Zlexcount(min, max) = Cardinality(LexWanted(min, max))
<1> DEFINE s == LexSelected(min, max)
<1>1. s \in Seq(Members)
  BY LexSelectedIn
<1>2. s = IF EmptyLexRange(min, max) \/ ~ZFound THEN <<>> ELSE Forward(LexRecords(min, max))
  BY DEF LexSelected, LexRecords, LexIn
<1> HIDE DEF s
<1>3. /\ Zrangebylex(min, max, 0, -1) = s /\ Zlexcount(min, max) = Len(s)
      /\ Zrevrangebylex(max, min, 0, -1) = Reversed(s)
  <2>1. Window(s, 0, -1) = s /\ Window(Reversed(s), 0, -1) = Reversed(s)
    BY <1>1, WindowAll, ReversedSeq
  <2> QED
    BY <2>1 DEF Zrangebylex, Zrevrangebylex, Zlexcount, s
<1>4. CASE EmptyLexRange(min, max) \/ ~ZFound
  <2>1. s = <<>> /\ LexWanted(min, max) = {}
    BY <1>2, <1>4, LexWantedIs
  <2>2. Cardinality({}) = 0
    BY FS_EmptySet
  <2> QED
    BY <1>3, <2>1, <2>2
<1>5. CASE ~(EmptyLexRange(min, max) \/ ~ZFound)
  <2> DEFINE S == LexRecords(min, max)
             n == Cardinality(S)
             o == Ordered(S)
  <2>1. s = Forward(S) /\ LexWanted(min, max) = LexIn(min, max)
    BY <1>2, <1>5, LexWantedIs
  <2>2. S \in SUBSET IntMembers /\ IsFiniteSet(S) /\ n = Cardinality(LexIn(min, max))
    BY LexRecordsFacts
  <2>3. /\ n \in Nat /\ Len(s) = n /\ DOMAIN s = 1..n
        /\ \A i \in 1..n : o[i] \in S /\ s[i] = o[i][2]
        /\ {s[i] : i \in DOMAIN s} = {p[2] : p \in S}
    BY <2>1, <2>2, ForwardFacts, ZenonT(60)
  <2>4. {p[2] : p \in S} = LexIn(min, max)
    <3> DEFINE I == LexIn(min, max)
    <3>1. S = {<<0, m>> : m \in I}
      BY DEF LexRecords
    <3> HIDE DEF I, S
    <3>2. \A p \in S : p[2] \in I
      BY <3>1
    <3>3. \A m \in I : <<0, m>> \in S
      BY <3>1
    <3>4. \A m \in I : \E p \in S : p[2] = m
      BY <3>3
    <3>5. {p[2] : p \in S} = I
      BY <3>2, <3>4
    <3> QED
      BY <3>5 DEF I
  <2>5. \A p \in S : p[1] = 0
    BY DEF LexRecords
  <2>6. S \in SUBSET Keyed
    BY <2>2, IntMembersKeyed
  <2>7. \A i, j \in 1..n : i < j => Less(o[i], o[j])
    BY <2>2, <2>6, OrderedFacts
  <2> HIDE DEF n, o, S
  <2>8. \A i, j \in DOMAIN s : i < j => s[i] < s[j]
    BY <2>3, <2>5, <2>7 DEF Less
  <2>9. {s[i] : i \in DOMAIN s} = LexWanted(min, max)
    BY <2>1, <2>3, <2>4
  <2>10. Zlexcount(min, max) = Cardinality(LexWanted(min, max))
    BY <1>3, <2>1, <2>2, <2>3
  <2> QED
    BY <1>3, <2>8, <2>9, <2>10
<1> QED
  BY <1>4, <1>5

\* The commands BYLEX read right, for any members and bounds
\* (genericZrangebylex, zslParseLexRange).
THEOREM LexReadsRight == ZSpec => []LexReads
<1>1. LexReads
  BY LexReadsHold DEF LexReads, LexWanted
<1> QED
  BY <1>1, PTL

\* The records of the set, and of a part of it
LEMMA RanksFacts ==
    ASSUME ZIndInv, ZFound, NEW I \in SUBSET Scored(zitem[zmeta.ver]), NEW S, S = {Rank(m) : m \in I}
    PROVE  /\ S \in SUBSET zscore[zmeta.ver] /\ S \in SUBSET IntMembers /\ S \in SUBSET Keyed
           /\ IsFiniteSet(S) /\ Cardinality(S) = Cardinality(I)
           /\ \A p \in S : p = Rank(p[2]) /\ p[2] \in I
           /\ {p[2] : p \in S} = I
<1> DEFINE base == zitem[zmeta.ver]
<1>1. /\ base \in ItemMaps /\ zscore[zmeta.ver] = KeysOf(base) /\ Map = base
  BY LiveFacts DEF Map
<1> HIDE DEF base
<1>2. S = {<<base[m], m>> : m \in I}
  BY <1>1 DEF Rank
<1>3. S \in SUBSET zscore[zmeta.ver]
  BY <1>1, <1>2 DEF KeysOf, base
<1>4. S \in SUBSET IntMembers /\ S \in SUBSET Keyed
  BY <1>3, ScanFacts, IntMembersKeyed
<1>5. IsFiniteSet(I)
  BY ThereFinite, FS_Subset
<1>6. IsFiniteSet(S) /\ Cardinality(S) = Cardinality(I)
  BY <1>2, <1>5, PairsCount, SMTT(30)
<1>7. \A p \in S : p = Rank(p[2]) /\ p[2] \in I
  BY <1>1, <1>2 DEF Rank
<1>8. \A m \in I : \E p \in S : p[2] = m
  <2>1. \A m \in I : <<base[m], m>> \in S
    BY <1>2
  <2> QED
    BY <2>1
<1>9. {p[2] : p \in S} = I
  BY <1>7, <1>8
<1> QED
  BY <1>3, <1>4, <1>6, <1>7, <1>9

Wanted(r) == {m \in Members : Map[m] # NoScore /\ GteMin(Map[m], r) /\ LteMax(Map[m], r)}

\* A bound below 16 moved by eps lies between scores: the scans pass the records
\* of the range, forwards and backwards.
LEMMA ScoreScans ==
    ASSUME ZIndInv, ZFound, Bounds \subseteq Fine, NEW r \in ScoreRanges
    PROVE  /\ InScoreRange(ForwardScan(Moved(r.min, -1), Moved(r.max, 1)), r) = {Rank(m) : m \in Wanted(r)}
           /\ InScoreRange(BackwardScan(Moved(r.max, 1), Moved(r.min, -1)), r) = {Rank(m) : m \in Wanted(r)}
           /\ r.max \notin {Inf, -Inf}
           /\ Wanted(r) \in SUBSET Scored(zitem[zmeta.ver])
<1> DEFINE base == zitem[zmeta.ver]
           Z == zscore[zmeta.ver]
           lo == r.min
           hi == r.max
           S == {p \in Z : GteMin(p[1], r) /\ LteMax(p[1], r)}
<1>1. /\ base \in ItemMaps /\ Z = KeysOf(base) /\ Map = base
  BY LiveFacts DEF Map
<1>2. Inf \in Int /\ lo \in Fine /\ hi \in Fine /\ lo \in Int /\ hi \in Int /\ hi < Inf /\ hi > -Inf
  <2>1. lo \in Fine /\ hi \in Fine
    BY DEF ScoreRanges
  <2>2. Inf \in Int
    BY ScoresInt
  <2>3. \A x \in Fine : x \in (-Inf + 1)..(Inf - 1)
    BY ZsetAssumption
  <2> QED
    BY <2>1, <2>2, <2>3
<1>3. Moved(lo, -1) = <<2 * lo - 1, 0>> /\ Moved(hi, 1) = <<2 * hi + 1, 0>>
  BY <1>2 DEF Moved
<1>4. \A p \in Z : p[1] \in Int /\ p[2] \in Nat
  <2>1. Z \in SUBSET Pairs
    BY <1>1, KeysOfFacts
  <2>2. \A p \in Z : p[1] \in Scores /\ p[2] \in Members
    BY <2>1 DEF Pairs
  <2> HIDE DEF Z
  <2> QED
    BY <2>2, ScoresInt
<1> HIDE DEF Z, base
<1>5. \A p \in Z : GteMin(p[1], r) => p[1] >= lo
  BY <1>2, <1>4 DEF GteMin
<1>6. \A p \in Z : LteMax(p[1], r) => p[1] <= hi
  BY <1>2, <1>4 DEF LteMax
<1>7. \A p \in Z : /\ p[1] >= lo => ~Less(Key(p), Moved(lo, -1))
                   /\ p[1] <= hi => ~Less(Moved(hi, 1), Key(p)) /\ Less(Key(p), Moved(hi, 1))
  BY <1>2, <1>3, <1>4 DEF Less, Key
<1>8. InScoreRange(ForwardScan(Moved(lo, -1), Moved(hi, 1)), r) = S
  BY <1>5, <1>6, <1>7 DEF InScoreRange, ForwardScan, Z
<1>9. InScoreRange(BackwardScan(Moved(hi, 1), Moved(lo, -1)), r) = S
  <2> DEFINE B == BackwardScan(Moved(hi, 1), Moved(lo, -1))
  <2>1. \A p \in Z : p[1] >= lo /\ p[1] <= hi => p \in B
    BY <1>7 DEF BackwardScan, Z
  <2>2. B \in SUBSET Z
    BY BackwardScanIn DEF Z
  <2> HIDE DEF B
  <2>3. InScoreRange(B, r) = S
    BY <1>5, <1>6, <2>1, <2>2 DEF InScoreRange
  <2> QED
    BY <2>3 DEF B
<1>10. Wanted(r) \in SUBSET Scored(base) /\ \A m \in Scored(base) : m \in Wanted(r) <=> GteMin(base[m], r) /\ LteMax(base[m], r)
  BY <1>1 DEF Wanted, Scored
<1>11. S = {Rank(m) : m \in Wanted(r)}
  <2> DEFINE T == {Rank(m) : m \in Wanted(r)}
  <2>1. ASSUME NEW p \in S PROVE p \in T
    <3>1. PICK m \in Scored(base) : p = <<base[m], m>>
      BY <1>1 DEF KeysOf
    <3>2. m \in Wanted(r) /\ p = Rank(m)
      BY <1>1, <1>10, <3>1 DEF Rank
    <3> QED
      BY <3>2
  <2>2. ASSUME NEW p \in T PROVE p \in S
    <3>1. PICK m \in Wanted(r) : p = <<base[m], m>>
      BY <1>1 DEF Rank
    <3>2. p \in Z
      BY <1>1, <1>10, <3>1 DEF KeysOf
    <3> QED
      BY <1>10, <3>1, <3>2
  <2> HIDE DEF S, T
  <2>3. S = T
    BY <2>1, <2>2
  <2> QED
    BY <2>3 DEF T
<1> QED
  BY <1>2, <1>8, <1>9, <1>10, <1>11 DEF base

LEMMA WindowSecond ==
    ASSUME NEW S, NEW s \in Seq(S)
    PROVE  Window(s, 1, 1) = IF Len(s) < 2 THEN <<>> ELSE <<s[2]>>
<1> DEFINE end == IF 2 > Len(s) THEN Len(s) ELSE 2
<1>1. Window(s, 1, 1) = SubSeq(s, 2, end)
  BY DEF Window
<1>2. CASE Len(s) < 2
  BY <1>1, <1>2
<1>3. CASE Len(s) >= 2
  <2>1. SubSeq(s, 2, 2) \in Seq(S) /\ Len(SubSeq(s, 2, 2)) = 1 /\ SubSeq(s, 2, 2)[1] = s[2]
    BY <1>3
  <2>2. <<s[2]>> \in Seq(S) /\ Len(<<s[2]>>) = 1 /\ <<s[2]>>[1] = s[2]
    BY <1>3
  <2>3. SubSeq(s, 2, 2) = <<s[2]>>
    <3> DEFINE a == SubSeq(s, 2, 2)
               b == <<s[2]>>
    <3>1. a \in Seq(S) /\ b \in Seq(S) /\ Len(a) = Len(b) /\ \A i \in 1..Len(a) : a[i] = b[i]
      BY <2>1, <2>2
    <3> HIDE DEF a, b
    <3>2. a = b
      BY <3>1, SeqEqual
    <3> QED
      BY <3>2 DEF a, b
  <2>4. Len(s) \in Nat /\ end = 2 /\ ~(Len(s) < 2)
    BY <1>3
  <2> QED
    BY <1>1, <2>3, <2>4
<1> QED
  BY <1>2, <1>3

LEMMA ScoreReadsHold ==
    ASSUME ZIndInv, Bounds \subseteq Fine, NEW r \in ScoreRanges
    PROVE  LET s == Zrangebyscore(r, 0, -1)
           IN  /\ {s[i] : i \in DOMAIN s} = Wanted(r)
               /\ \A i, j \in DOMAIN s : i < j => Less(Rank(s[i]), Rank(s[j]))
               /\ Zrevrangebyscore(r, 0, -1) = Reversed(s)
               /\ Zrangebyscore(r, 1, 1) = IF Len(s) < 2 THEN <<>> ELSE <<s[2]>>
               /\ ZFound => ScoreSelected(r) = Wanted(r)
               /\ Zcount(r) = Cardinality(Wanted(r))
<1>1. CASE ~ZFound
  <2>1. /\ Zrangebyscore(r, 0, -1) = <<>> /\ Zrevrangebyscore(r, 0, -1) = <<>> /\ Zrangebyscore(r, 1, 1) = <<>>
        /\ Zcount(r) = 0
    BY <1>1 DEF Zrangebyscore, Zrevrangebyscore, GenericZrangebyscore, Zcount
  <2>2. Wanted(r) = {} /\ Cardinality({}) = 0
    BY <1>1, NoneFound, FS_EmptySet DEF Wanted
  <2>3. Reversed(<<>>) = <<>>
    BY DEF Reversed
  <2> QED
    BY <1>1, <2>1, <2>2, <2>3
<1>2. CASE ZFound
  <2> DEFINE S == {Rank(m) : m \in Wanted(r)}
             n == Cardinality(S)
             o == Ordered(S)
             s == Forward(S)
  <2>1. /\ InScoreRange(ForwardScan(Moved(r.min, -1), Moved(r.max, 1)), r) = S
        /\ InScoreRange(BackwardScan(Moved(r.max, 1), Moved(r.min, -1)), r) = S
        /\ r.max \notin {Inf, -Inf} /\ Wanted(r) \in SUBSET Scored(zitem[zmeta.ver])
    BY <1>2, ScoreScans
  <2>0. S = {Rank(m) : m \in Wanted(r)} /\ Wanted(r) \in SUBSET Scored(zitem[zmeta.ver])
    BY <2>1
  <2> HIDE DEF S
  <2>2. /\ S \in SUBSET IntMembers /\ S \in SUBSET Keyed /\ IsFiniteSet(S) /\ n = Cardinality(Wanted(r))
        /\ \A p \in S : p = Rank(p[2]) /\ p[2] \in Wanted(r)
        /\ {p[2] : p \in S} = Wanted(r)
    BY <1>2, <2>0, RanksFacts, SMTT(30)
  <2>3. /\ n \in Nat /\ Len(s) = n /\ s \in Seq(Members) /\ DOMAIN s = 1..n
        /\ \A i \in 1..n : o[i] \in S /\ s[i] = o[i][2]
        /\ {s[i] : i \in DOMAIN s} = Wanted(r)
    BY <2>2, ForwardFacts
  <2>4. \A i, j \in 1..n : i < j => Less(o[i], o[j])
    BY <2>2, OrderedFacts
  <2>5. Backward(S) = Reversed(s)
    BY <2>2, BackwardFacts
  <2>6. /\ Zrangebyscore(r, 0, -1) = Window(s, 0, -1) /\ Zrangebyscore(r, 1, 1) = Window(s, 1, 1)
        /\ Zrevrangebyscore(r, 0, -1) = Window(Backward(S), 0, -1)
        /\ ScoreSelected(r) = {p[2] : p \in S} /\ Zcount(r) = Cardinality(ScoreSelected(r))
    BY <1>2, <2>1 DEF Zrangebyscore, Zrevrangebyscore, GenericZrangebyscore, Zcount, ScoreSelected
  <2> HIDE DEF n, o, s
  <2>7. \A i, j \in DOMAIN s : i < j => Less(Rank(s[i]), Rank(s[j]))
    BY <2>2, <2>3, <2>4
  <2>8. Window(s, 0, -1) = s /\ Window(Reversed(s), 0, -1) = Reversed(s)
    BY <2>3, WindowAll, ReversedSeq
  <2>9. Window(s, 1, 1) = IF Len(s) < 2 THEN <<>> ELSE <<s[2]>>
    BY <2>3, WindowSecond
  <2>10. Zrangebyscore(r, 0, -1) = s
    BY <2>6, <2>8
  <2>11. /\ Zrevrangebyscore(r, 0, -1) = Reversed(s)
         /\ Zrangebyscore(r, 1, 1) = IF Len(s) < 2 THEN <<>> ELSE <<s[2]>>
         /\ ScoreSelected(r) = Wanted(r) /\ Zcount(r) = Cardinality(Wanted(r))
    BY <2>2, <2>5, <2>6, <2>8, <2>9
  <2> HIDE DEF n, o, s
  <2> QED
    BY <2>3, <2>7, <2>10, <2>11
<1> QED
  BY <1>1, <1>2

\* The commands BYSCORE read right, for any set, where eps = 1e-15 moves every
\* bound (zslParseRange, genericZrangebyscore, zremrangebyscore).
THEOREM ScoreReadsRight == Bounds \subseteq Fine => (ZSpec => []ScoreReads)
<1> SUFFICES ASSUME Bounds \subseteq Fine PROVE ZSpec => []ScoreReads
  OBVIOUS
<1>1. ZIndInv => ScoreReads
  BY ScoreReadsHold DEF ScoreReads, Wanted
<1> QED
  BY <1>1, ZIndInvHolds, PTL

\* A whole scan, forwards or backwards, is the ranking.
LEMMA WholeScans ==
    ASSUME ZIndInv, ZFound
    PROVE  /\ Forward(ForwardScan(First, Last)) = Ranking
           /\ Backward(BackwardScan(Last, First)) = Reversed(Ranking)
           /\ Ranking \in Seq(Members) /\ Len(Ranking) = zmeta.len /\ zmeta.len \in Nat \ {0}
           /\ {Ranking[i] : i \in 1..zmeta.len} = InSet(zmeta.ver)
           /\ \A i, j \in 1..zmeta.len : Ranking[i] = Ranking[j] => i = j
<1> DEFINE base == zitem[zmeta.ver]
           Z == zscore[zmeta.ver]
           I == Scored(base)
           S == {Rank(m) : m \in I}
           n == Cardinality(S)
           o == Ordered(S)
<1>1. /\ base \in ItemMaps /\ Z = KeysOf(base) /\ Map = base
      /\ zmeta.len = Cardinality(I) /\ zmeta.len \in Nat \ {0}
  BY LiveFacts DEF Map
<1>2. S = Z
  BY <1>1 DEF Rank, KeysOf
<1>3. /\ S \in SUBSET IntMembers /\ S \in SUBSET Keyed /\ IsFiniteSet(S) /\ n = zmeta.len
      /\ \A p \in S : p = Rank(p[2])
      /\ {p[2] : p \in S} = I
  BY <1>1, RanksFacts
<1>4. \A p \in Z : p[1] \in Int /\ p[2] \in Int /\ -Inf <= p[1] /\ p[1] <= Inf
  <2>1. Z \in SUBSET Pairs
    BY <1>1, KeysOfFacts
  <2> HIDE DEF Z
  <2>2. \A p \in Z : p[1] \in Scores /\ p[2] \in Members
    BY <2>1 DEF Pairs
  <2> QED
    BY <2>2, ScoresInt
<1>5. Inf \in Int
  BY ScoresInt
<1> HIDE DEF Z, S, n, I, base
<1>6. \A p \in Z : /\ ~Less(Key(p), First) /\ ~Less(Last, Key(p)) /\ Less(Key(p), Last)
  BY <1>4, <1>5 DEF Less, Key, First, Last
<1>7. ForwardScan(First, Last) = Z /\ BackwardScan(Last, First) = Z
  BY <1>6 DEF ForwardScan, BackwardScan, Z
<1>8. Ranking = Forward(S)
  BY InSetIs DEF Ranking, S, I, base
<1>9. /\ n \in Nat /\ Len(Ranking) = n /\ Ranking \in Seq(Members) /\ DOMAIN Ranking = 1..n
      /\ \A i \in 1..n : o[i] \in S /\ Ranking[i] = o[i][2]
      /\ {Ranking[i] : i \in 1..n} = I
  BY <1>3, <1>8, ForwardFacts DEF n
<1>10. \A i, j \in 1..n : i < j => Less(o[i], o[j])
  BY <1>3, OrderedFacts DEF n
<1>11. Backward(S) = Reversed(Ranking)
  BY <1>3, <1>8, BackwardFacts
<1> HIDE DEF o
<1>12. ASSUME NEW i \in 1..n, NEW j \in 1..n, Ranking[i] = Ranking[j]
       PROVE  i = j
  <2>1. o[i] \in S /\ o[i] = o[j]
    BY <1>3, <1>9, <1>12
  <2>2. ~Less(o[i], o[i])
    BY <1>2, <1>4, <2>1 DEF Less
  <2> QED
    BY <1>9, <1>10, <2>1, <2>2
<1>13. InSet(zmeta.ver) = I
  BY InSetIs DEF I, base
<1> QED
  BY <1>1, <1>2, <1>3, <1>7, <1>8, <1>9, <1>11, <1>12, <1>13

\* What zrangeGeneric takes of a sequence of n
Part(s, n, b, l) ==
    LET bb == IF b < 0 THEN n + b ELSE b
        start == IF bb < 0 THEN 0 ELSE bb
        e == IF l < 0 THEN n + l ELSE l
        end == IF e >= n THEN n - 1 ELSE e
    IN  IF start > e \/ start >= n THEN <<>> ELSE SubSeq(s, start + 1, IF end + 1 <= Len(s) THEN end + 1 ELSE Len(s))

\* What RankReads asks for
Piece(s, n, b, l) ==
    LET From(r) == IF r < 0 THEN n + r ELSE r
        is == {i \in 1..n : From(b) <= i - 1 /\ i - 1 <= From(l)}
    IN  [i \in 1..Cardinality(is) |-> s[i + Cardinality({j \in 1..n : j - 1 < From(b)})]]

LEMMA PartIsPiece ==
    ASSUME NEW S, NEW s \in Seq(S), NEW b \in Int, NEW l \in Int
    PROVE  Part(s, Len(s), b, l) = Piece(s, Len(s), b, l)
<1> DEFINE n == Len(s)
           bb == IF b < 0 THEN n + b ELSE b
           start == IF bb < 0 THEN 0 ELSE bb
           e == IF l < 0 THEN n + l ELSE l
           end == IF e >= n THEN n - 1 ELSE e
           is == {i \in 1..n : bb <= i - 1 /\ i - 1 <= e}
           before == {j \in 1..n : j - 1 < bb}
<1>1. /\ n \in Nat /\ bb \in Int /\ start \in Nat /\ e \in Int /\ end \in Int
      /\ start >= bb /\ (start = bb \/ start = 0) /\ end <= e /\ end <= n - 1 /\ (end = e \/ end = n - 1)
  OBVIOUS
<1>2. Piece(s, n, b, l) = [i \in 1..Cardinality(is) |-> s[i + Cardinality(before)]]
  BY DEF Piece
<1>3. Part(s, n, b, l) = IF start > e \/ start >= n THEN <<>>
                         ELSE SubSeq(s, start + 1, IF end + 1 <= n THEN end + 1 ELSE n)
  BY DEF Part
<1> HIDE DEF n, bb, start, e, end
<1>4. is = (start + 1)..(end + 1)
  BY <1>1
<1> HIDE DEF is
<1>5. CASE start > e \/ start >= n
  <2>1. start + 1 > end + 1
    BY <1>1, <1>5
  <2>2. Cardinality(is) = 0
    BY <1>1, <1>4, <2>1, FS_Interval
  <2> HIDE DEF before
  <2> QED
    BY <1>2, <1>3, <1>5, <2>2 DEF n
<1>6. CASE ~(start > e \/ start >= n)
  <2>1. start <= end /\ end + 1 <= n /\ start < n
    BY <1>1, <1>6
  <2>2. Cardinality(is) = end + 1 - start
    <3>1. Cardinality((start + 1)..(end + 1)) = (end + 1) - (start + 1) + 1
      BY <1>1, <2>1, FS_Interval
    <3> QED
      BY <1>1, <1>4, <3>1
  <2>3. before = 1..start
    BY <1>1, <2>1
  <2> HIDE DEF before
  <2>4. Cardinality(before) = start
    BY <1>1, <2>3, FS_Interval
  <2>5. Part(s, n, b, l) = SubSeq(s, start + 1, end + 1)
    BY <1>3, <1>6, <2>1
  <2>6. Piece(s, n, b, l) = [i \in 1..(end + 1 - start) |-> s[i + start]]
    BY <1>2, <2>2, <2>4
  <2>7. SubSeq(s, start + 1, end + 1) = [i \in 1..(end + 1 - start) |-> s[i + start]]
    <3> DEFINE x == start + 1
               y == end + 1
    <3>1. x \in 1..Len(s) /\ y \in x..Len(s) /\ y - x + 1 = end + 1 - start
      BY <1>1, <2>1 DEF n
    <3>2. SubSeq(s, x, y) = [i \in 1..(y - x + 1) |-> s[x + i - 1]]
      BY <3>1, SMTT(30)
    <3>3. \A i \in 1..(end + 1 - start) : x + i - 1 = i + start
      BY <1>1
    <3> QED
      BY <3>1, <3>2, <3>3
  <2> QED
    BY <2>5, <2>6, <2>7 DEF n
<1> QED
  BY <1>5, <1>6 DEF n

LEMMA RankInFacts ==
    ASSUME ZFound, NEW s \in Seq(Members), NEW m,
           \A i, j \in 1..Len(s) : s[i] = s[j] => i = j
    PROVE  /\ (\A i \in 1..Len(s) : s[i] # m) => RankIn(s, m) = -1
           /\ \A i \in 1..Len(s) : s[i] = m => RankIn(s, m) = i - 1
<1>1. DOMAIN s = 1..Len(s)
  OBVIOUS
<1>2. (\A i \in 1..Len(s) : s[i] # m) => RankIn(s, m) = -1
  BY <1>1 DEF RankIn
<1>3. ASSUME NEW i \in 1..Len(s), s[i] = m PROVE RankIn(s, m) = i - 1
  <2>1. (CHOOSE j \in DOMAIN s : s[j] = m) \in DOMAIN s /\ s[CHOOSE j \in DOMAIN s : s[j] = m] = m
    BY <1>1, <1>3
  <2>2. (CHOOSE j \in DOMAIN s : s[j] = m) = i
    BY <1>1, <1>3, <2>1
  <2> QED
    BY <1>1, <1>3, <2>2 DEF RankIn
<1> QED
  BY <1>2, <1>3

RankOfMember(m) ==
    IF Map[m] = NoScore
    THEN Zrank(m) = -1 /\ Zrrank(m) = -1
    ELSE /\ Zrank(m) \in 0..(Len(Ranking) - 1) /\ Ranking[Zrank(m) + 1] = m
         /\ Zrank(m) + Zrrank(m) = Len(Ranking) - 1

LEMMA RankReadsIs ==
    ASSUME \A b, l \in Ranks : /\ Zrange(b, l) = Piece(Ranking, Len(Ranking), b, l)
                               /\ Zrrange(b, l) = Piece(Reversed(Ranking), Len(Ranking), b, l),
           \A m \in Members : RankOfMember(m)
    PROVE  RankReads
BY DEF RankReads, Piece, RankOfMember

LEMMA RankReadsHold == ASSUME ZIndInv PROVE RankReads
<1> DEFINE n == Len(Ranking)
<1>1. \A b \in Ranks : b \in Int
  <2>1. Cardinality(Members) \in Nat
    BY ZsetAssumption, FS_CardinalityType
  <2> QED
    BY <2>1 DEF Ranks
<1>2. CASE ~ZFound
  <2>1. Ranking = <<>> /\ n = 0 /\ Reversed(Ranking) = <<>>
    BY <1>2, NoneFound DEF Reversed
  <2>2. \A b, l \in Ranks : Zrange(b, l) = <<>> /\ Zrrange(b, l) = <<>>
    BY <1>2 DEF Zrange, Zrrange, ZrangeGeneric
  <2>3. \A b, l \in Ranks : Piece(<<>>, 0, b, l) = <<>>
    <3> SUFFICES ASSUME NEW b \in Ranks, NEW l \in Ranks PROVE Piece(<<>>, 0, b, l) = <<>>
      OBVIOUS
    <3> DEFINE From(r) == IF r < 0 THEN 0 + r ELSE r
               is == {i \in 1..0 : From(b) <= i - 1 /\ i - 1 <= From(l)}
    <3>1. is = {}
      OBVIOUS
    <3>2. Cardinality(is) = 0
      BY <3>1, FS_EmptySet
    <3>3. Piece(<<>>, 0, b, l) = [i \in 1..Cardinality(is) |-> <<>>[i + Cardinality({j \in 1..0 : j - 1 < From(b)})]]
      BY DEF Piece
    <3> QED
      BY <3>2, <3>3
  <2>4. \A m \in Members : Map[m] = NoScore /\ Zrank(m) = -1 /\ Zrrank(m) = -1
    BY <1>2, NoneFound DEF Zrank, Zrrank, RankIn
  <2> QED
    BY <2>1, <2>2, <2>3, <2>4, RankReadsIs DEF RankOfMember
<1>3. CASE ZFound
  <2> DEFINE R == Ranking
             Q == Reversed(Ranking)
  <2>1. /\ Forward(ForwardScan(First, Last)) = R /\ Backward(BackwardScan(Last, First)) = Q
        /\ R \in Seq(Members) /\ n = zmeta.len /\ n \in Nat \ {0}
        /\ {R[i] : i \in 1..n} = InSet(zmeta.ver)
        /\ \A i, j \in 1..n : R[i] = R[j] => i = j
    BY <1>3, WholeScans
  <2>2. Q \in Seq(Members) /\ Len(Q) = n /\ \A i \in 1..n : n + 1 - i \in 1..n /\ Q[i] = R[n + 1 - i]
    BY <2>1, ReversedSeq
  <2>3. ASSUME NEW b \in Ranks, NEW l \in Ranks
        PROVE  Zrange(b, l) = Piece(R, n, b, l) /\ Zrrange(b, l) = Piece(Q, n, b, l)
    <3>1. Zrange(b, l) = Part(R, n, b, l) /\ Zrrange(b, l) = Part(Q, n, b, l)
      BY <1>3, <2>1, <2>2 DEF Zrange, Zrrange, ZrangeGeneric, Part
    <3>2. Part(R, n, b, l) = Piece(R, n, b, l)
      BY <1>1, <2>1, PartIsPiece
    <3>3. Part(Q, n, b, l) = Piece(Q, n, b, l)
      BY <1>1, <2>2, PartIsPiece
    <3> QED
      BY <3>1, <3>2, <3>3
  <2> HIDE DEF R, Q, n
  <2>4. \A i, j \in 1..n : Q[i] = Q[j] => i = j
    <3> SUFFICES ASSUME NEW i \in 1..n, NEW j \in 1..n, Q[i] = Q[j] PROVE i = j
      OBVIOUS
    <3> DEFINE x == n + 1 - i
               y == n + 1 - j
    <3>1. x \in 1..n /\ y \in 1..n /\ R[x] = R[y]
      BY <2>2
    <3>2. x = y
      <4> HIDE DEF x, y
      <4> QED
        BY <2>1, <3>1
    <3> QED
      BY <2>1, <3>2
  <2>5. Map = zitem[zmeta.ver]
    BY <1>3 DEF Map
  <2>6. Len(R) = n /\ \A m : Zrank(m) = RankIn(R, m) /\ Zrrank(m) = RankIn(Q, m)
    BY <2>1 DEF n, R, Zrank, Zrrank
  <2>7. ASSUME NEW m \in Members
        PROVE  /\ (\A i \in 1..n : R[i] # m) => Zrank(m) = -1
               /\ \A i \in 1..n : R[i] = m => Zrank(m) = i - 1
    <3>1. \A i, j \in 1..Len(R) : R[i] = R[j] => i = j
      BY <2>1, <2>6
    <3>2. /\ (\A i \in 1..Len(R) : R[i] # m) => RankIn(R, m) = -1
          /\ \A i \in 1..Len(R) : R[i] = m => RankIn(R, m) = i - 1
      BY <1>3, <2>1, <3>1, RankInFacts
    <3> QED
      BY <2>6, <3>2
  <2>8. ASSUME NEW m \in Members
         PROVE  /\ (\A i \in 1..n : Q[i] # m) => Zrrank(m) = -1
                /\ \A i \in 1..n : Q[i] = m => Zrrank(m) = i - 1
    <3>1. \A i, j \in 1..Len(Q) : Q[i] = Q[j] => i = j
      BY <2>2, <2>4
    <3>2. /\ (\A i \in 1..Len(Q) : Q[i] # m) => RankIn(Q, m) = -1
          /\ \A i \in 1..Len(Q) : Q[i] = m => RankIn(Q, m) = i - 1
      BY <1>3, <2>2, <3>1, RankInFacts
    <3> QED
      BY <2>2, <2>6, <3>2
  <2>9. ASSUME NEW m \in Members, Map[m] = NoScore
        PROVE  Zrank(m) = -1 /\ Zrrank(m) = -1
    <3>1. \A i \in 1..n : R[i] # m
      BY <2>1, <2>5, <2>9 DEF InSet
    <3>2. \A i \in 1..n : Q[i] # m
      BY <2>2, <3>1
    <3> QED
      BY <2>7, <2>8, <3>1, <3>2
  <2>10. ASSUME NEW m \in Members, Map[m] # NoScore
        PROVE  Zrank(m) \in 0..(n - 1) /\ R[Zrank(m) + 1] = m /\ Zrank(m) + Zrrank(m) = n - 1
    <3>1. m \in InSet(zmeta.ver)
      BY <2>5, <2>10 DEF InSet
    <3>2. PICK i \in 1..n : R[i] = m
      BY <2>1, <3>1
    <3>3. n + 1 - i \in 1..n /\ Q[n + 1 - i] = m
      <4>1. n + 1 - i \in 1..n /\ n + 1 - (n + 1 - i) = i
        BY <2>1, <3>2
      <4> QED
        BY <2>2, <3>2, <4>1
    <3>4. Zrank(m) = i - 1
      BY <2>7, <3>2
    <3>5. Zrrank(m) = n + 1 - i - 1
      <4>1. PICK k \in 1..n : k = n + 1 - i /\ Q[k] = m
        BY <3>3
      <4>2. \A j \in 1..n : Q[j] = m => Zrrank(m) = j - 1
        BY <2>8
      <4>3. Zrrank(m) = k - 1
        BY <4>1, <4>2
      <4>4. k \in Int /\ n \in Int /\ i \in Int
        BY <2>1, <3>2, <4>1
      <4> QED
        BY <4>1, <4>3, <4>4
    <3>6. i - 1 + 1 = i /\ i - 1 \in 0..(n - 1) /\ (i - 1) + (n + 1 - i - 1) = n - 1
      BY <2>1
    <3> QED
      BY <3>2, <3>4, <3>5, <3>6
  <2> QED
    BY <2>3, <2>9, <2>10, RankReadsIs DEF RankOfMember, R, Q, n
<1> QED
  BY <1>2, <1>3

\* Ranges and ranks read right, for any set and any ranks of either sign
\* (zrangeGeneric, zrank, zrrank).
THEOREM RankReadsRight == ZSpec => []RankReads
<1>1. ZIndInv => RankReads
  BY RankReadsHold
<1> QED
  BY <1>1, ZIndInvHolds, PTL

----------------------------------------------------------------------------
(* The commands, on the map *)

\* The pairs of a ZADD one after the other, from a map f on, as ZsetAbs applies them.
Walk(f, pairs, flags) ==
    LET after[i \in 0..Len(pairs)] ==
          IF i = 0 THEN f
          ELSE LET m == pairs[i][2] IN
               IF IsAMap!Skipped(after[i - 1], m, flags) THEN after[i - 1]
               ELSE [after[i - 1] EXCEPT ![m] = pairs[i][1]]
    IN  after

\* The first i of the pairs that name a member, and the score the member has
\* after them: the first pair counts under NX, the last one else.
Upto(pairs, i, m) == {k \in 1..i : pairs[k][2] = m}
Counts(pairs, i, flags, m) ==
    CHOOSE k \in Upto(pairs, i, m) : \A j \in Upto(pairs, i, m) : IF "nx" \in flags THEN k <= j ELSE j <= k
Closed(f, pairs, flags, i) ==
    [m \in Members |-> IF Upto(pairs, i, m) = {} \/ IsAMap!Skipped(f, m, flags) THEN f[m]
                       ELSE pairs[Counts(pairs, i, flags, m)][1]]

LEMMA CountsFacts ==
    ASSUME NEW pairs \in Seq(Scores \X Members), NEW i \in 0..Len(pairs), NEW flags, NEW m,
           Upto(pairs, i, m) # {}
    PROVE  LET k == Counts(pairs, i, flags, m)
           IN  /\ k \in 1..i /\ pairs[k][2] = m /\ pairs[k][1] \in Scores
               /\ \A j \in Upto(pairs, i, m) : IF "nx" \in flags THEN k <= j ELSE j <= k
<1> DEFINE is == Upto(pairs, i, m)
<1>1. is \in SUBSET Nat /\ i \in Nat /\ \A k \in is : k <= i
  BY DEF Upto
<1> HIDE DEF is
<1>2. \E k \in is : \A j \in is : k <= j
  BY <1>1, LeastNat DEF is
<1>3. \E k \in is : \A j \in is : j <= k
  BY <1>1, GreatestNat DEF is
<1>4. \E k \in is : \A j \in is : IF "nx" \in flags THEN k <= j ELSE j <= k
  BY <1>2, <1>3
<1> DEFINE c == Counts(pairs, i, flags, m)
<1>5. c \in is /\ \A j \in is : IF "nx" \in flags THEN c <= j ELSE j <= c
  BY <1>4 DEF Counts, is
<1> HIDE DEF c
<1>6. c \in 1..i /\ pairs[c][2] = m
  BY <1>5 DEF is, Upto
<1>7. pairs[c] \in Scores \X Members
  BY <1>6
<1> QED
  BY <1>5, <1>6, <1>7 DEF c, is
 
\* Of a member that was not named before, the pair itself; of one that was, the
\* pair that counted before under NX, the new one else.
CountsRule(pairs, i, flags, m) ==
    /\ pairs[i][2] # m => Upto(pairs, i, m) = Upto(pairs, i - 1, m)
    /\ pairs[i][2] = m => Upto(pairs, i, m) = Upto(pairs, i - 1, m) \cup {i}
    /\ pairs[i][2] = m /\ ("nx" \notin flags \/ Upto(pairs, i - 1, m) = {}) => Counts(pairs, i, flags, m) = i
    /\ pairs[i][2] = m /\ "nx" \in flags /\ Upto(pairs, i - 1, m) # {}
         => Counts(pairs, i, flags, m) = Counts(pairs, i - 1, flags, m)

LEMMA CountsNext ==
    ASSUME NEW pairs \in Seq(Scores \X Members), NEW i \in 1..Len(pairs), NEW flags, NEW m
    PROVE  CountsRule(pairs, i, flags, m)
<1>1. pairs[i][2] # m => Upto(pairs, i, m) = Upto(pairs, i - 1, m)
  BY DEF Upto
<1>2. pairs[i][2] = m => Upto(pairs, i, m) = Upto(pairs, i - 1, m) \cup {i}
  BY DEF Upto
<1>3. i \in 0..Len(pairs) /\ i - 1 \in 0..Len(pairs)
  OBVIOUS
<1>4. ASSUME pairs[i][2] = m, "nx" \notin flags \/ Upto(pairs, i - 1, m) = {}
      PROVE  Counts(pairs, i, flags, m) = i
  <2> DEFINE k == Counts(pairs, i, flags, m)
  <2>1. Upto(pairs, i, m) # {}
    BY <1>2, <1>4
  <2>2. k \in 1..i /\ pairs[k][2] = m /\ \A j \in Upto(pairs, i, m) : IF "nx" \in flags THEN k <= j ELSE j <= k
    BY <1>3, <2>1, CountsFacts
  <2> HIDE DEF k
  <2>3. k \in Upto(pairs, i, m)
    BY <2>2 DEF Upto
  <2> QED
    BY <1>2, <1>4, <2>2, <2>3 DEF k
<1>5. ASSUME pairs[i][2] = m, "nx" \in flags, Upto(pairs, i - 1, m) # {}
      PROVE  Counts(pairs, i, flags, m) = Counts(pairs, i - 1, flags, m)
  <2> DEFINE k == Counts(pairs, i, flags, m)
             l == Counts(pairs, i - 1, flags, m)
  <2>1. Upto(pairs, i, m) # {}
    BY <1>2, <1>5
  <2>2. k \in 1..i /\ pairs[k][2] = m /\ \A j \in Upto(pairs, i, m) : k <= j
    <3>1. k \in 1..i /\ pairs[k][2] = m /\ \A j \in Upto(pairs, i, m) : IF "nx" \in flags THEN k <= j ELSE j <= k
      BY <1>3, <2>1, CountsFacts
    <3> QED
      BY <1>5, <3>1
  <2>3. l \in 1..(i - 1) /\ pairs[l][2] = m /\ \A j \in Upto(pairs, i - 1, m) : l <= j
    <3> DEFINE h == i - 1
    <3> HIDE DEF h
    <3>1. LET c == Counts(pairs, h, flags, m)
          IN  c \in 1..h /\ pairs[c][2] = m /\ \A j \in Upto(pairs, h, m) : IF "nx" \in flags THEN c <= j ELSE j <= c
      <4>1. h \in 0..Len(pairs) /\ Upto(pairs, h, m) # {}
        BY <1>3, <1>5 DEF h
      <4> QED
        BY <4>1, CountsFacts
    <3> QED
      BY <1>5, <3>1 DEF h
  <2> HIDE DEF k, l
  <2>4. l \in Upto(pairs, i, m) /\ k \in Upto(pairs, i, m)
    BY <2>2, <2>3 DEF Upto
  <2>5. k <= l
    BY <2>2, <2>4
  <2>6. k \in Upto(pairs, i - 1, m)
    BY <2>2, <2>3, <2>5 DEF Upto
  <2> QED
    BY <2>2, <2>3, <2>5, <2>6 DEF k, l
<1> QED
  BY <1>1, <1>2, <1>4, <1>5 DEF CountsRule

LEMMA ClosedStart ==
    ASSUME NEW f \in ItemMaps, NEW pairs \in Seq(Scores \X Members), NEW flags
    PROVE  Closed(f, pairs, flags, 0) = f
BY DEF Closed, Upto, ItemMaps

LEMMA ClosedStep ==
    ASSUME NEW f \in ItemMaps, NEW pairs \in Seq(Scores \X Members), NEW flags,
           ~({"nx", "xx"} \subseteq flags), NEW i \in 1..Len(pairs)
    PROVE  LET g == Closed(f, pairs, flags, i - 1)
               m == pairs[i][2]
           IN  Closed(f, pairs, flags, i) = IF IsAMap!Skipped(g, m, flags) THEN g
                                            ELSE [g EXCEPT ![m] = pairs[i][1]]
<1> DEFINE h == i - 1
           nx == "nx" \in flags
           xx == "xx" \in flags
           g == Closed(f, pairs, flags, h)
           g1 == Closed(f, pairs, flags, i)
           m == pairs[i][2]
           c(x) == Counts(pairs, h, flags, x)
           c1(x) == Counts(pairs, i, flags, x)
<1>1. h \in 0..Len(pairs) /\ pairs[i] \in Scores \X Members /\ ~(nx /\ xx)
  OBVIOUS
<1>2. m \in Members /\ pairs[i][1] \in Scores /\ pairs[i][1] # NoScore
  BY <1>1, ZsetAssumption
<1>3. \A x \in Members : /\ g[x] = IF Upto(pairs, h, x) = {} \/ IsAMap!Skipped(f, x, flags) THEN f[x]
                                   ELSE pairs[c(x)][1]
                         /\ g1[x] = IF Upto(pairs, i, x) = {} \/ IsAMap!Skipped(f, x, flags) THEN f[x]
                                    ELSE pairs[c1(x)][1]
  BY DEF Closed
<1>4. \A x \in Members : IsAMap!Skipped(f, x, flags) <=> IF f[x] = NoScore THEN xx ELSE nx
  BY DEF IsAMap!Skipped
<1>5. IsAMap!Skipped(g, m, flags) <=> IF g[m] = NoScore THEN xx ELSE nx
  BY DEF IsAMap!Skipped
<1>6. DOMAIN g = Members /\ DOMAIN g1 = Members /\ g = [x \in Members |-> g[x]] /\ g1 = [x \in Members |-> g1[x]]
  BY DEF Closed
<1>7. \A x \in Members : /\ m # x => Upto(pairs, i, x) = Upto(pairs, h, x)
                         /\ m = x => Upto(pairs, i, x) = Upto(pairs, h, x) \cup {i}
                         /\ m = x /\ (~nx \/ Upto(pairs, h, x) = {}) => c1(x) = i
                         /\ m = x /\ nx /\ Upto(pairs, h, x) # {} => c1(x) = c(x)
  <2> TAKE x \in Members
  <2>1. CountsRule(pairs, i, flags, x)
    BY CountsNext
  <2> QED
    BY <2>1 DEF CountsRule
<1>8. \A x \in Members : Upto(pairs, h, x) # {} => pairs[c(x)][1] # NoScore
  <2> HIDE DEF h
  <2>1. \A x \in Members : Upto(pairs, h, x) # {} => pairs[c(x)][1] \in Scores
    BY <1>1, CountsFacts
  <2> QED
    BY <2>1, ZsetAssumption
<1> HIDE DEF g, g1, nx, xx
<1>9. \A x \in Members : x # m => g1[x] = g[x]
  <2> SUFFICES ASSUME NEW x \in Members, x # m PROVE g1[x] = g[x]
    OBVIOUS
  <2>1. Upto(pairs, i, x) = Upto(pairs, h, x)
    BY <1>7
  <2>2. c1(x) = c(x)
    BY <2>1, Zenon DEF Counts
  <2> QED
    BY <1>3, <2>1, <2>2
<1>10. g1[m] = IF IsAMap!Skipped(g, m, flags) THEN g[m] ELSE pairs[i][1]
  <2>1. Upto(pairs, i, m) # {} /\ (~nx \/ Upto(pairs, h, m) = {} => c1(m) = i)
        /\ (nx /\ Upto(pairs, h, m) # {} => c1(m) = c(m))
    BY <1>2, <1>7
  <2>2. /\ g[m] = IF Upto(pairs, h, m) = {} \/ (IF f[m] = NoScore THEN xx ELSE nx) THEN f[m]
                  ELSE pairs[c(m)][1]
        /\ g1[m] = IF IF f[m] = NoScore THEN xx ELSE nx THEN f[m] ELSE pairs[c1(m)][1]
    BY <1>2, <1>3, <1>4, <2>1
  <2>3. Upto(pairs, h, m) # {} => pairs[c(m)][1] # NoScore
    BY <1>2, <1>8
  <2> HIDE DEF m, c, c1, h
  <2> QED
    BY <1>1, <1>5, <2>1, <2>2, <2>3
<1>11. g1 = IF IsAMap!Skipped(g, m, flags) THEN g ELSE [g EXCEPT ![m] = pairs[i][1]]
  <2>1. CASE IsAMap!Skipped(g, m, flags)
    <3>1. \A x \in Members : g1[x] = g[x]
      BY <1>9, <1>10, <2>1
    <3> QED
      BY <1>6, <2>1, <3>1
  <2>2. CASE ~IsAMap!Skipped(g, m, flags)
    <3> DEFINE e == [g EXCEPT ![m] = pairs[i][1]]
    <3>1. e = [x \in Members |-> IF x = m THEN pairs[i][1] ELSE g[x]]
      BY <1>6
    <3>2. \A x \in Members : g1[x] = IF x = m THEN pairs[i][1] ELSE g[x]
      BY <1>9, <1>10, <2>2
    <3> HIDE DEF e
    <3>3. g1 = e
      BY <1>6, <3>1, <3>2
    <3> QED
      BY <2>2, <3>3 DEF e
  <2> QED
    BY <2>1, <2>2
<1> QED
  BY <1>11 DEF g, g1

\* The recursive definition has a solution, Closed, and only that one.
LEMMA WalkIs ==
    ASSUME NEW f \in ItemMaps, NEW pairs \in Seq(Scores \X Members), NEW flags,
           ~({"nx", "xx"} \subseteq flags)
    PROVE  Walk(f, pairs, flags)[Len(pairs)] = Closed(f, pairs, flags, Len(pairs))
<1> DEFINE n == Len(pairs)
           Next1(g, i) == IF IsAMap!Skipped(g, pairs[i][2], flags) THEN g
                          ELSE [g EXCEPT ![pairs[i][2]] = pairs[i][1]]
           Body(a) == [i \in 0..n |-> IF i = 0 THEN f ELSE Next1(a[i - 1], i)]
           C(i) == Closed(f, pairs, flags, i)
           s == [i \in 0..n |-> C(i)]
           w == Walk(f, pairs, flags)
<1>1. n \in Nat
  OBVIOUS
<1>2. C(0) = f
  BY ClosedStart
<1>3. \A i \in 1..n : C(i) = Next1(C(i - 1), i)
  BY ClosedStep
<1>4. w = CHOOSE a : a = Body(a)
  BY Zenon DEF Walk
<1> HIDE DEF Next1, C, n
<1>5. s = Body(s)
  <2>1. \A i \in 0..n : s[i] = IF i = 0 THEN f ELSE Next1(s[i - 1], i)
    <3> TAKE i \in 0..n
    <3>1. CASE i = 0
      BY <1>2, <3>1
    <3>2. CASE i # 0
      <4>1. i \in 1..n /\ i - 1 \in 0..n
        BY <1>1, <3>2
      <4>2. s[i] = C(i) /\ s[i - 1] = C(i - 1)
        BY <4>1
      <4> QED
        BY <1>3, <3>2, <4>1, <4>2
    <3> QED
      BY <3>1, <3>2
  <2>2. s = [i \in 0..n |-> s[i]]
    OBVIOUS
  <2> HIDE DEF s
  <2> QED
    BY <2>1, <2>2
<1>6. w = Body(w)
  <2> HIDE DEF Body, s, w
  <2>1. \E a : a = Body(a)
    BY <1>5
  <2> QED
    BY <1>4, <2>1
<1> HIDE DEF w
<1>7. \A i \in 0..n : w[i] = IF i = 0 THEN f ELSE Next1(w[i - 1], i)
  BY <1>6
<1> HIDE DEF Body
<1> DEFINE P == {i \in Nat : i <= n => w[i] = C(i)}
<1>8. 0 \in P
  BY <1>1, <1>2, <1>7
<1>9. ASSUME NEW i \in Nat, i \in P PROVE i + 1 \in P
  <2> SUFFICES ASSUME i + 1 <= n PROVE w[i + 1] = C(i + 1)
    OBVIOUS
  <2>1. i + 1 \in 1..n /\ i + 1 \in 0..n /\ i + 1 # 0 /\ i + 1 - 1 = i /\ i <= n
    BY <1>1
  <2>2. w[i] = C(i)
    BY <1>9, <2>1
  <2>3. w[i + 1] = Next1(w[i], i + 1) /\ C(i + 1) = Next1(C(i), i + 1)
    BY <1>3, <1>7, <2>1
  <2> QED
    BY <2>2, <2>3
<1> HIDE DEF P
<1>10. \A i \in Nat : i \in P
  BY <1>8, <1>9, NatSetInduction
<1>11. n \in P
  BY <1>1, <1>10
<1> QED
  BY <1>1, <1>11 DEF P, n, C, w

LEMMA MapFacts ==
    ASSUME ZIndInv
    PROVE  /\ Map \in ItemMaps
           /\ ZCanBeVersioned => /\ zitem[GetZSetMetaVal.ver] = Map
                                 /\ \A m \in Members : OldScore(GetZSetMetaVal, m) = Map[m]
<1>1. CASE ZFound
  <2>1. zitem[zmeta.ver] \in ItemMaps
    BY <1>1, LiveFacts
  <2> QED
    BY <1>1, <2>1, GetZSetLive DEF Map, OldScore
<1>2. CASE ~ZFound
  <2>1. Map = [m \in Members |-> NoScore]
    BY <1>2 DEF Map
  <2>2. ASSUME ZCanBeVersioned
        PROVE  zitem[GetZSetMetaVal.ver] = Map /\ \A m \in Members : OldScore(GetZSetMetaVal, m) = Map[m]
    <3> DEFINE zv == GetZSetMetaVal
    <3>1. Base(zv) /\ ~(ZFound /\ zv = zmeta)
      BY <1>2, <2>2, MetaValBase
    <3> HIDE DEF zv
    <3>2. zitem[zv.ver] \in ItemMaps /\ Scored(zitem[zv.ver]) = {} /\ \A m \in Members : OldScore(zv, m) = zitem[zv.ver][m]
      BY <3>1, BaseFacts
    <3>3. zitem[zv.ver] = [m \in Members |-> NoScore]
      BY <3>2 DEF Scored, ItemMaps
    <3> QED
      BY <2>1, <3>2, <3>3 DEF zv
  <2> QED
    BY <2>1, <2>2 DEF ItemMaps
<1> QED
  BY <1>1, <1>2

\* The map proc_zadd hands on holds, of each member named, the pair that counts.
LEMMA SortedSetCounts ==
    ASSUME NEW pairs \in Seq(Scores \X Members), NEW flags
    PROVE  LET new == SortedSet(pairs, "nx" \in flags)
           IN  /\ Named(pairs) \in SUBSET Members /\ new \in [Named(pairs) -> Scores]
               /\ \A m : m \in Named(pairs) <=> Upto(pairs, Len(pairs), m) # {}
               /\ \A m \in Named(pairs) : new[m] = pairs[Counts(pairs, Len(pairs), flags, m)][1]
<1> DEFINE new == SortedSet(pairs, "nx" \in flags)
           n == Len(pairs)
<1>1. DOMAIN pairs = 1..n /\ n \in 0..Len(pairs) /\ \A i \in 1..n : pairs[i] \in Scores \X Members
  OBVIOUS
<1>2. \A m : m \in Named(pairs) <=> Upto(pairs, n, m) # {}
  BY <1>1 DEF Named, Upto
<1>3. new \in [Named(pairs) -> Scores] /\ Named(pairs) \in SUBSET Members
      /\ \A m \in Named(pairs) :
            \E i \in Of(pairs, m) : /\ new[m] = pairs[i][1]
                                    /\ \A j \in Of(pairs, m) : IF "nx" \in flags THEN i <= j ELSE j <= i
  <2> DEFINE nx == "nx" \in flags
  <2>1. nx \in BOOLEAN
    OBVIOUS
  <2> HIDE DEF nx
  <2>2. /\ SortedSet(pairs, nx) \in [Named(pairs) -> Scores] /\ Named(pairs) \in SUBSET Members
        /\ \A m \in Named(pairs) :
              \E i \in Of(pairs, m) : /\ SortedSet(pairs, nx)[m] = pairs[i][1]
                                      /\ \A j \in Of(pairs, m) : IF nx THEN i <= j ELSE j <= i
    BY <2>1, SortedSetFacts
  <2> QED
    BY <2>2 DEF nx
<1> HIDE DEF new
<1>4. ASSUME NEW m \in Named(pairs)
      PROVE  new[m] = pairs[Counts(pairs, n, flags, m)][1]
  <2> DEFINE k == Counts(pairs, n, flags, m)
  <2>1. Of(pairs, m) = Upto(pairs, n, m) /\ Upto(pairs, n, m) # {}
    BY <1>1, <1>2 DEF Of, Upto
  <2>2. /\ k \in 1..n /\ pairs[k][2] = m
        /\ \A j \in Upto(pairs, n, m) : IF "nx" \in flags THEN k <= j ELSE j <= k
    BY <1>1, <2>1, CountsFacts
  <2> HIDE DEF k
  <2>3. PICK i \in Upto(pairs, n, m) :
            new[m] = pairs[i][1] /\ \A j \in Upto(pairs, n, m) : IF "nx" \in flags THEN i <= j ELSE j <= i
    BY <1>3, <2>1
  <2>4. k \in Upto(pairs, n, m) /\ i \in Int /\ k \in Int
    BY <2>2 DEF Upto
  <2>5. i = k
    BY <2>2, <2>3, <2>4
  <2> QED
    BY <2>3, <2>5 DEF k
<1> HIDE DEF n
<1> QED
  BY <1>2, <1>3, <1>4 DEF n, new

LEMMA SameCardinality == ASSUME NEW S PROVE IsAMap!Cardinality(S) = Cardinality(S)
BY Zenon DEF IsAMap!Cardinality, Cardinality

LEMMA AddIs ==
    ASSUME NEW pairs, NEW flags, Map' = Walk(Map, pairs, flags)[Len(pairs)],
           zout' = IsAMap!Number(Cardinality(IF "ch" \in flags THEN IsAMap!Changed ELSE IsAMap!New))
    PROVE  IsAMap!Add(pairs, flags)
<1>1. zout' = IsAMap!Number(IsAMap!Cardinality(IF "ch" \in flags THEN IsAMap!Changed ELSE IsAMap!New))
  BY SameCardinality, Zenon
<1> QED
  BY <1>1, Zenon DEF IsAMap!Add, Walk

LEMMA ZaddIsAdd ==
    ASSUME ZIndInv, ZCanBeVersioned, NEW pairs \in Seq(Scores \X Members), NEW flags,
           ~({"nx", "xx"} \subseteq flags), ZsetNoLock(SortedSet(pairs, "nx" \in flags), flags), PickedOK'
    PROVE  IsAMap!Add(pairs, flags)
<1> DEFINE new == SortedSet(pairs, "nx" \in flags)
           zv == GetZSetMetaVal
           f == After(zv, new, flags)
           added == Added(zv, new, flags)
           updated == Updated(zv, new, flags)
           D == Named(pairs)
<1>1. /\ D \in SUBSET Members /\ new \in [D -> Scores]
      /\ \A m : m \in D <=> Upto(pairs, Len(pairs), m) # {}
      /\ \A m \in D : new[m] = pairs[Counts(pairs, Len(pairs), flags, m)][1]
  BY SortedSetCounts
<1>2. /\ Map \in ItemMaps /\ zitem[zv.ver] = Map
      /\ \A m \in Members : OldScore(zv, m) = Map[m]
  BY MapFacts
<1>3. Base(zv)
  BY MetaValBase
<1> HIDE DEF new, D
<1>4. /\ Map' = f
      /\ zout' = Number(IF "ch" \in flags THEN Cardinality(added) + Cardinality(updated)
                        ELSE Cardinality(added))
  BY <1>1, ZsetNoLockInv DEF new
<1> HIDE DEF zv
<1>5. /\ added = {m \in D : Map[m] = NoScore /\ "xx" \notin flags}
      /\ updated = {m \in D : Map[m] \notin {NoScore, new[m]} /\ "nx" \notin flags}
  BY <1>1, <1>2 DEF Added, Updated
<1>6. f = [m \in Members |-> IF m \in added \cup updated THEN new[m] ELSE Map[m]]
  BY <1>2 DEF After, Put
<1>7. added \in SUBSET Members /\ updated \in SUBSET Members /\ added \cap updated = {}
  BY <1>1, <1>5
<1> HIDE DEF f, added, updated
<1>8. f = Closed(Map, pairs, flags, Len(pairs))
  <2>1. ASSUME NEW m \in Members
        PROVE  (IF m \in added \cup updated THEN new[m] ELSE Map[m])
                 = IF Upto(pairs, Len(pairs), m) = {} \/ IsAMap!Skipped(Map, m, flags) THEN Map[m]
                   ELSE pairs[Counts(pairs, Len(pairs), flags, m)][1]
    <3>1. IsAMap!Skipped(Map, m, flags) <=> IF Map[m] = NoScore THEN "xx" \in flags ELSE "nx" \in flags
      BY DEF IsAMap!Skipped
    <3>2. CASE m \notin D
      BY <1>1, <1>5, <3>2
    <3>3. CASE m \in D /\ IsAMap!Skipped(Map, m, flags)
      BY <1>1, <1>5, <3>1, <3>3
    <3>4. CASE m \in D /\ ~IsAMap!Skipped(Map, m, flags)
      BY <1>1, <1>5, <3>1, <3>4
    <3> QED
      BY <3>2, <3>3, <3>4
  <2> QED
    BY <1>6, <2>1 DEF Closed
<1>9. Map' = Walk(Map, pairs, flags)[Len(pairs)]
  BY <1>2, <1>4, <1>8, WalkIs
<1>10. \A m \in Members : Map'[m] = IF m \in added \cup updated THEN new[m] ELSE Map[m]
  BY <1>4, <1>6
<1>11. \A m \in D : new[m] # NoScore
  BY <1>1, ZsetAssumption
<1>12. IsAMap!New = added
  <2>1. IsAMap!New = {m \in Members : Map'[m] # NoScore} \ {m \in Members : Map[m] # NoScore}
    BY DEF IsAMap!New, IsAMap!In
  <2> QED
    BY <1>1, <1>5, <1>7, <1>10, <1>11, <2>1
<1>13. IsAMap!Changed = added \cup updated
  <2>1. IsAMap!Changed = {m \in Members : Map'[m] # Map[m]}
    BY DEF IsAMap!Changed
  <2>2. \A m \in added \cup updated : m \in D /\ m \in Members /\ new[m] # Map[m]
    BY <1>1, <1>5, <1>7, <1>11
  <2> QED
    BY <1>7, <1>10, <2>1, <2>2
<1>14. Cardinality(added \cup updated) = Cardinality(added) + Cardinality(updated)
  <2>1. IsFiniteSet(added) /\ IsFiniteSet(updated)
    BY <1>7, ZsetAssumption, FS_Subset
  <2>2. Cardinality(added) \in Nat /\ Cardinality(updated) \in Nat /\ Cardinality(added \cap updated) = 0
    BY <1>7, <2>1, FS_CardinalityType, FS_EmptySet
  <2>3. Cardinality(added \cup updated)
          = Cardinality(added) + Cardinality(updated) - Cardinality(added \cap updated)
    BY <2>1, FS_Union
  <2> QED
    BY <2>2, <2>3
<1>15. zout' = IsAMap!Number(Cardinality(IF "ch" \in flags THEN IsAMap!Changed ELSE IsAMap!New))
  BY <1>4, <1>12, <1>13, <1>14 DEF Number, IsAMap!Number
<1> QED
  BY <1>9, <1>15, AddIs

LEMMA IncrementIs ==
    ASSUME NEW m, NEW by, NEW flags
    PROVE  LET old == IF Map[m] = NoScore THEN 0 ELSE Map[m]
               sum == IF Inf \in {old, by} THEN Inf ELSE IF -Inf \in {old, by} THEN -Inf
                      ELSE IF old + by > Inf THEN Inf ELSE IF old + by < -Inf THEN -Inf ELSE old + by
           IN  IsAMap!Increment(m, by, flags) <=>
                 IF IF Map[m] = NoScore THEN "xx" \in flags ELSE "nx" \in flags
                 THEN zout' = Nil /\ Map' = Map
                 ELSE IF {old, by} = {Inf, -Inf} THEN zout' = Error /\ Map' = Map
                 ELSE Map' = [Map EXCEPT ![m] = sum] /\ zout' = Number(sum)
BY DEF IsAMap!Increment, IsAMap!Skipped, IsAMap!Nothing, IsAMap!Failed, IsAMap!Number, Nil, Error, Number

LEMMA ZincrIsIncrement ==
    ASSUME ZIndInv, ZCanBeVersioned, NEW m \in Members, NEW by \in Scores, NEW flags,
           Zincr(m, by, flags), PickedOK'
    PROVE  IsAMap!Increment(m, by, flags)
<1> DEFINE zv == GetZSetMetaVal
           score == IncrScore(m, by, flags)
           new == [x \in {m} |-> score]
           nop == IF Map[m] = NoScore THEN "xx" \in flags ELSE "nx" \in flags
           old == IF Map[m] = NoScore THEN 0 ELSE Map[m]
           sum == IF Inf \in {old, by} THEN Inf ELSE IF -Inf \in {old, by} THEN -Inf
                  ELSE IF old + by > Inf THEN Inf ELSE IF old + by < -Inf THEN -Inf ELSE old + by
<1>1. /\ Map \in ItemMaps /\ zitem[zv.ver] = Map
      /\ \A x \in Members : OldScore(zv, x) = Map[x]
  BY MapFacts
<1>2. IF score = NaN THEN zout' = Error /\ Map' = Map
      ELSE /\ score \in Scores /\ Map' = After(zv, new, flags)
           /\ zout' = IF Nop(m, flags) THEN Nil ELSE Number(score)
  BY ZincrInv
<1>3. Nop(m, flags) <=> nop
  BY <1>1 DEF Nop
<1>4. score = IF Map[m] = NoScore \/ "nx" \in flags THEN by ELSE ScoreSum(Map[m], by)
  BY <1>1 DEF IncrScore
<1>5. /\ Inf \in Nat \ {0} /\ by \in Int /\ -Inf <= by /\ by <= Inf /\ NaN = Inf + 1
      /\ Map[m] # NoScore => Map[m] \in Int /\ -Inf <= Map[m] /\ Map[m] <= Inf
  BY <1>1, ZsetAssumption DEF Scores, NaN, ItemMaps
<1>6. After(zv, new, flags) = [x \in Members |-> IF x = m /\ ~nop THEN score ELSE Map[x]]
  <2>1. Added(zv, new, flags) = {x \in {m} : Map[x] = NoScore /\ "xx" \notin flags}
    BY <1>1 DEF Added
  <2>2. Updated(zv, new, flags) = {x \in {m} : Map[x] \notin {NoScore, score} /\ "nx" \notin flags}
    BY <1>1 DEF Updated
  <2>3. \A x \in Members : (IF x \in Added(zv, new, flags) \cup Updated(zv, new, flags) THEN new[x] ELSE Map[x])
                             = IF x = m /\ ~nop THEN score ELSE Map[x]
    BY <2>1, <2>2
  <2> QED
    BY <1>1, <2>3 DEF After, Put
<1> HIDE DEF zv, score
<1>7. CASE nop
  <2>1. score # NaN
    BY <1>4, <1>5, <1>7
  <2>2. Map' = Map
    BY <1>1, <1>2, <1>6, <1>7, <2>1 DEF ItemMaps
  <2> QED
    BY <1>2, <1>3, <1>7, <2>1, <2>2, IncrementIs
<1>8. CASE ~nop
  <2>1. score = NaN <=> {old, by} = {Inf, -Inf}
    BY <1>4, <1>5, <1>8 DEF ScoreSum
  <2>2. score # NaN => score = sum
    BY <1>4, <1>5, <1>8 DEF ScoreSum
  <2>3. CASE score = NaN
    BY <1>2, <1>8, <2>1, <2>3, IncrementIs
  <2>4. CASE score # NaN
    <3>1. Map' = [Map EXCEPT ![m] = score]
      BY <1>1, <1>2, <1>6, <1>8, <2>4 DEF ItemMaps
    <3>2. zout' = Number(score)
      BY <1>2, <1>3, <1>8, <2>4
    <3> QED
      BY <1>8, <2>1, <2>2, <2>4, <3>1, <3>2, IncrementIs
  <2> QED
    BY <2>3, <2>4
<1> QED
  BY <1>7, <1>8

LEMMA RemoveIs ==
    ASSUME ZIndInv, NEW ms \in SUBSET Members,
           Map' = [m \in Members |-> IF m \in ms THEN NoScore ELSE Map[m]],
           zout' = Number(Cardinality({m \in ms : Map[m] # NoScore}))
    PROVE  IsAMap!Remove(ms)
<1>1. IsAMap!Gone = {m \in Members : Map[m] # NoScore} \ {m \in Members : Map'[m] # NoScore}
  BY DEF IsAMap!Gone, IsAMap!In
<1>2. IsAMap!Gone = {m \in ms : Map[m] # NoScore}
  BY <1>1
<1>3. zout' = IsAMap!Number(IsAMap!Cardinality(IsAMap!Gone))
  BY <1>2, SameCardinality DEF Number, IsAMap!Number
<1> QED
  BY <1>3 DEF IsAMap!Remove

LEMMA ZremIsRemove ==
    ASSUME ZIndInv, NEW ms \in SUBSET Members, Zrem(ms), PickedOK'
    PROVE  IsAMap!Next
<1>1. request'[1] = "zrem" /\ request'[2] = ms
  BY DEF Zrem
<1>2. IsAMap!Remove(ms)
  BY ZdelNoLockInv, RemoveIs DEF Zrem
<1> QED
  BY <1>1, <1>2 DEF IsAMap!Next

LEMMA RefuseIs == ASSUME ZIndInv, ZReply(Error), PickedOK' PROVE IsAMap!Refuse
BY ReplyInv DEF IsAMap!Refuse, IsAMap!Failed, Error

LEMMA ProcZaddIsZadd ==
    ASSUME ZIndInv, NEW flags, NEW pairs \in ZaddArgs, ProcZadd(flags, pairs)
    PROVE  IsAMap!Next
<1>1. PickedOK' /\ request'[1] = "zadd" /\ request'[2] = flags /\ request'[3] = pairs
  BY PickedSame DEF ProcZadd
<1>2. pairs \in Seq(Scores \X Members) /\ pairs # <<>>
  BY ZsetAssumption
<1>3. CASE {"nx", "xx"} \subseteq flags \/ ("incr" \in flags /\ Len(pairs) > 1)
  <2>1. IsAMap!Refuse
    BY <1>1, <1>3, RefuseIs DEF ProcZadd
  <2> QED
    BY <1>1, <1>3, <2>1 DEF IsAMap!Next
<1>4. CASE ~({"nx", "xx"} \subseteq flags \/ ("incr" \in flags /\ Len(pairs) > 1))
  <2>1. ZCanBeVersioned
    BY <1>4 DEF ProcZadd
  <2>2. CASE "incr" \in flags
    <3>1. pairs[1] \in Scores \X Members
      BY <1>2
    <3>2. pairs[1][2] \in Members /\ pairs[1][1] \in Scores
      BY <3>1
    <3>3. Zincr(pairs[1][2], pairs[1][1], flags)
      BY <1>4, <2>2 DEF ProcZadd
    <3>4. IsAMap!Increment(pairs[1][2], pairs[1][1], flags)
      BY <1>1, <2>1, <3>2, <3>3, ZincrIsIncrement
    <3> QED
      BY <1>1, <2>2, <3>4 DEF IsAMap!Next
  <2>3. CASE "incr" \notin flags
    <3>1. ZsetNoLock(SortedSet(pairs, "nx" \in flags), flags)
      BY <1>4, <2>3 DEF ProcZadd
    <3>2. IsAMap!Add(pairs, flags)
      BY <1>1, <1>2, <1>4, <2>1, <3>1, ZaddIsAdd
    <3> QED
      BY <1>1, <2>3, <3>2 DEF IsAMap!Next
  <2> QED
    BY <2>2, <2>3
<1> QED
  BY <1>3, <1>4

LEMMA ProcZincrbyIsZadd ==
    ASSUME ZIndInv, NEW m \in Members, NEW by \in Scores, ProcZincrby(m, by)
    PROVE  IsAMap!Next
<1>1. /\ request'[1] = "zadd" /\ request'[2] = {"incr"}
      /\ request'[3][1][2] = m /\ request'[3][1][1] = by
  BY DEF ProcZincrby
<1>2. IsAMap!Increment(m, by, {"incr"})
  BY ZincrIsIncrement, PickedSame DEF ProcZincrby
<1>3. "incr" \in request'[2] /\ IsAMap!Increment(request'[3][1][2], request'[3][1][1], request'[2])
  BY <1>1, <1>2
<1> QED
  BY <1>1, <1>3 DEF IsAMap!Next

LEMMA ZRestoreIsRestore ==
    ASSUME ZIndInv, NEW new \in ZPayload, NEW replace, ZRestore(new, replace)
    PROVE  IsAMap!Next
<1>1. PickedOK' /\ request'[1] = "restore" /\ request'[2] = new
  BY PickedSame DEF ZRestore
<1>2. CASE ZReply(Error)
  BY <1>1, <1>2, RefuseIs DEF IsAMap!Next
<1>3. CASE ZFound /\ ZKill(Error)
  <2>1. IsAMap!Fail
    BY <1>1, <1>3, KillInv DEF IsAMap!Fail, IsAMap!NoMembers, IsAMap!Failed, Error
  <2> QED
    BY <1>1, <2>1 DEF IsAMap!Next
<1>4. CASE ZNextVersion <= MaxZVersion /\ QuickZset(new)
  <2>1. IsAMap!Restore(new)
    BY <1>1, <1>4, QuickZsetInv DEF IsAMap!Restore, IsAMap!Number, Number
  <2> QED
    BY <1>1, <2>1 DEF IsAMap!Next
<1> QED
  BY <1>2, <1>3, <1>4 DEF ZRestore

LEMMA ZDelIsDelete == ASSUME ZIndInv, ZDel PROVE IsAMap!Next
<1>1. PickedOK' /\ request'[1] = "del"
  BY PickedSame DEF ZDel
<1>2. IsAMap!In(Map) = {m \in Members : Map[m] # NoScore}
  BY DEF IsAMap!In
<1>3. CASE ZFound
  <2>1. Map' = IsAMap!NoMembers /\ zout' = Number(1)
    BY <1>1, <1>3, KillInv DEF ZDel, IsAMap!NoMembers
  <2>2. InSet(zmeta.ver) # {}
    <3>1. zmeta.len = Cardinality(InSet(zmeta.ver)) /\ zmeta.len # 0
      BY <1>3 DEF ZIndInv, ZsetAgrees
    <3> QED
      BY <3>1, FS_EmptySet
  <2>3. IsAMap!In(Map) # {}
    BY <1>2, <1>3, <2>2 DEF InSet, Map
  <2>4. IsAMap!Delete
    BY <2>1, <2>3 DEF IsAMap!Delete, IsAMap!Number, Number
  <2> QED
    BY <1>1, <2>4 DEF IsAMap!Next
<1>4. CASE ~ZFound
  <2>1. Map' = Map /\ zout' = Number(0)
    BY <1>1, <1>4, ReplyInv DEF ZDel
  <2>2. Map = IsAMap!NoMembers
    BY <1>4 DEF Map, IsAMap!NoMembers
  <2>3. IsAMap!In(Map) = {}
    BY <1>2, <1>4, NoneFound
  <2>4. IsAMap!Delete
    BY <2>1, <2>2, <2>3 DEF IsAMap!Delete, IsAMap!Number, Number
  <2> QED
    BY <1>1, <2>4 DEF IsAMap!Next
<1> QED
  BY <1>3, <1>4

LEMMA RankReadRefines ==
    ASSUME ZIndInv, NEW b, NEW l, ZremrangebyrankRead(b, l)
    PROVE  IsAMap!Next \/ UNCHANGED <<Map, request, zout>>
<1>1. CASE ZFound
  <2>1. UNCHANGED <<zmeta, zitem, zscore, request, zout>>
    BY <1>1 DEF ZremrangebyrankRead
  <2> QED
    BY <2>1 DEF Map, ZFound
<1>2. CASE ~ZFound
  <2>1. ZReply(Number(0)) /\ request' = <<"zrem", {}>> /\ PickedOK'
    BY <1>2, PickedSame DEF ZremrangebyrankRead
  <2>2. Map' = Map /\ zout' = Number(0) /\ Map \in ItemMaps
    BY <2>1, ReplyInv, MapFacts
  <2>3. Map = [m \in Members |-> IF m \in {} THEN NoScore ELSE Map[m]]
    BY <2>2 DEF ItemMaps
  <2>4. Cardinality({m \in {} : Map[m] # NoScore}) = 0
    <3>1. {m \in {} : Map[m] # NoScore} = {}
      OBVIOUS
    <3> QED
      BY <3>1, FS_EmptySet
  <2>5. IsAMap!Remove({})
    BY <2>2, <2>3, <2>4, RemoveIs
  <2> QED
    BY <2>1, <2>5 DEF IsAMap!Next
<1> QED
  BY <1>1, <1>2

\* The records of a sorted set implement a map: each command takes a step of
\* ZsetAbs, its answer included, for any members, scores, flags and lists of
\* pairs, a member several times in one ZADD among them; ZREMRANGEBYRANK takes
\* its step when it removes.
THEOREM ImplementsAMap == ZSpec => BehavesAsAMap
<1>1. ZInit => IsAMap!Init
  <2> SUFFICES ASSUME ZInit PROVE IsAMap!Init
    OBVIOUS
  <2>1. Map = [m \in Members |-> NoScore]
    BY DEF Map, ZFound, ZInit, ZAbsent
  <2> QED
    BY <2>1 DEF ZInit, IsAMap!Init, IsAMap!Nothing, Nil
<1>2. ZIndInv /\ [ZNext]_zvars => [IsAMap!Next]_<<Map, request, zout>>
  <2> SUFFICES ASSUME ZIndInv, [ZNext]_zvars
               PROVE  IsAMap!Next \/ UNCHANGED <<Map, request, zout>>
    OBVIOUS
  <2>1. ASSUME NEW fs, NEW ps \in ZaddArgs, ProcZadd(fs, ps) PROVE IsAMap!Next
    BY <2>1, ProcZaddIsZadd
  <2>2. ASSUME NEW m \in Members, NEW by \in Scores, ProcZincrby(m, by) PROVE IsAMap!Next
    BY <2>2, ProcZincrbyIsZadd
  <2>3. ASSUME NEW ms \in (SUBSET Members) \ {{}}, MultiZdel(ms) PROVE IsAMap!Next
    BY <2>3, ZremIsRemove, PickedSame DEF MultiZdel
  <2>4. ASSUME NEW r \in ScoreRanges, Zremrangebyscore(r) PROVE IsAMap!Next
    BY <2>4, ScoreSelectedIn, ZremIsRemove, PickedSame DEF Zremrangebyscore
  <2>5. ASSUME NEW min, NEW max, Zremrangebylex(min, max) PROVE IsAMap!Next
    <3> DEFINE found == LexSelected(min, max)
               ms == {found[i] : i \in DOMAIN found}
    <3>1. Zrem(ms) /\ PickedOK'
      BY <2>5, PickedSame DEF Zremrangebylex
    <3>2. found \in Seq(Members)
      BY LexSelectedIn
    <3> HIDE DEF found
    <3>3. ms \in SUBSET Members
      BY <3>2
    <3> QED
      BY <3>1, <3>3, ZremIsRemove
  <2>6. ASSUME NEW b \in Ranks, NEW l \in Ranks, ZremrangebyrankRead(b, l)
        PROVE  IsAMap!Next \/ UNCHANGED <<Map, request, zout>>
    BY <2>6, RankReadRefines
  <2>7. CASE ZremrangebyrankDel
    <3>1. picked # <<>> /\ Zrem(picked[1]) /\ picked' = <<>>
      BY <2>7 DEF ZremrangebyrankDel
    <3>2. picked[1] \in SUBSET Members
      BY <3>1 DEF ZIndInv, ZTypeOK
    <3>3. PickedOK'
      BY <3>1 DEF PickedOK
    <3> QED
      BY <3>1, <3>2, <3>3, ZremIsRemove
  <2>8. ASSUME NEW new \in ZPayload, NEW r, ZRestore(new, r) PROVE IsAMap!Next
    BY <2>8, ZRestoreIsRestore
  <2>9. CASE ZDel
    BY <2>9, ZDelIsDelete
  <2>10. CASE UNCHANGED zvars
    BY <2>10 DEF zvars, Map, ZFound
  <2> QED
    BY <2>1, <2>2, <2>3, <2>4, <2>5, <2>6, <2>7, <2>8, <2>9, <2>10 DEF ZNext
<1> QED
  BY <1>1, <1>2, ZIndInvHolds, PTL DEF ZSpec, BehavesAsAMap, IsAMap!Spec

----------------------------------------------------------------------------
(* Hashes and sets: values *)

LEMMA HTextIs == ASSUME NEW t PROVE <<"text", t>> # NoField
BY DEF NoField
LEMMA HIntIs == ASSUME NEW t PROVE <<"int", t>> # NoField
BY DEF NoField
LEMMA HValueNotNone == NoField \notin HValues
<1>1. ASSUME NEW v \in HValues PROVE v # NoField
  <2>1. CASE v \in {"text"} \X Texts
    <3>1. PICK t \in Texts : v = <<"text", t>>
      BY <2>1
    <3> QED
      BY <3>1, HTextIs
  <2>2. CASE v \in {"int"} \X (LLongMin..LLongMax)
    <3>1. PICK t \in LLongMin..LLongMax : v = <<"int", t>>
      BY <2>2
    <3> QED
      BY <3>1, HIntIs
  <2> QED
    BY <2>1, <2>2 DEF HValues
<1> QED
  BY <1>1

LEMMA MemberIsValue == Member \in HValues /\ Member # NoField
<1>1. Member \in HValues
  BY HashAssumption DEF Member, HValues
<1> QED
  BY <1>1, HValueNotNone

(* Maps from fields to values, and their fields *)

HNone == [f \in HFields |-> NoField]
HMaps == [HFields -> HValues \cup {NoField}]
OnlyMembers(m) == \A f \in HFields : m[f] \in {Member, NoField}
With(m) == {f \in HFields : m[f] # NoField}

LEMMA HFieldsFinite == IsFiniteSet(HFields) /\ HFields \subseteq Nat
BY HashAssumption

LEMMA WithFinite ==
    ASSUME NEW m
    PROVE  /\ With(m) \in SUBSET HFields /\ IsFiniteSet(With(m))
           /\ Cardinality(With(m)) \in Nat /\ (Cardinality(With(m)) = 0 <=> With(m) = {})
<1>1. With(m) \in SUBSET HFields
  BY DEF With
<1>2. IsFiniteSet(With(m))
  BY <1>1, HFieldsFinite, FS_Subset
<1>3. Cardinality(With(m)) \in Nat
  BY <1>2, FS_CardinalityType
<1>4. Cardinality(With(m)) = 0 <=> With(m) = {}
  BY <1>2, FS_EmptySet
<1> QED
  BY <1>1, <1>2, <1>3, <1>4

LEMMA NoneIs == HNone \in HMaps /\ With(HNone) = {} /\ OnlyMembers(HNone)
BY DEF HNone, HMaps, With, OnlyMembers

----------------------------------------------------------------------------
(* What always holds of the records *)

HMetas == [st : {"absent", "live", "dead"}, type : {"hash", "set"}, len : Nat, ver : HVersions]
HTypes == hmeta \in HMetas /\ hitem \in [HVersions -> HMaps]
HLengths == HFound => hmeta.len = Cardinality(With(hitem[hmeta.ver])) /\ With(hitem[hmeta.ver]) # {}
HMembers == HFound /\ hmeta.type = "set" => OnlyMembers(hitem[hmeta.ver])
HUnused == \A v \in HVersions : v >= HNextVersion => hitem[v] = HNone

HInd == HTypes /\ HLengths /\ HMembers /\ HUnused

LEMMA MetaIs ==
    ASSUME HInd
    PROVE  /\ hmeta.ver \in 0..MaxHVersion /\ hmeta.ver \in HVersions /\ hmeta.len \in Nat
           /\ hmeta.type \in {"hash", "set"} /\ hmeta.st \in {"absent", "live", "dead"}
           /\ ItemsOf(hmeta) = hitem[hmeta.ver] /\ hitem[hmeta.ver] \in HMaps
           /\ There(hmeta) = With(hitem[hmeta.ver])
           /\ HNextVersion \in Nat /\ MaxHVersion \in Nat
<1>1. /\ hmeta.ver \in 0..MaxHVersion /\ hmeta.len \in Nat /\ MaxHVersion \in Nat
      /\ hmeta.type \in {"hash", "set"} /\ hmeta.st \in {"absent", "live", "dead"}
  BY HashAssumption DEF HInd, HTypes, HMetas, HVersions
<1>2. ItemsOf(hmeta) = hitem[hmeta.ver]
  BY <1>1 DEF ItemsOf
<1>3. hitem[hmeta.ver] \in HMaps
  BY <1>1 DEF HInd, HTypes, HVersions
<1>4. There(hmeta) = With(hitem[hmeta.ver])
  BY <1>2 DEF There, With
<1>5. HNextVersion \in Nat
  BY <1>1 DEF HNextVersion
<1> QED
  BY <1>1, <1>2, <1>3, <1>4, <1>5 DEF HVersions

\* The map a command of a type works on, in the module and in the promise.
LEMMA MapIs ==
    ASSUME HInd, NEW type \in {"hash", "set"}, ~WrongType(type)
    PROVE  /\ ItemsOf(HMetaVal(type)) = HMap /\ There(HMetaVal(type)) = With(HMap)
           /\ HMap \in HMaps /\ HKind \in {"none", type}
           /\ HKind = (IF With(HMap) = {} THEN "none" ELSE type)
           /\ HMetaVal(type).ver \in Nat /\ HMetaVal(type).type = type /\ HMetaVal(type).st = "live"
           /\ HMetaVal(type).len = Cardinality(With(HMap)) /\ HSize = Cardinality(With(HMap))
           /\ HFound => HMetaVal(type) = hmeta
           /\ ~HFound => With(HMap) = {} /\ HMap = HNone /\ HMetaVal(type).ver = HNextVersion
           /\ type = "set" => OnlyMembers(HMap)
<1>1. CASE HFound
  <2>1. HMetaVal(type) = hmeta /\ HMap = hitem[hmeta.ver] /\ HKind = type /\ hmeta.type = type
    BY <1>1, MetaIs DEF HMetaVal, HMap, HKind, WrongType
  <2>2. hmeta.len = Cardinality(With(HMap)) /\ With(HMap) # {} /\ (type = "set" => OnlyMembers(HMap))
    BY <1>1, <2>1 DEF HInd, HLengths, HMembers
  <2> QED
    BY <1>1, <2>1, <2>2, MetaIs DEF HFound, HSize
<1>2. CASE ~HFound
  <2>1. HMetaVal(type) = HLive(type, 0, HNextVersion) /\ HMap = HNone /\ HKind = "none"
    BY <1>2 DEF HMetaVal, HMap, HKind, HNone
  <2>2. HMetaVal(type).ver = HNextVersion /\ HMetaVal(type).len = 0 /\ HMetaVal(type).type = type /\ HMetaVal(type).st = "live"
    BY <2>1 DEF HLive
  <2>3. ItemsOf(HMetaVal(type)) = HNone
    <3>1. CASE HNextVersion <= MaxHVersion
      <4>1. HNextVersion \in HVersions /\ HNextVersion >= HNextVersion
        BY <3>1, MetaIs DEF HVersions
      <4>2. hitem[HNextVersion] = HNone
        BY <4>1 DEF HInd, HUnused
      <4> QED
        BY <2>2, <3>1, <4>2 DEF ItemsOf
    <3>2. CASE ~(HNextVersion <= MaxHVersion)
      BY <2>2, <3>2 DEF ItemsOf, HNone
    <3> QED
      BY <3>1, <3>2
  <2>4. There(HMetaVal(type)) = With(HNone)
    BY <2>3 DEF There, With
  <2>5. Cardinality(With(HNone)) = 0 /\ HSize = 0
    BY <1>2, NoneIs, WithFinite DEF HSize
  <2>6. HNextVersion \in Nat
    BY MetaIs
  <2> QED
    BY <1>2, <2>1, <2>2, <2>3, <2>4, <2>5, <2>6, NoneIs
<1> QED
  BY <1>1, <1>2

LEMMA HInitInd == HInit => HInd
<1> SUFFICES ASSUME HInit PROVE HInd
  OBVIOUS
<1>1. hmeta.st = "absent" /\ hmeta \in HMetas
  BY HashAssumption DEF HInit, HMetas, HVersions
<1>2. hitem = [v \in HVersions |-> HNone]
  BY DEF HInit, HNone
<1>3. ~HFound
  BY <1>1 DEF HFound
<1> QED
  BY <1>1, <1>2, <1>3, NoneIs DEF HInd, HTypes, HLengths, HMembers, HUnused

----------------------------------------------------------------------------
(* Writes *)

LEMMA SameCard == ASSUME NEW S PROVE IsACollection!Cardinality(S) = Cardinality(S)
BY DEF IsACollection!Cardinality, Cardinality

LEMMA PresentIs == ASSUME NEW m PROVE IsACollection!Present(m) = With(m)
BY DEF IsACollection!Present, With

LEMMA EmptyMap == ASSUME NEW m \in HMaps, With(m) = {} PROVE m = HNone
BY DEF HMaps, With, HNone

LEMMA BecomeIs ==
    ASSUME NEW type, NEW m, NEW r, HMap' = m, HKind' = (IF With(m) = {} THEN "none" ELSE type), hout' = r
    PROVE  IsACollection!Become(type, m, r)
BY PresentIs, Zenon DEF IsACollection!Become

\* The records after a map has been written as the version of a META record
LEMMA AfterWrite ==
    ASSUME HInd, NEW type \in {"hash", "set"}, NEW its \in HMaps, NEW v \in HVersions,
           v + 1 >= HNextVersion,
           hitem' = [hitem EXCEPT ![v] = its], hmeta' \in HMetas, hmeta'.ver = v, hmeta'.type = type,
           hmeta'.st = (IF With(its) = {} THEN "dead" ELSE "live"),
           With(its) # {} => hmeta'.len = Cardinality(With(its)),
           type = "set" => OnlyMembers(its)
    PROVE  HInd' /\ HMap' = its /\ HKind' = (IF With(its) = {} THEN "none" ELSE type)
<1>1. hitem \in [HVersions -> HMaps]
  BY DEF HInd, HTypes
<1>2. hitem' \in [HVersions -> HMaps] /\ hitem'[v] = its /\ \A w \in HVersions \ {v} : hitem'[w] = hitem[w]
  BY <1>1
<1>3. HFound' <=> With(its) # {}
  BY DEF HFound
<1>4. HTypes'
  BY <1>2 DEF HTypes, HMetas, HVersions, HMaps, HValues
<1>5. HLengths'
  <2>1. HLengths' = (HFound' => hmeta'.len = Cardinality(With(hitem'[hmeta'.ver])) /\ With(hitem'[hmeta'.ver]) # {})
    BY DEF HLengths, With
  <2> QED
    BY <1>2, <1>3, <2>1
<1>6. HMembers'
  <2>1. HMembers' = (HFound' /\ hmeta'.type = "set" => OnlyMembers(hitem'[hmeta'.ver]))
    BY DEF HMembers, OnlyMembers
  <2> QED
    BY <1>2, <1>3, <2>1
<1>7. HNextVersion' = v + 1
  BY DEF HNextVersion
<1>8. HUnused'
  <2>1. HNextVersion \in Nat /\ v \in Nat
    BY MetaIs DEF HVersions
  <2>2. ASSUME NEW w \in HVersions, w >= v + 1
        PROVE  hitem'[w] = HNone
    <3>1. w # v /\ w >= HNextVersion
      BY <2>1, <2>2 DEF HVersions
    <3> QED
      BY <1>2, <3>1 DEF HInd, HUnused
  <2> QED
    BY <1>7, <2>2 DEF HUnused, HVersions, HNone
<1>9. HInd'
  BY <1>4, <1>5, <1>6, <1>8 DEF HInd
<1>10. ItemsOf(hmeta)' = its
  <2>1. v <= MaxHVersion
    BY HashAssumption DEF HVersions
  <2> QED
    BY <1>2, <2>1 DEF ItemsOf
<1>11. HMap' = its
  <2>1. HMap' = (IF HFound' THEN ItemsOf(hmeta)' ELSE HNone)
    BY DEF HMap, HNone
  <2> QED
    BY <1>3, <1>10, <2>1, EmptyMap
<1>12. HKind' = (IF With(its) = {} THEN "none" ELSE type)
  BY <1>3 DEF HKind
<1> QED
  BY <1>9, <1>11, <1>12

\* A command answers and leaves everything as it is.
LEMMA SameRecords ==
    ASSUME HInd, UNCHANGED <<hmeta, hitem>>
    PROVE  HInd' /\ HMap' = HMap /\ HKind' = HKind
<1>1. HInd'
  BY DEF HInd, HTypes, HLengths, HMembers, HUnused, HFound, HNextVersion
<1>2. HMap' = HMap
  BY DEF HMap, HFound, ItemsOf
<1>3. HKind' = HKind
  BY DEF HKind, HFound
<1> QED
  BY <1>1, <1>2, <1>3

LEMMA ReplyIs ==
    ASSUME HInd, NEW r, HReply(r)
    PROVE  HInd' /\ IsACollection!Answer(r)
<1>1. HInd' /\ HMap' = HMap /\ HKind' = HKind /\ hout' = r
  BY SameRecords DEF HReply
<1> QED
  BY <1>1, Zenon DEF IsACollection!Answer

LEMMA CommitIs ==
    ASSUME HInd, NEW type \in {"hash", "set"}, ~WrongType(type), NEW its \in HMaps, NEW incr, NEW r,
           incr = Cardinality(With(its)) - Cardinality(With(HMap)),
           HFound \/ With(its) # {}, type = "set" => OnlyMembers(its),
           HCommit(HMetaVal(type), its, incr, r)
    PROVE  HInd' /\ IsACollection!Become(type, its, r)
<1> DEFINE hv == HMetaVal(type)
           n == Cardinality(With(its))
<1>1. /\ hv.ver \in Nat /\ hv.type = type /\ hv.st = "live" /\ hv.len \in Nat
      /\ hv.len + incr = n /\ n \in Nat /\ incr \in Int /\ (n = 0 <=> With(its) = {})
  <2>1. /\ hv.ver \in Nat /\ hv.type = type /\ hv.st = "live" /\ hv.len = Cardinality(With(HMap))
    BY MapIs
  <2>2. n \in Nat /\ Cardinality(With(HMap)) \in Nat /\ (n = 0 <=> With(its) = {})
    BY WithFinite
  <2> QED
    BY <2>1, <2>2
<1>2. hv = [st |-> "live", type |-> type, len |-> hv.len, ver |-> hv.ver]
  <2>1. CASE HFound
    <3>1. hv = hmeta
      BY <2>1, MapIs
    <3>2. hmeta \in HMetas /\ hmeta.st = "live" /\ hmeta.type = type
      BY <1>1, <3>1 DEF HInd, HTypes
    <3> QED
      BY <3>1, <3>2 DEF HMetas
  <2>2. CASE ~HFound
    BY <2>2 DEF HMetaVal, HLive
  <2> QED
    BY <2>1, <2>2
<1>3. (HFound => hv = hmeta) /\ (~HFound => hv.ver = HNextVersion /\ With(HMap) = {})
  BY MapIs
<1> HIDE DEF hv
<1> DEFINE new == IncrHsize(hv, incr)
<1>4. /\ new # HSizeError /\ new.ver = hv.ver /\ new.type = type /\ new.len \in Nat
      /\ new = [st |-> new.st, type |-> type, len |-> new.len, ver |-> hv.ver]
      /\ new.st = (IF With(its) = {} THEN "dead" ELSE "live")
      /\ With(its) # {} => new.len = n
  <2>1. CASE incr = 0
    <3>1. HFound
      <4>1. ASSUME ~HFound PROVE FALSE
        <5>1. Cardinality({}) = 0 /\ With(HMap) = {}
          BY <1>3, <4>1, FS_EmptySet
        <5> HIDE DEF n
        <5>2. n = 0
          <6>1. incr = n - 0
            BY <5>1 DEF n
          <6> QED
            BY <1>1, <2>1, <6>1
        <5> QED
          BY <1>1, <4>1, <5>2
      <4> QED
        BY <4>1
    <3>2. new = hv /\ hv = hmeta
      BY <1>3, <2>1, <3>1 DEF IncrHsize
    <3>3. With(HMap) # {}
      BY <3>1, MetaIs DEF HInd, HLengths, HMap
    <3>4. Cardinality(With(HMap)) # 0 /\ n = hv.len
      <4>1. Cardinality(With(HMap)) # 0
        BY <3>3, WithFinite
      <4> HIDE DEF n
      <4> QED
        BY <1>1, <2>1, <4>1
    <3>5. n # 0
      <4>1. hv.len = Cardinality(With(HMap))
        BY MapIs DEF hv
      <4> QED
        BY <3>4, <4>1
    <3>6. new # HSizeError
      BY <1>1, <3>2 DEF HSizeError
    <3> HIDE DEF new, n
    <3> QED
      BY <1>1, <1>2, <3>2, <3>4, <3>5, <3>6
  <2>2. CASE incr # 0 /\ n = 0
    <3>1. new = HDead(hv)
      <4> HIDE DEF n
      <4> QED
        BY <1>1, <2>2 DEF IncrHsize
    <3>2. new = [st |-> "dead", type |-> type, len |-> hv.len, ver |-> hv.ver]
      BY <1>2, <3>1 DEF HDead
    <3>3. new # HSizeError
      BY <3>2 DEF HSizeError
    <3> HIDE DEF new, n
    <3> QED
      BY <1>1, <2>2, <3>2, <3>3
  <2>3. CASE incr # 0 /\ n # 0
    <3>1. new = [hv EXCEPT !.len = n]
      <4> HIDE DEF n
      <4> QED
        BY <1>1, <2>3 DEF IncrHsize
    <3>2. new = [st |-> "live", type |-> type, len |-> n, ver |-> hv.ver]
      BY <1>2, <3>1
    <3>3. new # HSizeError
      BY <3>2 DEF HSizeError
    <3> HIDE DEF new, n
    <3> QED
      BY <1>1, <2>3, <3>2, <3>3
  <2> QED
    BY <2>1, <2>2, <2>3
<1>5. HCanBeVersioned /\ hmeta' = new /\ hitem' = [hitem EXCEPT ![hv.ver] = its] /\ hout' = r
  BY <1>4, Zenon DEF HCommit, hv
<1>6. hv.ver \in HVersions /\ hv.ver + 1 >= HNextVersion
  <2>1. CASE HFound
    <3>1. hv.ver = hmeta.ver /\ HNextVersion = hmeta.ver + 1
      BY <2>1, <1>3 DEF HFound, HNextVersion
    <3> QED
      BY <3>1, MetaIs
  <2>2. CASE ~HFound
    <3>1. hv.ver = HNextVersion /\ HNextVersion <= MaxHVersion
      BY <1>3, <1>5, <2>2 DEF HCanBeVersioned
    <3> QED
      BY <1>1, <3>1, MetaIs DEF HVersions
  <2> QED
    BY <2>1, <2>2
<1> HIDE DEF new, n
<1>7. hmeta' \in HMetas
  <2>1. new.st \in {"absent", "live", "dead"}
    BY <1>4
  <2> QED
    BY <1>4, <1>5, <1>6, <2>1 DEF HMetas
<1>8. HInd' /\ HMap' = its /\ HKind' = (IF With(its) = {} THEN "none" ELSE type)
  BY <1>4, <1>5, <1>6, <1>7, AfterWrite DEF n
<1> QED
  BY <1>5, <1>8, BecomeIs

----------------------------------------------------------------------------
(* How many fields a map has after a write *)

Over(m, new) == [f \in HFields |-> IF f \in DOMAIN new THEN new[f] ELSE m[f]]
Without(m, fs) == [f \in HFields |-> IF f \in fs THEN NoField ELSE m[f]]

LEMMA Grows ==
    ASSUME NEW S, IsFiniteSet(S), NEW D, IsFiniteSet(D)
    PROVE  Cardinality(D \ S) = Cardinality(S \cup D) - Cardinality(S)
<1>1. /\ IsFiniteSet(D \ S) /\ Cardinality(D \ S) \in Nat /\ Cardinality(S) \in Nat
  BY FS_Difference, FS_CardinalityType
<1>2. S \cup D = S \cup (D \ S) /\ S \cap (D \ S) = {}
  OBVIOUS
<1>3. Cardinality(S \cup (D \ S)) = Cardinality(S) + Cardinality(D \ S) - Cardinality(S \cap (D \ S))
  BY <1>1, FS_Union
<1>4. Cardinality({}) = 0
  BY FS_EmptySet
<1>5. Cardinality(S \cup D) = Cardinality(S) + Cardinality(D \ S) - 0
  BY <1>2, <1>3, <1>4, Zenon
<1> QED
  BY <1>1, <1>5

LEMMA Shrinks ==
    ASSUME NEW S, IsFiniteSet(S), NEW D
    PROVE  Cardinality(D \cap S) = Cardinality(S) - Cardinality(S \ D)
<1>1. S \cap D = D \cap S /\ IsFiniteSet(D \cap S)
  BY FS_Intersection
<1>2. Cardinality(S \ D) = Cardinality(S) - Cardinality(S \cap D)
  BY FS_Difference
<1>3. Cardinality(S) \in Nat /\ Cardinality(D \cap S) \in Nat
  BY <1>1, FS_CardinalityType
<1> QED
  BY <1>1, <1>2, <1>3

LEMMA OverIs ==
    ASSUME NEW m \in HMaps, NEW new, DOMAIN new \in SUBSET HFields, \A f \in DOMAIN new : new[f] \in HValues
    PROVE  /\ Over(m, new) \in HMaps /\ With(Over(m, new)) = With(m) \cup DOMAIN new
           /\ Cardinality(DOMAIN new \ With(m)) = Cardinality(With(Over(m, new))) - Cardinality(With(m))
<1>1. Over(m, new) \in HMaps
  BY DEF Over, HMaps
<1>2. With(Over(m, new)) = With(m) \cup DOMAIN new
  BY HValueNotNone DEF Over, With
<1>3. IsFiniteSet(With(m)) /\ IsFiniteSet(DOMAIN new)
  BY WithFinite, HFieldsFinite, FS_Subset
<1> QED
  BY <1>1, <1>2, <1>3, Grows

LEMMA WithoutIs ==
    ASSUME NEW m \in HMaps, NEW fs
    PROVE  /\ Without(m, fs) \in HMaps /\ With(Without(m, fs)) = With(m) \ fs
           /\ Cardinality(fs \cap With(m)) = Cardinality(With(m)) - Cardinality(With(Without(m, fs)))
           /\ Cardinality(fs \cap With(m)) \in Nat
           /\ OnlyMembers(m) => OnlyMembers(Without(m, fs))
<1>1. Without(m, fs) \in HMaps
  BY DEF Without, HMaps
<1>2. With(Without(m, fs)) = With(m) \ fs
  BY DEF Without, With
<1>3. IsFiniteSet(With(m)) /\ IsFiniteSet(fs \cap With(m))
  BY WithFinite, FS_Intersection
<1>4. OnlyMembers(m) => OnlyMembers(Without(m, fs))
  BY DEF OnlyMembers, Without
<1> QED
  BY <1>1, <1>2, <1>3, <1>4, Shrinks, FS_CardinalityType

\* hset_one for several fields, and the META record
LEMMA PutIs ==
    ASSUME HInd, ~WrongType("hash"), NEW new, DOMAIN new \in SUBSET HFields, DOMAIN new # {},
           \A f \in DOMAIN new : new[f] \in HValues, NEW r, HPut(new, r)
    PROVE  HInd' /\ IsACollection!Become("hash", Over(HMap, new), r)
<1> DEFINE hv == HMetaVal("hash")
           set == HsetOne(hv, new)
<1>1. HMap \in HMaps /\ ItemsOf(hv) = HMap /\ There(hv) = With(HMap)
  BY MapIs
<1>2. set.its = Over(HMap, new)
  BY <1>1 DEF HsetOne, Over
<1>3. set.added = Cardinality(DOMAIN new \ With(HMap))
  BY <1>1 DEF HsetOne
<1>4. HCommit(hv, Over(HMap, new), set.added, r)
  BY <1>2 DEF HPut
<1>5. /\ Over(HMap, new) \in HMaps /\ With(Over(HMap, new)) # {}
      /\ set.added = Cardinality(With(Over(HMap, new))) - Cardinality(With(HMap))
  BY <1>1, <1>3, OverIs
<1> QED
  BY <1>4, <1>5, CommitIs

LEMMA AddedIs ==
    ASSUME HInd, ~WrongType("hash"), NEW new
    PROVE  HsetOne(HMetaVal("hash"), new).added = Cardinality(DOMAIN new \ With(HMap))
BY MapIs DEF HsetOne

----------------------------------------------------------------------------
(* Commands and types *)

LEMMA HashNext ==
    ASSUME HKind \in {"none", "hash"}, IsACollection!HashCommands
    PROVE  IsACollection!Next
BY Zenon DEF IsACollection!Next
LEMMA SetNext ==
    ASSUME HKind \in {"none", "set"}, IsACollection!SetCommands
    PROVE  IsACollection!Next
BY Zenon DEF IsACollection!Next

LEMMA WrongHash ==
    ASSUME HInd, WrongType("hash"), HReply(HError), hrequest'[1] \in IsACollection!OfHashes
    PROVE  HInd' /\ IsACollection!Next
<1>1. HInd' /\ IsACollection!Answer(HError)
  BY ReplyIs
<1>2. HKind = "set"
  BY MetaIs DEF WrongType, HKind
<1>3. hrequest'[1] \notin {"restore", "del"} /\ HKind \notin {"none", "hash"}
  BY <1>2 DEF IsACollection!OfHashes
<1>4. IsACollection!Refuse
  BY <1>1, Zenon DEF IsACollection!Refuse, IsACollection!Failed, HError
<1> QED
  BY <1>1, <1>3, <1>4, Zenon DEF IsACollection!Next

OfSets == {"sadd", "srem", "spop", "sismember", "scard", "smembers", "srandmember"}
LEMMA WrongSet ==
    ASSUME HInd, WrongType("set"), HReply(HError), hrequest'[1] \in OfSets
    PROVE  HInd' /\ IsACollection!Next
<1>1. HInd' /\ IsACollection!Answer(HError)
  BY ReplyIs
<1>2. HKind = "hash"
  BY MetaIs DEF WrongType, HKind
<1>3. hrequest'[1] \notin {"restore", "del"} /\ HKind \notin {"none", "set"} /\ hrequest'[1] \notin IsACollection!OfHashes
  BY <1>2 DEF IsACollection!OfHashes, OfSets
<1>4. IsACollection!Refuse
  BY <1>1, Zenon DEF IsACollection!Refuse, IsACollection!Failed, HError
<1> QED
  BY <1>1, <1>3, <1>4, Zenon DEF IsACollection!Next

LEMMA HashRefused ==
    ASSUME HInd, HReply(HError)
    PROVE  HInd' /\ IsACollection!Refuse
<1>1. HInd' /\ IsACollection!Answer(HError)
  BY ReplyIs
<1> QED
  BY <1>1, Zenon DEF IsACollection!Refuse, IsACollection!Failed, HError

----------------------------------------------------------------------------
(* HSET, HSETNX and HMSET *)

LEMMA OneOver ==
    ASSUME NEW m \in HMaps, NEW f \in HFields, NEW v
    PROVE  Over(m, [x \in {f} |-> v]) = [m EXCEPT ![f] = v]
BY DEF Over, HMaps

LEMMA SetRefines ==
    ASSUME HInd, NEW f \in HFields, NEW v \in HValues, NEW nx \in BOOLEAN, ~WrongType("hash"),
           hrequest' = <<"hset", f, v, nx>>, HsetCommon(f, v, nx)
    PROVE  HInd' /\ IsACollection!HashCommands
<1> DEFINE new == [x \in {f} |-> v]
           then == IF nx /\ HMap[f] # NoField THEN HMap ELSE [HMap EXCEPT ![f] = v]
           count == IsACollection!New({f})
<1>1. HMap \in HMaps /\ There(HMetaVal("hash")) = With(HMap) /\ HKind = (IF With(HMap) = {} THEN "none" ELSE "hash")
  BY MapIs
<1>2. count = HNumber(Cardinality({f} \ With(HMap)))
  BY SameCard, PresentIs, Zenon DEF IsACollection!New, IsACollection!Number, HNumber
<1>3. HFound /\ f \in There(hmeta) <=> HMap[f] # NoField
  <2>1. HFound => (f \in There(hmeta) <=> HMap[f] # NoField)
    <3>1. HFound => HMetaVal("hash") = hmeta
      BY MapIs
    <3> QED
      BY <1>1, <3>1 DEF With
  <2>2. ~HFound => HMap = HNone
    BY MapIs
  <2> QED
    BY <2>1, <2>2 DEF HNone
<1>4. HInd' /\ IsACollection!Become("hash", then, count)
  <2>1. CASE nx /\ HMap[f] # NoField
    <3>1. HReply(HNumber(0))
      BY <1>3, <2>1 DEF HsetCommon
    <3>2. f \in With(HMap)
      BY <2>1 DEF With
    <3>3. {f} \ With(HMap) = {}
      BY <3>2
    <3>4. count = HNumber(0)
      BY <1>2, <3>3, FS_EmptySet
    <3>5. HInd' /\ HMap' = HMap /\ HKind' = HKind /\ hout' = HNumber(0)
      BY <3>1, SameRecords DEF HReply
    <3> QED
      BY <1>1, <2>1, <3>4, <3>5, BecomeIs
  <2>2. CASE ~(nx /\ HMap[f] # NoField)
    <3>1. HPut(new, HNumber(HsetOne(HMetaVal("hash"), new).added))
      BY <1>3, <2>2 DEF HsetCommon
    <3>2. DOMAIN new = {f} /\ \A x \in DOMAIN new : new[x] \in HValues
      OBVIOUS
    <3>3. HNumber(HsetOne(HMetaVal("hash"), new).added) = count
      BY <1>2, <3>2, AddedIs
    <3>4. Over(HMap, new) = then
      BY <1>1, <2>2, OneOver
    <3>5. DOMAIN new \in SUBSET HFields /\ DOMAIN new # {}
      BY <3>2
    <3> HIDE DEF new, then, count
    <3>6. HPut(new, count)
      BY <3>1, <3>3
    <3>7. HInd' /\ IsACollection!Become("hash", Over(HMap, new), count)
      BY <3>2, <3>5, <3>6, PutIs
    <3> QED
      BY <3>4, <3>7
  <2> QED
    BY <2>1, <2>2
<1>5. IsACollection!Set(f, v, nx)
  BY <1>4, Zenon DEF IsACollection!Set
<1>6. hrequest'[1] = "hset" /\ hrequest'[2] = f /\ hrequest'[3] = v /\ hrequest'[4] = nx
  OBVIOUS
<1> QED
  BY <1>4, <1>5, <1>6, Zenon DEF IsACollection!HashCommands

LEMMA HsetRefines ==
    ASSUME HInd, NEW f \in HFields, NEW v \in {"text"} \X Texts, NEW nx \in BOOLEAN,
           OfType("hash", <<"hset", f, v, nx>>, HsetCommon(f, v, nx))
    PROVE  HInd' /\ IsACollection!Next
<1>1. hrequest' = <<"hset", f, v, nx>> /\ v \in HValues
  BY DEF OfType, HValues
<1>2. CASE WrongType("hash")
  <2>1. HReply(HError)
    BY <1>2 DEF OfType
  <2>2. hrequest'[1] \in IsACollection!OfHashes
    BY <1>1 DEF IsACollection!OfHashes
  <2> QED
    BY <1>2, <2>1, <2>2, WrongHash
<1>3. CASE ~WrongType("hash")
  <2>1. HsetCommon(f, v, nx)
    BY <1>3 DEF OfType
  <2>2. HInd' /\ IsACollection!HashCommands
    BY <1>1, <1>3, <2>1, SetRefines
  <2>3. HKind \in {"none", "hash"}
    BY <1>3, MapIs
  <2> QED
    BY <2>2, <2>3, HashNext
<1> QED
  BY <1>2, <1>3

HPairs == HFields \X HValues
NamedBy(pairs, i) == {pairs[k][1] : k \in 1..i}
IsLast(pairs, i, f, k) == k \in 1..i /\ pairs[k][1] = f /\ \A j \in (k + 1)..i : pairs[j][1] # f
LastOf(pairs, i, f) == CHOOSE k : IsLast(pairs, i, f, k)
\* A map after the first i of the pairs
AfterPairs(m, pairs, i) ==
    [f \in HFields |-> IF f \in NamedBy(pairs, i) THEN pairs[LastOf(pairs, i, f)][2] ELSE m[f]]

LEMMA LastUnique ==
    ASSUME NEW pairs, NEW i \in Nat, NEW f, NEW k, NEW l, IsLast(pairs, i, f, k), IsLast(pairs, i, f, l)
    PROVE  k = l
<1>1. k \in 1..i /\ l \in 1..i
  BY DEF IsLast
<1>2. ~(k < l)
  <2>1. k < l => l \in (k + 1)..i
    BY <1>1
  <2> QED
    BY <2>1, Zenon DEF IsLast
<1>3. ~(l < k)
  <2>1. l < k => k \in (l + 1)..i
    BY <1>1
  <2> QED
    BY <2>1, Zenon DEF IsLast
<1> QED
  BY <1>1, <1>2, <1>3

LEMMA LastExists ==
    ASSUME NEW pairs, NEW i \in Nat, NEW f \in NamedBy(pairs, i)
    PROVE  IsLast(pairs, i, f, LastOf(pairs, i, f))
<1> DEFINE T == {k \in 1..i : pairs[k][1] = f}
<1>1. T \in SUBSET Nat /\ T # {} /\ \A k \in T : k <= i
  BY DEF NamedBy
<1>2. PICK k \in T : \A j \in T : j <= k
  BY <1>1, GreatestNat
<1>3. \A j \in (k + 1)..i : pairs[j][1] # f
  <2>1. k \in Nat
    BY <1>1, <1>2
  <2>2. \A j \in (k + 1)..i : j \in 1..i /\ ~(j <= k)
    BY <2>1
  <2> QED
    BY <1>2, <2>2
<1>4. IsLast(pairs, i, f, k)
  BY <1>2, <1>3 DEF IsLast
<1> QED
  BY <1>4, Zenon DEF LastOf

LEMMA LastIs ==
    ASSUME NEW pairs, NEW i \in Nat, NEW f, NEW k, IsLast(pairs, i, f, k)
    PROVE  LastOf(pairs, i, f) = k
<1>1. IsLast(pairs, i, f, LastOf(pairs, i, f))
  BY Zenon DEF LastOf
<1> QED
  BY <1>1, LastUnique

LEMMA PairsStart == ASSUME NEW m \in HMaps, NEW pairs PROVE AfterPairs(m, pairs, 0) = m
<1>1. NamedBy(pairs, 0) = {}
  BY DEF NamedBy
<1> QED
  BY <1>1 DEF AfterPairs, HMaps

LEMMA PairsStep ==
    ASSUME NEW m \in HMaps, NEW pairs \in Seq(HPairs), NEW i \in 1..Len(pairs)
    PROVE  AfterPairs(m, pairs, i) = [AfterPairs(m, pairs, i - 1) EXCEPT ![pairs[i][1]] = pairs[i][2]]
<1> DEFINE g == AfterPairs(m, pairs, i)
           h == AfterPairs(m, pairs, i - 1)
           x == pairs[i][1]
<1>1. x \in HFields /\ i \in Nat /\ i - 1 \in Nat /\ i \in 1..i
  <2>1. pairs[i] \in HPairs
    OBVIOUS
  <2> QED
    BY <2>1 DEF HPairs
<1>2. g[x] = pairs[i][2]
  <2>1. IsLast(pairs, i, x, i)
    BY <1>1 DEF IsLast
  <2>2. x \in NamedBy(pairs, i)
    BY <1>1 DEF NamedBy
  <2>3. LastOf(pairs, i, x) = i
    BY <1>1, <2>1, LastIs
  <2> QED
    BY <1>1, <2>2, <2>3 DEF AfterPairs
<1>3. ASSUME NEW f \in HFields, f # x
      PROVE  g[f] = h[f]
  <2>1. ASSUME NEW k \in 1..i PROVE k \in 1..(i - 1) \/ k = i
    BY <1>1
  <2>2. \A k \in 1..(i - 1) : k \in 1..i
    BY <1>1
  <2>3. f \in NamedBy(pairs, i) <=> f \in NamedBy(pairs, i - 1)
    BY <1>3, <2>1, <2>2 DEF NamedBy
  <2>4. ASSUME f \in NamedBy(pairs, i)
        PROVE  LastOf(pairs, i, f) = LastOf(pairs, i - 1, f)
    <3> DEFINE k == LastOf(pairs, i - 1, f)
    <3>1. IsLast(pairs, i - 1, f, k)
      BY <1>1, <2>3, <2>4, LastExists
    <3>2. k \in 1..(i - 1) /\ pairs[k][1] = f /\ \A j \in (k + 1)..(i - 1) : pairs[j][1] # f
      BY <3>1 DEF IsLast
    <3> HIDE DEF k
    <3>3. \A j \in (k + 1)..i : j \in (k + 1)..(i - 1) \/ j = i
      BY <1>1, <3>2
    <3>4. IsLast(pairs, i, f, k)
      BY <1>3, <2>2, <3>2, <3>3 DEF IsLast
    <3> QED
      BY <1>1, <3>4, LastIs DEF k
  <2> QED
    BY <2>3, <2>4 DEF AfterPairs
<1>4. g = [f \in HFields |-> g[f]] /\ h = [f \in HFields |-> h[f]]
  BY DEF AfterPairs
<1> HIDE DEF g, h, x
<1>5. g = [h EXCEPT ![x] = pairs[i][2]]
  BY <1>1, <1>2, <1>3, <1>4
<1> QED
  BY <1>5 DEF g, h, x

PairWalk(m, pairs) ==
    LET after[i \in 0..Len(pairs)] ==
          IF i = 0 THEN m ELSE [after[i - 1] EXCEPT ![pairs[i][1]] = pairs[i][2]]
    IN  after

\* The recursive definition has a solution, AfterPairs, and only that one.
LEMMA PairWalkIs ==
    ASSUME NEW m \in HMaps, NEW pairs \in Seq(HPairs)
    PROVE  PairWalk(m, pairs)[Len(pairs)] = AfterPairs(m, pairs, Len(pairs))
<1> DEFINE n == Len(pairs)
           Next1(g, i) == [g EXCEPT ![pairs[i][1]] = pairs[i][2]]
           Body(a) == [i \in 0..n |-> IF i = 0 THEN m ELSE Next1(a[i - 1], i)]
           C(i) == AfterPairs(m, pairs, i)
           s == [i \in 0..n |-> C(i)]
           w == PairWalk(m, pairs)
<1>1. n \in Nat
  OBVIOUS
<1>2. C(0) = m
  BY PairsStart
<1>3. \A i \in 1..n : C(i) = Next1(C(i - 1), i)
  BY PairsStep
<1>4. w = CHOOSE a : a = Body(a)
  BY Zenon DEF PairWalk
<1> HIDE DEF Next1, C, n
<1>5. s = Body(s)
  <2>1. \A i \in 0..n : s[i] = IF i = 0 THEN m ELSE Next1(s[i - 1], i)
    <3> TAKE i \in 0..n
    <3>1. CASE i = 0
      BY <1>2, <3>1
    <3>2. CASE i # 0
      <4>1. i \in 1..n /\ i - 1 \in 0..n
        BY <1>1, <3>2
      <4>2. s[i] = C(i) /\ s[i - 1] = C(i - 1)
        BY <4>1
      <4> QED
        BY <1>3, <3>2, <4>1, <4>2
    <3> QED
      BY <3>1, <3>2
  <2>2. s = [i \in 0..n |-> s[i]]
    OBVIOUS
  <2> HIDE DEF s
  <2> QED
    BY <2>1, <2>2
<1>6. w = Body(w)
  <2> HIDE DEF Body, s, w
  <2>1. \E a : a = Body(a)
    BY <1>5
  <2> QED
    BY <1>4, <2>1
<1> HIDE DEF w
<1>7. \A i \in 0..n : w[i] = IF i = 0 THEN m ELSE Next1(w[i - 1], i)
  BY <1>6
<1> HIDE DEF Body
<1> DEFINE P == {i \in Nat : i <= n => w[i] = C(i)}
<1>8. 0 \in P
  BY <1>1, <1>2, <1>7
<1>9. ASSUME NEW i \in Nat, i \in P PROVE i + 1 \in P
  <2> SUFFICES ASSUME i + 1 <= n PROVE w[i + 1] = C(i + 1)
    OBVIOUS
  <2>1. i + 1 \in 1..n /\ i + 1 \in 0..n /\ i + 1 # 0 /\ i + 1 - 1 = i /\ i <= n
    BY <1>1
  <2>2. w[i] = C(i)
    BY <1>9, <2>1
  <2>3. w[i + 1] = Next1(w[i], i + 1) /\ C(i + 1) = Next1(C(i), i + 1)
    BY <1>3, <1>7, <2>1
  <2> QED
    BY <2>2, <2>3
<1> HIDE DEF P
<1>10. \A i \in Nat : i \in P
  BY <1>8, <1>9, NatSetInduction
<1>11. n \in P
  BY <1>1, <1>10
<1> QED
  BY <1>1, <1>11 DEF P, n, C, w

LEMMA KvsIs ==
    ASSUME NEW pairs \in Seq(HPairs), Len(pairs) # 0
    PROVE  /\ DOMAIN Kvs(pairs) = NamedBy(pairs, Len(pairs))
           /\ DOMAIN Kvs(pairs) \in SUBSET HFields /\ DOMAIN Kvs(pairs) # {}
           /\ \A f \in DOMAIN Kvs(pairs) :
                 Kvs(pairs)[f] = pairs[LastOf(pairs, Len(pairs), f)][2] /\ Kvs(pairs)[f] \in HValues
<1> DEFINE n == Len(pairs)
           At(f) == CHOOSE i \in DOMAIN pairs : /\ pairs[i][1] = f
                                                /\ \A j \in (i + 1)..Len(pairs) : pairs[j][1] # f
<1>1. n \in Nat /\ DOMAIN pairs = 1..n /\ 1 \in 1..n
  OBVIOUS
<1>2. Kvs(pairs) = [f \in NamedBy(pairs, n) |-> pairs[At(f)][2]]
  BY <1>1, Zenon DEF Kvs, NamedBy
<1>3. \A k \in 1..n : pairs[k][1] \in HFields /\ pairs[k][2] \in HValues
  <2> TAKE k \in 1..n
  <2>1. pairs[k] \in HPairs
    OBVIOUS
  <2> QED
    BY <2>1 DEF HPairs
<1>4. ASSUME NEW f \in NamedBy(pairs, n)
      PROVE  At(f) = LastOf(pairs, n, f) /\ At(f) \in 1..n
  <2>1. IsLast(pairs, n, f, LastOf(pairs, n, f))
    BY <1>1, LastExists
  <2> DEFINE k == LastOf(pairs, n, f)
             Good(i) == pairs[i][1] = f /\ \A j \in (i + 1)..Len(pairs) : pairs[j][1] # f
  <2>2. k \in DOMAIN pairs /\ Good(k)
    BY <1>1, <2>1 DEF IsLast
  <2> HIDE DEF k
  <2>3. At(f) = CHOOSE i \in DOMAIN pairs : Good(i)
    OBVIOUS
  <2>4. At(f) \in DOMAIN pairs /\ Good(At(f))
    <3> HIDE DEF Good, At
    <3> QED
      BY <2>2, <2>3
  <2>5. IsLast(pairs, n, f, At(f))
    BY <1>1, <2>4 DEF IsLast
  <2> HIDE DEF At
  <2> QED
    BY <1>1, <2>4, <2>5, LastIs
<1>5. NamedBy(pairs, n) \in SUBSET HFields /\ NamedBy(pairs, n) # {}
  BY <1>1, <1>3 DEF NamedBy
<1> HIDE DEF At, n
<1>6. DOMAIN Kvs(pairs) = NamedBy(pairs, n)
  BY <1>2
<1>7. \A f \in NamedBy(pairs, n) : Kvs(pairs)[f] = pairs[LastOf(pairs, n, f)][2] /\ Kvs(pairs)[f] \in HValues
  BY <1>2, <1>3, <1>4
<1> QED
  BY <1>5, <1>6, <1>7 DEF n

LEMMA HmsetOver ==
    ASSUME NEW m \in HMaps, NEW pairs \in Seq(HPairs), Len(pairs) # 0
    PROVE  Over(m, Kvs(pairs)) = PairWalk(m, pairs)[Len(pairs)]
<1>1. Over(m, Kvs(pairs)) = AfterPairs(m, pairs, Len(pairs))
  BY KvsIs DEF Over, AfterPairs
<1> QED
  BY <1>1, PairWalkIs

LEMMA HmsetRefines ==
    ASSUME HInd, NEW pairs \in HmsetArgs, ProcHmset(pairs)
    PROVE  HInd' /\ IsACollection!Next
<1>1. hrequest' = <<"hmset", pairs>>
  BY DEF ProcHmset, OfType
<1>2. CASE WrongType("hash")
  <2>1. HReply(HError)
    BY <1>2 DEF ProcHmset, OfType
  <2>2. hrequest'[1] \in IsACollection!OfHashes
    BY <1>1 DEF IsACollection!OfHashes
  <2> QED
    BY <1>2, <2>1, <2>2, WrongHash
<1>3. CASE ~WrongType("hash")
  <2>1. HPut(Kvs(pairs), HOk)
    BY <1>3 DEF ProcHmset, OfType
  <2>2. pairs \in Seq(HPairs) /\ pairs # <<>>
    BY HashAssumption, Zenon DEF HPairs
  <2>3. Len(pairs) # 0
    BY <2>2, EmptySeq
  <2>4. HInd' /\ IsACollection!Become("hash", Over(HMap, Kvs(pairs)), HOk)
    BY <1>3, <2>1, <2>2, <2>3, KvsIs, PutIs
  <2>5. HMap \in HMaps /\ HKind \in {"none", "hash"}
    BY <1>3, MapIs
  <2>6. IsACollection!Become("hash", PairWalk(HMap, pairs)[Len(pairs)], HOk)
    BY <2>2, <2>3, <2>4, <2>5, HmsetOver
  <2>7. IsACollection!SetAll(pairs)
    BY <2>6, Zenon DEF IsACollection!SetAll, PairWalk, IsACollection!Ok, HOk
  <2>8. hrequest'[1] = "hmset" /\ hrequest'[2] = pairs
    BY <1>1
  <2>9. IsACollection!HashCommands
    BY <2>7, <2>8, Zenon DEF IsACollection!HashCommands
  <2> QED
    BY <2>4, <2>5, <2>9, HashNext
<1> QED
  BY <1>2, <1>3

----------------------------------------------------------------------------
(* HINCRBY and HINCRBYFLOAT *)

OldOf(f) == IF HMap[f] = NoField THEN <<"int", 0>> ELSE HMap[f]
HRange == LLongMin..LLongMax
TooFar(x, by, low, high) == \/ by < 0 /\ x < 0 /\ by < low - x
                            \/ by > 0 /\ x > 0 /\ by > high - x

LEMMA IntRange == LLongMin \in Int /\ LLongMax \in Nat /\ LLongMin = -LLongMax - 1 /\ HRange \subseteq Int /\ 0 \in HRange
BY HashAssumption DEF LLongMin, HRange

LEMMA IntValue == ASSUME NEW n \in HRange PROVE <<"int", n>> \in HValues
BY DEF HValues, HRange

LEMMA OldIs ==
    ASSUME HMap \in HMaps, NEW f \in HFields
    PROVE  OldOf(f)[1] = "int" => OldOf(f)[2] \in HRange
<1>1. HMap[f] = NoField \/ HMap[f] \in HValues
  BY DEF HMaps
<1>2. CASE HMap[f] = NoField
  BY <1>2, IntRange DEF OldOf
<1>3. CASE HMap[f] # NoField /\ HMap[f] \in {"text"} \X Texts
  BY <1>3 DEF OldOf
<1>4. CASE HMap[f] # NoField /\ HMap[f] \in {"int"} \X (LLongMin..LLongMax)
  BY <1>4 DEF OldOf, HRange
<1> QED
  BY <1>1, <1>2, <1>3, <1>4 DEF HValues

LEMMA IncrCases ==
    ASSUME HInd, ~WrongType("hash"), NEW f \in HFields, NEW by, NEW low, NEW high, HincrCommon(f, by, low, high)
    PROVE  LET no == OldOf(f)[1] # "int" \/ (HMap[f] # NoField /\ TooFar(OldOf(f)[2], by, low, high)) IN
           \/ no /\ HReply(HError)
           \/ ~no /\ HPut([x \in {f} |-> <<"int", OldOf(f)[2] + by>>], HNumber(OldOf(f)[2] + by))
<1> DEFINE hv == HMetaVal("hash")
           old == IF f \in There(hv) THEN ItemsOf(hv)[f] ELSE <<"int", 0>>
<1>1. f \in There(hv) <=> HMap[f] # NoField
  BY MapIs DEF With
<1>2. old = OldOf(f)
  BY <1>1, MapIs DEF OldOf
<1> DEFINE no == old[1] # "int" \/ (f \in There(hv) /\ TooFar(old[2], by, low, high))
<1>3. IF no THEN HReply(HError) ELSE HPut([x \in {f} |-> <<"int", old[2] + by>>], HNumber(old[2] + by))
  BY DEF HincrCommon, TooFar
<1> HIDE DEF old, hv
<1> QED
  BY <1>1, <1>2, <1>3, Zenon

LEMMA SumKept ==
    ASSUME HInd, ~WrongType("hash"), NEW f \in HFields, NEW by, OldOf(f)[1] = "int", OldOf(f)[2] + by \in HRange,
           HPut([x \in {f} |-> <<"int", OldOf(f)[2] + by>>], HNumber(OldOf(f)[2] + by))
    PROVE  HInd' /\ IsACollection!Increment(f, by)
<1> DEFINE v == <<"int", OldOf(f)[2] + by>>
           new == [x \in {f} |-> v]
           r == HNumber(OldOf(f)[2] + by)
<1>1. v \in HValues
  BY IntValue
<1>2. HMap \in HMaps
  BY MapIs
<1>3. HPut(new, r)
  OBVIOUS
<1> HIDE DEF v, r
<1>4. DOMAIN new = {f} /\ \A x \in DOMAIN new : new[x] \in HValues
  BY <1>1
<1>5. Over(HMap, new) = [HMap EXCEPT ![f] = v]
  BY <1>2, OneOver
<1> HIDE DEF new
<1>6. DOMAIN new \in SUBSET HFields /\ DOMAIN new # {}
  BY <1>4
<1>7. HInd' /\ IsACollection!Become("hash", Over(HMap, new), r)
  BY <1>3, <1>4, <1>6, PutIs
<1>8. HInd' /\ IsACollection!Become("hash", [HMap EXCEPT ![f] = v], r)
  BY <1>5, <1>7
<1> QED
  BY <1>8, Zenon DEF IsACollection!Increment, v, r, IsACollection!Number, HNumber, OldOf, HRange

LEMMA SumRefused ==
    ASSUME HInd, NEW f, NEW by, OldOf(f)[1] # "int" \/ OldOf(f)[2] + by \notin HRange, HReply(HError)
    PROVE  HInd' /\ IsACollection!Increment(f, by)
BY HashRefused, Zenon DEF IsACollection!Increment, OldOf, HRange

LEMMA HincrRefines ==
    ASSUME HInd, ~WrongType("hash"), NEW f \in HFields, NEW by \in HIncrs, Hincr(f, by)
    PROVE  HInd' /\ IsACollection!Increment(f, by)
<1> DEFINE no == OldOf(f)[1] # "int" \/ (HMap[f] # NoField /\ TooFar(OldOf(f)[2], by, LLongMin, LLongMax))
<1>1. \/ no /\ HReply(HError)
      \/ ~no /\ HPut([x \in {f} |-> <<"int", OldOf(f)[2] + by>>], HNumber(OldOf(f)[2] + by))
  BY IncrCases DEF Hincr
<1>2. by \in HRange
  BY HashAssumption DEF HRange
<1>3. OldOf(f)[1] = "int" => OldOf(f)[2] \in HRange
  BY MapIs, OldIs
<1>4. OldOf(f)[1] = "int" => (TooFar(OldOf(f)[2], by, LLongMin, LLongMax) <=> OldOf(f)[2] + by \notin HRange)
  BY <1>2, <1>3, IntRange DEF TooFar, HRange
<1>5. HMap[f] = NoField => OldOf(f)[2] + by \in HRange
  <2>1. HMap[f] = NoField => OldOf(f)[2] = 0
    BY DEF OldOf
  <2> QED
    BY <1>2, <2>1, IntRange
<1> QED
  BY <1>1, <1>4, <1>5, SumKept, SumRefused

LEMMA HincrbyfloatRefines ==
    ASSUME HInd, ~WrongType("hash"), NEW f \in HFields, NEW by \in HIncrs, Hincrbyfloat(f, by)
    PROVE  HInd' /\ (IsACollection!Increment(f, by) \/ IsACollection!Refuse)
<1> DEFINE no == OldOf(f)[1] # "int" \/ (HMap[f] # NoField /\ TooFar(OldOf(f)[2], by, DblMax, DblMax))
<1>1. \/ no /\ HReply(HError)
      \/ ~no /\ HPut([x \in {f} |-> <<"int", OldOf(f)[2] + by>>], HNumber(OldOf(f)[2] + by))
  BY IncrCases, Zenon DEF Hincrbyfloat
<1>2. HMap[f] # NoField /\ HMap[f][1] = "int" => HMap[f][2] + by \in HRange
  <2>1. f \in There(HMetaVal("hash")) <=> HMap[f] # NoField
    BY MapIs DEF With
  <2>2. ItemsOf(HMetaVal("hash")) = HMap
    BY MapIs
  <2> QED
    BY <2>1, <2>2, Zenon DEF Hincrbyfloat, HRange
<1>3. by \in HRange
  BY HashAssumption DEF HRange
<1>4. OldOf(f)[1] = "int" => OldOf(f)[2] + by \in HRange
  <2>1. CASE HMap[f] = NoField
    <3>1. OldOf(f)[2] = 0
      BY <2>1 DEF OldOf
    <3> QED
      BY <1>3, <3>1, IntRange
  <2>2. CASE HMap[f] # NoField
    BY <1>2, <2>2 DEF OldOf
  <2> QED
    BY <2>1, <2>2
<1>5. CASE no /\ HReply(HError)
  BY <1>5, HashRefused
<1>6. CASE ~no /\ HPut([x \in {f} |-> <<"int", OldOf(f)[2] + by>>], HNumber(OldOf(f)[2] + by))
  BY <1>4, <1>6, SumKept
<1> QED
  BY <1>1, <1>5, <1>6

LEMMA ProcHincrRefines ==
    ASSUME HInd, NEW f \in HFields, NEW by \in HIncrs, ProcHincrby(f, by) \/ ProcHincrbyfloat(f, by)
    PROVE  HInd' /\ IsACollection!Next
<1>1. hrequest' = <<"hincrby", f, by>> \/ hrequest' = <<"hincrbyfloat", f, by>>
  BY DEF ProcHincrby, ProcHincrbyfloat, OfType
<1>2. hrequest'[1] \in {"hincrby", "hincrbyfloat"} /\ hrequest'[2] = f /\ hrequest'[3] = by
  BY <1>1
<1>3. CASE WrongType("hash")
  <2>1. HReply(HError)
    BY <1>3 DEF ProcHincrby, ProcHincrbyfloat, OfType
  <2>2. hrequest'[1] \in IsACollection!OfHashes
    BY <1>2 DEF IsACollection!OfHashes
  <2> QED
    BY <1>3, <2>1, <2>2, WrongHash
<1>4. CASE ~WrongType("hash")
  <2>1. HKind \in {"none", "hash"}
    BY <1>4, MapIs
  <2>2. CASE ProcHincrby(f, by)
    <3>1. Hincr(f, by) /\ hrequest' = <<"hincrby", f, by>>
      BY <1>4, <2>2 DEF ProcHincrby, OfType
    <3>2. hrequest'[1] = "hincrby"
      BY <3>1
    <3>3. HInd' /\ IsACollection!Increment(f, by)
      BY <1>4, <3>1, HincrRefines
    <3>4. IsACollection!HashCommands
      BY <1>2, <3>2, <3>3, Zenon DEF IsACollection!HashCommands
    <3> QED
      BY <2>1, <3>3, <3>4, HashNext
  <2>3. CASE ProcHincrbyfloat(f, by)
    <3>1. Hincrbyfloat(f, by) /\ hrequest' = <<"hincrbyfloat", f, by>>
      BY <1>4, <2>3, Zenon DEF ProcHincrbyfloat, OfType
    <3>2. hrequest'[1] = "hincrbyfloat"
      BY <3>1
    <3>3. HInd' /\ (IsACollection!Increment(f, by) \/ IsACollection!Refuse)
      BY <1>4, <3>1, HincrbyfloatRefines
    <3>4. IsACollection!HashCommands
      BY <1>2, <3>2, <3>3, Zenon DEF IsACollection!HashCommands
    <3> QED
      BY <2>1, <3>3, <3>4, HashNext
  <2> QED
    BY <2>2, <2>3
<1> QED
  BY <1>3, <1>4

----------------------------------------------------------------------------
(* HDEL *)

LEMMA TakeOutIs ==
    ASSUME NEW type, NEW fs,
           IsACollection!Become(type, Without(HMap, fs), HNumber(Cardinality(fs \cap With(HMap))))
    PROVE  IsACollection!TakeOut(type, fs)
<1>1. IsACollection!Put(HMap, fs, NoField) = Without(HMap, fs)
  BY Zenon DEF IsACollection!Put, Without
<1>2. IsACollection!Gone(fs) = HNumber(Cardinality(fs \cap With(HMap)))
  BY SameCard, PresentIs, Zenon DEF IsACollection!Gone, IsACollection!Number, HNumber
<1> QED
  BY <1>1, <1>2, Zenon DEF IsACollection!TakeOut

LEMMA NoneThere ==
    ASSUME HInd, NEW type \in {"hash", "set"}, ~HFound, NEW fs, NEW r, HReply(r)
    PROVE  HInd' /\ IsACollection!Become(type, Without(HMap, fs), r) /\ fs \cap With(HMap) = {}
<1>1. ~WrongType(type)
  BY DEF WrongType
<1>2. HMap = HNone /\ With(HMap) = {} /\ HKind = "none"
  BY <1>1, MapIs
<1>3. Without(HMap, fs) = HNone
  BY <1>2 DEF Without, HNone
<1>4. HInd' /\ HMap' = HMap /\ HKind' = HKind /\ hout' = r
  BY SameRecords DEF HReply
<1>5. IsACollection!Become(type, Without(HMap, fs), r)
  BY <1>2, <1>3, <1>4, BecomeIs
<1> QED
  BY <1>2, <1>4, <1>5

LEMMA CommitWithout ==
    ASSUME HInd, NEW type \in {"hash", "set"}, ~WrongType(type), HFound, NEW fs, NEW n, NEW r,
           n = Cardinality(fs \cap With(HMap)),
           HCommit(hmeta, [f \in HFields |-> IF f \in fs THEN NoField ELSE ItemsOf(hmeta)[f]], -n, r)
    PROVE  HInd' /\ IsACollection!Become(type, Without(HMap, fs), r)
<1>1. HMetaVal(type) = hmeta /\ HMap \in HMaps /\ (type = "set" => OnlyMembers(HMap)) /\ ItemsOf(hmeta) = HMap
  BY MapIs
<1>2. HCommit(HMetaVal(type), Without(HMap, fs), -n, r)
  BY <1>1 DEF Without
<1> DEFINE a == Cardinality(With(HMap))
           b == Cardinality(With(Without(HMap, fs)))
<1>3. /\ Without(HMap, fs) \in HMaps /\ n = a - b /\ (type = "set" => OnlyMembers(Without(HMap, fs)))
  BY <1>1, WithoutIs
<1>4. a \in Nat /\ b \in Nat
  BY WithFinite
<1> HIDE DEF a, b
<1>5. -n = b - a
  BY <1>3, <1>4
<1> QED
  BY <1>2, <1>3, <1>5, CommitIs DEF a, b

LEMMA RemoveRefines ==
    ASSUME HInd, NEW type \in {"hash", "set"}, ~WrongType(type), NEW fs, NEW n,
           HFound => n = Cardinality(fs \cap With(HMap)), HRemove(fs, n)
    PROVE  HInd' /\ IsACollection!TakeOut(type, fs)
<1>1. CASE ~HFound
  <2>1. HReply(HNumber(0))
    BY <1>1 DEF HRemove
  <2>2. HInd' /\ IsACollection!Become(type, Without(HMap, fs), HNumber(0)) /\ fs \cap With(HMap) = {}
    BY <1>1, <2>1, NoneThere
  <2>3. Cardinality(fs \cap With(HMap)) = 0
    BY <2>2, FS_EmptySet
  <2> QED
    BY <2>2, <2>3, TakeOutIs
<1>2. CASE HFound
  <2>1. HCommit(hmeta, [f \in HFields |-> IF f \in fs THEN NoField ELSE ItemsOf(hmeta)[f]], -n, HNumber(n))
    BY <1>2 DEF HRemove
  <2>2. HInd' /\ IsACollection!Become(type, Without(HMap, fs), HNumber(n))
    BY <1>2, <2>1, CommitWithout
  <2> QED
    BY <1>2, <2>2, TakeOutIs
<1> QED
  BY <1>1, <1>2

LEMMA HdelRefines ==
    ASSUME HInd, NEW fs, ProcHdel(fs)
    PROVE  HInd' /\ IsACollection!Next
<1>1. hrequest' = <<"hdel", fs>>
  BY DEF ProcHdel, OfType
<1>2. hrequest'[1] = "hdel" /\ hrequest'[2] = fs
  BY <1>1
<1>3. CASE WrongType("hash")
  <2>1. HReply(HError)
    BY <1>3 DEF ProcHdel, OfType
  <2>2. hrequest'[1] \in IsACollection!OfHashes
    BY <1>2 DEF IsACollection!OfHashes
  <2> QED
    BY <1>3, <2>1, <2>2, WrongHash
<1>4. CASE ~WrongType("hash")
  <2>1. HKind \in {"none", "hash"} /\ (HFound => There(hmeta) = With(HMap))
    BY <1>4, MapIs
  <2>2. HRemove(fs, Cardinality(fs \cap There(hmeta)))
    BY <1>4 DEF ProcHdel, OfType
  <2>3. HInd' /\ IsACollection!TakeOut("hash", fs)
    BY <1>4, <2>1, <2>2, RemoveRefines
  <2>4. IsACollection!HashCommands
    BY <1>2, <2>3, Zenon DEF IsACollection!HashCommands
  <2> QED
    BY <2>1, <2>3, <2>4, HashNext
<1> QED
  BY <1>3, <1>4

----------------------------------------------------------------------------
(* Reads *)

LEMMA HashReads ==
    ASSUME HInd, NEW req, NEW r, OfType("hash", req, HReply(r)), req[1] \in IsACollection!OfHashes,
           ~WrongType("hash") /\ hrequest' = req /\ IsACollection!Answer(r) => IsACollection!HashCommands
    PROVE  HInd' /\ IsACollection!Next
<1>1. hrequest' = req
  BY DEF OfType
<1>2. CASE WrongType("hash")
  <2>1. HReply(HError)
    BY <1>2 DEF OfType
  <2> QED
    BY <1>1, <1>2, <2>1, WrongHash
<1>3. CASE ~WrongType("hash")
  <2>1. HReply(r)
    BY <1>3 DEF OfType
  <2>2. HInd' /\ IsACollection!Answer(r) /\ HKind \in {"none", "hash"}
    BY <1>3, <2>1, ReplyIs, MapIs
  <2> QED
    BY <1>1, <1>3, <2>2, HashNext
<1> QED
  BY <1>2, <1>3

LEMMA SetReads ==
    ASSUME HInd, NEW req, NEW r, OfType("set", req, HReply(r)), req[1] \in OfSets,
           ~WrongType("set") /\ hrequest' = req /\ IsACollection!Answer(r) => IsACollection!SetCommands
    PROVE  HInd' /\ IsACollection!Next
<1>1. hrequest' = req
  BY DEF OfType
<1>2. CASE WrongType("set")
  <2>1. HReply(HError)
    BY <1>2 DEF OfType
  <2> QED
    BY <1>1, <1>2, <2>1, WrongSet
<1>3. CASE ~WrongType("set")
  <2>1. HReply(r)
    BY <1>3 DEF OfType
  <2>2. HInd' /\ IsACollection!Answer(r) /\ HKind \in {"none", "set"}
    BY <1>3, <2>1, ReplyIs, MapIs
  <2> QED
    BY <1>1, <1>3, <2>2, SetNext
<1> QED
  BY <1>2, <1>3

LEMMA HgetIs ==
    ASSUME HInd, NEW f \in HFields
    PROVE  Hget(f) = HMap[f]
<1>1. CASE HFound
  BY <1>1 DEF Hget, HMap
<1>2. CASE ~HFound
  BY <1>2 DEF Hget, HMap
<1> QED
  BY <1>1, <1>2

LEMMA GoneOne ==
    ASSUME HInd, NEW f \in HFields
    PROVE  HNumber(IF Hget(f) = NoField THEN 0 ELSE 1) = IsACollection!Gone({f})
<1>1. IsACollection!Gone({f}) = HNumber(Cardinality({f} \cap With(HMap)))
  BY SameCard, PresentIs, Zenon DEF IsACollection!Gone, IsACollection!Number, HNumber
<1>2. CASE HMap[f] = NoField
  <2>1. {f} \cap With(HMap) = {}
    BY <1>2 DEF With
  <2> QED
    BY <1>1, <1>2, <2>1, HgetIs, FS_EmptySet
<1>3. CASE HMap[f] # NoField
  <2>1. {f} \cap With(HMap) = {f}
    BY <1>3 DEF With
  <2> QED
    BY <1>1, <1>3, <2>1, HgetIs, FS_Singleton
<1> QED
  BY <1>2, <1>3

LEMMA StringIs == ASSUME NEW v PROVE HString(v) = IsACollection!Str(v)
BY Zenon DEF HString, IsACollection!Str

LEMMA HgetRefines ==
    ASSUME HInd, NEW f \in HFields, ProcHget(f)
    PROVE  HInd' /\ IsACollection!Next
<1> DEFINE req == <<"hget", f>>
           r == HString(Hget(f))
<1>1. OfType("hash", req, HReply(r))
  BY DEF ProcHget
<1>2. req[1] = "hget" /\ req[2] = f /\ req[1] \in IsACollection!OfHashes
  BY DEF IsACollection!OfHashes
<1>3. r = IsACollection!Str(HMap[f])
  BY HgetIs, StringIs
<1> HIDE DEF req, r
<1>4. hrequest' = req /\ IsACollection!Answer(r) => IsACollection!HashCommands
  BY <1>2, <1>3, Zenon DEF IsACollection!HashCommands
<1> QED
  BY <1>1, <1>2, <1>4, HashReads

LEMMA HexistsRefines ==
    ASSUME HInd, NEW f \in HFields, ProcHexists(f)
    PROVE  HInd' /\ IsACollection!Next
<1> DEFINE req == <<"hexists", f>>
           r == HNumber(IF Hget(f) = NoField THEN 0 ELSE 1)
<1>1. OfType("hash", req, HReply(r))
  BY DEF ProcHexists
<1>2. req[1] = "hexists" /\ req[2] = f /\ req[1] \in IsACollection!OfHashes
  BY DEF IsACollection!OfHashes
<1>3. r = IsACollection!Gone({f})
  BY GoneOne
<1> HIDE DEF req, r
<1>4. hrequest' = req /\ IsACollection!Answer(r) => IsACollection!HashCommands
  BY <1>2, <1>3, Zenon DEF IsACollection!HashCommands
<1> QED
  BY <1>1, <1>2, <1>4, HashReads

LEMMA SismemberRefines ==
    ASSUME HInd, NEW f \in HFields, ProcSismember(f)
    PROVE  HInd' /\ IsACollection!Next
<1> DEFINE req == <<"sismember", f>>
           r == HNumber(IF Hget(f) = NoField THEN 0 ELSE 1)
<1>1. OfType("set", req, HReply(r))
  BY DEF ProcSismember
<1>2. req[1] = "sismember" /\ req[2] = f /\ req[1] \in OfSets
  BY DEF OfSets
<1>3. r = IsACollection!Gone({f})
  BY GoneOne
<1> HIDE DEF req, r
<1>4. hrequest' = req /\ IsACollection!Answer(r) => IsACollection!SetCommands
  BY <1>2, <1>3, Zenon DEF IsACollection!SetCommands
<1> QED
  BY <1>1, <1>2, <1>4, SetReads

LEMMA HmgetRefines ==
    ASSUME HInd, NEW fs \in HmgetArgs, ProcHmget(fs)
    PROVE  HInd' /\ IsACollection!Next
<1> DEFINE req == <<"hmget", fs>>
           s == [i \in DOMAIN fs |-> HString(Hget(fs[i]))]
           r == HList(s)
<1>1. OfType("hash", req, HReply(r))
  BY DEF ProcHmget
<1>2. req[1] = "hmget" /\ req[2] = fs /\ req[1] \in IsACollection!OfHashes
  BY DEF IsACollection!OfHashes
<1>3. \A i \in DOMAIN fs : fs[i] \in HFields
  <2>1. fs \in Seq(HFields)
    BY HashAssumption
  <2> QED
    BY <2>1
<1>4. s = [i \in DOMAIN fs |-> IsACollection!Str(HMap[fs[i]])]
  <2>1. \A i \in DOMAIN fs : HString(Hget(fs[i])) = IsACollection!Str(HMap[fs[i]])
    BY <1>3, HgetIs, StringIs
  <2> QED
    BY <2>1
<1>5. r = IsACollection!List([i \in DOMAIN fs |-> IsACollection!Str(HMap[fs[i]])])
  BY <1>4, Zenon DEF HList, IsACollection!List
<1> HIDE DEF req, r
<1>6. hrequest' = req /\ IsACollection!Answer(r) => IsACollection!HashCommands
  BY <1>2, <1>5, Zenon DEF IsACollection!HashCommands
<1> QED
  BY <1>1, <1>2, <1>6, HashReads

LEMMA SizeIs ==
    ASSUME HInd, NEW type \in {"hash", "set"}, ~WrongType(type)
    PROVE  HNumber(HSize) = IsACollection!Number(IsACollection!Cardinality(IsACollection!Present(HMap)))
<1>1. HSize = Cardinality(With(HMap))
  BY MapIs
<1> QED
  BY <1>1, SameCard, PresentIs, Zenon DEF IsACollection!Number, HNumber

LEMMA HlenRefines == ASSUME HInd, ProcHlen PROVE HInd' /\ IsACollection!Next
<1> DEFINE req == <<"hlen">>
           r == HNumber(HSize)
<1>1. OfType("hash", req, HReply(r))
  BY DEF ProcHlen
<1>2. req[1] = "hlen" /\ req[1] \in IsACollection!OfHashes
  BY DEF IsACollection!OfHashes
<1>3. ~WrongType("hash") => r = IsACollection!Number(IsACollection!Cardinality(IsACollection!Present(HMap)))
  BY SizeIs
<1> HIDE DEF req, r
<1>4. ~WrongType("hash") /\ hrequest' = req /\ IsACollection!Answer(r) => IsACollection!HashCommands
  BY <1>2, <1>3, Zenon DEF IsACollection!HashCommands
<1> QED
  BY <1>1, <1>2, <1>4, HashReads

LEMMA ScardRefines == ASSUME HInd, ProcScard PROVE HInd' /\ IsACollection!Next
<1> DEFINE req == <<"scard">>
           r == HNumber(HSize)
<1>1. OfType("set", req, HReply(r))
  BY DEF ProcScard
<1>2. req[1] = "scard" /\ req[1] \in OfSets
  BY DEF OfSets
<1>3. ~WrongType("set") => r = IsACollection!Number(IsACollection!Cardinality(IsACollection!Present(HMap)))
  BY SizeIs
<1> HIDE DEF req, r
<1>4. ~WrongType("set") /\ hrequest' = req /\ IsACollection!Answer(r) => IsACollection!SetCommands
  BY <1>2, <1>3, Zenon DEF IsACollection!SetCommands
<1> QED
  BY <1>1, <1>2, <1>4, SetReads

----------------------------------------------------------------------------
(* The items in the order of their keys *)

Below(S, x) == {g \in S : g < x}
Increasing(s) == \A i, j \in DOMAIN s : i < j => s[i] < s[j]
BelowOn(S) == {p \in S \X S : p[1] < p[2]}

LEMMA BelowOrders ==
    ASSUME NEW S \in SUBSET Nat
    PROVE  /\ StrictOrder(BelowOn(S), S) /\ TotalOn(BelowOn(S), S)
           /\ \A x \in S : Lower(BelowOn(S), S, x) = Below(S, x)
<1>1. \A x, y \in S : <<x, y>> \in BelowOn(S) <=> x < y
  BY DEF BelowOn
<1>2. \A x \in S : x \in Nat
  OBVIOUS
<1>3. StrictOrder(BelowOn(S), S)
  BY <1>1, <1>2 DEF StrictOrder
<1>4. TotalOn(BelowOn(S), S)
  <2>1. \A x, y \in S : x = y \/ x < y \/ y < x
    BY <1>2
  <2> QED
    BY <1>1, <2>1, Zenon DEF TotalOn
<1> QED
  BY <1>1, <1>3, <1>4 DEF Lower, Below

AllRanks(R, S) == \A i \in 0..(Cardinality(S) - 1) : \E x \in S : RankOf(R, S, x) = i

LEMMA EveryRank ==
    ASSUME NEW S, IsFiniteSet(S), NEW R, StrictOrder(R, S), TotalOn(R, S)
    PROVE  AllRanks(R, S)
BY RankOnto DEF AllRanks

LEMMA BelowIs ==
    ASSUME NEW S \in SUBSET Nat, IsFiniteSet(S)
    PROVE  /\ \A x \in S : Cardinality(Below(S, x)) \in 0..(Cardinality(S) - 1)
           /\ \A x, y \in S : Cardinality(Below(S, x)) = Cardinality(Below(S, y)) => x = y
           /\ \A x, y \in S : x < y => Cardinality(Below(S, x)) < Cardinality(Below(S, y))
           /\ \A i \in 0..(Cardinality(S) - 1) : \E x \in S : Cardinality(Below(S, x)) = i
<1> DEFINE R == BelowOn(S)
<1>1. StrictOrder(R, S) /\ TotalOn(R, S) /\ \A x \in S : RankOf(R, S, x) = Cardinality(Below(S, x))
  BY BelowOrders DEF RankOf
<1>2. \A x, y \in S : x < y => <<x, y>> \in R
  BY DEF BelowOn
<1> HIDE DEF R
<1>3. \A x \in S : Cardinality(Below(S, x)) \in 0..(Cardinality(S) - 1)
  BY <1>1, RankRange
<1>4. \A x, y \in S : Cardinality(Below(S, x)) = Cardinality(Below(S, y)) => x = y
  BY <1>1, RankInjective
<1>5. ASSUME NEW x \in S, NEW y \in S, x < y PROVE Cardinality(Below(S, x)) < Cardinality(Below(S, y))
  <2>1. <<x, y>> \in R
    BY <1>2, <1>5
  <2>2. RankOf(R, S, x) < RankOf(R, S, y)
    BY <1>1, <2>1, RankGrows
  <2> QED
    BY <1>1, <2>2
<1>6. \A i \in 0..(Cardinality(S) - 1) : \E x \in S : Cardinality(Below(S, x)) = i
  <2>1. AllRanks(R, S)
    BY <1>1, EveryRank, Zenon
  <2> QED
    BY <1>1, <2>1 DEF AllRanks
<1> QED
  BY <1>3, <1>4, <1>5, <1>6

LEMMA InOrderIs ==
    ASSUME NEW S \in SUBSET Nat, IsFiniteSet(S)
    PROVE  /\ InOrder(S) \in [1..Cardinality(S) -> S] /\ Increasing(InOrder(S))
           /\ \A i \in 1..Cardinality(S) : Cardinality(Below(S, InOrder(S)[i])) = i - 1
           /\ \A x \in S : \E i \in 1..Cardinality(S) : InOrder(S)[i] = x
<1> DEFINE n == Cardinality(S)
           q == InOrder(S)
           At(i) == CHOOSE f \in S : Cardinality(Below(S, f)) = i - 1
<1>1. n \in Nat
  BY FS_CardinalityType
<1>2. q = [i \in 1..n |-> At(i)]
  BY DEF InOrder, Below
<1>3. \A i \in 1..n : i - 1 \in 0..(n - 1)
  BY <1>1
<1>4. ASSUME NEW i \in 1..n PROVE At(i) \in S /\ Cardinality(Below(S, At(i))) = i - 1
  <2>1. \E f \in S : Cardinality(Below(S, f)) = i - 1
    BY <1>3, BelowIs
  <2> QED
    BY <2>1
<1> HIDE DEF At, q
<1>5. q \in [1..n -> S] /\ DOMAIN q = 1..n /\ \A i \in 1..n : q[i] \in S /\ Cardinality(Below(S, q[i])) = i - 1
  BY <1>2, <1>4
<1>6. ASSUME NEW i \in 1..n, NEW j \in 1..n, i < j PROVE q[i] < q[j]
  <2>1. q[i] \in Nat /\ q[j] \in Nat
    BY <1>5
  <2>2. q[i] # q[j]
    <3>1. i \in Int /\ j \in Int
      BY <1>1
    <3>2. i - 1 # j - 1
      BY <1>6, <3>1
    <3> QED
      BY <1>5, <3>2
  <2>3. ~(q[j] < q[i])
    <3>1. q[j] < q[i] => Cardinality(Below(S, q[j])) < Cardinality(Below(S, q[i]))
      BY <1>5, BelowIs
    <3>2. q[j] < q[i] => j - 1 < i - 1
      BY <1>5, <3>1
    <3>3. i \in Int /\ j \in Int
      BY <1>1
    <3> QED
      BY <1>6, <3>2, <3>3
  <2> QED
    BY <2>1, <2>2, <2>3
<1>7. Increasing(q)
  BY <1>5, <1>6 DEF Increasing
<1>8. ASSUME NEW x \in S PROVE \E i \in 1..n : q[i] = x
  <2> DEFINE c == Cardinality(Below(S, x))
             i == c + 1
  <2>1. c \in 0..(n - 1)
    BY BelowIs
  <2> HIDE DEF c
  <2>2. i \in 1..n /\ i - 1 = c
    BY <1>1, <2>1
  <2> HIDE DEF i
  <2>3. q[i] \in S /\ Cardinality(Below(S, q[i])) = c
    BY <1>5, <2>2
  <2>4. \A y \in S : Cardinality(Below(S, y)) = Cardinality(Below(S, x)) => y = x
    BY BelowIs
  <2>5. q[i] = x
    BY <2>3, <2>4 DEF c
  <2> QED
    BY <2>2, <2>5
<1> HIDE DEF n
<1> QED
  BY <1>5, <1>7, <1>8 DEF n, q

\* A sequence that grows has the places of its elements for ranks.
LEMMA GrowingRank ==
    ASSUME NEW S \in SUBSET Nat, NEW n \in Nat, NEW s \in [1..n -> S], Increasing(s),
           \A x \in S : \E i \in 1..n : s[i] = x, NEW i \in 1..n
    PROVE  Cardinality(Below(S, s[i])) = i - 1
<1> DEFINE D == 1..(i - 1)
           T == Below(S, s[i])
           g == [j \in D |-> s[j]]
<1>1. i - 1 \in Nat /\ \A j \in D : j \in 1..n /\ j < i
  OBVIOUS
<1>2. \A j, k \in 1..n : j < k => s[j] < s[k]
  BY DEF Increasing
<1>3. \A j \in 1..n : s[j] \in S /\ s[j] \in Nat /\ j \in Nat
  <2>1. \A j \in 1..n : s[j] \in S /\ j \in Nat
    OBVIOUS
  <2> QED
    BY <2>1, Zenon
<1>4. \A j \in D : s[j] \in T
  BY <1>1, <1>2, <1>3 DEF Below
<1>5. \A y \in T : \E j \in D : s[j] = y
  <2> TAKE y \in T
  <2>1. y \in S /\ y < s[i]
    BY DEF Below
  <2>2. PICK j \in 1..n : s[j] = y
    BY <2>1
  <2>3. j < i
    <3>1. ~(i < j) /\ i # j
      BY <1>2, <1>3, <2>1, <2>2
    <3> QED
      BY <1>3, <3>1
  <2>4. j \in D
    BY <1>3, <2>3
  <2> QED
    BY <2>2, <2>4
<1>6. \A j, k \in D : s[j] = s[k] => j = k
  <2> TAKE j, k \in D
  <2>1. ~(j < k) /\ ~(k < j) => j = k
    OBVIOUS
  <2>2. s[j] = s[k] => ~(j < k) /\ ~(k < j)
    BY <1>1, <1>2, <1>3
  <2> QED
    BY <2>1, <2>2
<1> HIDE DEF T, D
<1>7. g \in Bijection(D, T)
  <2>1. g \in [D -> T] /\ \A j \in D : g[j] = s[j]
    BY <1>4
  <2> HIDE DEF g
  <2>2. \A j, k \in D : g[j] = g[k] => j = k
    BY <1>6, <2>1
  <2>3. \A y \in T : \E j \in D : g[j] = y
    BY <1>5, <2>1
  <2> QED
    BY <2>1, <2>2, <2>3, Zenon DEF Bijection, Injection, Surjection, IsInjective
<1>8. ExistsBijection(D, T)
  BY <1>7, Zenon DEF ExistsBijection
<1>9. IsFiniteSet(D) /\ Cardinality(D) = i - 1
  BY <1>1, FS_Interval DEF D
<1> QED
  BY <1>8, <1>9, FS_Bijection DEF T

\* Only InOrder(S) lists S and grows.
LEMMA OnlyInOrder ==
    ASSUME NEW S \in SUBSET Nat, IsFiniteSet(S), NEW s \in [1..Cardinality(S) -> S], Increasing(s)
    PROVE  s = InOrder(S)
<1> DEFINE n == Cardinality(S)
           q == InOrder(S)
<1>1. n \in Nat /\ IsFiniteSet(1..n) /\ Cardinality(1..n) = n
  <2>1. n \in Nat
    BY FS_CardinalityType
  <2> QED
    BY <2>1, FS_Interval
<1>2. \A j, k \in 1..n : s[j] = s[k] => j = k
  <2> TAKE j, k \in 1..n
  <2>1. ~(j < k) /\ ~(k < j) => j = k
    BY <1>1
  <2>2. s[j] \in Nat /\ s[k] \in Nat
    OBVIOUS
  <2>3. s[j] = s[k] => ~(j < k) /\ ~(k < j)
    BY <2>2 DEF Increasing
  <2> QED
    BY <2>1, <2>3
<1>3. s \in Injection(1..n, S)
  BY <1>2, Zenon DEF Injection, IsInjective
<1>4. s \in Surjection(1..n, S)
  BY <1>1, <1>3, FS_Injection
<1>5. \A x \in S : \E i \in 1..n : s[i] = x
  BY <1>4 DEF Surjection
<1>6. \A i \in 1..n : q[i] \in S /\ Cardinality(Below(S, q[i])) = i - 1
  BY InOrderIs
<1>7. q \in [1..n -> S]
  BY InOrderIs
<1> HIDE DEF q, n
<1>8. \A i \in 1..n : Cardinality(Below(S, s[i])) = i - 1
  BY <1>1, <1>5, GrowingRank DEF n
<1>9. \A i \in 1..n : s[i] = q[i]
  <2> TAKE i \in 1..n
  <2>1. s[i] \in S /\ q[i] \in S /\ Cardinality(Below(S, s[i])) = Cardinality(Below(S, q[i]))
    BY <1>6, <1>8 DEF n
  <2>2. \A x, y \in S : Cardinality(Below(S, x)) = Cardinality(Below(S, y)) => x = y
    BY BelowIs
  <2> QED
    BY <2>1, <2>2
<1>10. s \in [1..n -> S]
  BY DEF n
<1>11. s = [i \in 1..n |-> s[i]] /\ q = [i \in 1..n |-> q[i]]
  BY <1>7, <1>10
<1>12. [i \in 1..n |-> s[i]] = [i \in 1..n |-> q[i]]
  BY <1>9
<1> QED
  BY <1>11, <1>12, Zenon DEF q

LEMMA SortedIs ==
    ASSUME NEW S \in SUBSET Nat, IsFiniteSet(S)
    PROVE  IsACollection!Sorted(S) = InOrder(S)
<1> DEFINE F == [1..Cardinality(S) -> S]
<1>1. IsACollection!Sorted(S) = CHOOSE s \in F : Increasing(s)
  BY SameCard, Zenon DEF IsACollection!Sorted, Increasing
<1>2. InOrder(S) \in F /\ Increasing(InOrder(S))
  BY InOrderIs
<1>3. \A s \in F : Increasing(s) => s = InOrder(S)
  BY OnlyInOrder
<1> HIDE DEF F
<1> QED
  BY <1>1, <1>2, <1>3, Zenon

LEMMA HScanIs ==
    ASSUME HInd
    PROVE  HScan = InOrder(With(HMap)) /\ With(HMap) \in SUBSET Nat /\ IsFiniteSet(With(HMap))
<1>1. With(HMap) \in SUBSET Nat /\ IsFiniteSet(With(HMap))
  BY WithFinite, HFieldsFinite
<1>2. CASE HFound
  BY <1>1, <1>2, MetaIs DEF HScan, HMap
<1>3. CASE ~HFound
  <2>1. HMap = HNone
    BY <1>3 DEF HMap, HNone
  <2>2. With(HMap) = {} /\ Cardinality({}) = 0
    BY <2>1, NoneIs, FS_EmptySet
  <2>3. InOrder({}) = <<>>
    <3>1. Cardinality({}) = 0
      BY FS_EmptySet
    <3>2. 1..0 = {}
      OBVIOUS
    <3> QED
      BY <3>1, <3>2 DEF InOrder
  <2> QED
    BY <1>1, <1>3, <2>2, <2>3 DEF HScan
<1> QED
  BY <1>2, <1>3

LEMMA HgetallRefines == ASSUME HInd, ProcHgetall PROVE HInd' /\ IsACollection!Next
<1> DEFINE req == <<"hgetall">>
           l == [i \in DOMAIN HScan |-> <<HScan[i], ItemsOf(hmeta)[HScan[i]]>>]
           s == IsACollection!Sorted(IsACollection!Present(HMap))
           want == [i \in DOMAIN s |-> <<s[i], HMap[s[i]]>>]
           r == HList(l)
<1>1. OfType("hash", req, HReply(r))
  BY DEF ProcHgetall
<1>2. req[1] = "hgetall" /\ req[1] \in IsACollection!OfHashes
  BY DEF IsACollection!OfHashes
<1>3. s = HScan
  BY HScanIs, SortedIs, PresentIs
<1> HIDE DEF s
<1>4. ~WrongType("hash") => l = want
  <2>1. CASE HFound
    BY <1>3, <2>1 DEF HMap
  <2>2. CASE ~HFound
    <3>1. HScan = <<>>
      BY <2>2 DEF HScan
    <3>2. DOMAIN HScan = {}
      BY <3>1
    <3> QED
      BY <1>3, <3>2
  <2> QED
    BY <2>1, <2>2
<1>5. ~WrongType("hash") => r = IsACollection!List(want)
  BY <1>4, Zenon DEF HList, IsACollection!List
<1> HIDE DEF req, r
<1>6. ~WrongType("hash") /\ hrequest' = req /\ IsACollection!Answer(r) => IsACollection!HashCommands
  BY <1>2, <1>5, Zenon DEF IsACollection!HashCommands, s
<1> QED
  BY <1>1, <1>2, <1>6, HashReads

LEMMA SmembersRefines == ASSUME HInd, ProcSmembers PROVE HInd' /\ IsACollection!Next
<1> DEFINE req == <<"smembers">>
           r == HList(HScan)
<1>1. OfType("set", req, HReply(r))
  BY DEF ProcSmembers
<1>2. req[1] = "smembers" /\ req[1] \in OfSets
  BY DEF OfSets
<1>3. IsACollection!Sorted(IsACollection!Present(HMap)) = HScan
  BY HScanIs, SortedIs, PresentIs
<1>4. r = IsACollection!List(IsACollection!Sorted(IsACollection!Present(HMap)))
  BY <1>3, Zenon DEF HList, IsACollection!List
<1> HIDE DEF req, r
<1>5. ~WrongType("set") /\ hrequest' = req /\ IsACollection!Answer(r) => IsACollection!SetCommands
  BY <1>2, <1>4, Zenon DEF IsACollection!SetCommands
<1> QED
  BY <1>1, <1>2, <1>5, SetReads

----------------------------------------------------------------------------
(* SADD and SREM *)

LEMMA SaddRefines ==
    ASSUME HInd, NEW ms \in (SUBSET HFields) \ {{}}, ProcSadd(ms)
    PROVE  HInd' /\ IsACollection!Next
<1> DEFINE sv == HMetaVal("set")
           new == ms \ There(sv)
           its == [f \in HFields |-> IF f \in new THEN Member ELSE ItemsOf(sv)[f]]
           k == Cardinality(new)
           m == [x \in ms |-> Member]
<1>1. OfType("set", <<"sadd", ms>>, HCommit(sv, its, k, HNumber(k)))
  BY DEF ProcSadd
<1>2. hrequest' = <<"sadd", ms>>
  BY <1>1 DEF OfType
<1>3. hrequest'[1] = "sadd" /\ hrequest'[2] = ms /\ hrequest'[1] \in OfSets
  BY <1>2 DEF OfSets
<1>4. CASE WrongType("set")
  <2>1. HReply(HError)
    BY <1>1, <1>4 DEF OfType
  <2> QED
    BY <1>3, <1>4, <2>1, WrongSet
<1>5. CASE ~WrongType("set")
  <2>1. HCommit(sv, its, k, HNumber(k))
    BY <1>1, <1>5 DEF OfType
  <2>2. /\ HMap \in HMaps /\ ItemsOf(sv) = HMap /\ There(sv) = With(HMap)
        /\ HKind \in {"none", "set"} /\ OnlyMembers(HMap)
    BY <1>5, MapIs
  <2> HIDE DEF sv
  <2>3. its = Over(HMap, m)
    <3>1. \A f \in HFields : f \in With(HMap) => HMap[f] = Member
      BY <2>2 DEF OnlyMembers, With
    <3>2. \A f \in HFields : (IF f \in new THEN Member ELSE HMap[f]) = IF f \in ms THEN m[f] ELSE HMap[f]
      BY <2>2, <3>1
    <3>3. DOMAIN m = ms
      OBVIOUS
    <3> QED
      BY <2>2, <3>2, <3>3 DEF Over
  <2>4. DOMAIN m = ms /\ \A f \in DOMAIN m : m[f] \in HValues
    BY MemberIsValue
  <2>5. k = Cardinality(DOMAIN m \ With(HMap))
    BY <2>2, <2>4
  <2>6. OnlyMembers(Over(HMap, m))
    BY <2>2 DEF OnlyMembers, Over
  <2>7. IsACollection!Put(HMap, ms, Member) = Over(HMap, m)
    BY <2>4 DEF IsACollection!Put, Over
  <2> HIDE DEF m, its, k
  <2>8. /\ Over(HMap, m) \in HMaps /\ With(Over(HMap, m)) = With(HMap) \cup DOMAIN m
        /\ k = Cardinality(With(Over(HMap, m))) - Cardinality(With(HMap))
    BY <2>2, <2>4, <2>5, OverIs
  <2>9. With(Over(HMap, m)) # {}
    BY <2>4, <2>8
  <2>10. HCommit(HMetaVal("set"), Over(HMap, m), k, HNumber(k))
    BY <2>1, <2>3 DEF sv
  <2>11. HInd' /\ IsACollection!Become("set", Over(HMap, m), HNumber(k))
    BY <1>5, <2>6, <2>8, <2>9, <2>10, CommitIs
  <2>12. IsACollection!New(ms) = HNumber(k)
    <3>1. k = Cardinality(ms \ With(HMap))
      BY <2>4, <2>5
    <3> QED
      BY <3>1, SameCard, PresentIs, Zenon DEF IsACollection!New, IsACollection!Number, HNumber
  <2>13. IsACollection!Become("set", IsACollection!Put(HMap, ms, Member), IsACollection!New(ms))
    BY <2>7, <2>11, <2>12
  <2>14. IsACollection!SetCommands
    BY <1>3, <2>13, Zenon DEF IsACollection!SetCommands
  <2> QED
    BY <2>2, <2>11, <2>14, SetNext
<1> QED
  BY <1>4, <1>5

\* The members are named once each.
NoMemberTwice == \A args \in SremArgs : \A i, j \in DOMAIN args : args[i] = args[j] => i = j

CountsOnce(args, S) ==
    Cardinality({i \in DOMAIN args : args[i] \in S}) = Cardinality({args[i] : i \in DOMAIN args} \cap S)

LEMMA CountNamed ==
    ASSUME NEW n \in Nat, NEW args, DOMAIN args = 1..n, \A i, j \in DOMAIN args : args[i] = args[j] => i = j, NEW S
    PROVE  CountsOnce(args, S)
<1> DEFINE D == {i \in DOMAIN args : args[i] \in S}
           T == {args[i] : i \in DOMAIN args} \cap S
           g == [i \in D |-> args[i]]
<1>1. IsFiniteSet(D)
  <2>1. IsFiniteSet(1..n) /\ D \in SUBSET (1..n)
    BY FS_Interval
  <2> QED
    BY <2>1, FS_Subset
<1>2. \A i \in D : args[i] \in T
  OBVIOUS
<1>3. \A y \in T : \E i \in D : args[i] = y
  OBVIOUS
<1>4. \A i, j \in D : args[i] = args[j] => i = j
  OBVIOUS
<1> HIDE DEF D, T
<1>5. g \in Bijection(D, T)
  <2>1. g \in [D -> T] /\ \A j \in D : g[j] = args[j]
    BY <1>2
  <2> HIDE DEF g
  <2>2. \A j, k \in D : g[j] = g[k] => j = k
    BY <1>4, <2>1
  <2>3. \A y \in T : \E j \in D : g[j] = y
    BY <1>3, <2>1
  <2> QED
    BY <2>1, <2>2, <2>3, Zenon DEF Bijection, Injection, Surjection, IsInjective
<1>6. ExistsBijection(D, T)
  BY <1>5, Zenon DEF ExistsBijection
<1>7. Cardinality(T) = Cardinality(D)
  BY <1>1, <1>6, FS_Bijection
<1> QED
  BY <1>7, Zenon DEF D, T, CountsOnce

LEMMA SremRefines ==
    ASSUME HInd, NoMemberTwice, NEW args \in SremArgs, ProcSrem(args)
    PROVE  HInd' /\ IsACollection!Next
<1> DEFINE ms == {args[i] : i \in DOMAIN args}
           k == Cardinality({i \in DOMAIN args : args[i] \in There(hmeta)})
<1>1. OfType("set", <<"srem", ms>>, HRemove(ms, k))
  BY DEF ProcSrem
<1>2. hrequest' = <<"srem", ms>>
  BY <1>1 DEF OfType
<1> HIDE DEF ms
<1>3. hrequest'[1] = "srem" /\ hrequest'[2] = ms /\ hrequest'[1] \in OfSets
  BY <1>2 DEF OfSets
<1>4. CASE WrongType("set")
  <2>1. HReply(HError)
    BY <1>1, <1>4 DEF OfType
  <2> QED
    BY <1>3, <1>4, <2>1, WrongSet
<1>5. CASE ~WrongType("set")
  <2>1. HRemove(ms, k)
    BY <1>1, <1>5 DEF OfType
  <2>2. HKind \in {"none", "set"} /\ (HFound => There(hmeta) = With(HMap))
    BY <1>5, MapIs
  <2>3. args \in Seq(HFields)
    BY HashAssumption
  <2>4. DOMAIN args = 1..Len(args) /\ Len(args) \in Nat
    BY <2>3
  <2>5. \A i, j \in DOMAIN args : args[i] = args[j] => i = j
    BY DEF NoMemberTwice
  <2>6. HFound => k = Cardinality(ms \cap With(HMap))
    <3>1. CountsOnce(args, With(HMap))
      BY <2>4, <2>5, CountNamed, Zenon
    <3> QED
      BY <2>2, <3>1 DEF ms, CountsOnce
  <2> HIDE DEF k
  <2>7. HInd' /\ IsACollection!TakeOut("set", ms)
    BY <1>5, <2>1, <2>6, RemoveRefines
  <2>8. IsACollection!SetCommands
    BY <1>3, <2>7, Zenon DEF IsACollection!SetCommands
  <2> QED
    BY <2>2, <2>7, <2>8, SetNext
<1> QED
  BY <1>4, <1>5

----------------------------------------------------------------------------
(* SPOP and SRANDMEMBER *)

ItemsIn(s, k, W) == s \in Seq(W) /\ Len(s) = k /\ s \in [1..k -> W]

LEMMA PartIs ==
    ASSUME NEW W, NEW c \in Seq(W), NEW i \in Nat \ {0}, NEW k \in Nat, i + k - 1 <= Len(c)
    PROVE  /\ ItemsIn(SubSeq(c, i, i + k - 1), k, W)
           /\ \A j \in 1..k : SubSeq(c, i, i + k - 1)[j] = c[i + j - 1] /\ i + j - 1 \in 1..Len(c)
<1> DEFINE s == SubSeq(c, i, i + k - 1)
<1>1. \A j \in 1..k : i + j - 1 \in 1..Len(c)
  OBVIOUS
<1>2. s = [j \in 1..k |-> c[i + j - 1]]
  OBVIOUS
<1> HIDE DEF s
<1>3. \A j \in 1..k : s[j] = c[i + j - 1] /\ c[i + j - 1] \in W
  BY <1>1, <1>2
<1>4. s \in [1..k -> W]
  BY <1>2, <1>3
<1>5. s \in Seq(W) /\ Len(s) = k
  BY <1>4
<1> QED
  BY <1>1, <1>3, <1>4, <1>5 DEF ItemsIn, s

LEMMA ScanSeq ==
    ASSUME HInd
    PROVE  /\ HScan \in Seq(With(HMap)) /\ Len(HScan) = Cardinality(With(HMap)) /\ Increasing(HScan)
           /\ Cardinality(With(HMap)) \in Nat /\ HScan \in [1..Cardinality(With(HMap)) -> With(HMap)]
<1> DEFINE W == With(HMap)
           n == Cardinality(W)
<1>1. n \in Nat
  BY WithFinite
<1>2. HScan \in [1..n -> W] /\ Increasing(HScan)
  BY HScanIs, InOrderIs
<1> HIDE DEF W, n
<1>3. HScan \in Seq(W) /\ Len(HScan) = n
  BY <1>1, <1>2
<1> QED
  BY <1>1, <1>2, <1>3 DEF W, n

LEMMA RunIs ==
    ASSUME HInd, NEW k \in Nat, k <= Cardinality(With(HMap)), NEW s \in Runs(k)
    PROVE  ItemsIn(s, k, With(HMap)) /\ Increasing(s)
<1> DEFINE W == With(HMap)
           n == Cardinality(W)
           h == HScan
<1>1. h \in Seq(W) /\ Len(h) = n /\ Increasing(h) /\ n \in Nat /\ DOMAIN h = 1..n
  BY ScanSeq
<1>2. PICK i \in 1..(IF Len(h) - k + 1 > 100 THEN 100 ELSE Len(h) - k + 1) : s = SubSeq(h, i, i + k - 1)
  BY Zenon DEF Runs
<1> HIDE DEF W, n, h
<1>3. i \in Nat \ {0} /\ i + k - 1 <= Len(h)
  BY <1>1, <1>2
<1>4. /\ ItemsIn(s, k, W)
      /\ \A j \in 1..k : s[j] = h[i + j - 1] /\ i + j - 1 \in 1..n
  BY <1>1, <1>2, <1>3, PartIs
<1>5. DOMAIN s = 1..k
  BY <1>4 DEF ItemsIn
<1>6. ASSUME NEW a \in 1..k, NEW b \in 1..k, a < b PROVE s[a] < s[b]
  <2>1. i + a - 1 < i + b - 1 /\ i + a - 1 \in DOMAIN h /\ i + b - 1 \in DOMAIN h
    BY <1>1, <1>3, <1>4, <1>6
  <2>2. h[i + a - 1] < h[i + b - 1]
    BY <1>1, <2>1 DEF Increasing
  <2> QED
    BY <1>4, <2>2
<1>7. Increasing(s)
  BY <1>5, <1>6, ZenonT(60) DEF Increasing
<1> QED
  BY <1>4, <1>7 DEF W

ListedIn(s) == {s[i] : i \in DOMAIN s}

LEMMA GrowingRange ==
    ASSUME NEW k \in Nat, NEW W \in SUBSET Nat, NEW s, ItemsIn(s, k, W), Increasing(s)
    PROVE  /\ ListedIn(s) \in SUBSET W /\ IsFiniteSet(ListedIn(s)) /\ Cardinality(ListedIn(s)) = k
           /\ s = InOrder(ListedIn(s))
           /\ \A i, j \in DOMAIN s : s[i] = s[j] => i = j
<1> DEFINE ms == {s[i] : i \in DOMAIN s}
<1>1. s \in [1..k -> W] /\ DOMAIN s = 1..k
  BY DEF ItemsIn
<1>2. ms \in SUBSET W /\ s \in [1..k -> ms]
  BY <1>1
<1>3. \A i, j \in 1..k : s[i] = s[j] => i = j
  <2> TAKE i, j \in 1..k
  <2>1. ~(i < j) /\ ~(j < i) => i = j
    OBVIOUS
  <2>2. s[i] \in W /\ s[j] \in W
    BY <1>1
  <2>3. s[i] \in Nat /\ s[j] \in Nat
    BY <2>2, Zenon
  <2>4. s[i] = s[j] => ~(i < j) /\ ~(j < i)
    BY <1>1, <2>3 DEF Increasing
  <2> QED
    BY <2>1, <2>4
<1>4. \A y \in ms : \E j \in 1..k : s[j] = y
  BY <1>1
<1> HIDE DEF ms
<1>5. s \in Bijection(1..k, ms)
  BY <1>2, <1>3, <1>4, Zenon DEF Bijection, Injection, Surjection, IsInjective
<1>6. ExistsBijection(1..k, ms)
  BY <1>5, Zenon DEF ExistsBijection
<1>7. IsFiniteSet(1..k) /\ Cardinality(1..k) = k
  BY FS_Interval
<1>8. IsFiniteSet(ms) /\ Cardinality(ms) = k
  BY <1>6, <1>7, FS_Bijection
<1>9. ms \in SUBSET Nat
  BY <1>2
<1>10. s = InOrder(ms)
  <2>1. s \in [1..Cardinality(ms) -> ms]
    BY <1>2, <1>8
  <2> QED
    BY <1>8, <1>9, <2>1, OnlyInOrder, Zenon
<1>11. ms = ListedIn(s)
  BY DEF ms, ListedIn
<1>12. \A i, j \in DOMAIN s : s[i] = s[j] => i = j
  BY <1>1, <1>3
<1> QED
  BY <1>2, <1>8, <1>10, <1>11, <1>12, Zenon

LEMMA AtMostIs ==
    ASSUME HInd, HFound, ~WrongType("set"), NEW n \in Nat
    PROVE  LET size == Cardinality(With(HMap)) IN
           /\ AtMost(n) \in Nat /\ AtMost(n) <= size /\ size \in Nat /\ size # 0 /\ hmeta.len = size
           /\ AtMost(n) = IF n < size THEN n ELSE size
<1> DEFINE size == Cardinality(With(HMap))
<1>1. HMetaVal("set") = hmeta /\ HMetaVal("set").len = size
  BY MapIs
<1>2. With(HMap) # {}
  BY MetaIs DEF HInd, HLengths, HMap
<1>3. size \in Nat /\ size # 0
  BY <1>2, WithFinite
<1> HIDE DEF size
<1>4. hmeta.len = size
  BY <1>1
<1>5. AtMost(n) \in Nat /\ AtMost(n) <= size /\ AtMost(n) = IF n < size THEN n ELSE size
  BY <1>3, <1>4 DEF AtMost
<1> QED
  BY <1>3, <1>4, <1>5 DEF size

LEMMA PopIs ==
    ASSUME HInd, NEW ms \in SUBSET With(HMap), NEW n \in Int,
           n >= 0 \/ Cardinality(With(HMap)) = 0,
           Cardinality(ms) = IF 0 <= n /\ n < Cardinality(With(HMap)) THEN n ELSE Cardinality(With(HMap)),
           IsACollection!Become("set", Without(HMap, ms), HList(InOrder(ms)))
    PROVE  IsACollection!Pop(n)
<1>1. IsACollection!Put(HMap, ms, NoField) = Without(HMap, ms)
  BY Zenon DEF IsACollection!Put, Without
<1>2. ms \in SUBSET Nat /\ IsFiniteSet(ms)
  BY HScanIs, FS_Subset
<1>3. IsACollection!List(IsACollection!Sorted(ms)) = HList(InOrder(ms))
  BY <1>2, SortedIs, Zenon DEF IsACollection!List, HList
<1>4. IsACollection!Become("set", IsACollection!Put(HMap, ms, NoField), IsACollection!List(IsACollection!Sorted(ms)))
  BY <1>1, <1>3
<1> DEFINE W == IsACollection!Present(HMap)
<1>5. W = With(HMap) /\ IsACollection!Cardinality(ms) = Cardinality(ms) /\ IsACollection!Cardinality(W) = Cardinality(With(HMap))
  BY PresentIs, SameCard
<1>6. ms \in SUBSET W
  BY <1>5
<1>7. n >= 0 \/ IsACollection!Cardinality(W) = 0
  BY <1>5
<1>8. IsACollection!Cardinality(ms) = IF 0 <= n /\ n < IsACollection!Cardinality(W) THEN n ELSE IsACollection!Cardinality(W)
  BY <1>5
<1> QED
  BY <1>4, <1>6, <1>7, <1>8, Zenon DEF IsACollection!Pop

LEMMA EmptyOrder == InOrder({}) = <<>> /\ Cardinality({}) = 0
<1>1. Cardinality({}) = 0
  BY FS_EmptySet
<1>2. 1..0 = {}
  OBVIOUS
<1> QED
  BY <1>1, <1>2 DEF InOrder

LEMMA SpopRefines ==
    ASSUME HInd, NEW n \in PopCounts, ProcSpop(n)
    PROVE  HInd' /\ IsACollection!Next
<1>0. n \in Int
  BY HashAssumption
<1>1. hrequest' = <<"spop", n>>
  BY DEF ProcSpop, OfType
<1>2. hrequest'[1] = "spop" /\ hrequest'[2] = n /\ hrequest'[1] \in OfSets
  BY <1>1 DEF OfSets
<1>3. CASE WrongType("set")
  <2>1. HReply(HError)
    BY <1>3 DEF ProcSpop, OfType
  <2> QED
    BY <1>2, <1>3, <2>1, WrongSet
<1>4. CASE ~WrongType("set")
  <2>1. Spop(n)
    BY <1>4 DEF ProcSpop, OfType
  <2>2. HKind \in {"none", "set"}
    BY <1>4, MapIs
  <2>3. CASE ~HFound
    <3>1. HReply(HList(<<>>))
      BY <2>1, <2>3 DEF Spop
    <3>2. HInd' /\ IsACollection!Become("set", Without(HMap, {}), HList(<<>>))
      BY <2>3, <3>1, NoneThere
    <3>3. With(HMap) = {}
      BY <1>4, <2>3, MapIs
    <3>4. IsACollection!Become("set", Without(HMap, {}), HList(InOrder({})))
      BY <3>2, EmptyOrder
    <3>5. Cardinality(With(HMap)) = 0
      BY <3>3, EmptyOrder
    <3>6. Cardinality({}) = IF 0 <= n /\ n < Cardinality(With(HMap)) THEN n ELSE Cardinality(With(HMap))
      BY <1>0, <3>5, EmptyOrder
    <3>7. IsACollection!Pop(n)
      BY <1>0, <3>4, <3>5, <3>6, PopIs
    <3>8. IsACollection!SetCommands
      BY <1>2, <3>7, Zenon DEF IsACollection!SetCommands
    <3> QED
      BY <2>2, <3>2, <3>8, SetNext
  <2>4. CASE HFound /\ n < 0
    <3>1. HReply(HError)
      BY <2>1, <2>4 DEF Spop
    <3>2. HInd' /\ IsACollection!Refuse
      BY <3>1, HashRefused
    <3>3. hrequest'[2] < 0
      BY <1>2, <2>4
    <3>4. IsACollection!SetCommands
      BY <1>2, <3>2, <3>3, Zenon DEF IsACollection!SetCommands
    <3> QED
      BY <2>2, <3>2, <3>4, SetNext
  <2>5. CASE HFound /\ ~(n < 0)
    <3> DEFINE k == AtMost(n)
               W == With(HMap)
               size == Cardinality(W)
    <3>1. PICK s \in Runs(k) :
            HCommit(hmeta, [f \in HFields |-> IF f \in {s[i] : i \in DOMAIN s} THEN NoField ELSE ItemsOf(hmeta)[f]],
                    -Len(s), HList(s))
      BY <2>1, <2>5 DEF Spop
    <3> DEFINE ms == ListedIn(s)
    <3>2. k \in Nat /\ k <= size /\ size \in Nat /\ k = (IF n < size THEN n ELSE size) /\ n \in Nat
      <4>1. n \in Nat
        BY <1>0, <2>5
      <4> QED
        BY <1>4, <2>5, <4>1, AtMostIs
    <3>3. ItemsIn(s, k, W) /\ Increasing(s)
      BY <3>2, RunIs
    <3>4. W \in SUBSET Nat
      BY HScanIs
    <3> HIDE DEF k, W
    <3>5. ms \in SUBSET W /\ Cardinality(ms) = k /\ s = InOrder(ms)
      BY <3>2, <3>3, <3>4, GrowingRange
    <3> HIDE DEF ms
    <3>6. Len(s) = k
      BY <3>3 DEF ItemsIn
    <3>7. ms \cap W = ms
      BY <3>5
    <3>8. Len(s) = Cardinality(ms \cap With(HMap))
      BY <3>5, <3>6, <3>7 DEF W
    <3>9. HCommit(hmeta, [f \in HFields |-> IF f \in ms THEN NoField ELSE ItemsOf(hmeta)[f]], -Len(s), HList(s))
      BY <3>1, Zenon DEF ms, ListedIn
    <3>10. HInd' /\ IsACollection!Become("set", Without(HMap, ms), HList(s))
      BY <1>4, <2>5, <3>8, <3>9, CommitWithout
    <3>11. Cardinality(ms) = IF 0 <= n /\ n < size THEN n ELSE size
      BY <3>2, <3>5
    <3>12. IsACollection!Become("set", Without(HMap, ms), HList(InOrder(ms)))
      BY <3>5, <3>10
    <3>13. n >= 0
      BY <1>0, <2>5
    <3>14. IsACollection!Pop(n)
      BY <1>0, <3>5, <3>11, <3>12, <3>13, PopIs DEF W
    <3>15. IsACollection!SetCommands
      BY <1>2, <3>14, Zenon DEF IsACollection!SetCommands
    <3> QED
      BY <2>2, <3>10, <3>15, SetNext
  <2> QED
    BY <2>3, <2>4, <2>5
<1> QED
  BY <1>3, <1>4

LEMMA SomeMembersIs ==
    ASSUME HInd, NEW n \in Int, NEW s, \A i \in DOMAIN s : s[i] \in With(HMap),
           n >= 0 => \A i, j \in DOMAIN s : s[i] = s[j] => i = j,
           Len(s) = IF Cardinality(With(HMap)) = 0 THEN 0 ELSE IF n < 0 THEN -n
                    ELSE IF n < Cardinality(With(HMap)) THEN n ELSE Cardinality(With(HMap)),
           HReply(HList(s))
    PROVE  HInd' /\ IsACollection!SomeMembers(n)
<1>1. HInd' /\ HMap' = HMap /\ HKind' = HKind /\ hout' = HList(s)
  BY SameRecords DEF HReply
<1>2. hout'[1] = "list" /\ hout'[2] = s
  BY <1>1 DEF HList
<1> DEFINE W == IsACollection!Present(HMap)
           size == IsACollection!Cardinality(W)
<1>3. W = With(HMap) /\ size = Cardinality(With(HMap))
  BY PresentIs, SameCard
<1>4. /\ \A i \in DOMAIN s : s[i] \in W
      /\ n >= 0 => \A i, j \in DOMAIN s : s[i] = s[j] => i = j
  BY <1>3
<1>5. Len(s) = IF size = 0 THEN 0 ELSE IF n < 0 THEN -n ELSE IF n < size THEN n ELSE size
  BY <1>3
<1> QED
  BY <1>1, <1>2, <1>4, <1>5, Zenon DEF IsACollection!SomeMembers

\* All members as often as they fit
LEMMA CopiesIs ==
    ASSUME NEW W, NEW len \in Nat \ {0}, NEW h \in [1..len -> W], NEW times \in Nat
    PROVE  ItemsIn([i \in 1..(times * len) |-> h[1 + ((i - 1) % len)]], times * len, W)
<1> DEFINE k == times * len
           all == [i \in 1..k |-> h[1 + ((i - 1) % len)]]
<1>1. k \in Nat
  OBVIOUS
<1> HIDE DEF k
<1>2. ASSUME NEW i \in 1..k PROVE h[1 + ((i - 1) % len)] \in W
  <2>1. i - 1 \in Nat
    BY <1>1
  <2>2. (i - 1) % len \in 0..(len - 1)
    BY <2>1, DivMod
  <2>3. 1 + ((i - 1) % len) \in 1..len
    BY <2>2
  <2> QED
    BY <2>3
<1>3. all \in [1..k -> W]
  BY <1>2
<1> HIDE DEF all
<1>4. all \in Seq(W) /\ Len(all) = k
  BY <1>1, <1>3
<1> QED
  BY <1>3, <1>4 DEF ItemsIn, k, all

LEMMA SrandmemberIs ==
    ASSUME HInd, ~WrongType("set"), NEW n \in Int, Srandmember(n)
    PROVE  HInd' /\ IsACollection!SomeMembers(n)
<1> DEFINE W == With(HMap)
           size == Cardinality(W)
<1>1. CASE ~HFound
  <2>1. HReply(HList(<<>>))
    BY <1>1 DEF Srandmember
  <2>2. W = {} /\ size = 0
    BY <1>1, MapIs, EmptyOrder
  <2>3. DOMAIN <<>> = {} /\ Len(<<>>) = 0
    OBVIOUS
  <2> DEFINE e == <<>>
  <2>4. \A i \in DOMAIN e : FALSE
    BY <2>3
  <2>5. HReply(HList(e)) /\ Len(e) = 0
    BY <2>1, <2>3
  <2> HIDE DEF e
  <2> QED
    BY <2>2, <2>4, <2>5, SomeMembersIs
<1>2. CASE HFound /\ n >= 0
  <2>1. PICK s \in Runs(AtMost(n)) : HReply(HList(s))
    BY <1>2 DEF Srandmember
  <2> DEFINE k == AtMost(n)
  <2>2. k \in Nat /\ k <= size /\ size \in Nat /\ size # 0 /\ k = (IF n < size THEN n ELSE size)
    <3>1. n \in Nat
      BY <1>2
    <3> QED
      BY <1>2, <3>1, AtMostIs
  <2>3. ItemsIn(s, k, W) /\ Increasing(s)
    BY <2>1, <2>2, RunIs
  <2>4. W \in SUBSET Nat
    BY HScanIs
  <2> HIDE DEF k, W
  <2>5. \A i, j \in DOMAIN s : s[i] = s[j] => i = j
    BY <2>2, <2>3, <2>4, GrowingRange
  <2>6. Len(s) = k /\ \A i \in DOMAIN s : s[i] \in W
    BY <2>3 DEF ItemsIn
  <2>7. Len(s) = IF size = 0 THEN 0 ELSE IF n < 0 THEN -n ELSE IF n < size THEN n ELSE size
    BY <1>2, <2>2, <2>6
  <2> QED
    BY <2>1, <2>5, <2>6, <2>7, SomeMembersIs DEF W
<1>3. CASE HFound /\ ~(n >= 0)
  <2> DEFINE len == hmeta.len
             times == (-n) \div len
             rest == -n - times * len
             all == [i \in 1..(times * len) |-> HScan[1 + ((i - 1) % len)]]
  <2>1. PICK s \in Runs(rest) : HReply(HList(all \o s))
    BY <1>3 DEF Srandmember
  <2>2. len = size /\ size \in Nat /\ size # 0
    <3>1. 0 \in Nat
      OBVIOUS
    <3> QED
      BY <1>3, <3>1, AtMostIs
  <2>3. HScan \in [1..size -> W]
    BY ScanSeq
  <2> HIDE DEF len, size, W
  <2>4. times \in Nat /\ rest \in Nat /\ rest <= size /\ times * len + rest = -n
    <3> DEFINE x == -n
    <3>1. x \in Nat /\ len \in Nat \ {0}
      BY <1>3, <2>2
    <3>2. x = (x \div len) * len + (x % len) /\ x % len \in 0..(len - 1) /\ x \div len \in Nat
      BY <3>1, DivMod
    <3>3. (x \div len) * len \in Nat
      BY <3>1, <3>2
    <3> DEFINE p == (x \div len) * len
               q == x % len
    <3>4. x = p + q /\ q \in 0..(len - 1) /\ p \in Nat
      BY <3>2, <3>3
    <3> HIDE DEF p, q
    <3>5. x - p = q /\ p + q = x /\ q \in Nat /\ q <= len
      BY <3>1, <3>4
    <3>6. rest = x - p /\ times * len = p
      BY DEF p
    <3>7. times \in Nat
      BY <3>2
    <3> HIDE DEF rest, times
    <3> QED
      BY <2>2, <3>5, <3>6, <3>7
  <2>5. ItemsIn(all, times * len, W)
    <3> HIDE DEF times
    <3> QED
      BY <2>2, <2>3, <2>4, CopiesIs
  <2> DEFINE k == times * len
  <2> HIDE DEF times, rest, all, k
  <2>6. ItemsIn(s, rest, W)
    BY <2>1, <2>4, RunIs DEF W, size
  <2>7. all \in Seq(W) /\ s \in Seq(W) /\ Len(all) = k /\ Len(s) = rest
    BY <2>5, <2>6 DEF ItemsIn, k
  <2> DEFINE c == all \o s
  <2>8. c \in Seq(W) /\ Len(c) = k + rest
    BY <2>7, ConcatProperties
  <2> HIDE DEF c
  <2>9. Len(c) = -n
    BY <2>4, <2>8 DEF k
  <2>10. \A i \in DOMAIN c : c[i] \in W
    BY <2>8
  <2>11. HReply(HList(c))
    BY <2>1 DEF c
  <2>12. Len(c) = IF size = 0 THEN 0 ELSE IF n < 0 THEN -n ELSE IF n < size THEN n ELSE size
    BY <1>3, <2>2, <2>9
  <2> QED
    BY <1>3, <2>10, <2>11, <2>12, SomeMembersIs DEF W, size
<1> QED
  BY <1>1, <1>2, <1>3

LEMMA SrandmemberRefines ==
    ASSUME HInd, NEW n \in PopCounts, ProcSrandmember(n)
    PROVE  HInd' /\ IsACollection!Next
<1>0. n \in Int
  BY HashAssumption
<1>1. hrequest' = <<"srandmember", n>>
  BY DEF ProcSrandmember, OfType
<1>2. hrequest'[1] = "srandmember" /\ hrequest'[2] = n /\ hrequest'[1] \in OfSets
  BY <1>1 DEF OfSets
<1>3. CASE WrongType("set")
  <2>1. HReply(HError)
    BY <1>3 DEF ProcSrandmember, OfType
  <2> QED
    BY <1>2, <1>3, <2>1, WrongSet
<1>4. CASE ~WrongType("set")
  <2>1. Srandmember(n)
    BY <1>4 DEF ProcSrandmember, OfType
  <2>2. HKind \in {"none", "set"}
    BY <1>4, MapIs
  <2>3. HInd' /\ IsACollection!SomeMembers(n)
    BY <1>0, <1>4, <2>1, SrandmemberIs
  <2>4. IsACollection!SetCommands
    BY <1>2, <2>3, Zenon DEF IsACollection!SetCommands
  <2> QED
    BY <2>2, <2>3, <2>4, SetNext
<1> QED
  BY <1>3, <1>4

----------------------------------------------------------------------------
(* RESTORE and DEL *)

LEMMA KillIs ==
    ASSUME HInd, HFound, NEW r, HKill(r)
    PROVE  HInd' /\ IsACollection!Become("none", HNone, r)
<1>1. hmeta' = [hmeta EXCEPT !.st = "dead"] /\ hitem' = hitem /\ hout' = r
  BY DEF HKill, HDead
<1>2. hmeta \in HMetas
  BY DEF HInd, HTypes
<1>3. hmeta' \in HMetas /\ hmeta'.st = "dead" /\ hmeta'.ver = hmeta.ver
  BY <1>1, <1>2 DEF HMetas
<1>4. ~HFound'
  BY <1>3 DEF HFound
<1>5. HNextVersion' = HNextVersion
  BY <1>3 DEF HNextVersion, HFound
<1>6. HTypes'
  BY <1>1, <1>3 DEF HInd, HTypes
<1>7. HUnused'
  BY <1>1, <1>5 DEF HInd, HUnused
<1>8. HLengths' /\ HMembers'
  BY <1>4 DEF HLengths, HMembers
<1>9. HMap' = HNone /\ HKind' = "none"
  BY <1>4 DEF HMap, HKind, HNone
<1> QED
  BY <1>1, <1>6, <1>7, <1>8, <1>9, NoneIs, BecomeIs DEF HInd

LEMMA NoKeyIs ==
    ASSUME HInd, ~HFound, NEW r, HReply(r)
    PROVE  HInd' /\ IsACollection!Become("none", HNone, r) /\ HKind = "none"
<1>1. HInd' /\ HMap' = HMap /\ HKind' = HKind /\ hout' = r
  BY SameRecords DEF HReply
<1>2. HMap = HNone /\ HKind = "none"
  BY DEF HMap, HKind, HNone
<1> QED
  BY <1>1, <1>2, NoneIs, BecomeIs

LEMMA DeleteIs == ASSUME NEW r, IsACollection!Become("none", HNone, r) PROVE IsACollection!Delete(r)
BY Zenon DEF IsACollection!Delete, IsACollection!Empty, HNone

LEMMA KeyNext == ASSUME IsACollection!KeyCommands PROVE IsACollection!Next
BY Zenon DEF IsACollection!Next

LEMMA DelRefines == ASSUME HInd, HDel PROVE HInd' /\ IsACollection!Next
<1>1. hrequest'[1] = "del"
  BY DEF HDel
<1> DEFINE r == HNumber(IF HKind = "none" THEN 0 ELSE 1)
<1>2. HInd' /\ IsACollection!Become("none", HNone, r)
  <2>1. CASE HFound
    <3>1. HKill(HNumber(1))
      BY <2>1 DEF HDel
    <3>2. HKind # "none"
      BY <2>1, MetaIs DEF HKind
    <3> QED
      BY <2>1, <3>1, <3>2, KillIs
  <2>2. CASE ~HFound
    <3>1. HReply(HNumber(0))
      BY <2>2 DEF HDel
    <3> QED
      BY <2>2, <3>1, NoKeyIs
  <2> QED
    BY <2>1, <2>2
<1>3. r = IsACollection!Number(IF HKind = "none" THEN 0 ELSE 1)
  BY Zenon DEF HNumber, IsACollection!Number
<1>4. IsACollection!Delete(r)
  BY <1>2, DeleteIs
<1>5. IsACollection!KeyCommands
  BY <1>1, <1>3, <1>4, Zenon DEF IsACollection!KeyCommands
<1> QED
  BY <1>2, <1>5, KeyNext

\* The map a payload of a type stands for
PayloadOf(type, new) == IF type = "set" THEN [f \in DOMAIN new |-> Member] ELSE new

LEMMA PayloadIs ==
    ASSUME NEW type \in {"hash", "set"}, NEW new \in HPayloads
    PROVE  LET p == PayloadOf(type, new) IN
           /\ DOMAIN p = DOMAIN new /\ DOMAIN new \in SUBSET HFields /\ \A f \in DOMAIN new : p[f] \in HValues
           /\ Over(HNone, p) \in HMaps /\ With(Over(HNone, p)) = DOMAIN new
           /\ type = "set" => OnlyMembers(Over(HNone, p))
<1> DEFINE p == PayloadOf(type, new)
<1>1. PICK S \in SUBSET HFields : new \in [S -> HValues]
  BY HashAssumption
<1>2. DOMAIN new \in SUBSET HFields /\ \A f \in DOMAIN new : new[f] \in HValues
  BY <1>1
<1>3. DOMAIN p = DOMAIN new /\ \A f \in DOMAIN new : p[f] \in HValues
  BY <1>2, MemberIsValue DEF PayloadOf
<1>4. type = "set" => OnlyMembers(Over(HNone, p))
  BY <1>2 DEF OnlyMembers, Over, HNone, PayloadOf
<1> HIDE DEF p
<1>5. Over(HNone, p) \in HMaps /\ With(Over(HNone, p)) = With(HNone) \cup DOMAIN p
  BY <1>2, <1>3, NoneIs, OverIs
<1> QED
  BY <1>2, <1>3, <1>4, <1>5, NoneIs DEF p

LEMMA LoadedIs ==
    ASSUME NEW type, NEW p, NEW m, m = Over(HNone, p), IsACollection!Become(type, m, HOk)
    PROVE  IsACollection!Restore(type, p)
<1>1. m = [f \in HFields |-> IF f \in DOMAIN p THEN p[f] ELSE NoField]
  BY DEF Over, HNone
<1> QED
  BY <1>1, Zenon DEF IsACollection!Restore, IsACollection!Ok, HOk

LEMMA QuickCollIs ==
    ASSUME HInd, NEW type \in {"hash", "set"}, NEW new \in HPayloads, QuickColl(type, new)
    PROVE  HInd' /\ IsACollection!Restore(type, PayloadOf(type, new))
<1> DEFINE p == PayloadOf(type, new)
           m == Over(HNone, p)
<1>1. /\ DOMAIN p = DOMAIN new /\ DOMAIN new \in SUBSET HFields /\ \A f \in DOMAIN new : p[f] \in HValues
      /\ m \in HMaps /\ With(m) = DOMAIN new /\ (type = "set" => OnlyMembers(m))
  BY PayloadIs
<1>2. CASE DOMAIN new = {}
  <2>1. hmeta' = (IF HFound THEN HDead(hmeta) ELSE hmeta) /\ hout' = HOk /\ hitem' = hitem
    BY <1>2 DEF QuickColl
  <2>2. m = HNone
    BY <1>1, <1>2, EmptyMap
  <2>3. HInd' /\ IsACollection!Become("none", HNone, HOk)
    <3>1. CASE HFound
      <4>1. HKill(HOk)
        BY <2>1, <3>1 DEF HKill
      <4> QED
        BY <3>1, <4>1, KillIs
    <3>2. CASE ~HFound
      <4>1. HReply(HOk)
        BY <2>1, <3>2 DEF HReply
      <4> QED
        BY <3>2, <4>1, NoKeyIs
    <3> QED
      BY <3>1, <3>2
  <2>4. HMap' = HNone /\ HKind' = "none" /\ hout' = HOk
    BY <2>3, PresentIs, NoneIs, Zenon DEF IsACollection!Become
  <2>5. IsACollection!Become(type, m, HOk)
    BY <2>2, <2>4, NoneIs, BecomeIs
  <2> QED
    BY <2>3, <2>5, LoadedIs
<1>3. CASE DOMAIN new # {}
  <2> DEFINE v == HNextVersion
             n == Cardinality(DOMAIN new)
  <2>1. /\ v <= MaxHVersion /\ hmeta' = HLive(type, n, v) /\ hout' = HOk
        /\ hitem' = [hitem EXCEPT ![HLive(type, n, v).ver] =
                       [f \in HFields |-> IF f \in DOMAIN new THEN (IF type = "set" THEN Member ELSE new[f]) ELSE NoField]]
    BY <1>3 DEF QuickColl
  <2>2. m = [f \in HFields |-> IF f \in DOMAIN new THEN (IF type = "set" THEN Member ELSE new[f]) ELSE NoField]
    BY <1>1 DEF Over, HNone, PayloadOf
  <2>3. HLive(type, n, v).ver = v
    BY DEF HLive
  <2>4. hitem' = [hitem EXCEPT ![v] = m]
    BY <2>1, <2>2, <2>3, Zenon
  <2>5. v \in HVersions /\ v + 1 >= HNextVersion
    BY <2>1, MetaIs DEF HVersions
  <2>6. n \in Nat
    BY <1>1, HFieldsFinite, FS_Subset, FS_CardinalityType
  <2> HIDE DEF m, v, n
  <2>7. hmeta' \in HMetas /\ hmeta'.ver = v /\ hmeta'.type = type /\ hmeta'.st = "live" /\ hmeta'.len = n
    BY <2>1, <2>5, <2>6 DEF HMetas, HLive
  <2>8. With(m) # {} /\ n = Cardinality(With(m))
    BY <1>1, <1>3 DEF n
  <2>9. HInd' /\ HMap' = m /\ HKind' = (IF With(m) = {} THEN "none" ELSE type)
    BY <1>1, <2>4, <2>5, <2>7, <2>8, AfterWrite
  <2>10. IsACollection!Become(type, m, HOk)
    BY <2>1, <2>9, BecomeIs
  <2> QED
    BY <2>9, <2>10, LoadedIs DEF m
<1> QED
  BY <1>2, <1>3

LEMMA RestoreRefines ==
    ASSUME HInd, NEW type \in {"hash", "set"}, NEW new \in HPayloads, NEW replace \in BOOLEAN,
           HRestore(type, new, replace)
    PROVE  HInd' /\ IsACollection!Next
<1> DEFINE p == PayloadOf(type, new)
<1>1. hrequest' = <<"restore", type, p>>
  BY Zenon DEF HRestore, PayloadOf
<1> HIDE DEF p
<1>2. hrequest'[1] = "restore" /\ hrequest'[2] = type /\ hrequest'[3] = p
  BY <1>1
<1>3. HInd' /\ (IsACollection!Restore(type, p) \/ IsACollection!Refuse \/ IsACollection!Delete(IsACollection!Failed))
  <2>1. CASE HReply(HError)
    BY <2>1, HashRefused
  <2>2. CASE QuickColl(type, new)
    BY <2>2, QuickCollIs DEF p
  <2>3. CASE HFound /\ HKill(HError)
    <3>1. HInd' /\ IsACollection!Delete(HError)
      BY <2>3, KillIs, DeleteIs
    <3> QED
      BY <3>1 DEF HError, IsACollection!Failed
  <2> QED
    BY <2>1, <2>2, <2>3 DEF HRestore
<1>4. IsACollection!KeyCommands
  BY <1>2, <1>3, Zenon DEF IsACollection!KeyCommands
<1> QED
  BY <1>3, <1>4, KeyNext

----------------------------------------------------------------------------
LEMMA HWritesRefine ==
    ASSUME NoMemberTwice, HInd, HWrites
    PROVE  HInd' /\ IsACollection!Next
<1>1. CASE \E ps \in HmsetArgs : ProcHmset(ps)
  BY <1>1, HmsetRefines
<1>2. CASE \E f \in HFields, v \in {"text"} \X Texts : ProcHset(f, v) \/ ProcHsetnx(f, v)
  <2>1. PICK f \in HFields, v \in {"text"} \X Texts : ProcHset(f, v) \/ ProcHsetnx(f, v)
    BY <1>2
  <2>2. PICK nx \in BOOLEAN : OfType("hash", <<"hset", f, v, nx>>, HsetCommon(f, v, nx))
    BY <2>1, Zenon DEF ProcHset, ProcHsetnx
  <2> QED
    BY <2>2, HsetRefines
<1>3. CASE \E f \in HFields, by \in HIncrs : ProcHincrby(f, by) \/ ProcHincrbyfloat(f, by)
  BY <1>3, ProcHincrRefines
<1>4. CASE \E fs \in (SUBSET HFields) \ {{}} : ProcHdel(fs) \/ ProcSadd(fs)
  BY <1>4, HdelRefines, SaddRefines
<1>5. CASE \E args \in SremArgs : ProcSrem(args)
  BY <1>5, SremRefines
<1>6. CASE \E n \in PopCounts : ProcSpop(n)
  BY <1>6, SpopRefines
<1>7. CASE \E type \in {"hash", "set"}, new \in HPayloads, r \in BOOLEAN : HRestore(type, new, r)
  BY <1>7, RestoreRefines
<1>8. CASE HDel
  BY <1>8, DelRefines
<1> QED
  BY <1>1, <1>2, <1>3, <1>4, <1>5, <1>6, <1>7, <1>8, Zenon DEF HWrites

LEMMA HReadsRefine ==
    ASSUME HInd, HReads
    PROVE  HInd' /\ IsACollection!Next
<1>1. CASE \E f \in HFields : ProcHget(f) \/ ProcHexists(f) \/ ProcSismember(f)
  BY <1>1, HgetRefines, HexistsRefines, SismemberRefines
<1>2. CASE \E fs \in HmgetArgs : ProcHmget(fs)
  BY <1>2, HmgetRefines
<1>3. CASE \E n \in PopCounts : ProcSrandmember(n)
  BY <1>3, SrandmemberRefines
<1>4. CASE ProcHlen \/ ProcHgetall \/ ProcScard \/ ProcSmembers
  BY <1>4, HlenRefines, HgetallRefines, ScardRefines, SmembersRefines
<1> QED
  BY <1>1, <1>2, <1>3, <1>4, Zenon DEF HReads

LEMMA HNextRefines ==
    ASSUME NoMemberTwice, HInd, [HNext]_hvars
    PROVE  HInd' /\ [IsACollection!Next]_<<HKind, HMap, hrequest, hout>>
<1>1. CASE HWrites
  BY <1>1, HWritesRefine
<1>2. CASE HReads
  BY <1>2, HReadsRefine
<1>3. CASE UNCHANGED hvars
  <2>1. UNCHANGED <<hmeta, hitem>> /\ hrequest' = hrequest /\ hout' = hout
    BY <1>3 DEF hvars
  <2> QED
    BY <2>1, SameRecords
<1> QED
  BY <1>1, <1>2, <1>3 DEF HNext

LEMMA HInitRefines == HInit => IsACollection!Init
<1> SUFFICES ASSUME HInit PROVE IsACollection!Init
  OBVIOUS
<1>1. ~HFound
  BY DEF HInit, HFound
<1>2. HKind = "none" /\ HMap = [f \in HFields |-> NoField]
  BY <1>1 DEF HKind, HMap
<1>3. hrequest = <<"del">> /\ hout = HNumber(0)
  BY DEF HInit
<1> QED
  BY <1>2, <1>3, Zenon DEF IsACollection!Init, IsACollection!Empty, IsACollection!Number, HNumber

\* What the commands of hashes and sets keep: the length in META counts the
\* records, of which there are some; the records of a set are those of members;
\* a version not handed out yet has no records.  SREM breaks it when one command
\* names a member twice (incr_hsize, incr_ssize, hset_one, hdel_one, quickHash).
THEOREM HashRecordsAgree == NoMemberTwice => (HSpec => []HInd)
<1> SUFFICES ASSUME NoMemberTwice PROVE HSpec => []HInd
  OBVIOUS
<1>1. HInd /\ [HNext]_hvars => HInd'
  BY HNextRefines
<1> QED
  BY <1>1, HInitInd, PTL DEF HSpec

\* A key that holds a hash or a set does, and answers, what a map or a set would
\* at every command of the two types, as long as no SREM names a member twice
\* (hsetCommon, hmsetNoLock, hincrCommon, hdel, saddNoLock, srem, spop,
\* srandmember, quickHash, quickSet).
THEOREM ImplementsACollection == NoMemberTwice => (HSpec => BehavesAsACollection)
<1> SUFFICES ASSUME NoMemberTwice PROVE HSpec => BehavesAsACollection
  OBVIOUS
<1>1. HSpec => []HInd
  BY HashRecordsAgree
<1>2. HInd /\ [HNext]_hvars => [IsACollection!Next]_<<HKind, HMap, hrequest, hout>>
  BY HNextRefines
<1> QED
  BY <1>1, <1>2, HInitRefines, PTL DEF HSpec, BehavesAsACollection, IsACollection!Spec
=============================================================================
