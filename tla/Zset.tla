-------------------------------- MODULE Zset --------------------------------
(* One sorted set as t_zset.cpp keeps it: a META record with the length, an   *)
(* ITEM record per member that holds its score, and a ZSCORE record per       *)
(* member under the score and the member.  A command that changes the set     *)
(* holds the key's lock and writes one batch, so that it is one step; only    *)
(* ZREMRANGEBYRANK takes the lock twice.  Commands that read ranges read a    *)
(* snapshot that was taken under the lock.                                    *)
(* Strings are numbers in their order, the empty one 0.  Scores are integers; *)
(* RecordCode shows that encoded scores sort as scores do.                 *)
EXTENDS Integers, Sequences, FiniteSets

CONSTANTS
    Members,      \* the members, a set of numbers
    Inf,          \* the infinite score; a sum beyond it is infinite too
    Fine,         \* the scores that adding eps = 1e-15 changes: below 16
    Bounds,       \* the scores range commands are given
    NoScore,      \* no ITEM record; not a number
    ZaddArgs,     \* the lists of pairs ZADD is given
    ZPayload,     \* the sorted sets RESTORE is given
    MaxZVersion   \* bound on the incarnations of the key

Scores == -Inf..Inf

ASSUME ZsetAssumption ==
    /\ Members \subseteq Nat /\ IsFiniteSet(Members)
    /\ Inf \in Nat \ {0} /\ MaxZVersion \in Nat
    /\ Fine \subseteq (-Inf + 1)..(Inf - 1) /\ Bounds \subseteq Scores
    /\ NoScore \notin Scores
    /\ ZPayload \subseteq UNION {[S -> Scores] : S \in (SUBSET Members) \ {{}}}
    /\ \A ps \in ZaddArgs : ps # <<>> /\ ps \in Seq(Scores \X Members)

VARIABLES
    zmeta,    \* the META record
    zitem,    \* the ITEM records: the score, or NoScore, per version and member
    zscore,   \* the ZSCORE records: pairs of score and member, per version
    picked,   \* the members ZREMRANGEBYRANK is about to remove, <<>> when it is not
    request,  \* the last command that may have changed the set
    zout      \* the answer to it

zvars == <<zmeta, zitem, zscore, picked, request, zout>>

ZVersions == 0..MaxZVersion
Pairs == Scores \X Members

----------------------------------------------------------------------------
(* META *)

ZLive(n, v) == [st |-> "live", len |-> n, ver |-> v]
\* Faulty ZDead: the version is lost.
ZDeadNoVersion(v) == [st |-> "dead", len |-> 0, ver |-> 0]
ZDead(v) == [st |-> "dead", len |-> 0, ver |-> v]
ZAbsent == [st |-> "absent", len |-> 0, ver |-> 0]
ZFound == zmeta.st = "live"

\* GetZSetMetaVal: a missing or deleted key is an empty set, of the next version.
ZNextVersion == IF zmeta.st = "absent" THEN 0 ELSE zmeta.ver + 1
GetZSetMetaVal == IF ZFound THEN zmeta ELSE ZLive(0, ZNextVersion)
ZCanBeVersioned == ~ZFound => ZNextVersion <= MaxZVersion

\* incr_zsize: the META record of the batch, or an error.
ZSizeError == [st |-> "error", len |-> 0, ver |-> 0]
IncrZsize(zv, incr) ==
    IF incr = 0 THEN zmeta
    ELSE IF zv.len + incr < 0 THEN ZSizeError
    ELSE IF zv.len + incr = 0 THEN ZDead(zv.ver) ELSE ZLive(zv.len + incr, zv.ver)

Number(n) == <<1, n>>
Nil == <<0, 0>>
Error == <<-1, 0>>
ZReply(x) == zout' = x /\ UNCHANGED <<zmeta, zitem, zscore>>

\* The batch: the records of one version and META, or nothing if incr_zsize fails.
ZCommit(zv, its, keys, incr, reply) ==
    IF IncrZsize(zv, incr) = ZSizeError THEN ZReply(Error)
    ELSE /\ zmeta' = IncrZsize(zv, incr)
         /\ zitem' = [zitem EXCEPT ![zv.ver] = its]
         /\ zscore' = [zscore EXCEPT ![zv.ver] = keys]
         /\ zout' = reply

----------------------------------------------------------------------------
(* ZADD, ZINCRBY *)

NaN == Inf + 1    \* no score
\* Addition of doubles
ScoreSum(a, b) ==
    IF {a, b} = {Inf, -Inf} THEN NaN
    ELSE IF Inf \in {a, b} \/ a + b > Inf THEN Inf
    ELSE IF -Inf \in {a, b} \/ a + b < -Inf THEN -Inf
    ELSE a + b

\* zset_one for the members of a map: what each had, and which are written.
OldScore(zv, m) == IF ZFound THEN zitem[zv.ver][m] ELSE NoScore
Added(zv, new, flags) == {m \in DOMAIN new : OldScore(zv, m) = NoScore /\ "xx" \notin flags}
Updated(zv, new, flags) ==
    {m \in DOMAIN new : OldScore(zv, m) \notin {NoScore, new[m]} /\ "nx" \notin flags}
\* Faulty ZsetOne: the ZSCORE record of the old score stays.
ZsetOneKeepsOld(zv, new, flags, incr, reply) ==
    LET put == Added(zv, new, flags) \cup Updated(zv, new, flags)
        its == [m \in Members |-> IF m \in put THEN new[m] ELSE zitem[zv.ver][m]]
    IN  ZCommit(zv, its, zscore[zv.ver] \cup {<<new[m], m>> : m \in put}, incr, reply)
ZsetOne(zv, new, flags, incr, reply) ==
    LET put == Added(zv, new, flags) \cup Updated(zv, new, flags)
        old == {<<OldScore(zv, m), m>> : m \in put}
        its == [m \in Members |-> IF m \in put THEN new[m] ELSE zitem[zv.ver][m]]
    IN  ZCommit(zv, its, (zscore[zv.ver] \ old) \cup {<<new[m], m>> : m \in put}, incr, reply)

\* zsetNoLock
ZsetNoLock(new, flags) ==
    LET zv == GetZSetMetaVal
        added == Cardinality(Added(zv, new, flags))
        updated == Cardinality(Updated(zv, new, flags))
    IN  ZsetOne(zv, new, flags, added, Number(IF "ch" \in flags THEN added + updated ELSE added))

\* Faulty Zincr: a sum that is no number is stored.
ZincrNaN(m, by, flags) ==
    LET zv == GetZSetMetaVal
        old == OldScore(zv, m)
        new == [x \in {m} |-> IF old = NoScore THEN by ELSE ScoreSum(old, by)]
    IN  ZsetOne(zv, new, flags, Cardinality(Added(zv, new, flags)), Number(new[m]))

\* zincr: the sum, for a member there is; nothing under NX, XX if they say so.
Zincr(m, by, flags) ==
    LET zv == GetZSetMetaVal
        old == OldScore(zv, m)
        score == IF old = NoScore \/ "nx" \in flags THEN by ELSE ScoreSum(old, by)
        new == [x \in {m} |-> score]
        nop == IF old = NoScore THEN "xx" \in flags ELSE "nx" \in flags
    IN  IF score = NaN
        THEN ZReply(Error)
        ELSE ZsetOne(zv, new, flags, Cardinality(Added(zv, new, flags)),
                     IF nop THEN Nil ELSE Number(score))

\* Faulty SortedSet: the last pair counts under NX too.
SortedSetLast(pairs, nx) ==
    [m \in {pairs[i][2] : i \in DOMAIN pairs} |->
       LET is == {i \in DOMAIN pairs : pairs[i][2] = m}
       IN  pairs[CHOOSE i \in is : \A j \in is : j <= i][1]]

\* The map proc_zadd makes of its arguments: the first pair of a member counts
\* under NX, the last one else.
SortedSet(pairs, nx) ==
    [m \in {pairs[i][2] : i \in DOMAIN pairs} |->
       LET is == {i \in DOMAIN pairs : pairs[i][2] = m}
           pick == CHOOSE i \in is : \A j \in is : IF nx THEN i <= j ELSE j <= i
       IN  pairs[pick][1]]

ProcZadd(flags, pairs) ==
    /\ request' = <<"zadd", flags, pairs>> /\ UNCHANGED picked
    /\ IF {"nx", "xx"} \subseteq flags \/ ("incr" \in flags /\ Len(pairs) > 1)
       THEN ZReply(Error)
       ELSE /\ ZCanBeVersioned
            /\ IF "incr" \in flags
               THEN Zincr(pairs[1][2], pairs[1][1], flags)
               ELSE ZsetNoLock(SortedSet(pairs, "nx" \in flags), flags)

ProcZincrby(m, by) ==
    /\ request' = <<"zadd", {"incr"}, <<<<by, m>>>>>> /\ UNCHANGED picked
    /\ ZCanBeVersioned /\ Zincr(m, by, {"incr"})

----------------------------------------------------------------------------
(* Iterators over the ZSCORE and ITEM records of the live version *)

\* The order of the keys; Bytes compare as strings.
Less(a, b) == a[1] < b[1] \/ (a[1] = b[1] /\ a[2] < b[2])
Ordered(S) == [i \in 1..Cardinality(S) |-> CHOOSE r \in S : Cardinality({q \in S : Less(q, r)}) = i - 1]
Reversed(s) == [i \in 1..Len(s) |-> s[Len(s) + 1 - i]]

\* Faulty Moved: a bound is not moved past the members that have its score.
MovedNowhere(s, by) == <<2 * s, 0>>

\* A key between two others: the score of a bound, moved by eps where that has
\* an effect, in halves so that it lies between scores, and no member.
Moved(s, by) == <<2 * s + (IF s \in Fine THEN by ELSE 0), 0>>
First == <<-2 * Inf - 1, 0>>    \* of a negative NaN
Last == <<2 * Inf + 1, 0>>      \* of a NaN
Key(r) == <<2 * r[1], r[2]>>

\* zscan_internal, Iterator::next: the records passed; the end is included.
ForwardScan(start, end) ==
    {r \in zscore[zmeta.ver] : ~Less(Key(r), start) /\ ~Less(end, Key(r))}
\* rev_iterator stays on the key it seeks if that begins with start.
BackwardScan(start, end) ==
    LET above == {r \in zscore[zmeta.ver] : ~Less(Key(r), start)}
        on == {r \in above : Key(r)[1] = start[1] /\ \A q \in above : ~Less(q, r)}
        below == {r \in zscore[zmeta.ver] : Less(Key(r), start)}
    IN  {r \in below \cup on : ~Less(Key(r), end)}
\* Faulty LexScan: an empty end is an end.
LexScanToEnd(min, max) == {m \in Members : zitem[zmeta.ver][m] # NoScore /\ m >= min /\ m <= max}

\* zscanbylex_internal; an empty end is no end.
LexScan(min, max) ==
    {m \in Members : zitem[zmeta.ver][m] # NoScore /\ m >= min /\ (max # 0 => m <= max)}

MembersOf(s) == [i \in 1..Len(s) |-> s[i][2]]
Forward(records) == MembersOf(Ordered(records))
Backward(records) == MembersOf(Reversed(Ordered(records)))

----------------------------------------------------------------------------
(* Ranges by rank, score and member *)

\* zrangeGeneric
ZrangeGeneric(begin, limit, reverse) ==
    LET llen == zmeta.len
        b == IF begin < 0 THEN llen + begin ELSE begin
        start == IF b < 0 THEN 0 ELSE b
        e == IF limit < 0 THEN llen + limit ELSE limit
        end == IF e >= llen THEN llen - 1 ELSE e
        all == IF reverse THEN Backward(BackwardScan(Last, First)) ELSE Forward(ForwardScan(First, Last))
    IN  IF ~ZFound \/ start > e \/ start >= llen THEN <<>>
        ELSE SubSeq(all, start + 1, IF end + 1 <= Len(all) THEN end + 1 ELSE Len(all))
Zrange(begin, limit) == ZrangeGeneric(begin, limit, FALSE)
Zrrange(begin, limit) == ZrangeGeneric(begin, limit, TRUE)

\* Faulty RankIn: ranks begin with 1.
RankInFromOne(s, m) ==
    IF ZFound /\ \E i \in DOMAIN s : s[i] = m THEN CHOOSE i \in DOMAIN s : s[i] = m ELSE -1

\* zrank, zrrank: the records passed before the member's, or -1.
RankIn(s, m) ==
    IF ZFound /\ \E i \in DOMAIN s : s[i] = m
    THEN (CHOOSE i \in DOMAIN s : s[i] = m) - 1 ELSE -1
Zrank(m) == RankIn(Forward(ForwardScan(First, Last)), m)
Zrrank(m) == RankIn(Backward(BackwardScan(Last, First)), m)

\* zslParseRange, zslValueGteMin, zslValueLteMax
ScoreRanges == [min : Bounds, max : Bounds, minex : BOOLEAN, maxex : BOOLEAN]
GteMin(s, r) == IF r.minex THEN s > r.min ELSE s >= r.min
LteMax(s, r) == IF r.maxex THEN s < r.max ELSE s <= r.max

\* OFFSET and LIMIT: a negative offset never becomes 0, a negative limit neither.
Window(s, offset, limit) ==
    LET end == IF limit < 0 \/ offset + limit > Len(s) THEN Len(s) ELSE offset + limit
    IN  IF offset < 0 THEN <<>> ELSE SubSeq(s, offset + 1, end)

\* genericZrangebyscore; the scan is sorted, so that its loop filters it.
InScoreRange(records, r) == {p \in records : GteMin(p[1], r) /\ LteMax(p[1], r)}
GenericZrangebyscore(r, offset, limit, reverse) ==
    LET end == IF r.max \in {Inf, -Inf} THEN Last ELSE Moved(r.max, 1)
        found == IF reverse
                 THEN Backward(InScoreRange(BackwardScan(Moved(r.max, 1), Moved(r.min, -1)), r))
                 ELSE Forward(InScoreRange(ForwardScan(Moved(r.min, -1), end), r))
    IN  IF ~ZFound THEN <<>> ELSE Window(found, offset, limit)
Zrangebyscore(r, offset, limit) == GenericZrangebyscore(r, offset, limit, FALSE)
Zrevrangebyscore(r, offset, limit) == GenericZrangebyscore(r, offset, limit, TRUE)

\* The members zremrangebyscore counts, and removes.
ScoreSelected(r) == {p[2] : p \in InScoreRange(ForwardScan(Moved(r.min, -1), Moved(r.max, 1)), r)}
Zcount(r) == IF ZFound THEN Cardinality(ScoreSelected(r)) ELSE 0

\* zslParseLexRangeItem, zslParseLexRange: - and + leave an empty string.
LexItems == [sign : {"(", "["}, at : Members \cup {0}] \cup [sign : {"-", "+"}, at : {0}]
EmptyLexRange(min, max) ==
    \/ min.sign = "+" \/ max.sign = "-"
    \/ max.sign # "+" /\ (min.at > max.at \/ (min.at = 0 /\ max.at = 0))
    \/ min.at = max.at /\ max.at # 0 /\ "(" \in {min.sign, max.sign}
LexGteMin(m, min) == IF min.sign = "(" THEN m > min.at ELSE m >= min.at
LexLteMax(m, max) == max.at = 0 \/ (IF max.sign = "(" THEN m < max.at ELSE m <= max.at)
\* genericZrangebylex
LexSelected(min, max) ==
    LET in == {m \in LexScan(min.at, max.at) : LexGteMin(m, min) /\ LexLteMax(m, max)}
    IN  IF EmptyLexRange(min, max) \/ ~ZFound THEN <<>> ELSE Forward({<<0, m>> : m \in in})
Zrangebylex(min, max, offset, limit) == Window(LexSelected(min, max), offset, limit)
Zrevrangebylex(max, min, offset, limit) == Window(Reversed(LexSelected(min, max)), offset, limit)
Zlexcount(min, max) == Len(LexSelected(min, max))

----------------------------------------------------------------------------
(* Commands that remove *)

\* zdel_one for each member, and incr_zsize: a member without a record is none.
ZdelNoLock(ms) ==
    LET there == {m \in ms : zitem[zmeta.ver][m] # NoScore}
        its == [m \in Members |-> IF m \in there THEN NoScore ELSE zitem[zmeta.ver][m]]
        keys == zscore[zmeta.ver] \ {<<zitem[zmeta.ver][m], m>> : m \in there}
        n == Cardinality(there)
    IN  IF ~ZFound THEN ZReply(Number(0)) ELSE ZCommit(zmeta, its, keys, -n, Number(n))

Zrem(ms) == ZdelNoLock(ms) /\ request' = <<"zrem", ms>>
MultiZdel(ms) == Zrem(ms) /\ UNCHANGED picked
Zremrangebyscore(r) == Zrem(ScoreSelected(r)) /\ UNCHANGED picked
Zremrangebylex(min, max) ==
    LET found == LexSelected(min, max) IN Zrem({found[i] : i \in DOMAIN found}) /\ UNCHANGED picked

\* proc_zremrangebyrank: zrange, and multi_zdel of what it returned.
ZremrangebyrankRead(begin, limit) ==
    /\ picked = <<>>
    /\ IF ZFound
       THEN /\ picked' = LET s == Zrange(begin, limit) IN <<{s[i] : i \in DOMAIN s}>>
            /\ UNCHANGED <<zmeta, zitem, zscore, request, zout>>
       ELSE ZReply(Number(0)) /\ request' = <<"zrem", {}>> /\ UNCHANGED picked
ZremrangebyrankDel == picked # <<>> /\ Zrem(picked[1]) /\ picked' = <<>>

----------------------------------------------------------------------------
(* RESTORE and DEL *)

\* quickZset, on a version that has no record yet
QuickZset(new) == ZsetOne(ZLive(0, ZNextVersion), new, {}, Cardinality(DOMAIN new), Number(1))

ZKill(x) == zmeta' = ZDead(zmeta.ver) /\ zout' = x /\ UNCHANGED <<zitem, zscore>>

\* With REPLACE mark_key_deleted comes first, whatever becomes of the payload.
ZRestore(new, replace) ==
    /\ request' = <<"restore", new>> /\ UNCHANGED picked
    /\ IF ZFound /\ ~replace
       THEN ZReply(Error)
       ELSE \/ ZNextVersion <= MaxZVersion /\ QuickZset(new)
            \/ IF ZFound THEN ZKill(Error) ELSE ZReply(Error)
ZDel ==
    /\ request' = <<"del">> /\ UNCHANGED picked
    /\ IF ZFound THEN ZKill(Number(1)) ELSE ZReply(Number(0))

----------------------------------------------------------------------------
ZInit ==
    /\ zmeta = ZAbsent
    /\ zitem = [v \in ZVersions |-> [m \in Members |-> NoScore]]
    /\ zscore = [v \in ZVersions |-> {}]
    /\ picked = <<>>
    /\ request = <<"del">> /\ zout = Nil

Ranks == -(Cardinality(Members) + 1)..Cardinality(Members)

ZNext ==
    \/ \E fs \in SUBSET {"nx", "xx", "ch", "incr"}, ps \in ZaddArgs : ProcZadd(fs, ps)
    \/ \E m \in Members, by \in Scores : ProcZincrby(m, by)
    \/ \E ms \in (SUBSET Members) \ {{}} : MultiZdel(ms)
    \/ \E r \in ScoreRanges : Zremrangebyscore(r)
    \/ \E min, max \in LexItems : Zremrangebylex(min, max)
    \/ \E b, l \in Ranks : ZremrangebyrankRead(b, l)
    \/ ZremrangebyrankDel
    \/ \E new \in ZPayload, r \in BOOLEAN : ZRestore(new, r)
    \/ ZDel

ZSpec == ZInit /\ [][ZNext]_zvars

----------------------------------------------------------------------------
(* Properties *)

ZTypeOK ==
    /\ zmeta \in [st : {"absent", "live", "dead"}, len : Nat, ver : ZVersions]
    /\ zitem \in [ZVersions -> [Members -> Scores \cup {NoScore}]]
    /\ zscore \in [ZVersions -> SUBSET Pairs]
    /\ picked = <<>> \/ picked \in [{1} -> SUBSET Members]

InSet(v) == {m \in Members : zitem[v][m] # NoScore}

\* META, ITEM and ZSCORE tell of the same set: a ZSCORE record per ITEM record,
\* under its score and no other, and as many as the length says, not 0
\* (zset_one, zdel_one, incr_zsize, quickZset; ZREMRANGEBYRANK with what was
\* in the set when it looked).
ZsetAgrees ==
    ZFound => /\ zscore[zmeta.ver] = {<<zitem[zmeta.ver][m], m>> : m \in InSet(zmeta.ver)}
              /\ zmeta.len = Cardinality(InSet(zmeta.ver))
              /\ zmeta.len # 0

\* Versions the key has not had yet hold no record.
ZUnusedClean ==
    \A v \in ZVersions :
        v > zmeta.ver \/ zmeta.st = "absent" => InSet(v) = {} /\ zscore[v] = {}

\* The set a client has: what ITEM says.
Map == IF ZFound THEN zitem[zmeta.ver] ELSE [m \in Members |-> NoScore]
Rank(m) == <<Map[m], m>>
Ranking == IF ZFound THEN Forward({Rank(m) : m \in InSet(zmeta.ver)}) ELSE <<>>

IsAMap == INSTANCE ZsetAbs WITH score <- Map, reply <- zout

\* The commands that change the set change it, and answer, as on a map.
BehavesAsAMap == IsAMap!Spec

\* ZRANGE, ZREVRANGE, ZRANK and ZREVRANK count in the order of score and member,
\* negative ranks from the end (zrangeGeneric, zrank, zrrank).
RankReads ==
    LET n == Len(Ranking)
        From(r) == IF r < 0 THEN n + r ELSE r
        Slice(s, b, l) == LET is == {i \in 1..n : From(b) <= i - 1 /\ i - 1 <= From(l)}
                          IN  [i \in 1..Cardinality(is) |-> s[i + Cardinality({j \in 1..n : j - 1 < From(b)})]]
    IN  /\ \A b, l \in Ranks : /\ Zrange(b, l) = Slice(Ranking, b, l)
                               /\ Zrrange(b, l) = Slice(Reversed(Ranking), b, l)
        /\ \A m \in Members : IF Map[m] = NoScore
                               THEN Zrank(m) = -1 /\ Zrrank(m) = -1
                               ELSE /\ Zrank(m) \in 0..(n - 1) /\ Ranking[Zrank(m) + 1] = m
                                    /\ Zrank(m) + Zrrank(m) = n - 1

\* ZRANGEBYSCORE, ZREVRANGEBYSCORE, ZCOUNT and ZREMRANGEBYSCORE select the
\* members with min <= score <= max, or < where the bound is open
\* (zslParseRange, genericZrangebyscore, zremrangebyscore).
ScoreReads ==
    \A r \in ScoreRanges :
        LET in == {m \in Members : Map[m] # NoScore /\ GteMin(Map[m], r) /\ LteMax(Map[m], r)}
            s == Zrangebyscore(r, 0, -1)
        IN  /\ {s[i] : i \in DOMAIN s} = in
            /\ \A i, j \in DOMAIN s : i < j => Less(Rank(s[i]), Rank(s[j]))
            /\ Zrevrangebyscore(r, 0, -1) = Reversed(s)
            /\ Zrangebyscore(r, 1, 1) = IF Len(s) < 2 THEN <<>> ELSE <<s[2]>>
            /\ ZFound => ScoreSelected(r) = in
            /\ Zcount(r) = Cardinality(in)

\* The commands BYLEX select the members between the bounds, in their order; a
\* range that ends with the empty string is empty (genericZrangebylex,
\* zrevrangebylex, zremrangebylex).
LexReads ==
    \A min, max \in LexItems :
        LET Above(m) == min.sign = "-" \/ (min.sign = "[" /\ m >= min.at) \/ (min.sign = "(" /\ m > min.at)
            Below(m) == \/ max.sign = "+"
                        \/ max.at # 0 /\ (IF max.sign = "[" THEN m <= max.at ELSE m < max.at)
            in == {m \in Members : Map[m] # NoScore /\ Above(m) /\ Below(m)}
            s == Zrangebylex(min, max, 0, -1)
        IN  /\ {s[i] : i \in DOMAIN s} = in
            /\ \A i, j \in DOMAIN s : i < j => s[i] < s[j]
            /\ Zrevrangebylex(max, min, 0, -1) = Reversed(s)
            /\ Zlexcount(min, max) = Cardinality(in)
=============================================================================
