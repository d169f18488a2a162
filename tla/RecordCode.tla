----------------------------- MODULE RecordCode -----------------------------
(* The records of the database as bytes (codec/kv/encode.cpp, decode.cpp).    *)
(* RocksDB orders keys as byte strings.  The reaper, the iterators and the    *)
(* ranges of sorted sets rely on that order, and a record is found again only *)
(* if it decodes to what was encoded.  A byte is a digit below Radix; an      *)
(* integer of 16 or 64 bits is Digits16 or Digits64 of them.                  *)
EXTENDS Numerals, FiniteSets

CONSTANTS
    Radix, Digits16, Digits64,
    Half,          \* the sign bit of a double
    Names,         \* the keys
    Fields,        \* the fields and members
    CodeVersions,  \* the versions
    Doubles,       \* the scores, as bits
    Numbers,       \* the lengths, sequence numbers and times
    MaxRecords     \* bound on the records

Below(w) == 0..(Power(Radix, w) - 1)

ASSUME CodeAssumption ==
    /\ Radix \in Nat \ {0, 1} /\ Digits16 \in Nat \ {0} /\ Digits64 \in Nat \ {0}
    /\ Half \in Nat \ {0} /\ Power(Radix, Digits64) = 2 * Half
    /\ Names \subseteq Seq(0..(Radix - 1)) /\ Fields \subseteq Seq(0..(Radix - 1))
    \* The code casts the length of a key to 16 bits and checks no key's length.
    /\ \A k \in Names : Len(k) < Power(Radix, Digits16)
    /\ CodeVersions \subseteq Below(Digits16) /\ Numbers \subseteq Below(Digits64)
    /\ Doubles \subseteq 0..(2 * Half - 1)
    /\ MaxRecords \in Nat

VARIABLES
    recs,   \* what was written
    db      \* the database: a function from bytes to bytes

codevars == <<recs, db>>

----------------------------------------------------------------------------
(* Scores: a double is its bits, the magnitude with the sign bit above it.    *)

Negative(x) == x >= Half
\* Faulty EncodeScore: only the sign bit is inverted.
EncodeScoreSignOnly(x) == IF Negative(x) THEN x - Half ELSE x + Half
\* encodeScore: the bits of a negative one are inverted, else the sign bit is set.
EncodeScore(x) == IF Negative(x) THEN 2 * Half - 1 - x ELSE x + Half
DecodeScore(c) == IF c >= Half THEN c - Half ELSE 2 * Half - 1 - c

\* The order of doubles, in which -0 is less than 0 and a NaN beyond infinity.
ScoreLess(x, y) ==
    CASE Negative(x) /\ Negative(y) -> x > y
      [] ~Negative(x) /\ ~Negative(y) -> x < y
      [] OTHER -> Negative(x)

----------------------------------------------------------------------------
(* Bytes *)

\* htobe16, htobe64, after the cast to that width
Digits(n, w) == Numeral(Radix, n, w)
\* be16toh, be64toh
Value(s) == ValueOf(Radix, s)

Starts(p, s) == Len(p) <= Len(s) /\ SubSeq(s, 1, Len(p)) = p
\* The order of byte strings, that of RocksDB
BytesLess(a, b) ==
    \/ Len(a) < Len(b) /\ Starts(a, b)
    \/ \E i \in DOMAIN a \cap DOMAIN b : a[i] < b[i] /\ \A j \in 1..(i - 1) : a[j] = b[j]

\* Decoder: what is read and what is left; a read of more than there is fails.
Drop(s, n) == SubSeq(s, n + 1, Len(s))
Short == [ok |-> FALSE]
ReadInt(s, w) ==
    IF Len(s) < w THEN Short ELSE [ok |-> TRUE, val |-> Value(SubSeq(s, 1, w)), rest |-> Drop(s, w)]
Read16Data(s) ==
    LET n == ReadInt(s, Digits16) IN
    IF ~n.ok \/ Len(n.rest) < n.val THEN Short
    ELSE [ok |-> TRUE, val |-> SubSeq(n.rest, 1, n.val), rest |-> Drop(n.rest, n.val)]

----------------------------------------------------------------------------
(* Keys.  The types in the order of their characters: D, E, M, S, T, z.       *)

Delete == 0
EKey == 1
Meta == 2
Item == 3
EScore == 4
ZScore == 5

RecKey(t, k, v, s, f) == [type |-> t, key |-> k, ver |-> v, score |-> s, field |-> f]
NoKey == [type |-> -1]

EncodeMetaKey(k) == <<Meta>> \o k
EncodeEsetKey(k) == <<EKey>> \o k
EncodeEscoreKey(k, time) == <<EScore>> \o Digits(time, Digits64) \o k
\* Faulty EncodeKeyInternal: the length of the key is left out.
EncodeKeyInternalNoLength(t, k, f, v) == <<t>> \o k \o Digits(v, Digits16) \o f
EncodeKeyInternal(t, k, f, v) ==
    <<t>> \o Digits(Len(k), Digits16) \o k \o Digits(v, Digits16) \o f
EncodeListKey(k, seq, v) == EncodeKeyInternal(Item, k, Digits(seq, Digits64), v)
EncodeDeleteKey(k, v) == EncodeKeyInternal(Delete, k, <<>>, v)
EncodeZscoreKey(k, f, s, v) ==
    EncodeKeyInternal(ZScore, k, Digits(EncodeScore(s), Digits64) \o f, v)

Encode(r) ==
    CASE r.type = Meta -> EncodeMetaKey(r.key)
      [] r.type = EKey -> EncodeEsetKey(r.key)
      [] r.type = EScore -> EncodeEscoreKey(r.key, r.score)
      [] r.type = Delete -> EncodeDeleteKey(r.key, r.ver)
      [] r.type = Item -> EncodeKeyInternal(Item, r.key, r.field, r.ver)
      [] r.type = ZScore -> EncodeZscoreKey(r.key, r.field, r.score, r.ver)

\* DecodeMetaKey, and what DecodeItemKey and DecodeDeleteKey have in common
DecodeMetaKey(s) == RecKey(Meta, Tail(s), 0, 0, <<>>)
DecodeEScoreKey(s) ==
    LET time == ReadInt(Tail(s), Digits64)
    IN  IF time.ok THEN RecKey(EScore, time.rest, 0, time.val, <<>>) ELSE NoKey
DecodeItemKey(s) ==
    LET k == Read16Data(Tail(s))
        v == ReadInt(k.rest, Digits16)
    IN  IF ~k.ok THEN NoKey ELSE IF ~v.ok THEN NoKey ELSE RecKey(s[1], k.val, v.val, 0, v.rest)
DecodeZScoreKey(s) ==
    LET i == DecodeItemKey(s)
        c == ReadInt(i.field, Digits64)
    IN  IF i = NoKey THEN NoKey ELSE IF ~c.ok THEN NoKey
        ELSE RecKey(ZScore, i.key, i.ver, DecodeScore(c.val), c.rest)
DecodeListKey(s) ==
    LET i == DecodeItemKey(s)
        n == ReadInt(i.field, Digits64)
    IN  IF i = NoKey THEN NoKey ELSE IF ~n.ok THEN NoKey ELSE [i EXCEPT !.field = Digits(n.val, Digits64)]
DecodeDeleteKey(s) == LET i == DecodeItemKey(s) IN IF i = NoKey THEN NoKey ELSE [i EXCEPT !.field = <<>>]

\* A decoder takes the type it is for; an EKEY record is decoded by its readers.
Decode(s) ==
    CASE s[1] = Meta -> DecodeMetaKey(s)
      [] s[1] = EKey -> RecKey(EKey, Tail(s), 0, 0, <<>>)
      [] s[1] = EScore -> DecodeEScoreKey(s)
      [] s[1] = Delete -> DecodeDeleteKey(s)
      [] s[1] = Item -> DecodeItemKey(s)
      [] s[1] = ZScore -> DecodeZScoreKey(s)

----------------------------------------------------------------------------
(* META values: the type, the version, whether the key is deleted, and what   *)
(* the type keeps.                                                            *)

Kinds == {"kv", "hash", "set", "zset", "list"}
Deleted == 0
Enabled == 1
Kind(k) == <<k>>     \* a character

EncodeMetaVal(m) ==
    Kind(m.kind) \o Digits(m.ver, Digits16) \o <<m.del>>
    \o (IF m.kind = "kv" THEN m.value
        ELSE IF m.kind = "list"
        THEN Digits(m.len, Digits64) \o Digits(m.left, Digits64) \o Digits(m.right, Digits64)
        ELSE Digits(m.len, Digits64))

\* Faulty DecodeMetaVal: the type is looked at first.
DecodeMetaValTypeFirst(s, kinds) ==
    LET v == ReadInt(Tail(s), Digits16)
        rest == Drop(s, Digits16 + 2)
    IN  IF s[1] \notin kinds THEN [ret |-> "wrong type"]
        ELSE IF v.rest[1] = Deleted THEN [ret |-> "deleted", ver |-> v.val]
        ELSE IF s[1] = "kv" THEN [ret |-> "ok", ver |-> v.val, value |-> rest]
        ELSE [ret |-> "ok", ver |-> v.val, len |-> Value(SubSeq(rest, 1, Digits64)),
              left |-> Value(SubSeq(rest, Digits64 + 1, 2 * Digits64)),
              right |-> Value(SubSeq(rest, 2 * Digits64 + 1, 3 * Digits64))]

\* DecodeMetaVal of KvMetaVal, MetaVal and ListMetaVal, for a set of types: the
\* version of a deleted key, and its type is not looked at.
Bad(e) == [ret |-> e]
DecodeMetaVal(s, kinds) ==
    LET v == ReadInt(Tail(s), Digits16)
        rest == Drop(s, Digits16 + 2)
        n(i) == Value(SubSeq(rest, (i - 1) * Digits64 + 1, i * Digits64))
        has == Len(rest) \div Digits64
    IN  IF Len(s) < Digits16 + 2 THEN Bad("error")
        ELSE IF v.rest[1] \notin {Deleted, Enabled} THEN Bad("error")
        ELSE IF v.rest[1] = Deleted THEN [ret |-> "deleted", ver |-> v.val]
        ELSE IF s[1] \notin kinds THEN Bad("wrong type")
        ELSE IF s[1] = "kv" THEN [ret |-> "ok", ver |-> v.val, value |-> rest]
        ELSE IF s[1] = "list"
        THEN IF has < 3 THEN Bad("error")
             ELSE [ret |-> "ok", ver |-> v.val, len |-> n(1), left |-> n(2), right |-> n(3)]
        ELSE IF has < 1 THEN Bad("error") ELSE [ret |-> "ok", ver |-> v.val, len |-> n(1)]

Readers == {{"kv"}, {"hash", "set", "zset"}, {"list"}}

----------------------------------------------------------------------------
(* Writes *)

RecKeys ==
    {RecKey(t, k, 0, 0, <<>>) : t \in {EKey}, k \in Names}
    \cup {RecKey(EScore, k, 0, n, <<>>) : k \in Names, n \in Numbers}
    \cup {RecKey(Delete, k, v, 0, <<>>) : k \in Names, v \in CodeVersions}
    \cup {RecKey(Item, k, v, 0, f) : k \in Names, v \in CodeVersions, f \in Fields}
    \cup {RecKey(Item, k, v, 0, Digits(n, Digits64)) : k \in Names, v \in CodeVersions, n \in Numbers}
    \cup {RecKey(ZScore, k, v, s, f) : k \in Names, v \in CodeVersions, s \in Doubles, f \in Fields}
Plain == [kind : {"hash", "set", "zset"}, ver : CodeVersions, del : {Deleted, Enabled}, len : Numbers]
String == [kind : {"kv"}, ver : CodeVersions, del : {Deleted, Enabled}, value : Fields]
List == [kind : {"list"}, ver : CodeVersions, del : {Deleted, Enabled}, len : Numbers, left : Numbers, right : Numbers]

Write(r, bytes, value) ==
    /\ Cardinality(recs) < MaxRecords /\ r \notin recs
    /\ recs' = recs \cup {r}
    /\ db' = [b \in DOMAIN db \cup {bytes} |-> IF b = bytes THEN value ELSE db[b]]

Put(r) == Write([key |-> r], Encode(r), <<>>)
\* (bounded to one META record)
PutMeta(k, m) ==
    /\ \A r \in recs : r.key.type # Meta
    /\ Write([key |-> RecKey(Meta, k, 0, 0, <<>>), val |-> m], EncodeMetaKey(k), EncodeMetaVal(m))

CodeInit == recs = {} /\ db = <<>>
CodeNext ==
    \/ \E r \in RecKeys : Put(r)
    \/ \E k \in Names, m \in Plain \cup String \cup List : PutMeta(k, m)
CodeSpec == CodeInit /\ [][CodeNext]_codevars

----------------------------------------------------------------------------
(* Properties *)

\* Two records are two byte strings, and each of them decodes to its record: the
\* bytes of a key do not run into those of the field.
KeysDecode ==
    /\ Cardinality(DOMAIN db) = Cardinality(recs)
    /\ {r.key : r \in recs} = {Decode(b) : b \in DOMAIN db}
    /\ \A b \in DOMAIN db :
          b[1] = Item /\ Len(Decode(b).field) = Digits64 => DecodeListKey(b) = Decode(b)

\* RocksDB keeps the records of a type in the order the code counts on: a key's
\* records together, version by version, a sorted set's by score and then by
\* member, a list's by sequence number, times to live by time.
NameLess(a, b) == Len(a) < Len(b) \/ (Len(a) = Len(b) /\ BytesLess(a, b))
RecordLess(a, b) ==
    IF a.type # b.type THEN a.type < b.type
    ELSE IF a.type \in {Meta, EKey} THEN BytesLess(a.key, b.key)
    ELSE IF a.type = EScore THEN a.score < b.score \/ (a.score = b.score /\ BytesLess(a.key, b.key))
    ELSE IF a.key # b.key THEN NameLess(a.key, b.key)
    ELSE IF a.ver # b.ver THEN a.ver < b.ver
    ELSE IF a.score # b.score THEN ScoreLess(a.score, b.score)
    ELSE BytesLess(a.field, b.field)
ScanOrder ==
    \A a, b \in {r.key : r \in recs} : BytesLess(Encode(a), Encode(b)) <=> RecordLess(a, b)

\* The records that begin with the prefix of a key and a version are those of
\* that key and version (the reaper removes them; HGETALL and ZRANGE read them).
PrefixScan ==
    \A r \in {q.key : q \in recs}, t \in {Item, ZScore}, k \in Names, v \in CodeVersions :
        Starts(EncodeKeyInternal(t, k, <<>>, v), Encode(r)) <=> r.type = t /\ r.key = k /\ r.ver = v

\* A META value is read back by the reader of its type and refused by others; of
\* a deleted key every reader gets the version, so that a key may come back with
\* another type and the next version.
ReadsMeta(d, m, kinds) ==
    /\ m.del = Deleted => d = [ret |-> "deleted", ver |-> m.ver]
    /\ m.del = Enabled /\ m.kind \notin kinds => d = [ret |-> "wrong type"]
    /\ m.del = Enabled /\ m.kind \in kinds =>
          d.ret = "ok" /\ \A f \in DOMAIN m \ {"kind", "del"} : d[f] = m[f]
MetaDecodes ==
    \A r \in {q \in recs : q.key.type = Meta}, kinds \in Readers :
        ReadsMeta(DecodeMetaVal(db[EncodeMetaKey(r.key.key)], kinds), r.val, kinds)
=============================================================================
