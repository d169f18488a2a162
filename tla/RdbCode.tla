------------------------------ MODULE RdbCode ------------------------------
(* DUMP and RESTORE as bytes: what RdbEncoder and DumpEncoder write of a key, *)
(* RdbDecoder has to read.  Lengths are written in one of four forms, the     *)
(* text of a small integer as the integer, and a long string compressed if    *)
(* that makes it shorter.                                                     *)
(* A byte is a number below Base; its two highest bits tell the form of a     *)
(* length.  Integers in texts are written in base 2, with byte 1 for the      *)
(* digit zero, 2 for one and 3 for the sign.                                  *)
EXTENDS Numerals, FiniteSets

CONSTANTS
    Base,          \* 256
    Bytes32,       \* bytes of a 32-bit length
    Bytes64,       \* bytes of a 64-bit length, and of a double
    IntBytes,      \* bytes of the three forms of integers: 1, 2 and 4
    MaxIntText,    \* the longest text of such an integer: 11
    LzfMin,        \* no shorter string is compressed: 20
    Payload,       \* the strings of keys
    RdbMembers,    \* the fields of hashes and members of sorted sets
    RdbDoubles,    \* the scores, as bits
    MaxElements    \* bound on the elements of a key

ASSUME RdbAssumption ==
    /\ Base \in Nat /\ Base % 4 = 0 /\ Base >= 16
    /\ Bytes32 \in Nat \ {0, 1} /\ Bytes64 \in Nat /\ Bytes32 < Bytes64
    /\ IntBytes \in [1..3 -> Nat \ {0}] /\ IntBytes[1] < IntBytes[2] /\ IntBytes[2] < IntBytes[3]
    /\ MaxIntText \in Nat /\ LzfMin \in Nat
    /\ MaxElements \in Nat /\ MaxElements < Power(Base, Bytes64)
    /\ Payload \subseteq Seq(0..(Base - 1))
    /\ RdbMembers \subseteq Payload
    /\ \A s \in Payload : Len(s) < Power(Base, Bytes64)
    /\ RdbDoubles \subseteq 0..(Power(Base, Bytes64) - 1)

VARIABLES
    dumped,   \* the key that was dumped
    dump      \* DumpEncoder's bytes

rdbvars == <<dumped, dump>>

----------------------------------------------------------------------------
(* Encoding *)

Low == Base \div 4     \* what the bits below the form can say
BigEndian(n, k) == Numeral(Base, n, k)
LittleEndian(n, k) == [i \in 1..k |-> BigEndian(n, k)[k + 1 - i]]

\* Faulty RdbSaveLen: one length too many for the second form.
RdbSaveLenOneMore(n) ==
    IF n < Low THEN <<n>>
    ELSE IF n <= Low * Base THEN <<Low + n \div Base, n % Base>>
    ELSE IF n < Power(Base, Bytes32) THEN <<2 * Low>> \o BigEndian(n, Bytes32)
    ELSE <<2 * Low + 1>> \o BigEndian(n, Bytes64)
RdbSaveLen(n) ==
    IF n < Low THEN <<n>>
    ELSE IF n < Low * Base THEN <<Low + n \div Base, n % Base>>
    ELSE IF n < Power(Base, Bytes32) THEN <<2 * Low>> \o BigEndian(n, Bytes32)
    ELSE <<2 * Low + 1>> \o BigEndian(n, Bytes64)

Encval(form) == 3 * Low + form
Lzf == 3

\* ll2string, and str_to_int64 of a text that ll2string makes
TextOf(n) ==
    LET a == IF n < 0 THEN -n ELSE n
        size == CHOOSE k \in 1..(a + 1) : a < 2^k /\ (k = 1 \/ 2^(k - 1) <= a)
    IN  (IF n < 0 THEN <<3>> ELSE <<>>) \o [i \in 1..size |-> 1 + ((a \div 2^(size - i)) % 2)]
IntOf(s) ==
    LET v[i \in 0..Len(s)] == IF i = 0 THEN 0 ELSE IF s[i] = 3 THEN v[i - 1] ELSE 2 * v[i - 1] + s[i] - 1
    IN  IF s # <<>> /\ s[1] = 3 THEN -v[Len(s)] ELSE v[Len(s)]
IsInt(s) == s # <<>> /\ (\A i \in DOMAIN s : s[i] \in {1, 2, 3}) /\ TextOf(IntOf(s)) = s

\* rdbEncodeInteger: the least form that holds n; <<>> if none does.
Holds(k, n) == -(Power(Base, k) \div 2) <= n /\ n <= Power(Base, k) \div 2 - 1
RdbEncodeInteger(n) ==
    LET forms == {f \in 1..3 : Holds(IntBytes[f], n)}
        form == CHOOSE f \in forms : \A g \in forms : f <= g
    IN  IF forms = {} THEN <<>>
        ELSE <<Encval(form - 1)>> \o LittleEndian(n % Power(Base, IntBytes[form]), IntBytes[form])
RdbTryIntegerEncoding(s) == IF IsInt(s) THEN RdbEncodeInteger(IntOf(s)) ELSE <<>>

\* LZF, of which only runs of a byte are told here; <<>> if there is no gain of 4.
LzfCompress(s) == IF Len(s) > 4 /\ \A i \in DOMAIN s : s[i] = s[1] THEN <<s[1]>> ELSE <<>>
LzfDecompress(c, n) == [i \in 1..n |-> c[1]]

RdbSaveLzfString(s) ==
    IF LzfCompress(s) = <<>> THEN <<>>
    ELSE <<Encval(Lzf)>> \o RdbSaveLen(Len(LzfCompress(s))) \o RdbSaveLen(Len(s)) \o LzfCompress(s)

\* Elements of hashes, sets and sorted sets are written as they are.
SaveRawString(s) == RdbSaveLen(Len(s)) \o s
RdbSaveRawString(s, compress) ==
    LET int == IF Len(s) <= MaxIntText THEN RdbTryIntegerEncoding(s) ELSE <<>>
        lzf == IF compress /\ Len(s) > LzfMin THEN RdbSaveLzfString(s) ELSE <<>>
    IN  IF int # <<>> THEN int ELSE IF lzf # <<>> THEN lzf ELSE SaveRawString(s)

RdbSaveBinaryDoubleValue(d) == LittleEndian(d, Bytes64)

\* rdbSaveObject: an element, and one after the other
SaveElement(type, e, compress) ==
    CASE type \in {"string", "list"} -> RdbSaveRawString(e, compress)
      [] type = "set" -> SaveRawString(e)
      [] type = "hash" -> SaveRawString(e[1]) \o SaveRawString(e[2])
      [] type = "zset" -> SaveRawString(e[1]) \o RdbSaveBinaryDoubleValue(e[2])
RdbSaveObject(type, es, compress) ==
    LET upto[i \in 0..Len(es)] ==
          IF i = 0 THEN IF type = "string" THEN <<>> ELSE RdbSaveLen(Len(es))
          ELSE upto[i - 1] \o SaveElement(type, es[i], compress)
    IN  upto[Len(es)]

RdbType == [string |-> 0, list |-> 1, set |-> 2, hash |-> 4, zset |-> 5]
RDB_VERSION == 8

\* crc64_fast, of which it matters only that both sides compute the same
Crc(s) == (Len(s) + s[1]) % Base
EncodeFooter(s) == LET v == s \o LittleEndian(RDB_VERSION, 2) IN v \o <<Crc(v)>>

DumpOf(type, es, compress) == EncodeFooter(<<RdbType[type]>> \o RdbSaveObject(type, es, compress))

----------------------------------------------------------------------------
(* Decoding: what was read and what is left, or Stop when there is too little *)

Stop == [ok |-> FALSE]
RioRead(s, n) ==
    IF n > Len(s) THEN Stop
    ELSE [ok |-> TRUE, val |-> SubSeq(s, 1, n), rest |-> SubSeq(s, n + 1, Len(s))]
Got(v, rest) == [ok |-> TRUE, val |-> v, rest |-> rest]

FromBig(s) == ValueOf(Base, s)
FromLittle(s) == FromBig([i \in DOMAIN s |-> s[Len(s) + 1 - i]])

\* rdbLoadLenByRef; a length of the third form needs the whole byte.
RdbLoadLen(s) ==
    LET b == s[1]
        form == b \div Low
        wide == RioRead(Tail(s), IF b = 2 * Low THEN Bytes32 ELSE Bytes64)
    IN  IF s = <<>> THEN Stop
        ELSE IF form = 3 THEN [ok |-> TRUE, enc |-> TRUE, val |-> b % Low, rest |-> Tail(s)]
        ELSE IF form = 0 THEN [ok |-> TRUE, enc |-> FALSE, val |-> b % Low, rest |-> Tail(s)]
        ELSE IF form = 1
        THEN IF Len(s) < 2 THEN Stop
             ELSE [ok |-> TRUE, enc |-> FALSE, val |-> (b % Low) * Base + s[2], rest |-> SubSeq(s, 3, Len(s))]
        ELSE IF b \notin {2 * Low, 2 * Low + 1} THEN Stop
        ELSE IF ~wide.ok THEN Stop
        ELSE [ok |-> TRUE, enc |-> FALSE, val |-> FromBig(wide.val), rest |-> wide.rest]

\* The bytes are read as an unsigned number, and cast to a signed one.
RdbLoadIntegerObject(form, s) ==
    LET k == IntBytes[form + 1]
        r == RioRead(s, k)
        u == FromLittle(r.val)
    IN  IF ~r.ok THEN Stop
        ELSE Got(TextOf(IF u >= Power(Base, k) \div 2 THEN u - Power(Base, k) ELSE u), r.rest)
RdbLoadLzfStringObject(s) ==
    LET clen == RdbLoadLen(s)
        len == RdbLoadLen(clen.rest)
        r == RioRead(len.rest, clen.val)
    IN  IF ~clen.ok THEN Stop ELSE IF ~len.ok THEN Stop ELSE IF ~r.ok THEN Stop
        ELSE Got(LzfDecompress(r.val, len.val), r.rest)
RdbGenericLoadStringObject(s) ==
    LET len == RdbLoadLen(s)
    IN  IF ~len.ok THEN Stop
        ELSE IF len.enc
        THEN IF len.val = Lzf THEN RdbLoadLzfStringObject(len.rest)
             ELSE IF len.val \in 0..2 THEN RdbLoadIntegerObject(len.val, len.rest) ELSE Stop
        ELSE RioRead(len.rest, len.val)
RdbLoadBinaryDoubleValue(s) ==
    LET r == RioRead(s, Bytes64) IN IF r.ok THEN Got(FromLittle(r.val), r.rest) ELSE Stop

\* The lambdas of restore
LoadElement(type, s) ==
    LET one == RdbGenericLoadStringObject(s)
        two == IF type = "hash" THEN RdbGenericLoadStringObject(one.rest) ELSE RdbLoadBinaryDoubleValue(one.rest)
    IN  IF ~one.ok THEN Stop
        ELSE IF type \in {"string", "list", "set"} THEN one
        ELSE IF two.ok THEN Got(<<one.val, two.val>>, two.rest) ELSE Stop
LoadElements(type, n, s) ==
    LET after[i \in 0..n] ==
          IF i = 0 THEN Got(<<>>, s)
          ELSE IF ~after[i - 1].ok THEN Stop
          ELSE LET e == LoadElement(type, after[i - 1].rest)
               IN  IF e.ok THEN Got(Append(after[i - 1].val, e.val), e.rest) ELSE Stop
    IN  after[n]

VerifyDumpPayload(s) ==
    LET body == SubSeq(s, 1, Len(s) - 1)
    IN  /\ Len(s) >= 3
        /\ FromLittle(SubSeq(s, Len(s) - 2, Len(s) - 1)) <= RDB_VERSION
        /\ Crc(body) = s[Len(s)]

\* What restore loads from a payload; Stop where it returns an error
Loads(s) ==
    LET body == SubSeq(s, 1, Len(s) - 3)
        types == {t \in DOMAIN RdbType : RdbType[t] = body[1]}
        type == CHOOSE t \in types : TRUE
        n == RdbLoadLen(Tail(body))
    IN  IF ~VerifyDumpPayload(s) THEN Stop
        ELSE IF body = <<>> THEN Stop
        ELSE IF types = {} THEN Stop
        ELSE IF type = "string" THEN [type |-> type, loaded |-> LoadElements(type, 1, Tail(body))]
        ELSE IF ~n.ok THEN Stop
        ELSE [type |-> type, loaded |-> LoadElements(type, n.val, n.rest)]

----------------------------------------------------------------------------
RInit == dumped = <<>> /\ dump = <<>>

\* A DUMP has an encoder of its own.
Dump(type, es, compress) ==
    dump = <<>> /\ dumped' = <<type, es>> /\ dump' = DumpOf(type, es, compress)

Few(S) == UNION {[1..n -> S] : n \in 1..MaxElements}
\* No member of a set or sorted set, and no field of a hash, is there twice.
Distinct(es) == \A i, j \in DOMAIN es : es[i] = es[j] => i = j
OfDistinct(es) == \A i, j \in DOMAIN es : es[i][1] = es[j][1] => i = j
RNext ==
    \E compress \in BOOLEAN :
        \/ \E s \in Payload : Dump("string", <<s>>, compress)
        \/ \E es \in Few(Payload) : Dump("list", es, compress)
        \/ \E es \in Few(Payload) : Distinct(es) /\ Dump("set", es, compress)
        \/ \E es \in Few(RdbMembers \X Payload) : OfDistinct(es) /\ Dump("hash", es, compress)
        \/ \E es \in Few(RdbMembers \X RdbDoubles) : OfDistinct(es) /\ Dump("zset", es, compress)

RSpec == RInit /\ [][RNext]_rdbvars

----------------------------------------------------------------------------
(* Properties *)

\* RESTORE accepts what DUMP wrote and loads the elements that were dumped, each
\* of them and nothing beyond: whichever form a length or a string was given,
\* the decoder finds its end and the same bytes (rdbSaveLen, rdbLoadLenByRef,
\* rdbEncodeInteger, rdbLoadIntegerObject, rdbSaveRawString and
\* rdbGenericLoadStringObject).
DumpRestores ==
    dumped # <<>> =>
        Loads(dump) = [type |-> dumped[1], loaded |-> Got(dumped[2], <<>>)]
=============================================================================
