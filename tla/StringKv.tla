------------------------------ MODULE StringKv ------------------------------
(* One string as t_kv.cpp keeps it: a META record that holds the value.  A    *)
(* command that changes it holds the key's lock and writes one batch, so that *)
(* it is one step; one that reads, reads META once.                           *)
(* A byte has ByteBits bits.  Numbers are written in base 2, with byte 1 for  *)
(* the digit zero, 2 for one and 3 for the sign; byte 0 is NUL.  Arguments    *)
(* that are no number are left out.                                           *)
EXTENDS Numerals, FiniteSets

CONSTANTS
    ByteBits,     \* 8 in the code
    IntBits,      \* bits of an int64_t
    MaxSize,      \* the longest string SETRANGE makes, 512MB
    MaxLen,       \* one more than the last byte SETBIT reaches; bound on strings
    FloatBuf,     \* bytes of the buffers that floats are read from, 256
    FloatDigits,  \* the longest number that fits when a float is written, 237
    LdMax,        \* the largest finite long double
    NoString,     \* no META record; not a sequence
    Strings,       \* the strings commands are given
    IncrArgs,     \* the increments INCRBY and DECRBY are given
    FloatArgs,    \* the increments INCRBYFLOAT is given
    MaxSVersion   \* bound on the incarnations of the key

Byte == 0..(Power(2, ByteBits) - 1)
IntMax == Power(2, IntBits - 1) - 1
IntMin == -IntMax - 1
Infinity == LdMax + 1

ASSUME StringAssumption ==
    /\ ByteBits \in Nat \ {0, 1} /\ IntBits \in Nat \ {0}
    /\ MaxSize \in Nat /\ MaxLen \in Nat /\ MaxSVersion \in Nat
    /\ FloatBuf \in Nat /\ FloatDigits \in Nat /\ LdMax \in Nat
    /\ NoString \notin Seq(Byte) /\ Strings \subseteq Seq(Byte)
    /\ IncrArgs \subseteq Int /\ FloatArgs \subseteq -Infinity..Infinity

VARIABLES
    smeta,     \* the META record
    sttl,      \* whether the key has a time to live (EKEY and ESCORE records)
    srequest,  \* the last command that may have changed the string
    sout       \* the answer to it

svars == <<smeta, sttl, srequest, sout>>

----------------------------------------------------------------------------
(* META *)

SLive(val, v) == [st |-> "live", val |-> val, ver |-> v]
SDead(m) == [m EXCEPT !.st = "dead"]
SFound == smeta.st = "live"

\* GetKvMetaVal
KvVersion ==
    CASE smeta.st = "absent" -> 0 [] smeta.st = "dead" -> smeta.ver + 1 [] OTHER -> smeta.ver
KvValue == IF SFound THEN smeta.val ELSE <<>>

SAnswer(x) == <<1, x>>
NilReply == <<0, 0>>
ErrorReply == <<-1, 0>>
Ok == <<1, 1>>

SReply(x) == sout' = x /\ UNCHANGED <<smeta, sttl>>

\* encode_kv_val under the version at hand, and the batch; no step leaves the bounds.
PutKvVal(val, ttl, x) ==
    /\ KvVersion <= MaxSVersion /\ Len(val) <= MaxLen
    /\ smeta' = SLive(val, KvVersion) /\ sttl' = ttl /\ sout' = x

\* updateKvCommon: the time to live stays.
UpdateKv(val, x) == PutKvVal(val, sttl, x)

----------------------------------------------------------------------------
(* Numbers: str, string2ll, str_to_int64, str_to_long_double, ld2string *)

Natural(d) == ValueOf(2, [i \in DOMAIN d |-> d[i] - 1])
Unsigned(s) == IF s # <<>> /\ s[1] = 3 THEN Tail(s) ELSE s
AllDigits(d) == d # <<>> /\ \A i \in DOMAIN d : d[i] \in {1, 2}
Signed(s, n) == IF s # <<>> /\ s[1] = 3 THEN -n ELSE n

\* string2ll: no needless zero, and in range; otherwise it fails.
IsLl(s) ==
    /\ AllDigits(Unsigned(s))
    /\ Unsigned(s)[1] = 2 \/ s = <<1>>
    /\ Signed(s, Natural(Unsigned(s))) \in IntMin..IntMax
String2ll(s) == Signed(s, Natural(Unsigned(s)))

\* ll2string
Str(n) ==
    LET a == IF n < 0 THEN -n ELSE n
        size == CHOOSE k \in 1..(a + 1) : a < Power(2, k) /\ (k = 1 \/ Power(2, k - 1) <= a)
        digits == [i \in 1..size |-> 1 + Numeral(2, a, size)[i]]
    IN  IF n < 0 THEN <<3>> \o digits ELSE digits

\* str_to_int64 has strtoll's clamped value, and no error for a number out of range.
StrToInt64(n) == IF n > IntMax THEN IntMax ELSE IF n < IntMin THEN IntMin ELSE n

\* Overflow wraps.
Wrap(n) == ((n - IntMin) % Power(2, IntBits)) + IntMin

\* "inf" and "-inf", spelled with bytes no number has
InfStr == <<3, 3>>
NegInfStr == <<3, 3, 3>>

\* str_to_long_double reads up to the first NUL; a string that does not fit its
\* buffer is 0, and errno stays as it was.
UpToNul(s) ==
    LET nuls == {i \in DOMAIN s : s[i] = 0}
    IN  IF nuls = {} THEN s ELSE SubSeq(s, 1, (CHOOSE i \in nuls : \A j \in nuls : i <= j) - 1)
LdOf(s) ==
    LET u == UpToNul(s) IN
    IF u = <<>> THEN 0
    ELSE IF u = InfStr THEN Infinity
    ELSE IF u = NegInfStr THEN -Infinity
    ELSE Signed(u, Natural(Unsigned(u)))
IsLd(s) ==
    LET u == UpToNul(s) IN
    u \in {<<>>, InfStr, NegInfStr} \/ (AllDigits(Unsigned(u)) /\ LdOf(s) \in -LdMax..LdMax)
StrToLongDouble(s) == IF Len(s) >= FloatBuf THEN 0 ELSE LdOf(s)
LdError(s) == Len(s) < FloatBuf /\ ~IsLd(s)

\* ld2string writes nothing if there is no room.
StrLd(x) ==
    IF x = Infinity THEN InfStr
    ELSE IF x = -Infinity THEN NegInfStr
    ELSE IF Len(Str(x)) > FloatDigits THEN <<>> ELSE Str(x)

----------------------------------------------------------------------------
(* SET, GETSET, APPEND *)

\* SetGeneric; SETNX answers 1 where SET answers OK, and 0 for nil.
SetGeneric(flags, val) ==
    IF (SFound /\ "nx" \in flags) \/ (~SFound /\ "xx" \in flags)
    THEN SReply(NilReply)
    ELSE PutKvVal(val, flags \cap {"ex", "px"} # {}, Ok)

\* proc_set, and proc_setex, proc_psetex, proc_setnx with the flag they stand for
ProcSet(flags, val, ttl) ==
    /\ srequest' = <<"set", flags, val, ttl>>
    /\ IF \/ {"nx", "xx"} \subseteq flags \/ {"ex", "px"} \subseteq flags
          \/ flags \cap {"ex", "px"} # {} /\ ttl <= 0
       THEN SReply(ErrorReply)
       ELSE SetGeneric(flags, val)

\* Only the time to live of a key there is, is cancelled.
Getset(val) ==
    /\ srequest' = <<"getset", val>>
    /\ PutKvVal(val, IF SFound THEN FALSE ELSE sttl, IF SFound THEN SAnswer(smeta.val) ELSE NilReply)

SAppend(val) ==
    /\ srequest' = <<"append", val>>
    /\ UpdateKv(KvValue \o val, SAnswer(Len(KvValue \o val)))

----------------------------------------------------------------------------
(* SETRANGE, SETBIT *)

Zeros(n) == [i \in 1..n |-> 0]

\* The string setrange builds from a head and a tail, or from zeros.
RangeSet(val, start, value) ==
    LET tail == SubSeq(val, start + Len(value) + 1, Len(val))
    IN  IF start < Len(val)
        THEN SubSeq(val, 1, start) \o value \o (IF start + Len(value) < Len(val) THEN tail ELSE <<>>)
        ELSE val \o Zeros(start - Len(val)) \o value

Setrange(start, value) ==
    /\ srequest' = <<"setrange", start, value>>
    /\ IF start < 0 THEN SReply(ErrorReply)
       ELSE IF ~SFound /\ value = <<>> THEN SReply(SAnswer(0))
       ELSE IF start + Len(value) > MaxSize THEN SReply(ErrorReply)
       ELSE UpdateKv(RangeSet(KvValue, start, value), SAnswer(Len(RangeSet(KvValue, start, value))))

\* Bit 0 of a byte is the one of the highest order.
BitPos(offset) == ByteBits - 1 - (offset % ByteBits)
HasBit(byte, pos) == (byte \div Power(2, pos)) % 2

\* Faulty Setbit: the bit is added where it is set already.
SetbitAdds(offset, on) ==
    LET at == offset \div ByteBits
        grown == IF at >= Len(KvValue) THEN KvValue \o Zeros(at + 1 - Len(KvValue)) ELSE KvValue
    IN  /\ srequest' = <<"setbit", offset, on>>
        /\ IF offset < 0 \/ at >= MaxLen
           THEN SReply(ErrorReply)
           ELSE UpdateKv([grown EXCEPT ![at + 1] = @ + on * Power(2, BitPos(offset))],
                         SAnswer(HasBit(grown[at + 1], BitPos(offset))))

Setbit(offset, on) ==
    LET at == offset \div ByteBits
        grown == IF at >= Len(KvValue) THEN KvValue \o Zeros(at + 1 - Len(KvValue)) ELSE KvValue
        res == HasBit(grown[at + 1], BitPos(offset))
    IN  /\ srequest' = <<"setbit", offset, on>>
        /\ IF offset < 0 \/ at >= MaxLen
           THEN SReply(ErrorReply)
           ELSE UpdateKv([grown EXCEPT ![at + 1] = @ + (on - res) * Power(2, BitPos(offset))], SAnswer(res))

----------------------------------------------------------------------------
(* INCR, DECR, INCRBYFLOAT *)

\* Faulty IncrOverflows: a sum below the least integer is let through.
IncrOverflowsAbove(old, by) == by > 0 /\ old > 0 /\ by > IntMax - old

IncrOverflows(old, by) ==
    \/ by < 0 /\ old < 0 /\ by < IntMin - old
    \/ by > 0 /\ old > 0 /\ by > IntMax - old

Incr(by) ==
    IF ~SFound THEN UpdateKv(Str(by), SAnswer(by))
    ELSE IF ~IsLl(smeta.val) \/ IncrOverflows(String2ll(smeta.val), by) THEN SReply(ErrorReply)
    ELSE LET new == String2ll(smeta.val) + by IN UpdateKv(Str(new), SAnswer(new))

\* _incr: INCR, INCRBY with dir 1, DECR, DECRBY with dir -1
ProcIncr(dir, arg) ==
    /\ srequest' = <<"incr", dir, arg>>
    /\ Incr(Wrap(dir * StrToInt64(arg)))

\* incrbyfloat: LDBL_MIN is the least positive number, so that no integer is
\* less than LDBL_MIN - old unless it is at most -old.  Infinity is refused
\* only if there is a key.
FloatOverflows(old, by) ==
    \/ by < 0 /\ old < 0 /\ by <= -old
    \/ by > 0 /\ old > 0 /\ by > LdMax - old

\* A sum that is infinite or no number, which the code refuses alike, is Infinity.
LdSum(a, b) == IF {a, b, a + b} \subseteq -LdMax..LdMax THEN a + b ELSE Infinity

Incrbyfloat(by) ==
    LET old == StrToLongDouble(smeta.val) IN
    /\ srequest' = <<"incrbyfloat", by>>
    /\ IF ~SFound THEN UpdateKv(StrLd(by), SAnswer(by))
       ELSE IF LdError(smeta.val) \/ FloatOverflows(old, by) \/ LdSum(old, by) = Infinity
       THEN SReply(ErrorReply)
       ELSE UpdateKv(StrLd(LdSum(old, by)), SAnswer(LdSum(old, by)))

----------------------------------------------------------------------------
(* RESTORE and DEL *)

SKill(x) == smeta' = SDead(smeta) /\ sttl' = FALSE /\ sout' = x

\* quickKv, on the record mark_key_deleted left behind; the payload may be bad.
QuickKv(val, ttl) ==
    LET v == IF smeta.st = "absent" THEN 0 ELSE smeta.ver + 1 IN
    /\ v <= MaxSVersion /\ Len(val) <= MaxLen
    /\ smeta' = SLive(val, v) /\ sttl' = ttl /\ sout' = Ok

SRestore(val, ttl, replace) ==
    /\ srequest' = <<"restore", val, ttl>>
    /\ IF SFound /\ ~replace
       THEN SReply(ErrorReply)
       ELSE \/ QuickKv(val, ttl)
            \/ IF SFound THEN SKill(ErrorReply) ELSE SReply(ErrorReply)

SDel ==
    /\ srequest' = <<"del">>
    /\ IF SFound THEN SKill(SAnswer(1)) ELSE SReply(SAnswer(0))

----------------------------------------------------------------------------
(* Commands that read; a missing key is an empty string *)

Getbit(offset) ==
    LET at == offset \div ByteBits
    IN  IF at >= Len(KvValue) THEN 0 ELSE HasBit(KvValue[at + 1], BitPos(offset))

Getrange(start, end) ==
    LET n == Len(KvValue)
        Clamp(i) == LET j == IF i < 0 THEN n + i ELSE i IN IF j < 0 THEN 0 ELSE j
        last == IF Clamp(end) >= n THEN n - 1 ELSE Clamp(end)
    IN  IF (start < 0 /\ end < 0 /\ start > end) \/ n = 0 \/ Clamp(start) > last THEN <<>>
        ELSE SubSeq(KvValue, Clamp(start) + 1, last + 1)

\* str_slice, and substr with a size: C++ substr stops at the end.
From(s, start, size) ==
    IF start < 0 \/ start >= Len(s) \/ size < 0 THEN <<>>
    ELSE SubSeq(s, start + 1, IF start + size > Len(s) THEN Len(s) ELSE start + size)
\* Faulty StrSlice: the byte at a negative end is left out.
StrSliceShort(s, start, end) ==
    LET b == IF start < 0 THEN Len(s) + start ELSE start
    IN  From(s, b, IF end < 0 THEN Len(s) + end - b ELSE end - b + 1)
StrSlice(s, start, end) ==
    LET b == IF start < 0 THEN Len(s) + start ELSE start
    IN  From(s, b, IF end < 0 THEN Len(s) + end + 1 - b ELSE end - b + 1)
SubstrOf(s, start, size) ==
    LET b == IF start < 0 THEN Len(s) + start ELSE start
    IN  From(s, b, IF size < 0 THEN Len(s) + size - b ELSE size)

Bitcount(s) == Cardinality({p \in (DOMAIN s) \X (0..(ByteBits - 1)) : HasBit(s[p[1]], p[2]) = 1})
ProcBitcount(start, end) == Bitcount(StrSlice(KvValue, start, end))
ProcCountbit(start, size) == Bitcount(SubstrOf(KvValue, start, size))
ProcStrlen == Len(KvValue)

----------------------------------------------------------------------------
SInit ==
    /\ smeta = [st |-> "absent", val |-> <<>>, ver |-> 0] /\ sttl = FALSE
    /\ srequest = <<"del">> /\ sout = NilReply

Offsets == -1..(MaxLen * ByteBits)

SNext ==
    \/ \E fs \in SUBSET {"nx", "xx", "ex", "px"}, s \in Strings, t \in {0, 1} : ProcSet(fs, s, t)
    \/ \E s \in Strings : Getset(s) \/ SAppend(s)
    \/ \E i \in -1..MaxLen, s \in Strings : Setrange(i, s)
    \/ \E o \in Offsets, on \in {0, 1} : Setbit(o, on)
    \/ \E dir \in {1, -1}, n \in IncrArgs : ProcIncr(dir, n)
    \/ \E x \in FloatArgs : Incrbyfloat(x)
    \/ \E s \in Strings, ttl, r \in BOOLEAN : SRestore(s, ttl, r)
    \/ SDel

SSpec == SInit /\ [][SNext]_svars

----------------------------------------------------------------------------
(* Properties *)

STypeOK ==
    /\ smeta.st \in {"absent", "live", "dead"} /\ smeta.ver \in 0..MaxSVersion
    /\ smeta.val \in Seq(Byte) /\ Len(smeta.val) <= MaxLen
    /\ sttl \in BOOLEAN

Kept == IF SFound THEN smeta.val ELSE NoString

IsAString == INSTANCE StringAbs WITH
    string <- Kept, expires <- sttl, request <- srequest, reply <- sout

\* Every command leaves the string, and the time to live, that it should, and
\* answers so (proc_set, getset, append, setrange, setbit, incr, restore, del):
\* bits and bytes a command does not name stay, sums are exact or refused, and
\* what a command that is refused names stays.
BehavesAsAString == IsAString!Spec

\* BITCOUNT counts the bits that GETBIT reads in the bytes that GETRANGE
\* returns, for an end of either sign that lies in the string (getrange, getbit,
\* str_slice, bitcount); SETBIT's own test of a bit is the fourth reader.
ReadsAgree ==
    LET n == Len(KvValue)
        Pos(i) == IF i < 0 THEN n + i ELSE i
    IN  /\ ProcStrlen = Len(Getrange(0, -1))
        /\ \A start \in -n..(n + 1), end \in -n..(n + 1) :
              LET bytes == {i \in 0..(n - 1) : Pos(start) <= i /\ i <= Pos(end)}
              IN  /\ Len(Getrange(start, end)) = Cardinality(bytes)
                  /\ \A i \in bytes : Getrange(start, end)[i - Pos(start) + 1] = KvValue[i + 1]
                  /\ ProcBitcount(start, end) =
                       Cardinality({o \in 0..(n * ByteBits - 1) :
                                      o \div ByteBits \in bytes /\ Getbit(o) = 1})
                  /\ end >= 0 => ProcCountbit(start, end) =
                       Cardinality({o \in 0..(n * ByteBits - 1) :
                                      /\ o \div ByteBits \in Pos(start)..(Pos(start) + end - 1)
                                      /\ Getbit(o) = 1})

\* What INCRBYFLOAT promises: a value that is no number is refused and stays;
\* otherwise the sum is stored, if it is finite, and refused if it is not.
FloatSum ==
    [][srequest'[1] = "incrbyfloat" =>
         LET by == srequest'[2]
             number == SFound => IsLd(smeta.val)
             old == IF SFound THEN LdOf(smeta.val) ELSE 0
         IN  IF number /\ {old, by, old + by} \subseteq -LdMax..LdMax
             THEN smeta'.st = "live" /\ smeta'.val = Str(old + by)
             ELSE sout' = ErrorReply /\ UNCHANGED smeta]_svars
=============================================================================
