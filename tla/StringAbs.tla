----------------------------- MODULE StringAbs -----------------------------
(* What the commands that change a string promise, byte by byte and bit by    *)
(* bit: what each leaves in the key, whether the key still expires, and what  *)
(* the client is told.                                                        *)
EXTENDS Numerals

CONSTANTS ByteBits, IntBits, MaxSize, MaxLen, NoString

VARIABLES
    string,    \* the string, or NoString
    expires,   \* whether the key has a time to live
    request,   \* the last command and its arguments
    reply      \* the answer to it

Bytes == 0..(Power(2, ByteBits) - 1)
Answer(n) == <<1, n>>
Nothing == <<0, 0>>
Failed == <<-1, 0>>
Done == <<1, 1>>

Init == string = NoString /\ ~expires /\ request = <<"del">> /\ reply = Nothing

There == string # NoString
Old == IF There THEN string ELSE <<>>

\* Byte and bit i of a string, from 0; zero beyond its end.
ByteAt(s, i) == IF i < Len(s) THEN s[i + 1] ELSE 0
BitAt(s, i) == (ByteAt(s, i \div ByteBits) \div Power(2, ByteBits - 1 - (i % ByteBits))) % 2

\* The numbers a string can be: digits 1 (zero) and 2 (one), no needless zero,
\* the sign 3.
Digits(s) == IF s # <<>> /\ s[1] = 3 THEN Tail(s) ELSE s
IsNumeral(s) ==
    /\ Digits(s) # <<>>
    /\ \A i \in DOMAIN Digits(s) : Digits(s)[i] \in {1, 2}
    /\ Digits(s)[1] = 2 \/ s = <<1>>
NumberIn(s) ==
    LET n == ValueOf(2, [i \in DOMAIN Digits(s) |-> Digits(s)[i] - 1])
    IN  IF s[1] = 3 THEN -n ELSE n

Least == -Power(2, IntBits - 1)
Greatest == Power(2, IntBits - 1) - 1
IsInt(n) == Least <= n /\ n <= Greatest

\* An increment beyond the range counts as the integer next to it, and the
\* least integer is its own opposite.
Counts(dir, n) ==
    LET m == IF n < Least THEN Least ELSE IF n > Greatest THEN Greatest ELSE n
    IN  IF dir = 1 \/ m = Least THEN m ELSE -m

Refuse == reply' = Failed /\ UNCHANGED <<string, expires>>
Keep == UNCHANGED expires

Set(flags, val) ==
    IF (There /\ "nx" \in flags) \/ (~There /\ "xx" \in flags)
    THEN reply' = Nothing /\ UNCHANGED <<string, expires>>
    ELSE string' = val /\ expires' = (flags \cap {"ex", "px"} # {}) /\ reply' = Done

Getset(val) ==
    /\ string' = val /\ ~expires'
    /\ reply' = IF There THEN Answer(string) ELSE Nothing

Concat(val) == string' = Old \o val /\ Keep /\ reply' = Answer(Len(string'))

\* The bytes of val from start on; the others as they were, zero where there
\* were none.  Nothing is no reason to make a key.
Setrange(start, val) ==
    IF ~There /\ val = <<>> THEN reply' = Answer(0) /\ UNCHANGED <<string, expires>>
    ELSE IF start + Len(val) > MaxSize THEN Refuse
    ELSE /\ string' \in Seq(Bytes) /\ Keep
         /\ Len(string') = IF start + Len(val) > Len(Old) THEN start + Len(val) ELSE Len(Old)
         /\ \A i \in 0..(Len(string') - 1) :
               ByteAt(string', i) = IF start <= i /\ i < start + Len(val)
                                    THEN ByteAt(val, i - start) ELSE ByteAt(Old, i)
         /\ reply' = Answer(Len(string'))

Setbit(offset, on) ==
    /\ string' \in Seq(Bytes) /\ Keep
    /\ Len(string') = IF offset < Len(Old) * ByteBits THEN Len(Old) ELSE offset \div ByteBits + 1
    /\ \A i \in 0..(Len(string') * ByteBits - 1) :
          BitAt(string', i) = IF i = offset THEN on ELSE BitAt(Old, i)
    /\ reply' = Answer(BitAt(Old, offset))

\* The sum, written as a number, unless the string is none or the sum too large.
Incr(by) ==
    LET old == IF There THEN NumberIn(string) ELSE 0 IN
    IF There /\ ~(IsNumeral(string) /\ IsInt(NumberIn(string))) THEN Refuse
    ELSE IF ~IsInt(old + by) THEN Refuse
    ELSE /\ IsNumeral(string') /\ NumberIn(string') = old + by
         /\ reply' = Answer(old + by) /\ Keep

Delete ==
    /\ string' = NoString /\ ~expires'
    /\ reply' = Answer(IF There THEN 1 ELSE 0)

\* RESTORE loads a string and its time to live, or leaves none behind.
Restore(val, ttl) ==
    \/ string' = val /\ expires' = ttl /\ reply' = Done
    \/ reply' = Failed /\ string' \in {string, NoString} /\ (IF string' = string THEN Keep ELSE ~expires')

\* SETEX and the other ways to say a time refuse one that is not positive; two
\* flags that exclude each other are refused.
BadSet(flags, ttl) ==
    \/ {"nx", "xx"} \subseteq flags \/ {"ex", "px"} \subseteq flags
    \/ flags \cap {"ex", "px"} # {} /\ ttl <= 0

Next ==
    LET arg == request' IN
    \/ arg[1] = "set" /\ (IF BadSet(arg[2], arg[4]) THEN Refuse ELSE Set(arg[2], arg[3]))
    \/ arg[1] = "getset" /\ Getset(arg[2])
    \/ arg[1] = "append" /\ Concat(arg[2])
    \/ arg[1] = "setrange" /\ (IF arg[2] < 0 THEN Refuse ELSE Setrange(arg[2], arg[3]))
    \/ arg[1] = "setbit" /\ (IF arg[2] < 0 \/ arg[2] >= MaxLen * ByteBits THEN Refuse ELSE Setbit(arg[2], arg[3]))
    \/ arg[1] = "incr" /\ Incr(Counts(arg[2], arg[3]))
    \/ arg[1] = "incrbyfloat" /\ Keep    \* FloatSum says more
    \/ arg[1] = "restore" /\ Restore(arg[2], arg[3])
    \/ arg[1] = "del" /\ Delete

Spec == Init /\ [][Next]_<<string, expires, request, reply>>
=============================================================================
