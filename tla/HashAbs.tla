------------------------------ MODULE HashAbs ------------------------------
(* What the commands of hashes and sets promise: a map from fields to values, *)
(* or a set of members, that exists as long as it is not empty; an error, and *)
(* nothing else, for a key of the other type.                                 *)
EXTENDS Integers, Sequences, FiniteSets

CONSTANTS
    Fields,      \* the fields and members
    NoValue,     \* what a field has that is not there
    MemberValue, \* what a member of a set has
    IntMin, IntMax

VARIABLES
    kind,     \* "none", "hash" or "set"
    map,      \* the values of the fields
    request,  \* the last command and its arguments
    reply     \* the answer to it

Number(n) == <<"number", n>>
Str(v) == IF v = NoValue THEN <<"nil">> ELSE <<"string", v>>
List(s) == <<"list", s>>
Ok == <<"ok">>
Failed == <<"error">>

Present(m) == {f \in Fields : m[f] # NoValue}
Sorted(S) == CHOOSE s \in [1..Cardinality(S) -> S] : \A i, j \in DOMAIN s : i < j => s[i] < s[j]
Empty == [f \in Fields |-> NoValue]

Init == kind = "none" /\ map = Empty /\ request = <<"del">> /\ reply = Number(0)

Become(k, m, r) == kind' = (IF Present(m) = {} THEN "none" ELSE k) /\ map' = m /\ reply' = r
Answer(r) == reply' = r /\ UNCHANGED <<kind, map>>
Refuse == Answer(Failed)

Put(m, fs, v) == [f \in Fields |-> IF f \in fs THEN v ELSE m[f]]
New(fs) == Number(Cardinality(fs \ Present(map)))
Gone(fs) == Number(Cardinality(fs \cap Present(map)))

\* The pairs of an HMSET one after the other
SetAll(pairs) ==
    LET after[i \in 0..Len(pairs)] ==
          IF i = 0 THEN map ELSE [after[i - 1] EXCEPT ![pairs[i][1]] = pairs[i][2]]
    IN  Become("hash", after[Len(pairs)], Ok)
Set(f, v, nx) ==
    Become("hash", IF nx /\ map[f] # NoValue THEN map ELSE [map EXCEPT ![f] = v], New({f}))

\* The sum, if the value is a number and the sum one of the range.
Increment(f, by) ==
    LET old == IF map[f] = NoValue THEN <<"int", 0>> ELSE map[f]
    IN  IF old[1] # "int" THEN Refuse
        ELSE IF old[2] + by \notin IntMin..IntMax THEN Refuse
        ELSE Become("hash", [map EXCEPT ![f] = <<"int", old[2] + by>>], Number(old[2] + by))

TakeOut(k, fs) == Become(k, Put(map, fs, NoValue), Gone(fs))

\* SPOP removes what it returns: n members, or all; none if there is no key.
Pop(n) ==
    LET size == Cardinality(Present(map)) IN
    /\ n >= 0 \/ size = 0
    /\ \E ms \in SUBSET Present(map) :
          /\ Cardinality(ms) = IF 0 <= n /\ n < size THEN n ELSE size
          /\ Become("set", Put(map, ms, NoValue), List(Sorted(ms)))

\* SRANDMEMBER: n members, or all; with n < 0 as many as -n, with repetitions.
SomeMembers(n) ==
    /\ UNCHANGED <<kind, map>>
    /\ reply'[1] = "list"
    /\ LET s == reply'[2]
           size == Cardinality(Present(map))
       IN  /\ \A i \in DOMAIN s : s[i] \in Present(map)
           /\ n >= 0 => \A i, j \in DOMAIN s : s[i] = s[j] => i = j
           /\ Len(s) = IF size = 0 THEN 0 ELSE IF n < 0 THEN -n ELSE IF n < size THEN n ELSE size

\* RESTORE loads another map, or leaves none behind when it fails.
Restore(k, m) == Become(k, [f \in Fields |-> IF f \in DOMAIN m THEN m[f] ELSE NoValue], Ok)
Delete(n) == Become("none", Empty, n)

HashCommands ==
    LET arg == request' IN
    \/ arg[1] = "hmset" /\ SetAll(arg[2])
    \/ arg[1] = "hset" /\ Set(arg[2], arg[3], arg[4])
    \/ arg[1] = "hincrby" /\ Increment(arg[2], arg[3])
    \/ arg[1] = "hincrbyfloat" /\ (Increment(arg[2], arg[3]) \/ Refuse)
    \/ arg[1] = "hdel" /\ TakeOut("hash", arg[2])
    \/ arg[1] = "hget" /\ Answer(Str(map[arg[2]]))
    \/ arg[1] = "hexists" /\ Answer(Gone({arg[2]}))
    \/ arg[1] = "hmget" /\ Answer(List([i \in DOMAIN arg[2] |-> Str(map[arg[2][i]])]))
    \/ arg[1] = "hlen" /\ Answer(Number(Cardinality(Present(map))))
    \/ arg[1] = "hgetall" /\ LET s == Sorted(Present(map)) IN Answer(List([i \in DOMAIN s |-> <<s[i], map[s[i]]>>]))
SetCommands ==
    LET arg == request' IN
    \/ arg[1] = "sadd" /\ Become("set", Put(map, arg[2], MemberValue), New(arg[2]))
    \/ arg[1] = "srem" /\ TakeOut("set", arg[2])
    \/ arg[1] = "spop" /\ (Pop(arg[2]) \/ (arg[2] < 0 /\ Refuse))
    \/ arg[1] = "sismember" /\ Answer(Gone({arg[2]}))
    \/ arg[1] = "scard" /\ Answer(Number(Cardinality(Present(map))))
    \/ arg[1] = "smembers" /\ Answer(List(Sorted(Present(map))))
    \/ arg[1] = "srandmember" /\ SomeMembers(arg[2])
KeyCommands ==
    LET arg == request' IN
    \/ arg[1] = "restore" /\ (Restore(arg[2], arg[3]) \/ Refuse \/ Delete(Failed))
    \/ arg[1] = "del" /\ Delete(Number(IF kind = "none" THEN 0 ELSE 1))

OfHashes == {"hmset", "hset", "hincrby", "hincrbyfloat", "hdel", "hget", "hexists", "hmget", "hlen", "hgetall"}
Next ==
    LET type == IF request'[1] \in OfHashes THEN "hash" ELSE "set" IN
    \/ KeyCommands
    \/ request'[1] \notin {"restore", "del"} /\ kind \notin {"none", type} /\ Refuse
    \/ kind \in {"none", "hash"} /\ HashCommands
    \/ kind \in {"none", "set"} /\ SetCommands

Spec == Init /\ [][Next]_<<kind, map, request, reply>>
=============================================================================
