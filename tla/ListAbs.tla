------------------------------ MODULE ListAbs ------------------------------
(* What a list promises its clients: a sequence of values, changed at its    *)
(* ends, by index and by trimming, and answers computed from that sequence   *)
(* (Between and At are those of LRANGE and LINDEX).  The counterpart of      *)
(* ListSeq, which keeps the values under numbered ITEM records.  A key may   *)
(* exist with an empty list, after a RESTORE of one.                         *)
EXTENDS Integers, Sequences, SequencesExt

CONSTANTS Values, Payloads, Indices, MaxLength

VARIABLES
    exists,  \* the key is there
    list,    \* its elements
    out      \* the answer to the last command that may change them

vars == <<exists, list, out>>

Answer(n, vs) == [n |-> n, vals |-> vs]

\* Where index i of a list of n elements is, counting from 0; negative from the end.
Pos(i, n) == IF i < 0 THEN n + i ELSE i

Between(start, end) ==
    LET s == IF Pos(start, Len(list)) < 0 THEN 0 ELSE Pos(start, Len(list))
        e == IF Pos(end, Len(list)) >= Len(list) THEN Len(list) - 1 ELSE Pos(end, Len(list))
    IN  SubSeq(list, s + 1, e + 1)

At(i) ==
    IF Pos(i, Len(list)) \in 0..Len(list) - 1 THEN <<list[Pos(i, Len(list)) + 1]>> ELSE <<>>

Become(l, n, vs) == list' = l /\ exists' = (l # <<>>) /\ out' = Answer(n, vs)
Reply(n, vs) == out' = Answer(n, vs) /\ UNCHANGED <<exists, list>>

Init == exists = FALSE /\ list = <<>> /\ out = Answer(0, <<>>)

Push(end, vs, x) ==
    /\ Len(list) + Len(vs) <= MaxLength
    /\ IF x /\ ~exists
       THEN Reply(0, <<>>)
       ELSE Become(IF end = "head" THEN Reverse(vs) \o list ELSE list \o vs,
                   Len(list) + Len(vs), <<>>)

Pop(end) ==
    IF list = <<>>
    THEN Reply(0, <<>>)
    ELSE IF end = "head" THEN Become(Tail(list), 0, <<Head(list)>>)
                         ELSE Become(Front(list), 0, <<Last(list)>>)

Set(i, v) ==
    IF ~exists \/ Pos(i, Len(list)) \notin 0..Len(list) - 1
    THEN Reply(-1, <<>>)
    ELSE Become([list EXCEPT ![Pos(i, Len(list)) + 1] = v], 1, <<>>)

Trim(s, e) == IF exists THEN Become(Between(s, e), 0, <<>>) ELSE Reply(0, <<>>)

Restore(l) == exists' = TRUE /\ list' = l /\ out' = Answer(1, <<>>)

\* DEL, or a RESTORE that replaces the key and then refuses its payload.
Delete == \E n \in {0, -1} : Become(<<>>, n, <<>>)
Refuse == Reply(-1, <<>>)

Next ==
    \/ \E end \in {"head", "tail"}, vs \in Payloads, x \in BOOLEAN : Push(end, vs, x)
    \/ \E end \in {"head", "tail"} : Pop(end)
    \/ \E i \in Indices, v \in Values : Set(i, v)
    \/ \E s, e \in Indices : Trim(s, e)
    \/ \E l \in Payloads \cup {<<>>} : Restore(l)
    \/ Delete
    \/ Refuse

Spec == Init /\ [][Next]_vars
=============================================================================
