------------------------------ MODULE ZsetAbs ------------------------------
(* What the commands that change a sorted set promise: a map from members to  *)
(* scores, the pairs of a ZADD applied one after the other, and answers that  *)
(* say how many members are new, changed or gone.                             *)
EXTENDS Integers, Sequences, FiniteSets

CONSTANTS Members, Inf, NoScore

VARIABLES
    score,    \* the map
    request,  \* the last command and its arguments
    reply     \* the answer to it

Number(n) == <<1, n>>
Nothing == <<0, 0>>
Failed == <<-1, 0>>

Init == score = [m \in Members |-> NoScore] /\ request = <<"del">> /\ reply = Nothing

In(f) == {m \in Members : f[m] # NoScore}
New == In(score') \ In(score)
Gone == In(score) \ In(score')
Changed == {m \in Members : score'[m] # score[m]}

\* NX leaves the members there are alone, XX those there are not.
Skipped(f, m, flags) == IF f[m] = NoScore THEN "xx" \in flags ELSE "nx" \in flags

Add(pairs, flags) ==
    LET after[i \in 0..Len(pairs)] ==
          IF i = 0 THEN score
          ELSE LET m == pairs[i][2] IN
               IF Skipped(after[i - 1], m, flags) THEN after[i - 1]
               ELSE [after[i - 1] EXCEPT ![m] = pairs[i][1]]
    IN  /\ score' = after[Len(pairs)]
        /\ reply' = Number(Cardinality(IF "ch" \in flags THEN Changed ELSE New))

\* The new score, unless it is not a number: infinities of both signs.
Increment(m, by, flags) ==
    LET old == IF score[m] = NoScore THEN 0 ELSE score[m]
        sum == IF Inf \in {old, by} THEN Inf ELSE IF -Inf \in {old, by} THEN -Inf
               ELSE IF old + by > Inf THEN Inf ELSE IF old + by < -Inf THEN -Inf ELSE old + by
    IN  IF Skipped(score, m, flags) THEN reply' = Nothing /\ UNCHANGED score
        ELSE IF {old, by} = {Inf, -Inf} THEN reply' = Failed /\ UNCHANGED score
        ELSE score' = [score EXCEPT ![m] = sum] /\ reply' = Number(sum)

Remove(ms) ==
    /\ score' = [m \in Members |-> IF m \in ms THEN NoScore ELSE score[m]]
    /\ reply' = Number(Cardinality(Gone))

\* RESTORE loads another map, or leaves none behind when it fails.
NoMembers == [m \in Members |-> NoScore]
Restore(new) ==
    /\ score' = [m \in Members |-> IF m \in DOMAIN new THEN new[m] ELSE NoScore]
    /\ reply' = Number(1)
Fail == score' = NoMembers /\ reply' = Failed

\* DEL answers whether there was a key.
Delete ==
    /\ score' = NoMembers
    /\ reply' = Number(IF In(score) = {} THEN 0 ELSE 1)

Refuse == reply' = Failed /\ UNCHANGED score

Next ==
    LET arg == request' IN
    \/ arg[1] = "zadd" /\ "incr" \notin arg[2] /\ Add(arg[3], arg[2])
    \/ arg[1] = "zadd" /\ "incr" \in arg[2] /\ Increment(arg[3][1][2], arg[3][1][1], arg[2])
    \/ arg[1] = "zadd" /\ ({"nx", "xx"} \subseteq arg[2] \/ Len(arg[3]) > 1) /\ Refuse
    \/ arg[1] = "zrem" /\ Remove(arg[2])
    \/ arg[1] = "restore" /\ (Restore(arg[2]) \/ Refuse \/ Fail)
    \/ arg[1] = "del" /\ Delete

Spec == Init /\ [][Next]_<<score, request, reply>>
=============================================================================
