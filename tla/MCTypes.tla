------------------------------ MODULE MCTypes ------------------------------
(* A key of each type with a value of its own, the encoding of records and    *)
(* that of dumps: one of them in each behavior.                               *)
EXTENDS ListSeq, Zset, StringKv, HashSet, RecordCode, RdbCode, TLC

MCIndices == -(MaxLength + 1)..MaxLength

MCFine == -1..1
\* One pair, two for one member, or one for each of two.  Members other than 0 get
\* the rest of the scores from ZINCRBY.
MCZaddArgs ==
    {<<p>> : p \in {q \in Pairs : q[2] # 0 => q[1] \in {0, Inf}}}
    \cup {<<<<0, 0>>, <<1, m>>>> : m \in {0, 1}}
MCPayload == {[m \in S |-> IF m = 0 THEN s ELSE 0] : S \in (SUBSET Members) \ {{}}, s \in {0, Inf}}

MCStrings == {<<>>, <<0>>, <<1>>, <<2>>, <<3>>, <<2, 1>>, <<3, 2>>, <<1, 3, 0>>, <<3, 2, 1>>}
MCIncrArgs == {-5, -4, -3, -1, 0, 2, 3, 5}    \* the integers are -4..3
MCFloatArgs == {-1, 1, 2, Infinity}

MCNames == {<<>>, <<0, 1>>}
MCFields == {<<>>, <<1>>, <<0, 1, 1>>}

MCHmsetArgs ==
    {<<<<0, <<"text", 1>>>>, <<0, <<"text", 0>>>>>>, <<<<1, <<"int", 2>>>>, <<2, <<"text", 0>>>>>>}
MCHmgetArgs == {<<0, 1>>, <<2, 2>>}
MCSremArgs == {<<0>>, <<1, 0>>, <<0, 1, 2>>}    \* no member twice
MCHIncrs == {-3, -1, 1, 2}
MCPopCounts == {-4, -1, 0, 1, 2, 5}
MCHPayloads == {<<>>, [f \in {0, 1} |-> <<"text", f>>], [f \in {2} |-> <<"int", 3>>]}

\* Texts of the integers at the ends of each form, what is no such text, and
\* strings at the ends of each form of lengths, with runs and without.
MCIntBytes == <<1, 2, 4>>
MCRdbStrings ==
    {TextOf(n) : n \in {0, 7, 8, -8, -9, 127, 128, -129, 32767, 32768, -32768, -32769}}
    \cup {<<>>, <<3>>, <<1, 2>>, <<3, 1>>, <<0>>}
    \cup {[i \in 1..n |-> 0] : n \in {3, 4, 20, 63, 64}}
    \cup {[i \in 1..n |-> i % 2] : n \in {63, 64, 255, 256}}
MCRdbMembers == {<<>>, <<1, 2>>}

VARIABLE kind    \* the type of the key, or the encoding

MCInit ==
    /\ kind \in {"list", "zset", "string", "hash", "code", "rdb"}
    /\ Init /\ ZInit /\ SInit /\ HInit /\ CodeInit /\ RInit
MCNext ==
    \/ kind = "list" /\ Next /\ UNCHANGED <<zvars, svars, hvars, codevars, rdbvars, kind>>
    \/ kind = "zset" /\ ZNext /\ UNCHANGED <<vars, svars, hvars, codevars, rdbvars, kind>>
    \/ kind = "string" /\ SNext /\ UNCHANGED <<vars, zvars, hvars, codevars, rdbvars, kind>>
    \/ kind = "hash" /\ HNext /\ UNCHANGED <<vars, zvars, svars, codevars, rdbvars, kind>>
    \/ kind = "code" /\ CodeNext /\ UNCHANGED <<vars, zvars, svars, hvars, rdbvars, kind>>
    \/ kind = "rdb" /\ RNext /\ UNCHANGED <<vars, zvars, svars, hvars, codevars, kind>>
MCSpec == MCInit /\ [][MCNext]_<<vars, zvars, svars, hvars, codevars, rdbvars, kind>>

\* No command reads the records of an earlier version, or the answers; what is
\* not of this kind stays as it was in the beginning.
MCView ==
    <<kind,
      CASE kind = "list" -> <<meta, [v \in {u \in Versions : u >= meta.ver} |-> item[v]]>>
        [] kind = "zset" ->
             <<zmeta, [v \in {u \in ZVersions : u >= zmeta.ver} |-> <<zitem[v], zscore[v]>>],
               picked>>
        [] kind = "string" -> <<smeta, sttl>>
        [] kind = "hash" -> <<hmeta, [v \in {u \in HVersions : u >= hmeta.ver} |-> hitem[v]]>>
        [] kind = "code" -> codevars
        [] OTHER -> rdbvars>>
=============================================================================
