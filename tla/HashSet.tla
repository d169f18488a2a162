------------------------------ MODULE HashSet ------------------------------
(* One key that holds a hash or a set, as the commands of proc_hash.cpp and   *)
(* proc_set.cpp use it: a META record with the type and the length, and an    *)
(* ITEM record per field or member.  A command that changes the key holds its *)
(* lock and writes one batch, and HGETALL, SMEMBERS and SRANDMEMBER read a    *)
(* snapshot, so that each is one step.  The commands that read a field or two *)
(* read META and ITEM one after the other, with no lock: they are one step    *)
(* here, so that what is shown of them holds while nobody writes.             *)
(* Fields are numbers in their order.  A value is a text or a number that     *)
(* string2ll reads.  Records and versions over the life of several keys, the  *)
(* reaper and the failures of writes are in KeyStore.                         *)
EXTENDS Integers, Sequences, FiniteSets

CONSTANTS
    HFields,      \* the fields and members
    Texts,        \* values that are no number
    LLongMax,     \* the greatest integer
    DblMax,       \* the greatest finite double
    HmsetArgs,    \* the lists of pairs HMSET is given
    HmgetArgs,    \* the lists of fields HMGET is given
    SremArgs,     \* the lists of members SREM is given
    HIncrs,       \* increments
    PopCounts,    \* counts of SPOP and SRANDMEMBER
    HPayloads,    \* the maps RESTORE is given
    MaxHVersion   \* bound on the incarnations of the key

LLongMin == -LLongMax - 1
NoField == <<>>
Member == <<"text", 0>>    \* the empty value of a member of a set
HValues == ({"text"} \X Texts) \cup ({"int"} \X (LLongMin..LLongMax))

ASSUME HashAssumption ==
    /\ HFields \subseteq Nat /\ IsFiniteSet(HFields)
    /\ Texts \subseteq Nat /\ 0 \in Texts
    /\ LLongMax \in Nat /\ DblMax \in Nat /\ LLongMax < DblMax /\ MaxHVersion \in Nat
    /\ HmsetArgs \subseteq Seq(HFields \X HValues) /\ <<>> \notin HmsetArgs
    /\ HmgetArgs \subseteq Seq(HFields) /\ SremArgs \subseteq Seq(HFields)
    /\ HIncrs \subseteq LLongMin..LLongMax /\ PopCounts \subseteq Int
    /\ HPayloads \subseteq UNION {[S -> HValues] : S \in SUBSET HFields}

VARIABLES
    hmeta,     \* the META record
    hitem,     \* the ITEM records: a value, or NoField, per version and field
    hrequest,  \* the last command
    hout       \* the answer to it

hvars == <<hmeta, hitem, hrequest, hout>>

HVersions == 0..MaxHVersion

----------------------------------------------------------------------------
(* META *)

HLive(type, n, v) == [st |-> "live", type |-> type, len |-> n, ver |-> v]
HDead(m) == [m EXCEPT !.st = "dead"]
HFound == hmeta.st = "live"

HNextVersion == IF hmeta.st = "absent" THEN 0 ELSE hmeta.ver + 1

\* GetHashMetaVal, GetSetMetaVal: a missing or deleted key is an empty one.
WrongType(type) == HFound /\ hmeta.type # type
HMetaVal(type) == IF HFound THEN hmeta ELSE HLive(type, 0, HNextVersion)
HCanBeVersioned == HFound \/ HNextVersion <= MaxHVersion

\* incr_hsize, incr_ssize: the META record that is written; hmeta if none is.
HSizeError == [st |-> "error"]
IncrHsize(hv, incr) ==
    IF incr = 0 THEN hmeta
    ELSE IF hv.len + incr < 0 THEN HSizeError
    ELSE IF hv.len + incr = 0 THEN HDead(hv)
    ELSE [hv EXCEPT !.len = @ + incr]

HNumber(n) == <<"number", n>>
HString(v) == IF v = NoField THEN <<"nil">> ELSE <<"string", v>>
HList(s) == <<"list", s>>
HOk == <<"ok">>
HError == <<"error">>

HReply(r) == hout' = r /\ UNCHANGED <<hmeta, hitem>>

HCommit(hv, its, incr, r) ==
    IF IncrHsize(hv, incr) = HSizeError THEN HReply(HError)
    ELSE /\ HCanBeVersioned
         /\ hmeta' = IncrHsize(hv, incr)
         /\ hitem' = [hitem EXCEPT ![hv.ver] = its]
         /\ hout' = r

\* The items of a META record; a version that is new has none.
ItemsOf(hv) == IF hv.ver <= MaxHVersion THEN hitem[hv.ver] ELSE [f \in HFields |-> NoField]
There(hv) == {f \in HFields : ItemsOf(hv)[f] # NoField}

----------------------------------------------------------------------------
(* Hashes *)

\* Faulty HsetOne: every field counts as new.
HsetOneAllNew(hv, new) ==
    [its |-> [f \in HFields |-> IF f \in DOMAIN new THEN new[f] ELSE ItemsOf(hv)[f]],
     added |-> Cardinality(DOMAIN new)]

\* hset_one for each field, and how many are new
HsetOne(hv, new) ==
    [its |-> [f \in HFields |-> IF f \in DOMAIN new THEN new[f] ELSE ItemsOf(hv)[f]],
     added |-> Cardinality(DOMAIN new \ There(hv))]

HPut(new, reply) ==
    LET hv == HMetaVal("hash")
        set == HsetOne(hv, new)
    IN  HCommit(hv, set.its, set.added, reply)

\* A command answers with an error if the key has another type.
OfType(type, request, Command) ==
    /\ hrequest' = request
    /\ IF WrongType(type) THEN HReply(HError) ELSE Command

\* The map proc_hmset makes of its arguments: the last pair of a field counts.
Kvs(pairs) ==
    [f \in {pairs[i][1] : i \in DOMAIN pairs} |->
       pairs[CHOOSE i \in DOMAIN pairs : /\ pairs[i][1] = f
                                         /\ \A j \in (i + 1)..Len(pairs) : pairs[j][1] # f][2]]
ProcHmset(pairs) ==
    OfType("hash", <<"hmset", pairs>>, HPut(Kvs(pairs), HOk))

HsetCommon(f, v, nx) ==
    IF nx /\ HFound /\ f \in There(hmeta)
    THEN HReply(HNumber(0))
    ELSE LET new == [x \in {f} |-> v]
         IN  HPut(new, HNumber(HsetOne(HMetaVal("hash"), new).added))
ProcHset(f, v) == OfType("hash", <<"hset", f, v, FALSE>>, HsetCommon(f, v, FALSE))
ProcHsetnx(f, v) == OfType("hash", <<"hset", f, v, TRUE>>, HsetCommon(f, v, TRUE))

\* Both commands that add: no field is a 0, what is no number is an error, and
\* so is a sum of two numbers of one sign that is beyond the limit for it.
HincrCommon(f, by, low, high) ==
    LET hv == HMetaVal("hash")
        old == IF f \in There(hv) THEN ItemsOf(hv)[f] ELSE <<"int", 0>>
        overflows == \/ by < 0 /\ old[2] < 0 /\ by < low - old[2]
                     \/ by > 0 /\ old[2] > 0 /\ by > high - old[2]
    IN  IF old[1] # "int" \/ (f \in There(hv) /\ overflows) THEN HReply(HError)
        ELSE HPut([x \in {f} |-> <<"int", old[2] + by>>], HNumber(old[2] + by))
Hincr(f, by) == HincrCommon(f, by, LLongMin, LLongMax)
\* The limit below is positive too, so that the sum of two negative numbers is
\* always refused.  (Sums beyond the integers of the model are left out.)
Hincrbyfloat(f, by) ==
    /\ f \in There(HMetaVal("hash")) /\ ItemsOf(HMetaVal("hash"))[f][1] = "int"
         => ItemsOf(HMetaVal("hash"))[f][2] + by \in LLongMin..LLongMax
    /\ HincrCommon(f, by, DblMax, DblMax)
ProcHincrby(f, by) == OfType("hash", <<"hincrby", f, by>>, Hincr(f, by))
ProcHincrbyfloat(f, by) == OfType("hash", <<"hincrbyfloat", f, by>>, Hincrbyfloat(f, by))

\* hdel, srem: n is what the length falls by.
HRemove(fs, n) ==
    IF ~HFound THEN HReply(HNumber(0))
    ELSE HCommit(hmeta, [f \in HFields |-> IF f \in fs THEN NoField ELSE ItemsOf(hmeta)[f]], -n, HNumber(n))
ProcHdel(fs) ==
    OfType("hash", <<"hdel", fs>>, HRemove(fs, Cardinality(fs \cap There(hmeta))))

\* Where there is no key the fields are not there.
Hget(f) == IF HFound THEN ItemsOf(hmeta)[f] ELSE NoField
ProcHget(f) == OfType("hash", <<"hget", f>>, HReply(HString(Hget(f))))
ProcHexists(f) == OfType("hash", <<"hexists", f>>, HReply(HNumber(IF Hget(f) = NoField THEN 0 ELSE 1)))
ProcHmget(fs) == OfType("hash", <<"hmget", fs>>, HReply(HList([i \in DOMAIN fs |-> HString(Hget(fs[i]))])))
HSize == IF HFound THEN hmeta.len ELSE 0
ProcHlen == OfType("hash", <<"hlen">>, HReply(HNumber(HSize)))

\* hscan_internal, sscan_internal: the items in the order of their keys
InOrder(S) == [i \in 1..Cardinality(S) |-> CHOOSE f \in S : Cardinality({g \in S : g < f}) = i - 1]
HScan == IF HFound THEN InOrder(There(hmeta)) ELSE <<>>
ProcHgetall ==
    OfType("hash", <<"hgetall">>, HReply(HList([i \in DOMAIN HScan |-> <<HScan[i], ItemsOf(hmeta)[HScan[i]]>>])))

----------------------------------------------------------------------------
(* Sets *)

ProcSadd(ms) ==
    LET sv == HMetaVal("set")
        new == ms \ There(sv)
        its == [f \in HFields |-> IF f \in new THEN Member ELSE ItemsOf(sv)[f]]
    IN  OfType("set", <<"sadd", ms>>, HCommit(sv, its, Cardinality(new), HNumber(Cardinality(new))))

\* A member that is named twice counts twice.
ProcSrem(args) ==
    LET ms == {args[i] : i \in DOMAIN args} IN
    OfType("set", <<"srem", ms>>,
           HRemove(ms, Cardinality({i \in DOMAIN args : args[i] \in There(hmeta)})))

\* A run of n members, from one of the first 100 places
Runs(n) == {SubSeq(HScan, i, i + n - 1) : i \in 1..(IF Len(HScan) - n + 1 > 100 THEN 100 ELSE Len(HScan) - n + 1)}
AtMost(n) == IF n >= hmeta.len THEN hmeta.len ELSE n
Spop(n) ==
    IF ~HFound THEN HReply(HList(<<>>))
    ELSE IF n < 0 THEN HReply(HError)
    ELSE \E s \in Runs(AtMost(n)) :
            HCommit(hmeta, [f \in HFields |-> IF f \in {s[i] : i \in DOMAIN s} THEN NoField ELSE ItemsOf(hmeta)[f]],
                    -Len(s), HList(s))
ProcSpop(n) == OfType("set", <<"spop", n>>, Spop(n))

\* A negative count: all members as often as they fit, and a run of the rest.
Srandmember(n) ==
    LET times == (-n) \div hmeta.len
        rest == -n - times * hmeta.len
        all == [i \in 1..(times * hmeta.len) |-> HScan[1 + ((i - 1) % hmeta.len)]]
    IN  IF ~HFound THEN HReply(HList(<<>>))
        ELSE IF n >= 0 THEN \E s \in Runs(AtMost(n)) : HReply(HList(s))
        ELSE \E s \in Runs(rest) : HReply(HList(all \o s))
ProcSrandmember(n) == OfType("set", <<"srandmember", n>>, Srandmember(n))

ProcSismember(f) == OfType("set", <<"sismember", f>>, HReply(HNumber(IF Hget(f) = NoField THEN 0 ELSE 1)))
ProcScard == OfType("set", <<"scard">>, HReply(HNumber(HSize)))
ProcSmembers == OfType("set", <<"smembers">>, HReply(HList(HScan)))

----------------------------------------------------------------------------
(* RESTORE and DEL *)

HKill(r) == hmeta' = HDead(hmeta) /\ hout' = r /\ UNCHANGED hitem

\* quickHash, quickSet, after mark_key_deleted: an empty one leaves no key.
QuickColl(type, new) ==
    LET hv == HLive(type, Cardinality(DOMAIN new), HNextVersion)
        value(f) == IF type = "set" THEN Member ELSE new[f]
    IN  IF DOMAIN new = {}
        THEN hmeta' = (IF HFound THEN HDead(hmeta) ELSE hmeta) /\ hout' = HOk /\ UNCHANGED hitem
        ELSE /\ HNextVersion <= MaxHVersion
             /\ hmeta' = hv /\ hout' = HOk
             /\ hitem' = [hitem EXCEPT ![hv.ver] =
                            [f \in HFields |-> IF f \in DOMAIN new THEN value(f) ELSE NoField]]

\* With REPLACE the key is deleted before the payload is looked at.
HRestore(type, new, replace) ==
    /\ hrequest' = <<"restore", type, IF type = "set" THEN [f \in DOMAIN new |-> Member] ELSE new>>
    /\ IF HFound /\ ~replace THEN HReply(HError)
       ELSE QuickColl(type, new) \/ (IF HFound THEN HKill(HError) ELSE HReply(HError))
HDel ==
    /\ hrequest' = <<"del">>
    /\ IF HFound THEN HKill(HNumber(1)) ELSE HReply(HNumber(0))

----------------------------------------------------------------------------
HInit ==
    /\ hmeta = [st |-> "absent", type |-> "hash", len |-> 0, ver |-> 0]
    /\ hitem = [v \in HVersions |-> [f \in HFields |-> NoField]]
    /\ hrequest = <<"del">> /\ hout = HNumber(0)

HWrites ==
    \/ \E ps \in HmsetArgs : ProcHmset(ps)
    \/ \E f \in HFields, v \in {"text"} \X Texts : ProcHset(f, v) \/ ProcHsetnx(f, v)
    \/ \E f \in HFields, by \in HIncrs : ProcHincrby(f, by) \/ ProcHincrbyfloat(f, by)
    \/ \E fs \in (SUBSET HFields) \ {{}} : ProcHdel(fs) \/ ProcSadd(fs)
    \/ \E args \in SremArgs : ProcSrem(args)
    \/ \E n \in PopCounts : ProcSpop(n)
    \/ \E type \in {"hash", "set"}, new \in HPayloads, r \in BOOLEAN : HRestore(type, new, r)
    \/ HDel
HReads ==
    \/ \E f \in HFields : ProcHget(f) \/ ProcHexists(f) \/ ProcSismember(f)
    \/ \E fs \in HmgetArgs : ProcHmget(fs)
    \/ \E n \in PopCounts : ProcSrandmember(n)
    \/ ProcHlen
    \/ ProcHgetall
    \/ ProcScard
    \/ ProcSmembers
HNext == HWrites \/ HReads

HSpec == HInit /\ [][HNext]_hvars

----------------------------------------------------------------------------
(* Properties *)

HKind == IF HFound THEN hmeta.type ELSE "none"
HMap == IF HFound THEN ItemsOf(hmeta) ELSE [f \in HFields |-> NoField]

IsACollection == INSTANCE HashAbs WITH
    Fields <- HFields, NoValue <- NoField, MemberValue <- Member,
    IntMin <- LLongMin, IntMax <- LLongMax,
    kind <- HKind, map <- HMap, request <- hrequest, reply <- hout

\* Every command of hashes and of sets does to the key, and answers, what it
\* would on a map or on a set: lengths kept in META and items kept apart from it
\* never tell two stories, a key changes its type only after it has been empty,
\* and a command of the wrong type changes nothing (hsetCommon, hmsetNoLock,
\* hincrCommon, hdel, saddNoLock, srem, spop, srandmember, quickHash, quickSet).
BehavesAsACollection == IsACollection!Spec
=============================================================================
