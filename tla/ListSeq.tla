------------------------------ MODULE ListSeq ------------------------------
(* One list key as t_list.cpp keeps it: a META record with the length and    *)
(* the sequence numbers of both ends, and an ITEM record per element under   *)
(* its number.  Numbers are uint64 and wrap at both ends; W stands for 2^64. *)
(* Commands that change the list hold the key's lock throughout and write    *)
(* one batch, so that each is one step (KeyStore and RecordMutex are about   *)
(* the locking).  LRANGE and DUMP read a snapshot taken under the lock.      *)
EXTENDS Integers, Sequences

CONSTANTS
    Values,      \* what an element may be
    None,        \* no record
    W,           \* the number of sequence numbers
    MaxPush,     \* bound on the values of one command
    MaxLength,   \* bound on the length of the list
    MaxVersion,  \* bound on the incarnations of the key
    Indices,     \* indices commands are given, of int64
    Forms        \* the RDB encodings of the lists RESTORE is given

ASSUME ListAssumption ==
    /\ None \notin Values /\ Values # {}
    /\ W \in Nat /\ MaxLength \in Nat /\ MaxPush \in Nat /\ MaxVersion \in Nat
    \* No list has 2^63 elements: LSET's index check is right below that only.
    /\ 2 * MaxLength + 2 < W
    /\ MaxPush <= MaxLength
    /\ Indices \subseteq -(W \div 2)..((W - 1) \div 2)
    /\ Forms \subseteq {"list", "ziplist", "quicklist"}

VARIABLES
    meta,    \* the META record
    item,    \* the ITEM records: a value, or None, per version and number
    out      \* the answer to the last command that may change the list

vars == <<meta, item, out>>

UINT64_MAX == W - 1
Seqs == 0..UINT64_MAX
Versions == 0..MaxVersion
Payloads == UNION {[1..n -> Values] : n \in 1..MaxPush}

----------------------------------------------------------------------------
(* Numbers: n steps up or down from s, and the steps up from a to b. *)

\* Faulty Minus: it does not wrap.
MinusNoWrap(s, n) == s - n
Plus(s, n) == IF s <= UINT64_MAX - n THEN s + n ELSE s + n - W
Minus(s, n) == IF s >= n THEN s - n ELSE s - n + W
Steps(a, b) == IF a <= b THEN b - a ELSE b - a + W

\* Faulty GetSeqByIndex: -1 is the last but one.
GetSeqByIndexEarly(index, lv) ==
    IF index >= 0 THEN Plus(lv.left, index) ELSE Minus(lv.right, -index)

\* getSeqByIndex; where the code adds and subtracts uint64 numbers they wrap.
GetSeqByIndex(index, lv) ==
    LET u == -index - 1 IN
    IF lv.left > lv.right
    THEN IF index >= 0
         THEN IF UINT64_MAX - lv.left >= index THEN lv.left + index
                                               ELSE index + lv.left - UINT64_MAX - 1
         ELSE IF lv.right >= u THEN lv.right - u ELSE UINT64_MAX - u + lv.right + 1
    ELSE IF index >= 0 THEN Plus(lv.left, index) ELSE Minus(lv.right, u)

\* GetListMetaVal: a missing or deleted key is an empty list, of the next version.
Fresh(v) == [st |-> "live", len |-> 0, left |-> 0, right |-> UINT64_MAX, ver |-> v]
Absent == [st |-> "absent", len |-> 0, left |-> 0, right |-> 0, ver |-> 0]
\* Faulty Dead: the version is lost.
DeadNoVersion(v) == [st |-> "dead", len |-> 0, left |-> 0, right |-> 0, ver |-> 0]
\* The other fields of a deleted META are never decoded.
Dead(v) == [st |-> "dead", len |-> 0, left |-> 0, right |-> 0, ver |-> v]
GetListMetaVal ==
    CASE meta.st = "absent" -> Fresh(0)
      [] meta.st = "dead"   -> Fresh(meta.ver + 1)
      [] meta.st = "live"   -> meta
Found == meta.st = "live"

CanBeVersioned == meta.st = "dead" => meta.ver < MaxVersion

----------------------------------------------------------------------------
(* Commands *)

Answer(n, vs) == [n |-> n, vals |-> vs]
Reply(n, vs) == out' = Answer(n, vs) /\ UNCHANGED <<meta, item>>

\* The batch: META, and the ITEM records of its version.
Commit(m, its, n, vs) ==
    /\ meta' = m
    /\ item' = [item EXCEPT ![m.ver] = its]
    /\ out' = Answer(n, vs)

\* Faulty Pushed: values pushed at the head keep their order.
PushedInOrder(lv, end, vs) ==
    [s \in Seqs |->
       LET i == IF end = "head" THEN Len(vs) + 1 - Steps(s, lv.left) ELSE Steps(lv.right, s)
       IN  IF i \in 1..Len(vs) THEN vs[i] ELSE item[lv.ver][s]]

\* doListPush: the values one after the other, past the end they are pushed to.
Pushed(lv, end, vs) ==
    [s \in Seqs |->
       LET i == IF end = "head" THEN Steps(s, lv.left) ELSE Steps(lv.right, s)
       IN  IF i \in 1..Len(vs) THEN vs[i] ELSE item[lv.ver][s]]

DoListPush(lv, end, vs) ==
    /\ lv.len <= UINT64_MAX - Len(vs)
    /\ lv.len + Len(vs) <= MaxLength
    /\ LET m == [lv EXCEPT !.len = @ + Len(vs),
                           !.left = IF end = "head" THEN Minus(@, Len(vs)) ELSE @,
                           !.right = IF end = "tail" THEN Plus(@, Len(vs)) ELSE @]
       IN  Commit(m, Pushed(lv, end, vs), m.len, <<>>)

Push(end, vs) == CanBeVersioned /\ DoListPush(GetListMetaVal, end, vs)
PushX(end, vs) == IF Found THEN DoListPush(meta, end, vs) ELSE Reply(0, <<>>)

LPush(vs) == Push("head", vs)
RPush(vs) == Push("tail", vs)
LPushX(vs) == PushX("head", vs)
RPushX(vs) == PushX("tail", vs)

DoListPop(lv, end) ==
    LET s == IF end = "head" THEN lv.left ELSE lv.right
        v == item[lv.ver][s]
        its == [item[lv.ver] EXCEPT ![s] = None]
    IN  IF v = None
        THEN Reply(0, <<>>)
        ELSE Commit(IF lv.len - 1 = 0
                    THEN Dead(lv.ver)
                    ELSE [lv EXCEPT !.len = @ - 1,
                                    !.left = IF end = "head" THEN Plus(@, 1) ELSE @,
                                    !.right = IF end = "tail" THEN Minus(@, 1) ELSE @],
                    its, 0, <<v>>)

LPop == IF ~Found \/ meta.len = 0 THEN Reply(0, <<>>) ELSE DoListPop(meta, "head")
RPop == IF ~Found \/ meta.len = 0 THEN Reply(0, <<>>) ELSE DoListPop(meta, "tail")

\* LSet: an error for no key and for an index outside of the list; with 2^63
\* elements the code admits every int64 index.
LSet(index, v) ==
    LET small == meta.len < UINT64_MAX \div 2 IN
    IF \/ ~Found
       \/ small /\ (index > meta.len - 1 \/ index < -meta.len)
    THEN Reply(-1, <<>>)
    ELSE Commit(meta, [item[meta.ver] EXCEPT ![GetSeqByIndex(index, meta)] = v], 1, <<>>)

\* Faulty RangeStart: an index before the first is not moved to it.
RangeStartUnclamped(start, n) == IF start < 0 THEN n + start ELSE start

\* The range arguments of LTRIM and LRANGE, and whether they name nothing.
RangeStart(start, n) == LET s == IF start < 0 THEN n + start ELSE start IN IF s < 0 THEN 0 ELSE s
RangeEnd(end, n) == IF end < 0 THEN n + end ELSE end
EmptyRange(s, e, n) == s > e \/ s >= n

\* ltrim: how many go at each end, and their records with them.
LTrim(start, end) ==
    LET lv == meta
        s == RangeStart(start, lv.len)
        e == RangeEnd(end, lv.len)
        all == EmptyRange(s, e, lv.len)
        last == IF e >= lv.len THEN lv.len - 1 ELSE e
        l == IF all THEN lv.len ELSE Steps(lv.left, GetSeqByIndex(s, lv))
        r == IF all THEN 0 ELSE Steps(GetSeqByIndex(last, lv), lv.right)
        gone(q) == Steps(lv.left, q) < l \/ Steps(q, lv.right) < r
        its == [q \in Seqs |-> IF gone(q) THEN None ELSE item[lv.ver][q]]
        m == [lv EXCEPT !.len = @ - (l + r), !.left = Plus(@, l), !.right = Minus(@, r)]
    IN  IF ~Found THEN Reply(0, <<>>)
        ELSE Commit(IF m.len = 0 THEN Dead(lv.ver) ELSE m, its, 0, <<>>)

\* lrange, and the loop of rdbSaveObject: a snapshot is read from one number on.
ReadFrom(lv, s, n) == [i \in 1..n |-> item[lv.ver][Plus(s, i - 1)]]
Complete(vs) == IF \E i \in DOMAIN vs : vs[i] = None THEN Answer(-1, <<>>) ELSE Answer(1, vs)

LRange(start, end) ==
    LET s == RangeStart(start, meta.len)
        e == RangeEnd(end, meta.len)
        last == IF e >= meta.len THEN meta.len - 1 ELSE e
    IN  IF ~Found THEN Answer(0, <<>>)
        ELSE IF EmptyRange(s, e, meta.len) THEN Answer(1, <<>>)
        ELSE Complete(ReadFrom(meta, GetSeqByIndex(s, meta), last - s + 1))

\* The list branch of rdbSaveObject
DumpList ==
    IF ~Found THEN Answer(0, <<>>) ELSE Complete(ReadFrom(meta, GetSeqByIndex(0, meta), meta.len))

LLen == IF Found THEN meta.len ELSE 0

\* LIndex: whatever the ITEM record of that number is, without a check of the index.
LIndex(index) ==
    LET v == item[meta.ver][GetSeqByIndex(index, meta)]
    IN  IF ~Found \/ v = None THEN <<>> ELSE <<v>>

----------------------------------------------------------------------------
(* RESTORE and DEL *)

\* The values RESTORE's lambda hands to quickList, given the list encoded in the
\* payload: its ziplist form ends the loop before the first one.
Loaded(form, vs) == IF form = "ziplist" THEN <<>> ELSE vs

\* quickList on the META a RESTORE found: dead (REPLACE has just marked it) or absent.
QuickList(vs) ==
    LET lv == Fresh(IF meta.st = "absent" THEN 0 ELSE meta.ver + 1)
        m == [lv EXCEPT !.len = Len(vs), !.right = Plus(@, Len(vs))]
    IN  Commit(m, Pushed(lv, "tail", vs), 1, <<>>)

\* mark_key_deleted: the ITEM records stay for the reaper.
Kill(n) ==
    meta' = Dead(meta.ver) /\ out' = Answer(n, <<>>) /\ UNCHANGED item

\* The payload is looked at only after REPLACE has deleted the key.
Restore(form, vs, replace) ==
    IF Found /\ ~replace
    THEN Reply(-1, <<>>)
    ELSE \/ (meta.st # "absent" => meta.ver < MaxVersion) /\ QuickList(Loaded(form, vs))
         \/ IF Found THEN Kill(-1) ELSE Reply(-1, <<>>)

Del == IF Found THEN Kill(0) ELSE Reply(0, <<>>)

----------------------------------------------------------------------------
Init ==
    /\ meta = Absent
    /\ item = [v \in Versions |-> [s \in Seqs |-> None]]
    /\ out = Answer(0, <<>>)

Next ==
    \/ \E vs \in Payloads : LPush(vs) \/ RPush(vs) \/ LPushX(vs) \/ RPushX(vs)
    \/ LPop
    \/ RPop
    \/ \E i \in Indices, v \in Values : LSet(i, v)
    \/ \E s, e \in Indices : LTrim(s, e)
    \/ \E f \in Forms, vs \in Payloads \cup {<<>>}, r \in BOOLEAN : Restore(f, vs, r)
    \/ Del

Spec == Init /\ [][Next]_vars

----------------------------------------------------------------------------
(* Properties *)

MetaVal == [st : {"absent", "live", "dead"}, len : 0..MaxLength, left : Seqs, right : Seqs,
            ver : Versions]

TypeOK ==
    /\ meta \in MetaVal
    /\ item \in [Versions -> [Seqs -> Values \cup {None}]]

\* The numbers from left_seq to right_seq are as many as META says, each has an
\* ITEM record and no other number of the live version has one, however often
\* the ends have wrapped (doListPush, doListPop, ltrim, LSet, quickList).
ListShape ==
    meta.st = "live" =>
        /\ Plus(meta.left, meta.len) = Plus(meta.right, 1)
        /\ \A s \in Seqs : item[meta.ver][s] # None <=> Steps(meta.left, s) < meta.len

\* Versions the key has not had yet hold no record.
UnusedClean ==
    \A v \in Versions : (v > meta.ver \/ meta.st = "absent") => \A s \in Seqs : item[v][s] = None

\* The list behind the records.
Elements == IF Found THEN ReadFrom(meta, meta.left, meta.len) ELSE <<>>

IsAList == INSTANCE ListAbs WITH exists <- Found, list <- Elements

\* Each command that changes the list changes it, and answers, as on a sequence;
\* of a RESTORE whose payload is a ziplist nothing is left
\* (LPush, RPush, LPushX, RPushX, LPop, RPop, LSet, ltrim, restore, del).
BehavesAsAList ==
    [][UNCHANGED vars \/
       /\ \A vs \in Payloads :
             /\ LPush(vs) => IsAList!Push("head", vs, FALSE)
             /\ RPush(vs) => IsAList!Push("tail", vs, FALSE)
             /\ LPushX(vs) => IsAList!Push("head", vs, TRUE)
             /\ RPushX(vs) => IsAList!Push("tail", vs, TRUE)
       /\ LPop => IsAList!Pop("head")
       /\ RPop => IsAList!Pop("tail")
       /\ \A i \in Indices, v \in Values : LSet(i, v) => IsAList!Set(i, v)
       /\ \A s, e \in Indices : LTrim(s, e) => IsAList!Trim(s, e)
       /\ \A f \in Forms, vs \in Payloads \cup {<<>>}, r \in BOOLEAN :
             Restore(f, vs, r) => \/ IsAList!Restore(IF f = "ziplist" THEN <<>> ELSE vs)
                                  \/ IsAList!Refuse \/ IsAList!Delete
       /\ Del => IsAList!Delete]_vars

\* LRANGE, LINDEX, LLEN and DUMP answer as on that sequence: the records at the
\* numbers getSeqByIndex computes, on either side of the wrap, are the right ones.
ReadsAsAList ==
    /\ LLen = Len(Elements)
    /\ \A i \in Indices : LIndex(i) = IsAList!At(i)
    /\ \A s, e \in Indices : LRange(s, e).vals = IsAList!Between(s, e)
    /\ DumpList = Answer(IF Found THEN 1 ELSE 0, Elements)
=============================================================================
