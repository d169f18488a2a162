--------------------------- MODULE ListSeqProofs ---------------------------
(* The records of a list keep their shape: between left_seq and right_seq,   *)
(* whichever of them has wrapped, there are length records and nowhere else. *)
EXTENDS ListSeq, SequenceTheorems, TLAPS

Shape(m, f) ==
    /\ Plus(m.left, m.len) = Plus(m.right, 1)
    /\ \A s \in Seqs : f[s] # None <=> Steps(m.left, s) < m.len

Records == [Seqs -> Values \cup {None}]

\* META less a elements at its head and b at its tail, and the records that leaves.
Shrunk(a, b) == [meta EXCEPT !.len = @ - (a + b), !.left = Plus(@, a), !.right = Minus(@, b)]
Remain(f, a, b) ==
    \A s \in Seqs : f[s] # None <=>
        item[meta.ver][s] # None /\ ~(Steps(meta.left, s) < a) /\ ~(Steps(s, meta.right) < b)

IndInv == TypeOK /\ ListShape /\ UnusedClean

----------------------------------------------------------------------------
(* Numbers *)

LEMMA Widths == W \in Nat /\ MaxLength \in Nat /\ 2 * MaxLength + 2 < W /\ UINT64_MAX = W - 1
BY ListAssumption DEF UINT64_MAX

LEMMA PlusType == ASSUME NEW s \in Seqs, NEW n \in 0..UINT64_MAX PROVE Plus(s, n) \in Seqs
BY Widths DEF Plus, Seqs, UINT64_MAX

LEMMA MinusType == ASSUME NEW s \in Seqs, NEW n \in 0..UINT64_MAX PROVE Minus(s, n) \in Seqs
BY Widths DEF Minus, Seqs, UINT64_MAX

LEMMA StepsType == ASSUME NEW a \in Seqs, NEW b \in Seqs PROVE Steps(a, b) \in Seqs
BY Widths DEF Steps, Seqs, UINT64_MAX

\* Lowering the left end by n numbers lets in the n numbers below it.
LEMMA HeadGrows ==
    ASSUME NEW l \in Seqs, NEW s \in Seqs, NEW len \in 0..MaxLength, NEW n \in 0..MaxLength,
           len + n <= MaxLength
    PROVE  /\ Steps(Minus(l, n), s) < len + n <=> Steps(s, l) \in 1..n \/ Steps(l, s) < len
           /\ Plus(Minus(l, n), len + n) = Plus(l, len)
BY Widths DEF Steps, Minus, Plus, Seqs, UINT64_MAX

LEMMA TailGrows ==
    ASSUME NEW l \in Seqs, NEW r \in Seqs, NEW s \in Seqs,
           NEW len \in 0..MaxLength, NEW n \in 0..MaxLength,
           len + n <= MaxLength, Plus(l, len) = Plus(r, 1)
    PROVE  /\ Steps(l, s) < len + n <=> Steps(r, s) \in 1..n \/ Steps(l, s) < len
           /\ Plus(l, len + n) = Plus(Plus(r, n), 1)
BY Widths DEF Steps, Plus, Seqs, UINT64_MAX

\* Dropping a numbers at the left and b at the right.
LEMMA Shrinks ==
    ASSUME NEW l \in Seqs, NEW r \in Seqs, NEW s \in Seqs, NEW len \in 0..MaxLength,
           NEW a \in 0..len, NEW b \in 0..len, a + b <= len, Plus(l, len) = Plus(r, 1)
    PROVE  /\ Steps(Plus(l, a), s) < len - (a + b) <=>
                Steps(l, s) < len /\ ~(Steps(l, s) < a) /\ ~(Steps(s, r) < b)
           /\ Plus(Plus(l, a), len - (a + b)) = Plus(Minus(r, b), 1)
BY Widths DEF Steps, Minus, Plus, Seqs, UINT64_MAX

\* getSeqByIndex finds element i, counted from either end, of a list that has it.
LEMMA SeqByIndexInside ==
    ASSUME NEW lv \in MetaVal, Plus(lv.left, lv.len) = Plus(lv.right, 1), NEW i \in Int,
           -lv.len <= i, i < lv.len
    PROVE  /\ GetSeqByIndex(i, lv) \in Seqs
           /\ i >= 0 => Steps(lv.left, GetSeqByIndex(i, lv)) = i
           /\ i >= 0 => Steps(GetSeqByIndex(i, lv), lv.right) = lv.len - 1 - i
           /\ i < 0 => Steps(lv.left, GetSeqByIndex(i, lv)) = lv.len + i
<1>1. lv.left \in Seqs /\ lv.right \in Seqs /\ lv.len \in 0..MaxLength
  BY DEF MetaVal
<1>2. CASE i >= 0 /\ lv.left > lv.right
  <2>1. GetSeqByIndex(i, lv) = IF UINT64_MAX - lv.left >= i THEN lv.left + i
                                                            ELSE i + lv.left - UINT64_MAX - 1
    BY <1>2 DEF GetSeqByIndex
  <2> HIDE DEF GetSeqByIndex
  <2> QED
    BY <1>1, <1>2, <2>1, Widths DEF Plus, Steps, Seqs, UINT64_MAX
<1>3. CASE i >= 0 /\ lv.left <= lv.right
  BY <1>1, <1>3, Widths DEF GetSeqByIndex, Plus, Minus, Steps, Seqs, UINT64_MAX
<1>4. CASE i < 0 /\ lv.left > lv.right
  BY <1>1, <1>4, Widths DEF GetSeqByIndex, Plus, Minus, Steps, Seqs, UINT64_MAX
<1>5. CASE i < 0 /\ lv.left <= lv.right
  BY <1>1, <1>5, Widths DEF GetSeqByIndex, Plus, Minus, Steps, Seqs, UINT64_MAX
<1> QED
  BY <1>1, <1>2, <1>3, <1>4, <1>5, Widths DEF Seqs, UINT64_MAX

----------------------------------------------------------------------------
(* Batches *)

LEMMA CommitInv ==
    ASSUME IndInv, NEW m \in MetaVal, NEW f \in Records, NEW n, NEW vs, Commit(m, f, n, vs),
           m.st \in {"live", "dead"}, m.st = "live" => Shape(m, f),
           meta.st # "absent" => m.ver >= meta.ver
    PROVE  IndInv'
<1>1. TypeOK'
  BY DEF IndInv, Commit, TypeOK, Records, MetaVal
<1>2. meta' = m /\ item'[m.ver] = f /\ \A v \in Versions \ {m.ver} : item'[v] = item[v]
  BY DEF Commit, IndInv, TypeOK, MetaVal
<1>3. ListShape'
  BY <1>2 DEF ListShape, Shape
<1>4. UnusedClean'
  <2> SUFFICES ASSUME NEW v \in Versions, v > m.ver, NEW s \in Seqs
               PROVE  item'[v][s] = None
    BY <1>2 DEF UnusedClean
  <2>1. v # m.ver /\ (meta.st = "absent" \/ v > meta.ver)
    BY ListAssumption DEF IndInv, TypeOK, MetaVal, Versions
  <2>2. item[v][s] = None
    BY <2>1 DEF IndInv, UnusedClean
  <2> QED
    BY <1>2, <2>1, <2>2
<1> QED
  BY <1>1, <1>3, <1>4 DEF IndInv

LEMMA ReplyInv == ASSUME IndInv, NEW n, NEW vs, Reply(n, vs) PROVE IndInv'
BY DEF IndInv, Reply, TypeOK, ListShape, UnusedClean

\* The META a push starts from has the shape of the records of its version.
LEMMA FreshShape ==
    ASSUME IndInv, NEW v \in Versions, v > meta.ver \/ meta.st = "absent"
    PROVE  Fresh(v) \in MetaVal /\ Fresh(v).st = "live" /\ Shape(Fresh(v), item[v])
<1>1. Fresh(v) \in MetaVal /\ Fresh(v).st = "live"
  BY Widths DEF Fresh, MetaVal, Seqs, UINT64_MAX
<1>2. Plus(0, 0) = Plus(UINT64_MAX, 1)
  BY Widths DEF Plus, UINT64_MAX
<1>3. \A s \in Seqs : item[v][s] = None /\ ~(Steps(0, s) < 0)
  BY Widths DEF IndInv, UnusedClean, Steps, Seqs, UINT64_MAX
<1> QED
  BY <1>1, <1>2, <1>3 DEF Shape, Fresh

LEMMA Payload == ASSUME NEW vs \in Payloads \cup {<<>>}
                 PROVE  Len(vs) \in 0..MaxPush /\ \A i \in 1..Len(vs) : vs[i] \in Values
<1>1. CASE vs = <<>>
  BY <1>1, ListAssumption
<1>2. CASE vs \in Payloads
  <2>1. PICK n \in 1..MaxPush : vs \in [1..n -> Values]
    BY <1>2 DEF Payloads
  <2>2. Len(vs) = n
    BY <2>1, ListAssumption
  <2> QED
    BY <2>1, <2>2, ListAssumption
<1> QED
  BY <1>1, <1>2

LEMMA PushedType ==
    ASSUME IndInv, NEW lv \in MetaVal, NEW end, NEW vs \in Payloads \cup {<<>>}
    PROVE  Pushed(lv, end, vs) \in Records
<1>1. item[lv.ver] \in Records
  BY DEF IndInv, TypeOK, Records, MetaVal
<1> QED
  BY <1>1, Payload DEF Pushed, Records

LEMMA HeadShape ==
    ASSUME IndInv, NEW lv \in MetaVal, NEW vs \in Payloads \cup {<<>>}, Shape(lv, item[lv.ver]),
           lv.len + Len(vs) <= MaxLength, NEW m,
           m = [lv EXCEPT !.len = @ + Len(vs), !.left = Minus(@, Len(vs))]
    PROVE  m \in MetaVal /\ Shape(m, Pushed(lv, "head", vs))
<1> DEFINE n == Len(vs)
           f == Pushed(lv, "head", vs)
<1>1. n \in 0..MaxLength /\ n \in 0..UINT64_MAX /\ \A i \in 1..n : vs[i] \in Values
  BY Payload, ListAssumption, Widths
<1>2. lv.len \in 0..MaxLength /\ lv.left \in Seqs /\ lv.right \in Seqs
  BY DEF MetaVal
<1>3. m \in MetaVal
  <2>1. lv.len + n \in 0..MaxLength /\ Minus(lv.left, n) \in Seqs
    BY <1>1, <1>2, MinusType, Widths
  <2> QED
    BY <2>1 DEF MetaVal
<1>4. m.len = lv.len + n /\ m.left = Minus(lv.left, n) /\ m.right = lv.right
  BY DEF MetaVal
<1>5. ASSUME NEW s \in Seqs
      PROVE  f[s] # None <=> Steps(s, lv.left) \in 1..n \/ item[lv.ver][s] # None
  BY <1>1, ListAssumption DEF Pushed
<1>6. ASSUME NEW s \in Seqs
      PROVE  f[s] # None <=> Steps(m.left, s) < m.len
  <2>1. Steps(Minus(lv.left, n), s) < lv.len + n
          <=> Steps(s, lv.left) \in 1..n \/ Steps(lv.left, s) < lv.len
    BY <1>1, <1>2, HeadGrows
  <2>2. item[lv.ver][s] # None <=> Steps(lv.left, s) < lv.len
    BY DEF Shape
  <2> QED
    BY <1>4, <1>5, <2>1, <2>2
<1>7. Plus(m.left, m.len) = Plus(m.right, 1)
  BY <1>1, <1>2, <1>4, HeadGrows DEF Shape
<1> QED
  BY <1>3, <1>6, <1>7 DEF Shape

LEMMA TailShape ==
    ASSUME IndInv, NEW lv \in MetaVal, NEW vs \in Payloads \cup {<<>>}, Shape(lv, item[lv.ver]),
           lv.len + Len(vs) <= MaxLength, NEW m,
           m = [lv EXCEPT !.len = @ + Len(vs), !.right = Plus(@, Len(vs))]
    PROVE  m \in MetaVal /\ Shape(m, Pushed(lv, "tail", vs))
<1> DEFINE n == Len(vs)
           f == Pushed(lv, "tail", vs)
<1>1. n \in 0..MaxLength /\ n \in 0..UINT64_MAX /\ \A i \in 1..n : vs[i] \in Values
  BY Payload, ListAssumption, Widths
<1>2. lv.len \in 0..MaxLength /\ lv.left \in Seqs /\ lv.right \in Seqs
  BY DEF MetaVal
<1>3. m \in MetaVal
  <2>1. lv.len + n \in 0..MaxLength /\ Plus(lv.right, n) \in Seqs
    BY <1>1, <1>2, PlusType, Widths
  <2> QED
    BY <2>1 DEF MetaVal
<1>4. m.len = lv.len + n /\ m.left = lv.left /\ m.right = Plus(lv.right, n)
  BY DEF MetaVal
<1>5. ASSUME NEW s \in Seqs
      PROVE  f[s] # None <=> Steps(lv.right, s) \in 1..n \/ item[lv.ver][s] # None
  BY <1>1, ListAssumption DEF Pushed
<1>6. Plus(lv.left, lv.len) = Plus(lv.right, 1)
  BY DEF Shape
<1>7. ASSUME NEW s \in Seqs
      PROVE  f[s] # None <=> Steps(m.left, s) < m.len
  <2>1. Steps(lv.left, s) < lv.len + n
          <=> Steps(lv.right, s) \in 1..n \/ Steps(lv.left, s) < lv.len
    BY <1>1, <1>2, <1>6, TailGrows
  <2>2. item[lv.ver][s] # None <=> Steps(lv.left, s) < lv.len
    BY DEF Shape
  <2> QED
    BY <1>4, <1>5, <2>1, <2>2
<1>8. Plus(m.left, m.len) = Plus(m.right, 1)
  BY <1>1, <1>2, <1>4, <1>6, TailGrows
<1> QED
  BY <1>3, <1>7, <1>8 DEF Shape

----------------------------------------------------------------------------
(* Commands *)

LEMMA LiveShape ==
    ASSUME IndInv, Found
    PROVE  meta \in MetaVal /\ meta.st = "live" /\ Shape(meta, item[meta.ver])
           /\ item[meta.ver] \in Records
BY DEF IndInv, TypeOK, ListShape, Shape, Found, MetaVal, Records

LEMMA DeadType == ASSUME NEW v \in Versions PROVE Dead(v) \in MetaVal /\ Dead(v).st = "dead"
BY Widths DEF Dead, MetaVal, Seqs, UINT64_MAX

LEMMA DoListPushInv ==
    ASSUME IndInv, NEW lv \in MetaVal, lv.st = "live", Shape(lv, item[lv.ver]),
           meta.st # "absent" => lv.ver >= meta.ver,
           NEW end \in {"head", "tail"}, NEW vs \in Payloads, DoListPush(lv, end, vs)
    PROVE  IndInv'
<1> DEFINE m == [lv EXCEPT !.len = @ + Len(vs),
                           !.left = IF end = "head" THEN Minus(@, Len(vs)) ELSE @,
                           !.right = IF end = "tail" THEN Plus(@, Len(vs)) ELSE @]
<1>1. lv.len + Len(vs) <= MaxLength /\ Commit(m, Pushed(lv, end, vs), m.len, <<>>)
  BY DEF DoListPush
<1>2. m.st = "live" /\ m.ver = lv.ver
  BY DEF MetaVal
<1>3. m \in MetaVal /\ Shape(m, Pushed(lv, end, vs))
  <2>1. CASE end = "head"
    <3>1. m = [lv EXCEPT !.len = @ + Len(vs), !.left = Minus(@, Len(vs))]
      BY <2>1 DEF MetaVal
    <3> QED
      BY <1>1, <2>1, <3>1, HeadShape
  <2>2. CASE end = "tail"
    <3>1. m = [lv EXCEPT !.len = @ + Len(vs), !.right = Plus(@, Len(vs))]
      BY <2>2 DEF MetaVal
    <3> QED
      BY <1>1, <2>2, <3>1, TailShape
  <2> QED
    BY <2>1, <2>2
<1>4. Pushed(lv, end, vs) \in Records
  BY PushedType
<1> HIDE DEF m
<1> QED
  BY <1>1, <1>2, <1>3, <1>4, CommitInv

LEMMA PushInv ==
    ASSUME IndInv, NEW end \in {"head", "tail"}, NEW vs \in Payloads,
           Push(end, vs) \/ PushX(end, vs)
    PROVE  IndInv'
<1>1. CASE Found /\ DoListPush(meta, end, vs)
  BY <1>1, LiveShape, DoListPushInv DEF MetaVal, Versions
<1>2. CASE Reply(0, <<>>)
  BY <1>2, ReplyInv
<1>3. ASSUME ~Found, CanBeVersioned, DoListPush(GetListMetaVal, end, vs)
      PROVE  IndInv'
  <2> DEFINE v == IF meta.st = "absent" THEN 0 ELSE meta.ver + 1
  <2>1. meta \in MetaVal /\ meta.st \in {"absent", "dead"}
    BY <1>3 DEF IndInv, TypeOK, Found, MetaVal
  <2>2. v \in Versions /\ (v > meta.ver \/ meta.st = "absent")
    BY <1>3, <2>1, ListAssumption DEF CanBeVersioned, Versions, MetaVal
  <2>3. GetListMetaVal = Fresh(v)
    BY <2>1 DEF GetListMetaVal
  <2>4. Fresh(v) \in MetaVal /\ Fresh(v).st = "live" /\ Shape(Fresh(v), item[v]) /\ Fresh(v).ver = v
    BY <2>2, FreshShape DEF Fresh
  <2>5. meta.st # "absent" => v >= meta.ver
    BY <2>1, ListAssumption DEF Versions, MetaVal
  <2> HIDE DEF v
  <2> QED
    BY <1>3, <2>3, <2>4, <2>5, DoListPushInv
<1>4. Found => GetListMetaVal = meta
  BY DEF Found, GetListMetaVal
<1> QED
  BY <1>1, <1>2, <1>3, <1>4 DEF Push, PushX

LEMMA ShrinkShape ==
    ASSUME IndInv, Found, NEW a \in 0..meta.len, NEW b \in 0..meta.len, a + b <= meta.len,
           NEW f \in Records, Remain(f, a, b)
    PROVE  /\ Shrunk(a, b) \in MetaVal /\ Shrunk(a, b).st = "live"
           /\ Shrunk(a, b).ver = meta.ver /\ Shape(Shrunk(a, b), f)
<1> DEFINE m == Shrunk(a, b)
<1>1. /\ meta \in MetaVal /\ Shape(meta, item[meta.ver]) /\ meta.st = "live"
      /\ meta.len \in 0..MaxLength /\ meta.left \in Seqs /\ meta.right \in Seqs
  BY LiveShape DEF MetaVal
<1>2. a \in 0..UINT64_MAX /\ b \in 0..UINT64_MAX /\ meta.len - (a + b) \in 0..MaxLength
  BY <1>1, Widths
<1>3. Plus(meta.left, a) \in Seqs /\ Minus(meta.right, b) \in Seqs
  BY <1>1, <1>2, PlusType, MinusType
<1>4. m \in MetaVal /\ m.st = "live" /\ m.ver = meta.ver
  BY <1>1, <1>2, <1>3 DEF MetaVal, Shrunk
<1>5. m.len = meta.len - (a + b) /\ m.left = Plus(meta.left, a) /\ m.right = Minus(meta.right, b)
  BY <1>1 DEF MetaVal, Shrunk
<1>6. Plus(meta.left, meta.len) = Plus(meta.right, 1)
  BY <1>1 DEF Shape
<1> HIDE DEF m
<1>7. ASSUME NEW s \in Seqs
      PROVE  f[s] # None <=> Steps(m.left, s) < m.len
  <2>1. item[meta.ver][s] # None <=> Steps(meta.left, s) < meta.len
    BY <1>1 DEF Shape
  <2> QED
    BY <1>1, <1>5, <1>6, <2>1, Shrinks DEF Remain
<1>8. Plus(m.left, m.len) = Plus(m.right, 1)
  BY <1>1, <1>5, <1>6, Shrinks
<1>9. Shape(m, f)
  BY <1>7, <1>8 DEF Shape
<1> QED
  BY <1>4, <1>9 DEF m

\* The record at one end goes, and the end moves.
LEMMA PopRecords ==
    ASSUME IndInv, Found, meta.len # 0
    PROVE  /\ LET f == [item[meta.ver] EXCEPT ![meta.left] = None]
              IN  f \in Records /\ Remain(f, 1, 0)
           /\ LET f == [item[meta.ver] EXCEPT ![meta.right] = None]
              IN  f \in Records /\ Remain(f, 0, 1)
           /\ 1 \in 0..meta.len /\ 0 \in 0..meta.len /\ 1 + 0 <= meta.len /\ 0 + 1 <= meta.len
<1>1. /\ meta \in MetaVal /\ item[meta.ver] \in Records
      /\ meta.len \in 1..MaxLength /\ meta.left \in Seqs /\ meta.right \in Seqs
  BY LiveShape, Widths DEF MetaVal
<1>2. ASSUME NEW s \in Seqs
      PROVE  /\ Steps(meta.left, s) < 1 <=> s = meta.left
             /\ Steps(s, meta.right) < 1 <=> s = meta.right
             /\ ~(Steps(meta.left, s) < 0) /\ ~(Steps(s, meta.right) < 0)
  BY <1>1, Widths DEF Steps, Seqs, UINT64_MAX
<1>3. ASSUME NEW q \in Seqs, NEW f, f = [item[meta.ver] EXCEPT ![q] = None]
      PROVE  f \in Records /\ \A s \in Seqs : f[s] # None <=> item[meta.ver][s] # None /\ s # q
  BY <1>1, <1>3 DEF Records
<1>4. LET f == [item[meta.ver] EXCEPT ![meta.left] = None] IN f \in Records /\ Remain(f, 1, 0)
  <2> DEFINE f == [item[meta.ver] EXCEPT ![meta.left] = None]
  <2>1. f \in Records /\ \A s \in Seqs : f[s] # None <=> item[meta.ver][s] # None /\ s # meta.left
    BY <1>1, <1>3
  <2> HIDE DEF f
  <2>2. Remain(f, 1, 0)
    BY <1>2, <2>1 DEF Remain
  <2> QED
    BY <2>1, <2>2 DEF f
<1>5. LET f == [item[meta.ver] EXCEPT ![meta.right] = None] IN f \in Records /\ Remain(f, 0, 1)
  <2> DEFINE f == [item[meta.ver] EXCEPT ![meta.right] = None]
  <2>1. f \in Records /\ \A s \in Seqs : f[s] # None <=> item[meta.ver][s] # None /\ s # meta.right
    BY <1>1, <1>3
  <2> HIDE DEF f
  <2>2. Remain(f, 0, 1)
    BY <1>2, <2>1 DEF Remain
  <2> QED
    BY <2>1, <2>2 DEF f
<1> QED
  BY <1>1, <1>4, <1>5

LEMMA DoListPopInv ==
    ASSUME IndInv, Found, meta.len # 0, NEW end \in {"head", "tail"}, DoListPop(meta, end)
    PROVE  IndInv'
<1>1. meta \in MetaVal /\ meta.left \in Seqs /\ meta.right \in Seqs /\ meta.ver \in Versions
  BY LiveShape DEF MetaVal
<1>2. Plus(meta.left, 0) = meta.left /\ Minus(meta.right, 0) = meta.right
  BY <1>1, Widths DEF Plus, Minus, Seqs, UINT64_MAX
<1>3. Dead(meta.ver) \in MetaVal /\ Dead(meta.ver).st = "dead" /\ Dead(meta.ver).ver = meta.ver
  BY <1>1, DeadType DEF Dead
<1>4. ASSUME NEW f \in Records, NEW m \in MetaVal, m.st = "live", m.ver = meta.ver, Shape(m, f),
             NEW vs, Commit(m, f, 0, vs) \/ Commit(Dead(meta.ver), f, 0, vs)
      PROVE  IndInv'
  BY <1>1, <1>3, <1>4, CommitInv, ListAssumption DEF Versions
<1>5. CASE end = "head"
  <2> DEFINE f == [item[meta.ver] EXCEPT ![meta.left] = None]
  <2>1. f \in Records /\ Remain(f, 1, 0)
    BY PopRecords
  <2>2. 1 \in 0..meta.len /\ 0 \in 0..meta.len /\ 1 + 0 <= meta.len
    BY PopRecords
  <2>3. Shrunk(1, 0) = [meta EXCEPT !.len = @ - 1, !.left = Plus(@, 1), !.right = @]
    <3>1. 1 + 0 = 1
      OBVIOUS
    <3> QED
      BY <1>2, <3>1, Zenon DEF Shrunk
  <2>4. \/ Reply(0, <<>>)
        \/ \E vs : Commit(Shrunk(1, 0), f, 0, vs) \/ Commit(Dead(meta.ver), f, 0, vs)
    BY <1>5, <2>3 DEF DoListPop
  <2> HIDE DEF f
  <2> QED
    BY <1>4, <2>1, <2>2, <2>4, ShrinkShape, ReplyInv
<1>6. CASE end = "tail"
  <2> DEFINE f == [item[meta.ver] EXCEPT ![meta.right] = None]
  <2>1. f \in Records /\ Remain(f, 0, 1)
    BY PopRecords
  <2>2. 0 \in 0..meta.len /\ 1 \in 0..meta.len /\ 0 + 1 <= meta.len
    BY PopRecords
  <2>3. Shrunk(0, 1) = [meta EXCEPT !.len = @ - 1, !.left = @, !.right = Minus(@, 1)]
    <3>1. 0 + 1 = 1
      OBVIOUS
    <3> QED
      BY <1>2, <3>1, Zenon DEF Shrunk
  <2>4. \/ Reply(0, <<>>)
        \/ \E vs : Commit(Shrunk(0, 1), f, 0, vs) \/ Commit(Dead(meta.ver), f, 0, vs)
    BY <1>6, <2>3 DEF DoListPop
  <2> HIDE DEF f
  <2> QED
    BY <1>4, <2>1, <2>2, <2>4, ShrinkShape, ReplyInv
<1> QED
  BY <1>5, <1>6

LEMMA LSetInv ==
    ASSUME IndInv, NEW i \in Indices, NEW v \in Values, LSet(i, v)
    PROVE  IndInv'
<1>1. CASE Reply(-1, <<>>)
  BY <1>1, ReplyInv
<1>2. CASE ~Reply(-1, <<>>)
  <2> DEFINE q == GetSeqByIndex(i, meta)
             f == [item[meta.ver] EXCEPT ![q] = v]
  <2>1. Found /\ Commit(meta, f, 1, <<>>)
        /\ ~(meta.len < UINT64_MAX \div 2 /\ (i > meta.len - 1 \/ i < -meta.len))
    BY <1>2 DEF LSet
  <2>2. meta \in MetaVal /\ meta.st = "live" /\ Shape(meta, item[meta.ver])
        /\ item[meta.ver] \in Records /\ meta.ver \in Versions
    BY <2>1, LiveShape DEF MetaVal
  <2>3. meta.len \in 0..MaxLength /\ i \in Int /\ meta.left \in Seqs
    BY <2>2, ListAssumption DEF MetaVal
  <2>4. meta.len < UINT64_MAX \div 2
    BY <2>3, Widths
  <2>5. -meta.len <= i /\ i < meta.len
    BY <2>1, <2>3, <2>4, Widths
  <2>6. Plus(meta.left, meta.len) = Plus(meta.right, 1)
    BY <2>2 DEF Shape
  <2>7. q \in Seqs /\ Steps(meta.left, q) < meta.len
    BY <2>2, <2>3, <2>5, <2>6, SeqByIndexInside, Widths
  <2>8. f \in Records /\ Shape(meta, f)
    <3> HIDE DEF q
    <3> QED
      BY <2>2, <2>7, ListAssumption DEF Shape, Records
  <2> HIDE DEF f
  <2> QED
    BY <2>1, <2>2, <2>8, CommitInv, ListAssumption DEF Versions
<1> QED
  BY <1>1, <1>2

LEMMA LTrimInv ==
    ASSUME IndInv, NEW start \in Indices, NEW end \in Indices, LTrim(start, end)
    PROVE  IndInv'
<1> DEFINE n == meta.len
           s == RangeStart(start, n)
           e == RangeEnd(end, n)
           all == EmptyRange(s, e, n)
           last == IF e >= n THEN n - 1 ELSE e
           l == IF all THEN n ELSE Steps(meta.left, GetSeqByIndex(s, meta))
           r == IF all THEN 0 ELSE Steps(GetSeqByIndex(last, meta), meta.right)
           f == [q \in Seqs |-> IF Steps(meta.left, q) < l \/ Steps(q, meta.right) < r
                                THEN None ELSE item[meta.ver][q]]
           m == Shrunk(l, r)
<1>1. CASE ~Found
  BY <1>1, ReplyInv DEF LTrim
<1>2. CASE Found
  <2>1. Commit(IF m.len = 0 THEN Dead(meta.ver) ELSE m, f, 0, <<>>)
    BY <1>2 DEF LTrim, Shrunk
  <2>2. /\ meta \in MetaVal /\ Shape(meta, item[meta.ver]) /\ meta.ver \in Versions
        /\ item[meta.ver] \in Records /\ n \in 0..MaxLength
    BY <1>2, LiveShape DEF MetaVal
  <2>3. Plus(meta.left, meta.len) = Plus(meta.right, 1)
    BY <2>2 DEF Shape
  <2>4. start \in Int /\ end \in Int
    BY ListAssumption
  <2>5. s \in Int /\ s >= 0 /\ e \in Int
    BY <2>2, <2>4 DEF RangeStart, RangeEnd
  <2>6. l \in 0..n /\ r \in 0..n /\ l + r <= n
    <3>1. CASE all
      BY <2>2, <3>1
    <3>2. CASE ~all
      <4>1. s \in 0..n - 1 /\ last \in 0..n - 1 /\ s <= last
        BY <2>2, <2>5, <3>2 DEF EmptyRange
      <4> HIDE DEF s, last
      <4>2. l = s /\ r = n - 1 - last
        BY <2>2, <2>3, <3>2, <4>1, SeqByIndexInside
      <4> HIDE DEF l, r
      <4> QED
        BY <2>2, <4>1, <4>2
    <3> QED
      BY <3>1, <3>2
  <2> HIDE DEF l, r
  <2>7. f \in Records
    BY <2>2 DEF Records
  <2>8. Remain(f, l, r)
    BY DEF Remain
  <2> HIDE DEF f
  <2>9. m \in MetaVal /\ m.st = "live" /\ m.ver = meta.ver /\ Shape(m, f)
    BY <1>2, <2>6, <2>7, <2>8, ShrinkShape
  <2>10. Dead(meta.ver) \in MetaVal /\ Dead(meta.ver).st = "dead" /\ Dead(meta.ver).ver = meta.ver
    BY <2>2, DeadType DEF Dead
  <2> HIDE DEF m
  <2> QED
    BY <2>1, <2>2, <2>7, <2>9, <2>10, CommitInv, ListAssumption DEF Versions
<1> QED
  BY <1>1, <1>2

LEMMA KillInv ==
    ASSUME IndInv, NEW n, IF Found THEN Kill(n) ELSE Reply(n, <<>>)
    PROVE  IndInv'
<1>1. CASE ~Found
  BY <1>1, ReplyInv
<1>2. CASE Found
  <2>1. meta' = Dead(meta.ver) /\ item' = item
    BY <1>2 DEF Kill
  <2>2. meta.ver \in Versions /\ meta.st # "absent"
    BY <1>2 DEF IndInv, TypeOK, MetaVal, Found
  <2>3. meta'.st = "dead" /\ meta'.ver = meta.ver /\ meta' \in MetaVal
    BY <2>1, <2>2, DeadType DEF Dead
  <2>4. TypeOK' /\ ListShape'
    BY <2>1, <2>3 DEF IndInv, TypeOK, ListShape
  <2>5. UnusedClean'
    BY <2>1, <2>2, <2>3 DEF IndInv, UnusedClean
  <2> QED
    BY <2>4, <2>5 DEF IndInv
<1> QED
  BY <1>1, <1>2

LEMMA RestoreInv ==
    ASSUME IndInv, NEW form \in Forms, NEW vs \in Payloads \cup {<<>>}, NEW r \in BOOLEAN,
           Restore(form, vs, r)
    PROVE  IndInv'
<1>1. CASE Reply(-1, <<>>) \/ (IF Found THEN Kill(-1) ELSE Reply(-1, <<>>))
  BY <1>1, ReplyInv, KillInv
<1>2. ASSUME meta.st # "absent" => meta.ver < MaxVersion, QuickList(Loaded(form, vs))
      PROVE  IndInv'
  <2> DEFINE v == IF meta.st = "absent" THEN 0 ELSE meta.ver + 1
             w == Loaded(form, vs)
             m == [Fresh(v) EXCEPT !.len = Len(w), !.right = Plus(@, Len(w))]
  <2>1. meta \in MetaVal
    BY DEF IndInv, TypeOK
  <2>2. v \in Versions /\ (v > meta.ver \/ meta.st = "absent") /\ (meta.st # "absent" => v >= meta.ver)
    BY <1>2, <2>1, ListAssumption DEF Versions, MetaVal
  <2>3. w \in Payloads \cup {<<>>}
    BY DEF Loaded
  <2>4. Commit(m, Pushed(Fresh(v), "tail", w), 1, <<>>)
    BY <1>2 DEF QuickList
  <2> HIDE DEF v, w
  <2>5. Len(w) \in 0..MaxLength
    BY <2>3, Payload, ListAssumption
  <2>6. Fresh(v) \in MetaVal /\ Fresh(v).st = "live" /\ Fresh(v).ver = v /\ Fresh(v).len = 0
        /\ Shape(Fresh(v), item[v])
    BY <2>2, FreshShape DEF Fresh
  <2>7. m = [Fresh(v) EXCEPT !.len = @ + Len(w), !.right = Plus(@, Len(w))]
    BY <2>5, <2>6 DEF Fresh
  <2>8. m \in MetaVal /\ Shape(m, Pushed(Fresh(v), "tail", w))
    <3>1. Fresh(v).len + Len(w) <= MaxLength
      BY <2>5, <2>6
    <3> HIDE DEF m
    <3> QED
      BY <2>3, <2>6, <2>7, <3>1, TailShape
  <2>9. m.st = "live" /\ m.ver = v
    BY <2>6 DEF MetaVal
  <2>10. Pushed(Fresh(v), "tail", w) \in Records
    BY <2>3, <2>6, PushedType
  <2> HIDE DEF m
  <2> QED
    BY <2>2, <2>4, <2>8, <2>9, <2>10, CommitInv
<1> QED
  BY <1>1, <1>2 DEF Restore

LEMMA InitInv == Init => IndInv
<1> SUFFICES ASSUME Init PROVE IndInv
  OBVIOUS
<1>1. 0 \in Versions /\ 0 \in Seqs /\ 0 \in 0..MaxLength
  BY ListAssumption, Widths DEF Versions, Seqs, UINT64_MAX
<1> QED
  BY <1>1 DEF Init, IndInv, TypeOK, ListShape, UnusedClean, Absent, MetaVal

LEMMA NextInv == IndInv /\ [Next]_vars => IndInv'
<1> SUFFICES ASSUME IndInv, [Next]_vars PROVE IndInv'
  OBVIOUS
<1>1. ASSUME NEW vs \in Payloads, LPush(vs) \/ RPush(vs) \/ LPushX(vs) \/ RPushX(vs)
      PROVE  IndInv'
  BY <1>1, PushInv DEF LPush, RPush, LPushX, RPushX
<1>2. CASE LPop \/ RPop
  BY <1>2, DoListPopInv, ReplyInv DEF LPop, RPop
<1>3. ASSUME NEW i \in Indices, NEW v \in Values, LSet(i, v)
      PROVE  IndInv'
  BY <1>3, LSetInv
<1>4. ASSUME NEW s \in Indices, NEW e \in Indices, LTrim(s, e)
      PROVE  IndInv'
  BY <1>4, LTrimInv
<1>5. ASSUME NEW f \in Forms, NEW vs \in Payloads \cup {<<>>}, NEW r \in BOOLEAN, Restore(f, vs, r)
      PROVE  IndInv'
  BY <1>5, RestoreInv
<1>6. CASE Del
  BY <1>6, KillInv DEF Del
<1>7. CASE UNCHANGED vars
  BY <1>7 DEF vars, IndInv, TypeOK, ListShape, UnusedClean
<1> QED
  BY <1>1, <1>2, <1>3, <1>4, <1>5, <1>6, <1>7 DEF Next

----------------------------------------------------------------------------
(* The theorems *)

\* However its ends wrap, a live list has a record at each number from left_seq
\* to right_seq, as many as its length, and no other: what LRANGE, LINDEX, LPOP,
\* RPOP and DUMP rely on when they compute a number instead of searching.
THEOREM ListsKeepShape == Spec => []ListShape
<1>1. IndInv => ListShape
  BY DEF IndInv
<1> QED
  BY <1>1, InitInv, NextInv, PTL DEF Spec

\* A version the key has not had yet holds no record: a list that is created
\* after its key died, by a push or by RESTORE, starts with its own elements
\* only, although the records of the dead version are still there.
THEOREM UnusedStayClean == Spec => []UnusedClean
<1>1. IndInv => UnusedClean
  BY DEF IndInv
<1> QED
  BY <1>1, InitInv, NextInv, PTL DEF Spec

\* META and the ITEM records have the form the codec gives them: the length and
\* both numbers stay in their width through every wrap, and the version in its bound.
THEOREM TypeCorrect == Spec => []TypeOK
<1>1. IndInv => TypeOK
  BY DEF IndInv
<1> QED
  BY <1>1, InitInv, NextInv, PTL DEF Spec

----------------------------------------------------------------------------
(* The sequence behind the records *)

ElementsOf(m, f) == IF m.st = "live" THEN [i \in 1..m.len |-> f[Plus(m.left, i - 1)]] ELSE <<>>

\* Counting up from a number, in one go or in two, and back.
LEMMA Counting ==
    ASSUME NEW l \in Seqs
    PROVE  /\ \A i \in 0..UINT64_MAX : Plus(l, i) \in Seqs /\ Steps(l, Plus(l, i)) = i
           /\ \A q \in Seqs : Steps(l, q) \in 0..UINT64_MAX /\ Plus(l, Steps(l, q)) = q
           /\ \A i, j \in 0..UINT64_MAX : i + j <= UINT64_MAX => Plus(Plus(l, i), j) = Plus(l, i + j)
BY Widths DEF Plus, Steps, Seqs, UINT64_MAX

LEMMA ElementsOfFacts ==
    ASSUME NEW m \in MetaVal, m.st = "live", NEW f \in Records, Shape(m, f)
    PROVE  /\ ElementsOf(m, f) \in Seq(Values) /\ Len(ElementsOf(m, f)) = m.len
           /\ \A i \in 1..m.len : /\ ElementsOf(m, f)[i] = f[Plus(m.left, i - 1)]
                                  /\ Plus(m.left, i - 1) \in Seqs
<1>1. m.len \in 0..MaxLength /\ m.left \in Seqs
  BY DEF MetaVal
<1>2. ASSUME NEW i \in 1..m.len
      PROVE  Plus(m.left, i - 1) \in Seqs /\ f[Plus(m.left, i - 1)] \in Values
  <2>1. i - 1 \in 0..UINT64_MAX /\ i - 1 < m.len
    BY <1>1, <1>2, Widths
  <2>2. Plus(m.left, i - 1) \in Seqs /\ Steps(m.left, Plus(m.left, i - 1)) = i - 1
    BY <1>1, <2>1, Counting
  <2>3. f[Plus(m.left, i - 1)] # None
    BY <2>1, <2>2 DEF Shape
  <2> QED
    BY <2>2, <2>3 DEF Records
<1>3. ElementsOf(m, f) = [i \in 1..m.len |-> f[Plus(m.left, i - 1)]]
  BY DEF ElementsOf
<1>4. ElementsOf(m, f) \in [1..m.len -> Values] /\ m.len \in Nat
  BY <1>1, <1>2, <1>3, Widths
<1> QED
  BY <1>2, <1>3, <1>4

LEMMA ElementsIs == Elements = ElementsOf(meta, item[meta.ver])
BY DEF Elements, ElementsOf, ReadFrom, Found

LEMMA LiveElements ==
    ASSUME IndInv, Found
    PROVE  /\ Elements \in Seq(Values) /\ Len(Elements) = meta.len /\ meta.len \in 0..MaxLength
           /\ \A i \in 1..meta.len : Elements[i] = item[meta.ver][Plus(meta.left, i - 1)]
BY LiveShape, ElementsIs, ElementsOfFacts DEF MetaVal

LEMMA NoElements == ASSUME ~Found PROVE Elements = <<>> /\ Len(Elements) = 0
BY DEF Elements

----------------------------------------------------------------------------
(* Reads *)

\* getSeqByIndex is the number of the element, and outside of the list that of
\* no element: an int64 index does not go round far enough to meet the list again.
LEMMA SeqByIndex ==
    ASSUME IndInv, Found, NEW i \in Indices
    PROVE  LET p == IF i < 0 THEN meta.len + i ELSE i
               q == GetSeqByIndex(i, meta)
           IN  /\ q \in Seqs
               /\ p \in 0..meta.len - 1 => q = Plus(meta.left, p)
               /\ p \notin 0..meta.len - 1 => item[meta.ver][q] = None
<1> DEFINE p == IF i < 0 THEN meta.len + i ELSE i
           q == GetSeqByIndex(i, meta)
<1>1. /\ meta \in MetaVal /\ Shape(meta, item[meta.ver]) /\ meta.len \in 0..MaxLength
      /\ meta.left \in Seqs /\ meta.right \in Seqs
  BY LiveShape DEF MetaVal
<1>2. Plus(meta.left, meta.len) = Plus(meta.right, 1)
  BY <1>1 DEF Shape
<1>3. i \in Int /\ -W <= 2 * i /\ 2 * i < W /\ p \in Int
  BY <1>1, ListAssumption
<1>4. CASE p \in 0..meta.len - 1
  <2>1. -meta.len <= i /\ i < meta.len
    BY <1>1, <1>3, <1>4
  <2>2. q \in Seqs /\ Steps(meta.left, q) = p
    BY <1>1, <1>2, <1>3, <2>1, SeqByIndexInside
  <2> HIDE DEF p, q
  <2>3. q = Plus(meta.left, p)
    BY <1>1, <2>2, Counting
  <2> QED
    BY <1>4, <2>2, <2>3 DEF p, q
<1>5. CASE p \notin 0..meta.len - 1
  <2>1. i >= meta.len \/ i < -meta.len
    BY <1>1, <1>3, <1>5
  <2>2. q \in Seqs /\ ~(Steps(meta.left, q) < meta.len)
    <3>1. CASE i >= meta.len /\ meta.left > meta.right
      BY <1>1, <1>2, <1>3, <3>1, Widths DEF GetSeqByIndex, Plus, Steps, Seqs, UINT64_MAX
    <3>2. CASE i >= meta.len /\ ~(meta.left > meta.right)
      BY <1>1, <1>2, <1>3, <3>2, Widths DEF GetSeqByIndex, Plus, Steps, Seqs, UINT64_MAX
    <3>3. CASE i < -meta.len /\ meta.left > meta.right
      BY <1>1, <1>2, <1>3, <3>3, Widths DEF GetSeqByIndex, Plus, Steps, Seqs, UINT64_MAX
    <3>4. CASE i < -meta.len /\ ~(meta.left > meta.right)
      BY <1>1, <1>2, <1>3, <3>4, Widths DEF GetSeqByIndex, Plus, Minus, Steps, Seqs, UINT64_MAX
    <3> QED
      BY <2>1, <3>1, <3>2, <3>3, <3>4
  <2> HIDE DEF q
  <2>3. item[meta.ver][q] = None
    BY <1>1, <2>2 DEF Shape
  <2> QED
    BY <1>5, <2>2, <2>3 DEF q
<1> QED
  BY <1>4, <1>5

LEMMA LIndexReads == ASSUME IndInv, NEW i \in Indices PROVE LIndex(i) = IsAList!At(i)
<1>1. i \in Int
  BY ListAssumption
<1>2. CASE ~Found
  BY <1>1, <1>2, NoElements DEF LIndex, IsAList!At, IsAList!Pos
<1>3. CASE Found
  <2> DEFINE p == IF i < 0 THEN meta.len + i ELSE i
             q == GetSeqByIndex(i, meta)
  <2>1. /\ q \in Seqs
        /\ p \in 0..meta.len - 1 => q = Plus(meta.left, p)
        /\ p \notin 0..meta.len - 1 => item[meta.ver][q] = None
    BY <1>3, SeqByIndex
  <2>2. /\ Elements \in Seq(Values) /\ Len(Elements) = meta.len /\ meta.len \in 0..MaxLength
        /\ \A j \in 1..meta.len : Elements[j] = item[meta.ver][Plus(meta.left, j - 1)]
    BY <1>3, LiveElements
  <2>3. IsAList!At(i) = IF p \in 0..meta.len - 1 THEN <<Elements[p + 1]>> ELSE <<>>
    BY <2>2 DEF IsAList!At, IsAList!Pos
  <2>4. LIndex(i) = IF item[meta.ver][q] = None THEN <<>> ELSE <<item[meta.ver][q]>>
    BY <1>3 DEF LIndex
  <2>5. p \in Int
    BY <1>1, <2>2
  <2> HIDE DEF p, q
  <2>6. CASE p \in 0..meta.len - 1
    <3>1. p + 1 \in 1..meta.len /\ p + 1 - 1 = p
      BY <2>2, <2>6
    <3>2. Elements[p + 1] = item[meta.ver][q] /\ Elements[p + 1] \in Values
      BY <2>1, <2>2, <2>6, <3>1
    <3> QED
      BY <2>3, <2>4, <2>6, <3>2, ListAssumption
  <2>7. CASE p \notin 0..meta.len - 1
    BY <2>1, <2>3, <2>4, <2>7
  <2> QED
    BY <2>6, <2>7
<1> QED
  BY <1>2, <1>3

\* Elements s to s + n - 1, read one number after the other.
LEMMA ReadFromIs ==
    ASSUME IndInv, Found, NEW s \in Nat, NEW n \in Nat, s + n <= meta.len
    PROVE  /\ ReadFrom(meta, Plus(meta.left, s), n) = SubSeq(Elements, s + 1, s + n)
           /\ \A i \in 1..n : SubSeq(Elements, s + 1, s + n)[i] # None
           /\ SubSeq(Elements, s + 1, s + n) \in Seq(Values)
           /\ Len(SubSeq(Elements, s + 1, s + n)) = n
<1> DEFINE part == SubSeq(Elements, s + 1, s + n)
           read == ReadFrom(meta, Plus(meta.left, s), n)
<1>1. /\ Elements \in Seq(Values) /\ Len(Elements) = meta.len /\ meta.len \in 0..MaxLength
      /\ \A i \in 1..meta.len : Elements[i] = item[meta.ver][Plus(meta.left, i - 1)]
  BY LiveElements
<1>2. meta.left \in Seqs
  BY LiveShape DEF MetaVal
<1>3. \A i \in (s + 1)..(s + n) : Elements[i] \in Values
  BY <1>1
<1>4. /\ part \in Seq(Values) /\ Len(part) = n
      /\ \A i \in 1..n : part[i] = Elements[s + i]
  <2> DEFINE a == s + 1
             b == s + n
  <2>1. a \in Int /\ b \in Int /\ b - a + 1 = n /\ (a <= b <=> n # 0) /\ \A i \in Int : a + i - 1 = s + i
    OBVIOUS
  <2>2. /\ SubSeq(Elements, a, b) \in Seq(Values)
        /\ Len(SubSeq(Elements, a, b)) = IF a <= b THEN b - a + 1 ELSE 0
        /\ \A i \in 1 .. b - a + 1 : SubSeq(Elements, a, b)[i] = Elements[a + i - 1]
    <3> HIDE DEF a, b
    <3>1. \A i \in a..b : Elements[i] \in Values
      BY <1>3 DEF a, b
    <3> QED
      BY <2>1, <3>1, SubSeqProperties, SMTT(30)
  <2> HIDE DEF a, b
  <2>3. Len(SubSeq(Elements, a, b)) = n
    BY <2>1, <2>2
  <2>4. \A i \in 1..n : SubSeq(Elements, a, b)[i] = Elements[s + i]
    BY <2>1, <2>2
  <2> QED
    BY <2>2, <2>3, <2>4 DEF a, b
<1>5. ASSUME NEW i \in 1..n
      PROVE  item[meta.ver][Plus(Plus(meta.left, s), i - 1)] = Elements[s + i]
             /\ Elements[s + i] \in Values
  <2>1. s \in 0..UINT64_MAX /\ i - 1 \in 0..UINT64_MAX /\ s + (i - 1) <= UINT64_MAX
        /\ s + (i - 1) = s + i - 1 /\ s + i \in 1..meta.len
    BY <1>1, <1>5, Widths
  <2>2. Plus(Plus(meta.left, s), i - 1) = Plus(meta.left, s + i - 1)
    BY <1>2, <2>1, Counting
  <2> QED
    BY <1>1, <1>3, <2>1, <2>2
<1>6. read = [i \in 1..n |-> item[meta.ver][Plus(Plus(meta.left, s), i - 1)]]
  BY DEF ReadFrom
<1>7. read \in [1..n -> Values] /\ \A i \in 1..n : read[i] = Elements[s + i]
  BY <1>5, <1>6
<1> HIDE DEF part, read
<1>8. read \in Seq(Values) /\ Len(read) = n
  BY <1>7
<1>9. read = part
  BY <1>4, <1>7, <1>8, SeqEqual
<1>10. \A i \in 1..n : part[i] # None
  BY <1>4, <1>5, ListAssumption
<1> QED
  BY <1>4, <1>9, <1>10 DEF part, read

\* The range a command names, clamped to the list.
LEMMA RangeFacts ==
    ASSUME NEW n \in Nat, NEW start \in Int, NEW end \in Int
    PROVE  LET s == RangeStart(start, n)
               e == RangeEnd(end, n)
               last == IF e >= n THEN n - 1 ELSE e
           IN  /\ s \in Nat /\ e \in Int /\ last \in Int
               /\ EmptyRange(s, e, n) => s > last
               /\ ~EmptyRange(s, e, n) => s <= last /\ last < n
BY DEF RangeStart, RangeEnd, EmptyRange

LEMMA BetweenIs ==
    ASSUME NEW start \in Int, NEW end \in Int, NEW n \in Nat, n = Len(Elements)
    PROVE  LET s == RangeStart(start, n)
               e == RangeEnd(end, n)
               last == IF e >= n THEN n - 1 ELSE e
           IN  IsAList!Between(start, end) = SubSeq(Elements, s + 1, last + 1)
BY DEF IsAList!Between, IsAList!Pos, RangeStart, RangeEnd

LEMMA LRangeReads ==
    ASSUME IndInv, NEW start \in Indices, NEW end \in Indices
    PROVE  LRange(start, end).vals = IsAList!Between(start, end)
<1> DEFINE n == IF Found THEN meta.len ELSE 0
           s == RangeStart(start, n)
           e == RangeEnd(end, n)
           last == IF e >= n THEN n - 1 ELSE e
<1>1. start \in Int /\ end \in Int
  BY ListAssumption
<1>2. n \in Nat /\ n = Len(Elements)
  BY LiveElements, NoElements, Widths
<1>3. /\ s \in Nat /\ e \in Int /\ last \in Int
      /\ EmptyRange(s, e, n) => s > last
      /\ ~EmptyRange(s, e, n) => s <= last /\ last < n
  <2> HIDE DEF n
  <2> QED
    BY <1>1, <1>2, RangeFacts
<1>4. IsAList!Between(start, end) = SubSeq(Elements, s + 1, last + 1)
  <2> HIDE DEF n
  <2> QED
    BY <1>1, <1>2, BetweenIs
<1>5. CASE ~Found
  <2>1. EmptyRange(s, e, n)
    BY <1>3, <1>5 DEF EmptyRange
  <2>2. last + 1 < s + 1 /\ s + 1 \in Int /\ last + 1 \in Int
    BY <1>3, <2>1
  <2>3. LRange(start, end).vals = <<>>
    BY <1>5 DEF LRange, Answer
  <2> QED
    BY <1>4, <2>2, <2>3, SubSeqEmpty
<1>6. CASE Found /\ EmptyRange(s, e, n)
  <2>2. last + 1 < s + 1 /\ s + 1 \in Int /\ last + 1 \in Int
    BY <1>3, <1>6
  <2>3. LRange(start, end).vals = <<>>
    BY <1>6 DEF LRange, Answer
  <2> QED
    BY <1>4, <2>2, <2>3, SubSeqEmpty
<1>7. CASE Found /\ ~EmptyRange(s, e, n)
  <2> DEFINE part == SubSeq(Elements, s + 1, last + 1)
             k == last - s + 1
  <2>1. LRange(start, end) = Complete(ReadFrom(meta, GetSeqByIndex(s, meta), k))
    BY <1>7 DEF LRange
  <2>2. n = meta.len
    BY <1>7
  <2> HIDE DEF n, s, e, last
  <2>3. k \in Nat /\ s + k = last + 1 /\ s + k <= meta.len /\ s \in 0..meta.len - 1
    BY <1>2, <1>3, <1>7, <2>2
  <2>4. GetSeqByIndex(s, meta) = Plus(meta.left, s)
    <3>1. meta \in MetaVal /\ meta.left \in Seqs /\ Plus(meta.left, meta.len) = Plus(meta.right, 1)
      BY <1>7, LiveShape DEF Shape, MetaVal
    <3>2. GetSeqByIndex(s, meta) \in Seqs /\ Steps(meta.left, GetSeqByIndex(s, meta)) = s
      <4>1. s \in Int /\ -meta.len <= s /\ s < meta.len /\ s >= 0
        BY <1>2, <2>2, <2>3
      <4> QED
        BY <3>1, <4>1, SeqByIndexInside
    <3> QED
      BY <3>1, <3>2, Counting
  <2> HIDE DEF k
  <2>5. /\ ReadFrom(meta, Plus(meta.left, s), k) = part
        /\ \A i \in 1..k : part[i] # None
        /\ part \in Seq(Values) /\ Len(part) = k
    <3> DEFINE t == s + k
    <3>1. /\ ReadFrom(meta, Plus(meta.left, s), k) = SubSeq(Elements, s + 1, t)
          /\ \A i \in 1..k : SubSeq(Elements, s + 1, t)[i] # None
          /\ SubSeq(Elements, s + 1, t) \in Seq(Values)
          /\ Len(SubSeq(Elements, s + 1, t)) = k
      BY <1>3, <1>7, <2>3, ReadFromIs
    <3>2. t = last + 1
      BY <2>3
    <3> HIDE DEF t
    <3> QED
      BY <3>1, <3>2
  <2> HIDE DEF part
  <2>6. Complete(part) = Answer(1, part)
    BY <2>5 DEF Complete
  <2> QED
    BY <1>4, <2>1, <2>4, <2>5, <2>6 DEF part, Answer
<1> QED
  BY <1>5, <1>6, <1>7

LEMMA DumpReads == ASSUME IndInv PROVE DumpList = Answer(IF Found THEN 1 ELSE 0, Elements)
<1>1. CASE ~Found
  BY <1>1, NoElements DEF DumpList
<1>2. CASE Found
  <2>1. meta \in MetaVal /\ meta.left \in Seqs /\ meta.right \in Seqs /\ meta.len \in Nat
    BY <1>2, LiveShape, Widths DEF MetaVal
  <2>2. Plus(meta.left, 0) = meta.left
    BY <2>1, Widths DEF Plus, Seqs, UINT64_MAX
  <2>3. GetSeqByIndex(0, meta) = meta.left
    BY <2>1, <2>2, Widths DEF GetSeqByIndex, Seqs, UINT64_MAX
  <2>4. Elements \in Seq(Values) /\ Len(Elements) = meta.len
    BY <1>2, LiveElements
  <2>5. Elements = ReadFrom(meta, meta.left, meta.len)
    BY <1>2 DEF Elements
  <2>6. DOMAIN Elements = 1..meta.len /\ \A i \in 1..meta.len : Elements[i] # None
    BY <2>4, ListAssumption
  <2>7. Complete(Elements) = Answer(1, Elements)
    BY <2>6 DEF Complete
  <2> QED
    BY <1>2, <2>3, <2>5, <2>7 DEF DumpList
<1> QED
  BY <1>1, <1>2

\* LRANGE, LINDEX, LLEN and DUMP compute numbers instead of searching, and find
\* what a sequence would: for lists of any length, ends that have wrapped or
\* not, and every int64 index, those outside of the list included.
THEOREM ReadsAreRight == Spec => []ReadsAsAList
<1>1. IndInv => ReadsAsAList
  <2> SUFFICES ASSUME IndInv PROVE ReadsAsAList
    OBVIOUS
  <2>1. LLen = Len(Elements)
    BY LiveElements, NoElements DEF LLen
  <2> QED
    BY <2>1, LIndexReads, LRangeReads, DumpReads DEF ReadsAsAList
<1> QED
  BY <1>1, InitInv, NextInv, PTL DEF Spec

----------------------------------------------------------------------------
(* Commands, on the sequence *)

LEMMA CommitElements ==
    ASSUME IndInv, NEW m \in MetaVal, NEW f \in Records, NEW n, NEW vs, Commit(m, f, n, vs)
    PROVE  /\ Elements' = ElementsOf(m, f) /\ Found' = (m.st = "live")
           /\ out' = IsAList!Answer(n, vs)
<1>1. meta' = m /\ item'[m.ver] = f /\ out' = IsAList!Answer(n, vs)
  BY DEF Commit, IndInv, TypeOK, MetaVal, Answer, IsAList!Answer
<1> QED
  BY <1>1 DEF Elements, ElementsOf, ReadFrom, Found

LEMMA ReplyElements == ASSUME NEW n, NEW vs, Reply(n, vs) PROVE IsAList!Reply(n, vs)
<1>1. meta' = meta /\ item' = item /\ out' = IsAList!Answer(n, vs)
  BY DEF Reply, Answer, IsAList!Answer
<1>2. Elements' = Elements /\ Found' = Found
  BY <1>1 DEF Elements, ReadFrom, Found
<1> QED
  BY <1>1, <1>2 DEF IsAList!Reply

\* The numbers of a list that has grown, seen from the end it grew at.
LEMMA HeadNumbers ==
    ASSUME NEW l \in Seqs, NEW len \in 0..MaxLength, NEW n \in 0..MaxLength,
           len + n <= MaxLength, NEW i \in 1..(len + n)
    PROVE  LET q == Plus(Minus(l, n), i - 1)
           IN  /\ q \in Seqs
               /\ i <= n => Steps(q, l) = n - i + 1
               /\ i > n => q = Plus(l, (i - n) - 1) /\ Steps(q, l) \notin 1..n
BY Widths DEF Steps, Minus, Plus, Seqs, UINT64_MAX

LEMMA TailNumbers ==
    ASSUME NEW l \in Seqs, NEW r \in Seqs, NEW len \in 0..MaxLength, NEW n \in 0..MaxLength,
           len + n <= MaxLength, Plus(l, len) = Plus(r, 1), NEW i \in 1..(len + n)
    PROVE  LET q == Plus(l, i - 1)
           IN  /\ q \in Seqs
               /\ i <= len => Steps(r, q) \notin 1..n
               /\ i > len => Steps(r, q) = i - len
BY Widths DEF Steps, Plus, Seqs, UINT64_MAX

LEMMA PayloadSeq ==
    ASSUME NEW vs \in Payloads \cup {<<>>}
    PROVE  vs \in Seq(Values) /\ Len(vs) \in 0..MaxLength /\ (vs \in Payloads => Len(vs) # 0)
<1>1. CASE vs = <<>>
  <2>1. vs \notin Payloads
    <3> SUFFICES ASSUME NEW n \in 1..MaxPush, vs \in [1..n -> Values] PROVE FALSE
      BY DEF Payloads
    <3> QED
      BY <1>1, ListAssumption
  <2> QED
    BY <1>1, <2>1, ListAssumption
<1>2. CASE vs \in Payloads
  <2>1. PICK n \in 1..MaxPush : vs \in [1..n -> Values]
    BY <1>2 DEF Payloads
  <2> QED
    BY <2>1, ListAssumption
<1> QED
  BY <1>1, <1>2

LEMMA ReverseFacts ==
    ASSUME NEW S, NEW vs \in Seq(S)
    PROVE  /\ IsAList!Reverse(vs) \in Seq(S) /\ Len(IsAList!Reverse(vs)) = Len(vs)
           /\ \A i \in 1..Len(vs) : IsAList!Reverse(vs)[i] = vs[Len(vs) - i + 1]
<1>1. \A i \in 1..Len(vs) : Len(vs) - i + 1 \in 1..Len(vs) /\ vs[Len(vs) - i + 1] \in S
  OBVIOUS
<1>2. IsAList!Reverse(vs) \in [1..Len(vs) -> S]
  BY <1>1 DEF IsAList!Reverse
<1> QED
  BY <1>1, <1>2 DEF IsAList!Reverse

\* Pushed at the head, the values come out in reverse before the others.
LEMMA HeadElements ==
    ASSUME IndInv, NEW lv \in MetaVal, lv.st = "live", NEW vs \in Payloads \cup {<<>>},
           Shape(lv, item[lv.ver]), lv.len + Len(vs) <= MaxLength, NEW m,
           m = [lv EXCEPT !.len = @ + Len(vs), !.left = Minus(@, Len(vs))]
    PROVE  ElementsOf(m, Pushed(lv, "head", vs))
             = IsAList!Reverse(vs) \o ElementsOf(lv, item[lv.ver])
<1> DEFINE n == Len(vs)
           f == Pushed(lv, "head", vs)
           base == ElementsOf(lv, item[lv.ver])
           new == ElementsOf(m, f)
           front == IsAList!Reverse(vs)
<1>1. n \in 0..MaxLength /\ vs \in Seq(Values)
  BY PayloadSeq
<1>2. lv.len \in 0..MaxLength /\ lv.left \in Seqs /\ item[lv.ver] \in Records
  BY DEF MetaVal, IndInv, TypeOK, Records
<1>3. m \in MetaVal /\ Shape(m, f) /\ f \in Records
  BY HeadShape, PushedType
<1>4. m.len = lv.len + n /\ m.left = Minus(lv.left, n) /\ m.st = "live"
  BY DEF MetaVal
<1>5. /\ new \in Seq(Values) /\ Len(new) = lv.len + n
      /\ \A i \in 1..(lv.len + n) : new[i] = f[Plus(Minus(lv.left, n), i - 1)]
  <2> HIDE DEF f, n
  <2>1. /\ new \in Seq(Values) /\ Len(new) = m.len
        /\ \A i \in 1..m.len : new[i] = f[Plus(m.left, i - 1)]
    BY <1>3, <1>4, ElementsOfFacts
  <2> HIDE DEF new
  <2> QED
    BY <1>4, <2>1
<1>6. /\ base \in Seq(Values) /\ Len(base) = lv.len
      /\ \A i \in 1..lv.len : base[i] = item[lv.ver][Plus(lv.left, i - 1)]
  BY <1>2, ElementsOfFacts
<1>7. /\ front \in Seq(Values) /\ Len(front) = n
      /\ \A i \in 1..n : front[i] = vs[n - i + 1]
  BY <1>1, ReverseFacts
<1>8. \A s \in Seqs : f[s] = IF Steps(s, lv.left) \in 1..n THEN vs[Steps(s, lv.left)] ELSE item[lv.ver][s]
  BY DEF Pushed
<1> HIDE DEF f, base, new, front
<1>9. /\ front \o base \in Seq(Values) /\ Len(front \o base) = n + lv.len
      /\ \A i \in 1..(n + lv.len) : (front \o base)[i] = IF i <= n THEN front[i] ELSE base[i - n]
  BY <1>6, <1>7, ConcatProperties
<1>10. n + lv.len = lv.len + n
  BY <1>1, <1>2
<1>11. ASSUME NEW i \in 1..(lv.len + n)
       PROVE  new[i] = (front \o base)[i]
  <2> DEFINE q == Plus(Minus(lv.left, n), i - 1)
  <2>1. /\ q \in Seqs
        /\ i <= n => Steps(q, lv.left) = n - i + 1
        /\ i > n => q = Plus(lv.left, (i - n) - 1) /\ Steps(q, lv.left) \notin 1..n
    BY <1>1, <1>2, HeadNumbers
  <2>2. new[i] = f[q]
    BY <1>5
  <2> HIDE DEF q
  <2>3. CASE i <= n
    <3>1. n - i + 1 \in 1..n /\ i \in 1..n
      BY <1>1, <1>2, <2>3
    <3>2. f[q] = vs[n - i + 1]
      BY <1>8, <2>1, <2>3, <3>1
    <3> QED
      BY <1>7, <1>9, <1>10, <2>2, <2>3, <3>1, <3>2
  <2>4. CASE i > n
    <3>1. i - n \in 1..lv.len /\ ~(i <= n)
      BY <1>1, <1>2, <2>4
    <3>2. f[q] = item[lv.ver][q]
      BY <1>8, <2>1, <2>4
    <3> QED
      BY <1>6, <1>9, <1>10, <2>1, <2>2, <2>4, <3>1, <3>2
  <2>5. i <= n \/ i > n
    BY <1>1, <1>2
  <2> QED
    BY <2>3, <2>4, <2>5
<1>12. new = front \o base
  BY <1>5, <1>9, <1>10, <1>11, SeqEqual
<1> QED
  BY <1>12 DEF new, front, base, f

LEMMA TailElements ==
    ASSUME IndInv, NEW lv \in MetaVal, lv.st = "live", NEW vs \in Payloads \cup {<<>>},
           Shape(lv, item[lv.ver]), lv.len + Len(vs) <= MaxLength, NEW m,
           m = [lv EXCEPT !.len = @ + Len(vs), !.right = Plus(@, Len(vs))]
    PROVE  ElementsOf(m, Pushed(lv, "tail", vs)) = ElementsOf(lv, item[lv.ver]) \o vs
<1> DEFINE n == Len(vs)
           f == Pushed(lv, "tail", vs)
           base == ElementsOf(lv, item[lv.ver])
           new == ElementsOf(m, f)
<1>1. n \in 0..MaxLength /\ vs \in Seq(Values)
  BY PayloadSeq
<1>2. /\ lv.len \in 0..MaxLength /\ lv.left \in Seqs /\ lv.right \in Seqs
      /\ item[lv.ver] \in Records /\ Plus(lv.left, lv.len) = Plus(lv.right, 1)
  BY DEF MetaVal, IndInv, TypeOK, Records, Shape
<1>3. m \in MetaVal /\ Shape(m, f) /\ f \in Records
  BY TailShape, PushedType
<1>4. m.len = lv.len + n /\ m.left = lv.left /\ m.st = "live"
  BY DEF MetaVal
<1>5. /\ new \in Seq(Values) /\ Len(new) = lv.len + n
      /\ \A i \in 1..(lv.len + n) : new[i] = f[Plus(lv.left, i - 1)]
  <2> HIDE DEF f, n
  <2>1. /\ new \in Seq(Values) /\ Len(new) = m.len
        /\ \A i \in 1..m.len : new[i] = f[Plus(m.left, i - 1)]
    BY <1>3, <1>4, ElementsOfFacts
  <2> HIDE DEF new
  <2> QED
    BY <1>4, <2>1
<1>6. /\ base \in Seq(Values) /\ Len(base) = lv.len
      /\ \A i \in 1..lv.len : base[i] = item[lv.ver][Plus(lv.left, i - 1)]
  BY <1>2, ElementsOfFacts
<1>7. \A s \in Seqs : f[s] = IF Steps(lv.right, s) \in 1..n THEN vs[Steps(lv.right, s)] ELSE item[lv.ver][s]
  BY DEF Pushed
<1> HIDE DEF f, base, new
<1>8. /\ base \o vs \in Seq(Values) /\ Len(base \o vs) = lv.len + n
      /\ \A i \in 1..(lv.len + n) : (base \o vs)[i] = IF i <= lv.len THEN base[i] ELSE vs[i - lv.len]
  BY <1>1, <1>6, ConcatProperties
<1>9. ASSUME NEW i \in 1..(lv.len + n)
      PROVE  new[i] = (base \o vs)[i]
  <2> DEFINE q == Plus(lv.left, i - 1)
  <2>1. /\ q \in Seqs
        /\ i <= lv.len => Steps(lv.right, q) \notin 1..n
        /\ i > lv.len => Steps(lv.right, q) = i - lv.len
    BY <1>1, <1>2, TailNumbers
  <2>2. new[i] = f[q] /\ (i \in 1..lv.len => base[i] = item[lv.ver][q])
    BY <1>5, <1>6
  <2> HIDE DEF q
  <2>3. CASE i <= lv.len
    <3>1. i \in 1..lv.len
      BY <1>1, <1>2, <2>3
    <3> QED
      BY <1>7, <1>8, <2>1, <2>2, <2>3, <3>1
  <2>4. CASE i > lv.len
    <3>1. i - lv.len \in 1..n /\ ~(i <= lv.len)
      BY <1>1, <1>2, <2>4
    <3> QED
      BY <1>7, <1>8, <2>1, <2>2, <2>4, <3>1
  <2>5. i <= lv.len \/ i > lv.len
    BY <1>1, <1>2
  <2> QED
    BY <2>3, <2>4, <2>5
<1>10. new = base \o vs
  BY <1>5, <1>8, <1>9, SeqEqual
<1> QED
  BY <1>10 DEF new, base, f

LEMMA ShapeElements ==
    ASSUME IndInv, NEW m \in MetaVal, m.st = "live", NEW f \in Records, Shape(m, f),
           NEW n, NEW vs, Commit(m, f, n, vs), NEW l, ElementsOf(m, f) = l, m.len # 0
    PROVE  IsAList!Become(l, n, vs)
<1>1. Len(l) = m.len /\ l \in Seq(Values)
  BY ElementsOfFacts
<1>2. l # <<>>
  BY <1>1
<1>3. Elements' = l /\ Found' = TRUE /\ out' = IsAList!Answer(n, vs)
  BY CommitElements
<1> QED
  BY <1>2, <1>3 DEF IsAList!Become

LEMMA DoListPushElements ==
    ASSUME IndInv, NEW lv \in MetaVal, lv.st = "live", Shape(lv, item[lv.ver]),
           ElementsOf(lv, item[lv.ver]) = Elements,
           NEW end \in {"head", "tail"}, NEW vs \in Payloads, DoListPush(lv, end, vs)
    PROVE  /\ Len(Elements) + Len(vs) <= MaxLength
           /\ IsAList!Become(IF end = "head" THEN IsAList!Reverse(vs) \o Elements ELSE Elements \o vs,
                             Len(Elements) + Len(vs), <<>>)
<1> DEFINE m == [lv EXCEPT !.len = @ + Len(vs),
                           !.left = IF end = "head" THEN Minus(@, Len(vs)) ELSE @,
                           !.right = IF end = "tail" THEN Plus(@, Len(vs)) ELSE @]
           new == IF end = "head" THEN IsAList!Reverse(vs) \o Elements ELSE Elements \o vs
<1>1. lv.len + Len(vs) <= MaxLength /\ Commit(m, Pushed(lv, end, vs), m.len, <<>>)
  BY DEF DoListPush
<1>2. m.st = "live" /\ m.len = lv.len + Len(vs)
  BY DEF MetaVal
<1>3. Pushed(lv, end, vs) \in Records
  BY PushedType
<1>4. m \in MetaVal /\ Shape(m, Pushed(lv, end, vs)) /\ ElementsOf(m, Pushed(lv, end, vs)) = new
  <2>1. CASE end = "head"
    <3>1. m = [lv EXCEPT !.len = @ + Len(vs), !.left = Minus(@, Len(vs))]
      BY <2>1 DEF MetaVal
    <3> HIDE DEF m
    <3>2. m \in MetaVal /\ Shape(m, Pushed(lv, "head", vs))
      BY <1>1, <3>1, HeadShape
    <3>3. ElementsOf(m, Pushed(lv, "head", vs)) = IsAList!Reverse(vs) \o ElementsOf(lv, item[lv.ver])
      BY <1>1, <3>1, HeadElements
    <3> QED
      BY <2>1, <3>2, <3>3
  <2>2. CASE end = "tail"
    <3>1. m = [lv EXCEPT !.len = @ + Len(vs), !.right = Plus(@, Len(vs))]
      BY <2>2 DEF MetaVal
    <3> HIDE DEF m
    <3>2. m \in MetaVal /\ Shape(m, Pushed(lv, "tail", vs))
      BY <1>1, <3>1, TailShape
    <3>3. ElementsOf(m, Pushed(lv, "tail", vs)) = ElementsOf(lv, item[lv.ver]) \o vs
      BY <1>1, <3>1, TailElements
    <3> QED
      BY <2>2, <3>2, <3>3
  <2> QED
    BY <2>1, <2>2
<1>5. lv.len \in 0..MaxLength /\ Len(vs) \in 0..MaxLength /\ Len(vs) # 0
  BY PayloadSeq DEF MetaVal
<1>6. item[lv.ver] \in Records
  BY DEF MetaVal, IndInv, TypeOK, Records
<1>7. Len(Elements) = lv.len
  BY <1>6, ElementsOfFacts
<1>8. m.len # 0 /\ m.len = Len(Elements) + Len(vs)
  BY <1>2, <1>5, <1>7
<1> HIDE DEF m, new
<1>9. IsAList!Become(new, m.len, <<>>)
  BY <1>1, <1>2, <1>3, <1>4, <1>8, ShapeElements
<1> QED
  BY <1>1, <1>7, <1>8, <1>9 DEF new

LEMMA PushIsPush ==
    ASSUME IndInv, NEW end \in {"head", "tail"}, NEW vs \in Payloads
    PROVE  /\ Push(end, vs) => IsAList!Push(end, vs, FALSE)
           /\ PushX(end, vs) => IsAList!Push(end, vs, TRUE)
<1>1. ASSUME Found, DoListPush(meta, end, vs), NEW x \in BOOLEAN
      PROVE  IsAList!Push(end, vs, x)
  <2>1. meta \in MetaVal /\ meta.st = "live" /\ Shape(meta, item[meta.ver])
    BY <1>1, LiveShape
  <2> QED
    BY <1>1, <2>1, ElementsIs, DoListPushElements DEF IsAList!Push
<1>2. ASSUME ~Found, CanBeVersioned, DoListPush(GetListMetaVal, end, vs)
      PROVE  IsAList!Push(end, vs, FALSE)
  <2> DEFINE v == IF meta.st = "absent" THEN 0 ELSE meta.ver + 1
  <2>1. meta \in MetaVal /\ meta.st \in {"absent", "dead"}
    BY <1>2 DEF IndInv, TypeOK, Found, MetaVal
  <2>2. v \in Versions /\ (v > meta.ver \/ meta.st = "absent")
    BY <1>2, <2>1, ListAssumption DEF CanBeVersioned, Versions, MetaVal
  <2>3. GetListMetaVal = Fresh(v)
    BY <2>1 DEF GetListMetaVal
  <2> HIDE DEF v
  <2>4. Fresh(v) \in MetaVal /\ Fresh(v).st = "live" /\ Shape(Fresh(v), item[v]) /\ Fresh(v).ver = v
        /\ Fresh(v).len = 0
    BY <2>2, FreshShape DEF Fresh
  <2>5. ElementsOf(Fresh(v), item[v]) = Elements
    <3>1. item[v] \in Records
      BY <2>2 DEF IndInv, TypeOK, Records
    <3>2. ElementsOf(Fresh(v), item[v]) \in Seq(Values) /\ Len(ElementsOf(Fresh(v), item[v])) = 0
      BY <2>4, <3>1, ElementsOfFacts
    <3> QED
      BY <1>2, <3>2, NoElements, EmptySeq
  <2> QED
    BY <1>2, <2>3, <2>4, <2>5, DoListPushElements DEF IsAList!Push
<1>3. Found => GetListMetaVal = meta
  BY DEF Found, GetListMetaVal
<1>4. ASSUME ~Found, Reply(0, <<>>)
      PROVE  IsAList!Push(end, vs, TRUE)
  <2>1. Len(Elements) + Len(vs) <= MaxLength
    BY <1>4, NoElements, PayloadSeq
  <2> QED
    BY <1>4, <2>1, ReplyElements DEF IsAList!Push
<1> QED
  BY <1>1, <1>2, <1>3, <1>4 DEF Push, PushX

\* A list less a elements at its head and b at its tail, whatever number it is left at.
LEMMA ShrinkElements ==
    ASSUME IndInv, Found, NEW a \in 0..meta.len, NEW b \in 0..meta.len, a + b <= meta.len,
           NEW f \in Records, Remain(f, a, b), \A s \in Seqs : f[s] \in {None, item[meta.ver][s]},
           NEW n, NEW vs,
           Commit(IF Shrunk(a, b).len = 0 THEN Dead(meta.ver) ELSE Shrunk(a, b), f, n, vs)
    PROVE  IsAList!Become(SubSeq(Elements, a + 1, meta.len - b), n, vs)
<1> DEFINE m == Shrunk(a, b)
           d == Dead(meta.ver)
           part == SubSeq(Elements, a + 1, meta.len - b)
<1>1. /\ meta \in MetaVal /\ meta.ver \in Versions /\ meta.left \in Seqs /\ meta.len \in 0..MaxLength
  BY LiveShape DEF MetaVal
<1>2. m \in MetaVal /\ m.st = "live" /\ Shape(m, f)
  BY ShrinkShape
<1>3. m.len = meta.len - (a + b) /\ m.left = Plus(meta.left, a)
  BY <1>1 DEF MetaVal, Shrunk
<1>4. d \in MetaVal /\ d.st = "dead"
  BY <1>1, DeadType
<1> HIDE DEF m, d
<1>5. CASE m.len = 0
  <2>1. Elements' = <<>> /\ Found' = FALSE /\ out' = IsAList!Answer(n, vs)
    <3>1. Commit(d, f, n, vs)
      BY <1>5 DEF m, d
    <3>2. ElementsOf(d, f) = <<>>
      BY <1>4 DEF ElementsOf
    <3> QED
      BY <1>4, <3>1, <3>2, CommitElements
  <2>2. meta.len - b < a + 1 /\ a + 1 \in Int /\ meta.len - b \in Int
    BY <1>1, <1>3, <1>5
  <2>3. part = <<>>
    BY <2>2, SubSeqEmpty
  <2> QED
    BY <2>1, <2>3 DEF IsAList!Become
<1>6. CASE m.len # 0
  <2> DEFINE k == meta.len - (a + b)
  <2>1. a \in Nat /\ k \in Nat /\ a + k <= meta.len /\ a + k = meta.len - b
    BY <1>1
  <2> HIDE DEF k
  <2>2. part = ReadFrom(meta, Plus(meta.left, a), k)
    BY <2>1, ReadFromIs
  <2>3. part = [i \in 1..k |-> item[meta.ver][Plus(Plus(meta.left, a), i - 1)]]
    BY <2>2 DEF ReadFrom
  <2>4. ASSUME NEW i \in 1..m.len
        PROVE  f[Plus(m.left, i - 1)] = item[meta.ver][Plus(m.left, i - 1)]
    <3>1. m.left \in Seqs /\ i - 1 \in 0..UINT64_MAX /\ i - 1 < m.len
      BY <1>2, <2>4, Widths DEF MetaVal
    <3>2. Plus(m.left, i - 1) \in Seqs /\ Steps(m.left, Plus(m.left, i - 1)) = i - 1
      BY <3>1, Counting
    <3>3. f[Plus(m.left, i - 1)] # None
      BY <1>2, <3>1, <3>2 DEF Shape
    <3> QED
      BY <3>2, <3>3
  <2>5. ElementsOf(m, f) = [i \in 1..m.len |-> f[Plus(m.left, i - 1)]]
    BY <1>2 DEF ElementsOf
  <2>6. ElementsOf(m, f) = part
    BY <1>3, <2>3, <2>4, <2>5 DEF k
  <2>7. Commit(m, f, n, vs)
    BY <1>6 DEF m
  <2> HIDE DEF part
  <2>8. IsAList!Become(part, n, vs)
    BY <1>2, <1>6, <2>6, <2>7, ShapeElements
  <2> QED
    BY <2>8 DEF part
<1> QED
  BY <1>5, <1>6

LEMMA PopIsPop ==
    ASSUME IndInv
    PROVE  (LPop => IsAList!Pop("head")) /\ (RPop => IsAList!Pop("tail"))
<1>1. CASE ~Found \/ meta.len = 0
  <2>1. Elements = <<>>
    <3>1. CASE ~Found
      BY <3>1, NoElements
    <3>2. CASE Found /\ meta.len = 0
      BY <3>2, LiveElements, EmptySeq
    <3> QED
      BY <1>1, <3>1, <3>2
  <2> QED
    BY <1>1, <2>1, ReplyElements DEF LPop, RPop, IsAList!Pop
<1>2. CASE Found /\ meta.len # 0
  <2>1. /\ meta \in MetaVal /\ meta.left \in Seqs /\ meta.right \in Seqs /\ meta.len \in 1..MaxLength
        /\ Plus(meta.left, meta.len) = Plus(meta.right, 1)
    BY <1>2, LiveShape, Widths DEF MetaVal, Shape
  <2>2. /\ Elements \in Seq(Values) /\ Len(Elements) = meta.len
        /\ \A i \in 1..meta.len : Elements[i] = item[meta.ver][Plus(meta.left, i - 1)]
    BY <1>2, LiveElements
  <2>3. Elements # <<>>
    BY <2>1, <2>2
  <2>4. /\ Plus(meta.left, 0) = meta.left /\ Minus(meta.right, 0) = meta.right
        /\ Plus(meta.left, meta.len - 1) = meta.right
    <3>1. Plus(meta.left, 0) = meta.left /\ Minus(meta.right, 0) = meta.right
      BY <2>1, Widths DEF Plus, Minus, Seqs, UINT64_MAX
    <3>2. ASSUME NEW l \in Seqs, NEW r \in Seqs, NEW n \in 1..MaxLength, Plus(l, n) = Plus(r, 1)
          PROVE  Plus(l, n - 1) = r
      BY <3>2, Widths DEF Plus, Seqs, UINT64_MAX
    <3> QED
      BY <2>1, <3>1, <3>2
  <2>5. /\ Elements[1] = item[meta.ver][meta.left] /\ Elements[1] # None
        /\ Elements[meta.len] = item[meta.ver][meta.right] /\ Elements[meta.len] # None
    <3>1. 1 \in 1..meta.len /\ meta.len \in 1..meta.len /\ 1 - 1 = 0
      BY <2>1
    <3>2. Elements[1] \in Values /\ Elements[meta.len] \in Values
      BY <2>2, <3>1
    <3>3. Elements[1] = item[meta.ver][Plus(meta.left, 0)]
      BY <2>2, <3>1
    <3>4. Elements[meta.len] = item[meta.ver][Plus(meta.left, meta.len - 1)]
      BY <2>2, <3>1
    <3> QED
      BY <2>4, <3>2, <3>3, <3>4, ListAssumption
  <2>6. ASSUME LPop PROVE IsAList!Pop("head")
    <3> DEFINE f == [item[meta.ver] EXCEPT ![meta.left] = None]
    <3>1. f \in Records /\ Remain(f, 1, 0) /\ 1 \in 0..meta.len /\ 0 \in 0..meta.len /\ 1 + 0 <= meta.len
      BY <1>2, PopRecords
    <3>2. Shrunk(1, 0) = [meta EXCEPT !.len = @ - 1, !.left = Plus(@, 1), !.right = @]
      <4>1. 1 + 0 = 1
        OBVIOUS
      <4> QED
        BY <2>4, <4>1, Zenon DEF Shrunk
    <3>3. Shrunk(1, 0).len = meta.len - 1
      BY <2>1, <3>2 DEF MetaVal
    <3>4. Commit(IF Shrunk(1, 0).len = 0 THEN Dead(meta.ver) ELSE Shrunk(1, 0), f, 0, <<Elements[1]>>)
      BY <1>2, <2>5, <2>6, <3>2, <3>3 DEF LPop, DoListPop
    <3>5. \A s \in Seqs : f[s] \in {None, item[meta.ver][s]}
      BY <1>2, LiveShape DEF Records
    <3> HIDE DEF f
    <3>6. IsAList!Become(SubSeq(Elements, 1 + 1, meta.len - 0), 0, <<Elements[1]>>)
      BY <1>2, <3>1, <3>4, <3>5, ShrinkElements
    <3>7. Tail(Elements) = SubSeq(Elements, 2, meta.len) /\ 1 + 1 = 2 /\ meta.len - 0 = meta.len
      BY <2>1, <2>2, <2>3, TailIsSubSeq
    <3>8. IsAList!Become(Tail(Elements), 0, <<Elements[1]>>)
      BY <3>6, <3>7
    <3>9. Head(Elements) = Elements[1]
      BY <2>2, <2>3
    <3> QED
      BY <2>3, <3>8, <3>9 DEF IsAList!Pop
  <2>7. ASSUME RPop PROVE IsAList!Pop("tail")
    <3> DEFINE f == [item[meta.ver] EXCEPT ![meta.right] = None]
    <3>1. f \in Records /\ Remain(f, 0, 1) /\ 1 \in 0..meta.len /\ 0 \in 0..meta.len /\ 0 + 1 <= meta.len
      BY <1>2, PopRecords
    <3>2. Shrunk(0, 1) = [meta EXCEPT !.len = @ - 1, !.left = @, !.right = Minus(@, 1)]
      <4>1. 0 + 1 = 1
        OBVIOUS
      <4> QED
        BY <2>4, <4>1, Zenon DEF Shrunk
    <3>3. Shrunk(0, 1).len = meta.len - 1
      BY <2>1, <3>2 DEF MetaVal
    <3>4. Commit(IF Shrunk(0, 1).len = 0 THEN Dead(meta.ver) ELSE Shrunk(0, 1), f, 0, <<Elements[meta.len]>>)
      BY <1>2, <2>5, <2>7, <3>2, <3>3 DEF RPop, DoListPop
    <3>5. \A s \in Seqs : f[s] \in {None, item[meta.ver][s]}
      BY <1>2, LiveShape DEF Records
    <3> HIDE DEF f
    <3>6. IsAList!Become(SubSeq(Elements, 0 + 1, meta.len - 1), 0, <<Elements[meta.len]>>)
      BY <1>2, <3>1, <3>4, <3>5, ShrinkElements
    <3>7. IsAList!Front(Elements) = SubSeq(Elements, 1, meta.len - 1) /\ 0 + 1 = 1
      BY <2>2 DEF IsAList!Front
    <3>8. IsAList!Become(IsAList!Front(Elements), 0, <<Elements[meta.len]>>)
      BY <3>6, <3>7
    <3>9. IsAList!Last(Elements) = Elements[meta.len]
      BY <2>2 DEF IsAList!Last
    <3> QED
      BY <2>3, <3>8, <3>9 DEF IsAList!Pop
  <2> QED
    BY <2>6, <2>7
<1> QED
  BY <1>1, <1>2

LEMMA SetIsSet ==
    ASSUME IndInv, NEW i \in Indices, NEW v \in Values, LSet(i, v)
    PROVE  IsAList!Set(i, v)
<1>1. i \in Int
  BY ListAssumption
<1>2. CASE ~Found
  BY <1>2, ReplyElements DEF LSet, IsAList!Set
<1>3. CASE Found
  <2> DEFINE p == IF i < 0 THEN meta.len + i ELSE i
             q == GetSeqByIndex(i, meta)
             f == [item[meta.ver] EXCEPT ![q] = v]
  <2>1. /\ meta \in MetaVal /\ meta.st = "live" /\ Shape(meta, item[meta.ver])
        /\ item[meta.ver] \in Records /\ meta.left \in Seqs /\ meta.len \in 0..MaxLength
    BY <1>3, LiveShape DEF MetaVal
  <2>2. meta.len < UINT64_MAX \div 2
    BY <2>1, Widths
  <2>3. IF i > meta.len - 1 \/ i < -meta.len THEN Reply(-1, <<>>) ELSE Commit(meta, f, 1, <<>>)
    BY <1>3, <2>2 DEF LSet
  <2>4. IsAList!Pos(i, Len(Elements)) = p /\ p \in Int
    BY <1>1, <1>3, <2>1, LiveElements DEF IsAList!Pos
  <2>5. /\ Elements \in Seq(Values) /\ Len(Elements) = meta.len
        /\ \A j \in 1..meta.len : Elements[j] = item[meta.ver][Plus(meta.left, j - 1)]
    BY <1>3, LiveElements
  <2>6. (i > meta.len - 1 \/ i < -meta.len) <=> p \notin 0..meta.len - 1
    BY <1>1, <2>1
  <2>7. q \in Seqs /\ (p \in 0..meta.len - 1 => q = Plus(meta.left, p))
    BY <1>3, SeqByIndex
  <2> HIDE DEF p, q
  <2>8. CASE p \notin 0..meta.len - 1
    BY <2>3, <2>4, <2>5, <2>6, <2>8, ReplyElements DEF IsAList!Set
  <2>9. CASE p \in 0..meta.len - 1
    <3> DEFINE new == [Elements EXCEPT ![p + 1] = v]
    <3>1. Commit(meta, f, 1, <<>>)
      BY <2>3, <2>6, <2>9
    <3>2. q = Plus(meta.left, p) /\ p + 1 \in 1..meta.len /\ p \in 0..UINT64_MAX
      BY <2>1, <2>4, <2>7, <2>9, Widths
    <3>3. Steps(meta.left, q) = p
      BY <2>1, <3>2, Counting
    <3>4. f \in Records /\ Shape(meta, f)
      <4>1. Steps(meta.left, q) < meta.len
        BY <2>1, <2>4, <2>9, <3>3
      <4>2. item[meta.ver][q] # None
        BY <2>1, <2>7, <4>1 DEF Shape
      <4>3. f \in Records /\ \A s \in Seqs : f[s] # None <=> item[meta.ver][s] # None
        BY <2>1, <2>7, <4>2, ListAssumption DEF Records
      <4> HIDE DEF f
      <4> QED
        BY <2>1, <4>3 DEF Shape
    <3>5. \A s \in Seqs : f[s] = IF s = q THEN v ELSE item[meta.ver][s]
      BY <2>1, <2>7 DEF Records
    <3> HIDE DEF f
    <3>6. /\ ElementsOf(meta, f) \in Seq(Values) /\ Len(ElementsOf(meta, f)) = meta.len
          /\ \A j \in 1..meta.len : /\ ElementsOf(meta, f)[j] = f[Plus(meta.left, j - 1)]
                                    /\ Plus(meta.left, j - 1) \in Seqs
      BY <2>1, <3>4, ElementsOfFacts
    <3>7. new \in Seq(Values) /\ Len(new) = meta.len
          /\ \A j \in 1..meta.len : new[j] = IF j = p + 1 THEN v ELSE Elements[j]
      BY <2>5, <3>2, ExceptSeq
    <3> HIDE DEF new
    <3>8. ASSUME NEW j \in 1..meta.len
          PROVE  ElementsOf(meta, f)[j] = new[j]
      <4>1. j - 1 \in 0..UINT64_MAX /\ (j = p + 1 <=> j - 1 = p)
        BY <2>1, <2>4, <3>8, Widths
      <4>2. Plus(meta.left, j - 1) = q <=> j = p + 1
        BY <2>1, <3>2, <3>3, <4>1, Counting, ZenonT(60)
      <4> QED
        BY <2>5, <3>5, <3>6, <3>7, <4>2
    <3>9. ElementsOf(meta, f) = new
      BY <3>6, <3>7, <3>8, SeqEqual
    <3>10. meta.len # 0
      BY <2>1, <2>4, <2>9
    <3>11. IsAList!Become(new, 1, <<>>)
      BY <2>1, <3>1, <3>4, <3>9, <3>10, ShapeElements
    <3> QED
      BY <1>3, <2>4, <2>5, <2>9, <3>11 DEF IsAList!Set, new
  <2> QED
    BY <2>8, <2>9
<1> QED
  BY <1>2, <1>3

LEMMA TrimIsTrim ==
    ASSUME IndInv, NEW start \in Indices, NEW end \in Indices, LTrim(start, end)
    PROVE  IsAList!Trim(start, end)
<1> DEFINE n == meta.len
           s == RangeStart(start, n)
           e == RangeEnd(end, n)
           all == EmptyRange(s, e, n)
           last == IF e >= n THEN n - 1 ELSE e
           l == IF all THEN n ELSE Steps(meta.left, GetSeqByIndex(s, meta))
           r == IF all THEN 0 ELSE Steps(GetSeqByIndex(last, meta), meta.right)
           f == [q \in Seqs |-> IF Steps(meta.left, q) < l \/ Steps(q, meta.right) < r
                                THEN None ELSE item[meta.ver][q]]
           m == Shrunk(l, r)
<1>1. CASE ~Found
  BY <1>1, ReplyElements DEF LTrim, IsAList!Trim
<1>2. CASE Found
  <2>1. Commit(IF m.len = 0 THEN Dead(meta.ver) ELSE m, f, 0, <<>>)
    BY <1>2 DEF LTrim, Shrunk
  <2>2. /\ meta \in MetaVal /\ Plus(meta.left, meta.len) = Plus(meta.right, 1)
        /\ item[meta.ver] \in Records /\ n \in 0..MaxLength /\ n \in Nat
    BY <1>2, LiveShape DEF MetaVal, Shape
  <2>3. start \in Int /\ end \in Int
    BY ListAssumption
  <2>4. /\ s \in Nat /\ e \in Int /\ last \in Int
        /\ all => s > last
        /\ ~all => s <= last /\ last < n
    <3> HIDE DEF n
    <3> QED
      BY <2>2, <2>3, RangeFacts
  <2>5. n = Len(Elements)
    BY <1>2, LiveElements
  <2>6. IsAList!Between(start, end) = SubSeq(Elements, s + 1, last + 1)
    <3> HIDE DEF n
    <3> QED
      BY <2>2, <2>3, <2>5, BetweenIs
  <2>7. /\ l \in 0..n /\ r \in 0..n /\ l + r <= n
        /\ IF all THEN l = n /\ r = 0 ELSE l = s /\ n - r = last + 1
    <3>1. CASE all
      BY <2>2, <3>1
    <3>2. CASE ~all
      <4>1. s \in 0..n - 1 /\ last \in 0..n - 1 /\ s <= last
        BY <2>2, <2>4, <3>2
      <4> HIDE DEF s, last
      <4>2. l = s /\ r = n - 1 - last
        BY <2>2, <3>2, <4>1, SeqByIndexInside
      <4> HIDE DEF l, r, all
      <4> QED
        BY <2>2, <3>2, <4>1, <4>2
    <3> QED
      BY <3>1, <3>2
  <2> HIDE DEF l, r
  <2>8. f \in Records /\ \A q \in Seqs : f[q] \in {None, item[meta.ver][q]}
    BY <2>2 DEF Records
  <2>9. Remain(f, l, r)
    BY DEF Remain
  <2> HIDE DEF f
  <2>10. IsAList!Become(SubSeq(Elements, l + 1, n - r), 0, <<>>)
    BY <1>2, <2>1, <2>7, <2>8, <2>9, ShrinkElements
  <2>11. SubSeq(Elements, l + 1, n - r) = SubSeq(Elements, s + 1, last + 1)
    <3> HIDE DEF s, last, all, n
    <3>1. CASE all
      <4>1. /\ n - r < l + 1 /\ last + 1 < s + 1
            /\ l + 1 \in Int /\ n - r \in Int /\ s + 1 \in Int /\ last + 1 \in Int
        BY <2>2, <2>4, <2>7, <3>1
      <4> QED
        BY <4>1, SubSeqEmpty
    <3>2. CASE ~all
      BY <2>7, <3>2
    <3> QED
      BY <3>1, <3>2
  <2> QED
    BY <1>2, <2>6, <2>10, <2>11 DEF IsAList!Trim
<1> QED
  BY <1>1, <1>2

LEMMA KillIsDelete ==
    ASSUME IndInv, Found, NEW n \in {0, -1}, Kill(n)
    PROVE  IsAList!Delete
<1>1. Found' = FALSE /\ Elements' = <<>> /\ out' = IsAList!Answer(n, <<>>)
  BY DEF Kill, Dead, Found, Elements, Answer, IsAList!Answer
<1>2. IsAList!Become(<<>>, n, <<>>)
  BY <1>1 DEF IsAList!Become
<1> QED
  BY <1>2 DEF IsAList!Delete

LEMMA DelIsDelete == ASSUME IndInv, Del PROVE IsAList!Delete
<1>1. CASE Found
  BY <1>1, KillIsDelete DEF Del
<1>2. CASE ~Found
  <2>1. IsAList!Reply(0, <<>>)
    BY <1>2, ReplyElements DEF Del
  <2>2. Elements' = <<>> /\ Found' = FALSE /\ out' = IsAList!Answer(0, <<>>)
    BY <1>2, <2>1, NoElements DEF IsAList!Reply, Found
  <2>3. IsAList!Become(<<>>, 0, <<>>)
    BY <2>2 DEF IsAList!Become
  <2> QED
    BY <2>3 DEF IsAList!Delete
<1> QED
  BY <1>1, <1>2

\* quickList puts the payload at the numbers from 0 on, of a version without records.
LEMMA QuickListElements ==
    ASSUME IndInv, meta.st # "absent" => meta.ver < MaxVersion, NEW w \in Payloads \cup {<<>>},
           QuickList(w)
    PROVE  IsAList!Restore(w)
<1> DEFINE v == IF meta.st = "absent" THEN 0 ELSE meta.ver + 1
           m == [Fresh(v) EXCEPT !.len = Len(w), !.right = Plus(@, Len(w))]
           f == Pushed(Fresh(v), "tail", w)
<1>1. meta \in MetaVal
  BY DEF IndInv, TypeOK
<1>2. v \in Versions /\ (v > meta.ver \/ meta.st = "absent")
  BY <1>1, ListAssumption DEF Versions, MetaVal
<1>3. Commit(m, f, 1, <<>>)
  BY DEF QuickList
<1> HIDE DEF v
<1>4. Len(w) \in 0..MaxLength /\ w \in Seq(Values)
  BY PayloadSeq
<1>5. /\ Fresh(v) \in MetaVal /\ Fresh(v).st = "live" /\ Fresh(v).ver = v /\ Fresh(v).len = 0
      /\ Shape(Fresh(v), item[v])
  BY <1>2, FreshShape DEF Fresh
<1>6. m = [Fresh(v) EXCEPT !.len = @ + Len(w), !.right = Plus(@, Len(w))]
  BY <1>4, <1>5 DEF Fresh
<1>7. m.st = "live"
  BY <1>5 DEF MetaVal
<1>8. Fresh(v).len + Len(w) <= MaxLength
  BY <1>4, <1>5
<1> HIDE DEF m
<1>9. m \in MetaVal /\ f \in Records
  BY <1>5, <1>6, <1>8, TailShape, PushedType
<1>10. ElementsOf(m, f) = ElementsOf(Fresh(v), item[v]) \o w
  BY <1>5, <1>6, <1>8, TailElements
<1>11. ElementsOf(Fresh(v), item[v]) = <<>>
  <2>1. item[v] \in Records
    BY <1>2 DEF IndInv, TypeOK, Records
  <2>2. ElementsOf(Fresh(v), item[v]) \in Seq(Values) /\ Len(ElementsOf(Fresh(v), item[v])) = 0
    BY <1>5, <2>1, ElementsOfFacts
  <2> QED
    BY <2>2, EmptySeq
<1>12. <<>> \o w = w
  BY <1>4, ConcatEmptySeq
<1> HIDE DEF f
<1>13. Elements' = w /\ Found' = TRUE /\ out' = IsAList!Answer(1, <<>>)
  <2>1. ElementsOf(m, f) = w
    BY <1>10, <1>11, <1>12, Zenon
  <2>2. Elements' = ElementsOf(m, f) /\ Found' = (m.st = "live") /\ out' = IsAList!Answer(1, <<>>)
    BY <1>3, <1>9, CommitElements
  <2> QED
    BY <1>7, <2>1, <2>2
<1> QED
  BY <1>13 DEF IsAList!Restore

LEMMA RestoreIsRestore ==
    ASSUME IndInv, NEW form \in Forms, NEW vs \in Payloads \cup {<<>>}, NEW r \in BOOLEAN,
           Restore(form, vs, r)
    PROVE  \/ IsAList!Restore(IF form = "ziplist" THEN <<>> ELSE vs)
           \/ IsAList!Refuse
           \/ IsAList!Delete
<1>1. CASE Reply(-1, <<>>)
  BY <1>1, ReplyElements DEF IsAList!Refuse
<1>2. CASE Found /\ Kill(-1)
  BY <1>2, KillIsDelete
<1>3. ASSUME meta.st # "absent" => meta.ver < MaxVersion, QuickList(Loaded(form, vs))
      PROVE  IsAList!Restore(IF form = "ziplist" THEN <<>> ELSE vs)
  <2>1. Loaded(form, vs) \in Payloads \cup {<<>>}
    BY DEF Loaded
  <2>2. IsAList!Restore(Loaded(form, vs))
    BY <1>3, <2>1, QuickListElements
  <2> QED
    BY <2>2 DEF Loaded
<1> QED
  BY <1>1, <1>2, <1>3 DEF Restore

\* A list, kept as numbered records, is a sequence: each command that changes it
\* takes the step of ListAbs its name says, answer included, for lists of any
\* length, any number of values pushed at once and ends that have wrapped or not.
THEOREM BehavesAsASequence == Spec => BehavesAsAList
<1>1. Spec => []IndInv
  BY InitInv, NextInv, PTL DEF Spec
<1> DEFINE Step ==
       UNCHANGED vars \/
       /\ \A vs \in Payloads :
             /\ LPush(vs) => IsAList!Push("head", vs, FALSE)
             /\ RPush(vs) => IsAList!Push("tail", vs, FALSE)
             /\ LPushX(vs) => IsAList!Push("head", vs, TRUE)
             /\ RPushX(vs) => IsAList!Push("tail", vs, TRUE)
       /\ LPop => IsAList!Pop("head")
       /\ RPop => IsAList!Pop("tail")
       /\ \A i \in Indices, v \in Values : LSet(i, v) => IsAList!Set(i, v)
       /\ \A s, e \in Indices : LTrim(s, e) => IsAList!Trim(s, e)
       /\ \A f \in Forms, vs \in Payloads \cup {<<>>}, r \in BOOLEAN :
             Restore(f, vs, r) => \/ IsAList!Restore(IF f = "ziplist" THEN <<>> ELSE vs)
                                  \/ IsAList!Refuse \/ IsAList!Delete
       /\ Del => IsAList!Delete
<1>2. IndInv => Step
  <2> SUFFICES ASSUME IndInv PROVE Step
    OBVIOUS
  <2>1. ASSUME NEW vs \in Payloads
        PROVE  /\ LPush(vs) => IsAList!Push("head", vs, FALSE)
               /\ RPush(vs) => IsAList!Push("tail", vs, FALSE)
               /\ LPushX(vs) => IsAList!Push("head", vs, TRUE)
               /\ RPushX(vs) => IsAList!Push("tail", vs, TRUE)
    BY PushIsPush DEF LPush, RPush, LPushX, RPushX
  <2>2. ASSUME NEW i \in Indices, NEW v \in Values
        PROVE  LSet(i, v) => IsAList!Set(i, v)
    BY SetIsSet
  <2>3. ASSUME NEW s \in Indices, NEW e \in Indices
        PROVE  LTrim(s, e) => IsAList!Trim(s, e)
    BY TrimIsTrim
  <2>4. ASSUME NEW f \in Forms, NEW vs \in Payloads \cup {<<>>}, NEW r \in BOOLEAN
        PROVE  Restore(f, vs, r) => \/ IsAList!Restore(IF f = "ziplist" THEN <<>> ELSE vs)
                                    \/ IsAList!Refuse \/ IsAList!Delete
    BY RestoreIsRestore
  <2> QED
    BY <2>1, <2>2, <2>3, <2>4, PopIsPop, DelIsDelete, Zenon
<1> QED
  BY <1>1, <1>2, PTL DEF BehavesAsAList
=============================================================================
