-------------------------- MODULE ExpirationProofs --------------------------
(***************************************************************************)
(* Proofs about Expiration, for any number of keys, clients and deleters.  *)
(***************************************************************************)
EXTENDS Expiration, FiniteSetTheorems, TLAPS

USE ExpirationAssumption

BulkRec == [pc : {"idle", "read", "unlock"}, todo : SUBSET Keys, keys : SUBSET Keys,
            found : SUBSET Keys, ops : [Keys -> Op]]

----------------------------------------------------------------------------
(* Operations on one key *)

LEMMA KeepOK == Keep \in Op /\ OpOK(Keep) /\ NoOps \in [Keys -> Op]
BY DEF Keep, Op, OpOK, NoOps

LEMMA EdelOneOK ==
    ASSUME TypeOK, NEW k \in Keys, NEW st \in {"keep", "live", "dead"}
    PROVE  EdelOne(k, st) \in Op /\ OpOK(EdelOne(k, st))
<1>1. ekey[k] \in 0..MaxTime
  BY DEF TypeOK
<1>2. CASE ekey[k] = 0
  BY <1>2 DEF EdelOne, Keep, Op, OpOK
<1>3. CASE ekey[k] # 0
  <2>1. EdelOne(k, st) = [st |-> st, ekey |-> 0, put |-> {}, del |-> {ekey[k]}]
    BY <1>3 DEF EdelOne
  <2>2. {ekey[k]} \in SUBSET Times /\ 0 \in -1..MaxTime
    BY <1>1, <1>3 DEF Times
  <2> QED
    BY <2>1, <2>2 DEF Op, OpOK
<1> QED
  BY <1>2, <1>3

LEMMA EsetOneOK ==
    ASSUME TypeOK, NEW k \in Keys, NEW st \in {"keep", "live", "dead"}, NEW t \in Times
    PROVE  EsetOne(k, st, t) \in Op /\ OpOK(EsetOne(k, st, t))
<1>1. ekey[k] \in 0..MaxTime
  BY DEF TypeOK
<1>2. {ekey[k]} \ {0, t} \in SUBSET Times /\ t \in -1..MaxTime /\ t # -1
  BY <1>1 DEF Times
<1> QED
  BY <1>2 DEF EsetOne, Op, OpOK

\* The batch keeps every time to live filed.
LEMMA WriteOK ==
    ASSUME TypeOK, TTLIndexed, NEW ops \in [Keys -> Op], \A k \in Keys : OpOK(ops[k]), Write(ops)
    PROVE  /\ live' \in SUBSET Keys /\ ekey' \in [Keys -> 0..MaxTime]
           /\ escore' \in [Keys -> SUBSET Times]
           /\ TTLIndexed'
<1>o. \A k \in Keys : /\ ops[k].ekey \in -1..MaxTime /\ ops[k].put \in SUBSET Times
                      /\ ops[k].del \in SUBSET Times
  BY DEF Op
<1>1. live' \in SUBSET Keys
  BY DEF Write
<1>2. ekey' \in [Keys -> 0..MaxTime]
  BY <1>o DEF Write, TypeOK
<1>3. escore' \in [Keys -> SUBSET Times]
  BY <1>o DEF Write, TypeOK
<1>4. TTLIndexed'
  <2> SUFFICES ASSUME NEW k \in Keys, ekey'[k] # 0
               PROVE  ekey'[k] \in escore'[k]
    BY DEF TTLIndexed
  <2>1. escore'[k] = (escore[k] \ ops[k].del) \cup ops[k].put
    BY DEF Write
  <2>2. ekey'[k] = IF ops[k].ekey = -1 THEN ekey[k] ELSE ops[k].ekey
    BY DEF Write
  <2>3. CASE ops[k].ekey = -1
    <3>1. ops[k].del = {}
      BY <2>3 DEF OpOK
    <3>2. ekey[k] \in escore[k]
      BY <2>2, <2>3 DEF TTLIndexed
    <3> QED
      BY <2>1, <2>2, <2>3, <3>1, <3>2
  <2>4. CASE ops[k].ekey # -1
    <3>1. ops[k].ekey > 0
      BY <1>o, <2>2, <2>4
    <3>2. ops[k].ekey \in ops[k].put
      BY <3>1 DEF OpOK
    <3> QED
      BY <2>1, <2>2, <2>4, <3>2
  <2> QED
    BY <2>3, <2>4
<1> QED
  BY <1>1, <1>2, <1>3, <1>4

----------------------------------------------------------------------------
(* fast_keys and first_timeout *)

HandlerType == fast \in [Keys -> 0..MaxTime] /\ first \in 0..Never

LEMMA CancelOK ==
    ASSUME TypeOK, NEW k \in Keys, CancelExpiration(k)
    PROVE  HandlerType' /\ (loop' = loop /\ WakesInTime => WakesInTime')
<1>1. HandlerType'
  BY DEF CancelExpiration, HandlerType, TypeOK
<1>2. ASSUME loop' = loop, WakesInTime
      PROVE  WakesInTime'
  BY <1>2 DEF CancelExpiration, WakesInTime, FastKeys, TypeOK
<1> QED
  BY <1>1, <1>2

\* Whatever AddFastKey pops, every score left is an old one or the new one.
LEMMA AddFastKeyOK ==
    ASSUME TypeOK, NEW k \in Keys, NEW t \in Times, AddFastKey(k, t)
    PROVE  /\ fast' \in [Keys -> 0..MaxTime]
           /\ \A j \in Keys : fast'[j] \in {0, fast[j]} \/ fast'[j] = t
<1> DEFINE added == [fast EXCEPT ![k] = t]
<1>1. added \in [Keys -> 0..MaxTime] /\ \A j \in Keys : added[j] \in {fast[j], t}
  BY DEF TypeOK, Times
<1>2. CASE fast' = added
  BY <1>1, <1>2
<1>3. CASE \E j \in FastKeys \cup {k} : fast' = [added EXCEPT ![j] = 0]
  <2>1. PICK j \in FastKeys \cup {k} : fast' = [added EXCEPT ![j] = 0]
    BY <1>3
  <2>2. 0 \in 0..MaxTime /\ j \in Keys
    BY DEF FastKeys
  <2> QED
    BY <1>1, <2>1, <2>2
<1> QED
  BY <1>2, <1>3 DEF AddFastKey

LEMMA InsertFastKeyOK ==
    ASSUME TypeOK, NEW k \in Keys, NEW t \in Times, InsertFastKey(k, t)
    PROVE  HandlerType' /\ (loop' = loop /\ WakesInTime => WakesInTime')
<1>1. first' = (IF t < first THEN t ELSE first) /\ first \in 0..Never /\ t \in 1..MaxTime
  BY DEF InsertFastKey, TypeOK, Times
<1>2. first' \in 0..Never /\ first' <= first /\ first' <= t
  BY <1>1 DEF Never
<1>3. /\ fast' \in [Keys -> 0..MaxTime]
      /\ \A j \in Keys : fast'[j] \in {0, fast[j]} \/ fast'[j] = t
  <2>1. CASE BelowMaxScore(t)
    BY <2>1, AddFastKeyOK DEF InsertFastKey
  <2>2. CASE ~BelowMaxScore(t)
    <3>1. fast' = [fast EXCEPT ![k] = 0]
      BY <2>2 DEF InsertFastKey
    <3>2. fast \in [Keys -> 0..MaxTime] /\ 0 \in 0..MaxTime
      BY <1>1 DEF TypeOK
    <3>3. \A j \in Keys : fast'[j] \in {0, fast[j]}
      BY <3>1, <3>2
    <3>4. fast' \in [Keys -> 0..MaxTime]
      BY <3>1, <3>2
    <3> QED
      BY <3>3, <3>4
  <2> QED
    BY <2>1, <2>2
<1>4. ASSUME loop' = loop, WakesInTime
      PROVE  WakesInTime'
  <2> SUFFICES ASSUME loop.pc \in {"idle", "del"}, NEW j \in Keys, fast'[j] # 0
               PROVE  first' <= fast'[j]
    BY <1>4 DEF WakesInTime, FastKeys
  <2>1. CASE fast'[j] = t
    BY <1>2, <2>1
  <2>2. CASE fast'[j] # t
    <3>1. fast'[j] = fast[j] /\ j \in FastKeys
      BY <1>3, <2>2 DEF FastKeys
    <3>2. first <= fast[j] /\ fast[j] \in 0..MaxTime
      BY <1>4, <3>1 DEF WakesInTime, TypeOK
    <3> QED
      BY <1>1, <1>2, <3>1, <3>2
  <2> QED
    BY <2>1, <2>2
<1> QED
  BY <1>2, <1>3, <1>4 DEF HandlerType

----------------------------------------------------------------------------
(* Parts of the invariant that steps leave alone *)

ClientsOK == /\ client \in [Clients -> [pc : {"idle", "staged"}, key : Keys, op : Op]]
             /\ \A c \in Clients : OpOK(client[c].op)

BulkOK == /\ bulk \in [Deleters \cup {Loop} -> BulkRec]
          /\ \A p \in Deleters \cup {Loop}, k \in Keys : OpOK(bulk[p].ops[k])

DbOK == /\ now \in 0..MaxTime /\ live \in SUBSET Keys /\ ekey \in [Keys -> 0..MaxTime]
        /\ escore \in [Keys -> SUBSET Times] /\ TTLIndexed

LoopOK == /\ HandlerType
          /\ loop \in [pc : {"idle", "load", "pop", "del"}, load : SUBSET (Keys \X Times)]
          /\ WakesInTime

LEMMA Parts ==
    IndInv <=> /\ DbOK /\ LoopOK /\ lock \in [Keys -> BOOLEAN] /\ ClientsOK /\ BulkOK
               /\ LoopInv
BY DEF IndInv, TypeOK, OpsInv, DbOK, LoopOK, HandlerType, ClientsOK, BulkOK, BulkRec

LEMMA PartsNext ==
    /\ DbOK' /\ LoopOK' /\ lock' \in [Keys -> BOOLEAN] /\ ClientsOK' /\ BulkOK'
    /\ LoopInv'
    => IndInv'
BY DEF IndInv, TypeOK, OpsInv, DbOK, LoopOK, HandlerType, ClientsOK, BulkOK, BulkRec

LEMMA SameDb == DbOK /\ UNCHANGED <<now, db>> => DbOK'
BY DEF DbOK, db, TTLIndexed

LEMMA SameLoop == LoopOK /\ UNCHANGED <<handler, loop>> => LoopOK'
BY DEF LoopOK, handler, HandlerType, WakesInTime, FastKeys

LEMMA SameClients == ClientsOK /\ UNCHANGED client => ClientsOK'
BY DEF ClientsOK

LEMMA SameBulk == BulkOK /\ UNCHANGED bulk => BulkOK'
BY DEF BulkOK

LEMMA SameRound == LoopInv /\ UNCHANGED <<bulk, loop>> => LoopInv'
BY DEF LoopInv

----------------------------------------------------------------------------
(* The steps *)

LEMMA StageInv ==
    ASSUME IndInv, NEW c \in Clients, NEW k \in Keys, NEW op \in Op, OpOK(op), Stage(c, k, op),
           HandlerType', loop' = loop /\ WakesInTime => WakesInTime'
    PROVE  IndInv'
<1>i. DbOK /\ LoopOK /\ lock \in [Keys -> BOOLEAN] /\ ClientsOK /\ BulkOK /\ LoopInv
  BY Parts
<1>u. UNCHANGED <<now, db, bulk, loop>> /\ lock' = [lock EXCEPT ![k] = TRUE]
  BY DEF Stage
<1>1. DbOK'
  BY <1>i, <1>u, SameDb
<1>2. LoopOK'
  BY <1>i, <1>u DEF LoopOK
<1>3. lock' \in [Keys -> BOOLEAN]
  BY <1>i, <1>u
<1>4. ClientsOK'
  BY <1>i DEF Stage, ClientsOK
<1>5. BulkOK'
  BY <1>i, <1>u, SameBulk
<1> QED
  BY <1>i, <1>u, <1>1, <1>2, <1>3, <1>4, <1>5, SameRound, PartsNext

LEMMA CommandInv ==
    ASSUME IndInv, NEW c \in Clients, ClientCommand(c)
    PROVE  IndInv'
<1>t. TypeOK /\ KeepOK!1
  BY KeepOK DEF IndInv
<1>k. PICK k \in Keys :
        \/ SetGeneric(c, k) \/ UpdateKey(c, k) \/ RemoveLastItem(c, k) \/ Persist(c, k)
        \/ \E t \in Times : SetGenericEx(c, k, t) \/ ExpireAt(c, k, t)
  BY DEF ClientCommand
<1>1. ASSUME NEW st \in {"keep", "live", "dead"}, CancelExpiration(k), Stage(c, k, EdelOne(k, st))
      PROVE  IndInv'
  BY <1>t, <1>1, CancelOK, EdelOneOK, StageInv
<1>2. ASSUME NEW st \in {"keep", "live", "dead"}, NEW t \in Times, InsertFastKey(k, t),
             Stage(c, k, EsetOne(k, st, t))
      PROVE  IndInv'
  BY <1>t, <1>2, InsertFastKeyOK, EsetOneOK, StageInv
<1>3. CASE SetGeneric(c, k)
  BY <1>1, <1>3 DEF SetGeneric
<1>4. CASE UpdateKey(c, k)
  <2>1. [Keep EXCEPT !.st = "live"] \in Op /\ OpOK([Keep EXCEPT !.st = "live"])
    BY DEF Keep, Op, OpOK
  <2>2. HandlerType' /\ (loop' = loop /\ WakesInTime => WakesInTime')
    BY <1>t, <1>4 DEF UpdateKey, handler, HandlerType, TypeOK, WakesInTime, FastKeys
  <2> QED
    BY <1>4, <2>1, <2>2, StageInv DEF UpdateKey
<1>5. CASE RemoveLastItem(c, k)
  BY <1>1, <1>5 DEF RemoveLastItem
<1>6. CASE Persist(c, k)
  BY <1>1, <1>6 DEF Persist
<1>7. CASE \E t \in Times : SetGenericEx(c, k, t)
  BY <1>2, <1>7 DEF SetGenericEx
<1>8. CASE \E t \in Times : ExpireAt(c, k, t)
  BY <1>1, <1>2, <1>8 DEF ExpireAt
<1> QED
  BY <1>k, <1>3, <1>4, <1>5, <1>6, <1>7, <1>8

LEMMA CommitInv ==
    ASSUME IndInv, NEW c \in Clients, Commit(c)
    PROVE  IndInv'
<1>i. DbOK /\ LoopOK /\ lock \in [Keys -> BOOLEAN] /\ ClientsOK /\ BulkOK /\ LoopInv
  BY Parts
<1>u. /\ UNCHANGED <<now, handler, bulk, loop>>
      /\ lock' = [lock EXCEPT ![client[c].key] = FALSE]
      /\ client' = [client EXCEPT ![c] = IdleClient]
  BY DEF Commit
<1>1. DbOK'
  <2> DEFINE ops == [NoOps EXCEPT ![client[c].key] = client[c].op]
  <2>1. client[c].op \in Op /\ OpOK(client[c].op)
    BY <1>i DEF ClientsOK
  <2>2. ops \in [Keys -> Op] /\ \A k \in Keys : OpOK(ops[k])
    BY <2>1, KeepOK DEF NoOps
  <2>3. CASE Write(ops)
    <3> HIDE DEF ops
    <3>1. TypeOK /\ TTLIndexed
      BY DEF IndInv
    <3> QED
      BY <1>i, <1>u, <2>2, <2>3, <3>1, WriteOK DEF DbOK
  <2>4. CASE UNCHANGED db
    BY <1>i, <1>u, <2>4, SameDb
  <2> QED
    BY <2>3, <2>4 DEF Commit
<1>2. LoopOK'
  BY <1>i, <1>u, SameLoop
<1>3. lock' \in [Keys -> BOOLEAN]
  BY <1>i, <1>u
<1>4. ClientsOK'
  <2>1. /\ IdleClient \in [pc : {"idle", "staged"}, key : Keys, op : Op]
        /\ OpOK(IdleClient.op)
    BY KeepOK DEF IdleClient
  <2> QED
    BY <1>i, <1>u, <2>1 DEF ClientsOK
<1>5. BulkOK'
  BY <1>i, <1>u, SameBulk
<1> QED
  BY <1>i, <1>u, <1>1, <1>2, <1>3, <1>4, <1>5, SameRound, PartsNext

LEMMA BulkTypes ==
    /\ IdleBulk \in BulkRec /\ \A k \in Keys : OpOK(IdleBulk.ops[k])
    /\ \A ks \in SUBSET Keys : StartDel(ks) \in BulkRec /\ \A k \in Keys : OpOK(StartDel(ks).ops[k])
<1>1. NoOps \in [Keys -> Op] /\ \A k \in Keys : OpOK(NoOps[k])
  BY KeepOK DEF NoOps
<1> QED
  BY <1>1 DEF IdleBulk, StartDel, BulkRec

\* One multi_del moves.
LEMMA BulkMove ==
    ASSUME BulkOK, NEW p \in Deleters \cup {Loop}, NEW b \in BulkRec,
           \A k \in Keys : OpOK(b.ops[k]), bulk' = [bulk EXCEPT ![p] = b]
    PROVE  BulkOK'
BY DEF BulkOK

LEMMA MultiDelInv ==
    ASSUME IndInv, NEW d \in Deleters, NEW ks \in SUBSET Keys, MultiDel(d, ks)
    PROVE  IndInv'
<1>i. DbOK /\ LoopOK /\ lock \in [Keys -> BOOLEAN] /\ ClientsOK /\ BulkOK /\ LoopInv
  BY Parts
<1>1. BulkOK'
  BY <1>i, BulkTypes, BulkMove DEF MultiDel
<1>2. LoopInv'
  BY <1>i DEF MultiDel, LoopInv, BulkOK
<1> QED
  BY <1>i, <1>1, <1>2, PartsNext, SameDb, SameLoop, SameClients DEF MultiDel

LEMMA DelStepInv ==
    ASSUME IndInv, NEW p \in Deleters \cup {Loop}, DelStep(p)
    PROVE  IndInv'
<1>i. DbOK /\ LoopOK /\ lock \in [Keys -> BOOLEAN] /\ ClientsOK /\ BulkOK /\ LoopInv
  BY Parts
<1>t. TypeOK /\ TTLIndexed
  BY DEF IndInv
<1>b. bulk[p] \in BulkRec /\ \A k \in Keys : OpOK(bulk[p].ops[k])
  BY <1>i DEF BulkOK
<1>1. CASE \E k \in Keys : MultiDelKey(p, k)
  <2>1. PICK k \in Keys : MultiDelKey(p, k)
    BY <1>1
  <2> DEFINE b == [bulk[p] EXCEPT !.todo = bulk[p].todo \ {k}, !.found = {k} \cap live]
  <2>2. b \in BulkRec /\ \A j \in Keys : OpOK(b.ops[j])
    BY <1>b DEF BulkRec
  <2>3. bulk' = [bulk EXCEPT ![p] = b]
    BY <1>i, <2>1 DEF MultiDelKey, BulkOK
  <2>4. BulkOK'
    BY <1>i, <2>2, <2>3, BulkMove
  <2>6. LoopInv'
    BY <1>i, <1>b, <2>1 DEF MultiDelKey, LoopInv, BulkOK
  <2> QED
    BY <1>i, <2>1, <2>4, <2>6, PartsNext, SameDb, SameLoop, SameClients DEF MultiDelKey
<1>2. CASE \E k \in Keys : MarkKeyDeleted(p, k)
  <2>1. PICK k \in Keys : MarkKeyDeleted(p, k)
    BY <1>2
  <2> DEFINE b == [bulk[p] EXCEPT !.found = {}, !.ops[k] = EdelOne(k, "dead")]
  <2>e. EdelOne(k, "dead") \in Op /\ OpOK(EdelOne(k, "dead"))
    BY <1>t, EdelOneOK
  <2>2. b \in BulkRec /\ \A j \in Keys : OpOK(b.ops[j])
    BY <1>b, <2>e DEF BulkRec
  <2>3. bulk' = [bulk EXCEPT ![p] = b]
    BY <1>i, <2>1 DEF MarkKeyDeleted, BulkOK
  <2>4. BulkOK'
    BY <1>i, <2>2, <2>3, BulkMove
  <2>5. LoopOK'
    BY <1>i, <1>t, <2>1, CancelOK DEF MarkKeyDeleted, LoopOK
  <2>6. LoopInv'
    BY <1>i, <1>b, <2>1 DEF MarkKeyDeleted, LoopInv, BulkOK
  <2> QED
    BY <1>i, <2>1, <2>4, <2>5, <2>6, PartsNext, SameDb, SameClients DEF MarkKeyDeleted
<1>3. CASE MultiDelCommit(p)
  <2>1. DbOK'
    <3>1. CASE Write(bulk[p].ops)
      <4>1. bulk[p].ops \in [Keys -> Op]
        BY <1>b DEF BulkRec
      <4> QED
        BY <1>i, <1>t, <1>b, <1>3, <3>1, <4>1, WriteOK DEF DbOK, MultiDelCommit
    <3>2. CASE UNCHANGED db
      BY <1>i, <1>3, <3>2, SameDb DEF MultiDelCommit
    <3> QED
      BY <1>3, <3>1, <3>2 DEF MultiDelCommit
  <2> DEFINE b == [bulk[p] EXCEPT !.pc = "unlock"]
  <2>2. b \in BulkRec /\ \A j \in Keys : OpOK(b.ops[j])
    BY <1>b DEF BulkRec
  <2>3. bulk' = [bulk EXCEPT ![p] = b]
    BY <1>i, <1>3 DEF MultiDelCommit, BulkOK
  <2>4. BulkOK'
    BY <1>i, <2>2, <2>3, BulkMove
  <2>6. LoopInv'
    BY <1>i, <1>b, <1>3 DEF MultiDelCommit, LoopInv, BulkOK
  <2> QED
    BY <1>i, <1>3, <2>1, <2>4, <2>6, PartsNext, SameLoop, SameClients DEF MultiDelCommit
<1>4. CASE MultiDelUnlock(p)
  <2>1. BulkOK'
    BY <1>i, <1>4, BulkTypes, BulkMove DEF MultiDelUnlock
  <2>2. lock' \in [Keys -> BOOLEAN]
    BY <1>i, <1>4 DEF MultiDelUnlock
  <2>3. loop.pc = "del" \/ p # Loop
    BY <1>i, <1>4 DEF MultiDelUnlock, LoopInv
  <2>4. LoopInv'
    <3>1. CASE p # Loop
      BY <1>i, <1>4, <3>1 DEF MultiDelUnlock, LoopInv, BulkOK
    <3>2. CASE p = Loop
      BY <1>i, <1>4, <3>2 DEF MultiDelUnlock, LoopInv, BulkOK, IdleBulk
    <3> QED
      BY <3>1, <3>2
  <2>5. LoopOK'
    <3>1. CASE p # Loop
      BY <1>i, <1>4, <3>1, SameLoop DEF MultiDelUnlock
    <3>2. CASE p = Loop
      <4>1. /\ loop' = [loop EXCEPT !.pc = "idle"] /\ UNCHANGED handler /\ loop.pc = "del"
            /\ loop \in [pc : {"idle", "load", "pop", "del"}, load : SUBSET (Keys \X Times)]
        BY <1>i, <1>4, <3>2, <2>3 DEF MultiDelUnlock, LoopOK
      <4>2. loop' \in [pc : {"idle", "load", "pop", "del"}, load : SUBSET (Keys \X Times)]
        BY <4>1
      <4>3. WakesInTime' /\ HandlerType'
        BY <1>i, <4>1 DEF LoopOK, HandlerType, handler, WakesInTime, FastKeys
      <4> QED
        BY <4>2, <4>3 DEF LoopOK
    <3> QED
      BY <3>1, <3>2
  <2> QED
    BY <1>i, <1>4, <2>1, <2>2, <2>4, <2>5, PartsNext, SameDb, SameClients DEF MultiDelUnlock
<1> QED
  BY <1>1, <1>2, <1>3, <1>4 DEF DelStep

----------------------------------------------------------------------------
(* The expire thread *)

LoopRec == [pc : {"idle", "load", "pop", "del"}, load : SUBSET (Keys \X Times)]

\* A step of the thread that leaves the database and multi_del alone.
LEMMA ThreadMove ==
    ASSUME IndInv, UNCHANGED <<now, db, lock, client, bulk>>, bulk[Loop].pc = "idle",
           loop' \in LoopRec, HandlerType', WakesInTime'
    PROVE  IndInv'
<1>i. DbOK /\ LoopOK /\ lock \in [Keys -> BOOLEAN] /\ ClientsOK /\ BulkOK /\ LoopInv
  BY Parts
<1>1. LoopOK' /\ LoopInv'
  BY DEF LoopOK, LoopInv, LoopRec
<1> QED
  BY <1>i, <1>1, PartsNext, SameDb, SameClients, SameBulk

LEMMA WakeInv ==
    ASSUME IndInv, Wake
    PROVE  IndInv'
<1>i. LoopOK /\ LoopInv
  BY Parts
<1>1. bulk[Loop].pc = "idle" /\ UNCHANGED <<now, db, handler, lock, client, bulk>>
  BY <1>i DEF Wake, LoopInv
<1>2. loop' \in LoopRec /\ loop'.pc \in {"load", "pop"}
  BY DEF Wake, LoopRec, Scores
<1>3. HandlerType' /\ WakesInTime'
  BY <1>i, <1>1, <1>2 DEF LoopOK, HandlerType, handler, WakesInTime
<1> QED
  BY <1>1, <1>2, <1>3, ThreadMove

LEMMA LoadKeyInv ==
    ASSUME IndInv, LoadKey
    PROVE  IndInv'
<1>i. LoopOK /\ LoopInv
  BY Parts
<1>1. bulk[Loop].pc = "idle" /\ UNCHANGED <<now, db, first, lock, client, bulk>> /\ loop.pc = "load"
  BY <1>i DEF LoadKey, LoopInv
<1>2. PICK s \in loop.load : /\ fast' = [fast EXCEPT ![s[1]] = s[2]]
                             /\ loop' = [loop EXCEPT !.load = loop.load \ {s}]
  BY DEF LoadKey
<1>3. s \in Keys \X Times /\ loop \in LoopRec
  BY <1>i DEF LoopOK, LoopRec
<1>4. loop' \in LoopRec /\ loop'.pc = "load"
  BY <1>1, <1>2, <1>3 DEF LoopRec
<1>5. s[1] \in Keys /\ s[2] \in 0..MaxTime
  BY <1>3 DEF Times
<1>6. HandlerType' /\ WakesInTime'
  BY <1>i, <1>1, <1>2, <1>4, <1>5 DEF LoopOK, HandlerType, WakesInTime
<1> QED
  BY <1>1, <1>4, <1>6, ThreadMove

LEMMA LoadDoneInv ==
    ASSUME IndInv, LoadDone
    PROVE  IndInv'
<1>i. LoopOK /\ LoopInv /\ loop \in LoopRec
  BY Parts DEF LoopOK, LoopRec
<1>1. bulk[Loop].pc = "idle" /\ UNCHANGED <<now, db, fast, lock, client, bulk>> /\ loop.pc = "load"
  BY <1>i DEF LoadDone, LoopInv
<1>2. CASE FastKeys = {}
  <2>1. first' = Never /\ loop' = IdleLoop
    BY <1>2 DEF LoadDone
  <2>2. loop' \in LoopRec
    BY <2>1 DEF IdleLoop, LoopRec
  <2>3. HandlerType' /\ WakesInTime'
    BY <1>i, <1>1, <1>2, <2>1 DEF LoopOK, HandlerType, WakesInTime, FastKeys, Never
  <2> QED
    BY <1>1, <2>2, <2>3, ThreadMove
<1>3. CASE FastKeys # {}
  <2>1. first' = first /\ loop' = [loop EXCEPT !.pc = "pop"]
    BY <1>3 DEF LoadDone
  <2>2. loop' \in LoopRec /\ loop'.pc = "pop"
    BY <1>i, <2>1 DEF LoopRec
  <2>3. HandlerType' /\ WakesInTime'
    BY <1>i, <1>1, <2>1, <2>2 DEF LoopOK, HandlerType, WakesInTime
  <2> QED
    BY <1>1, <2>2, <2>3, ThreadMove
<1> QED
  BY <1>2, <1>3

\* first_timeout ends up no later than any key that stays.
LEMMA NextTimeoutOK ==
    ASSUME HandlerType, NEW S \in SUBSET FastKeys, NextTimeout(S),
           \A i \in S, j \in FastKeys \ S : fast[i] <= fast[j],
           S = {} => Cardinality(S) < PopLimit
    PROVE  first' \in 0..Never /\ \A j \in FastKeys \ S : first' <= fast[j]
<1>t. \A k \in FastKeys : fast[k] \in 0..Never
  BY DEF HandlerType, FastKeys, Never
<1>1. CASE Cardinality(S) < PopLimit /\ FastKeys \ S # {}
  BY <1>t, <1>1 DEF NextTimeout
<1>2. CASE ~(Cardinality(S) < PopLimit /\ FastKeys \ S # {})
  <2>1. CASE S = {}
    <3>1. FastKeys \ S = {}
      BY <1>2, <2>1
    <3>2. first' = first
      BY <1>2, <2>1 DEF NextTimeout
    <3> QED
      BY <3>1, <3>2 DEF HandlerType
  <2>2. CASE S # {}
    <3>1. PICK k \in S : first' = fast[k]
      BY <1>2, <2>2 DEF NextTimeout
    <3> QED
      BY <1>t, <3>1
  <2> QED
    BY <2>1, <2>2
<1> QED
  BY <1>1, <1>2

LEMMA PopDueInv ==
    ASSUME IndInv, PopDue
    PROVE  IndInv'
<1> DEFINE due == {k \in FastKeys : fast[k] <= now}
<1>i. DbOK /\ LoopOK /\ lock \in [Keys -> BOOLEAN] /\ ClientsOK /\ BulkOK /\ LoopInv
  BY Parts
<1>u. UNCHANGED <<now, db, lock, client>> /\ loop' = [loop EXCEPT !.pc = "del"]
  BY DEF PopDue
<1>1. PICK S \in SUBSET due :
         /\ Cardinality(S) = PopLimit \/ (S = due /\ Cardinality(S) < PopLimit)
         /\ \A i \in S, j \in FastKeys \ S : fast[i] <= fast[j]
         /\ NextTimeout(S)
         /\ fast' = [k \in Keys |-> IF k \in S THEN 0 ELSE fast[k]]
         /\ bulk' = [bulk EXCEPT ![Loop] = StartDel(S)]
  BY DEF PopDue
<1>2. S \in SUBSET FastKeys /\ S \in SUBSET Keys
  BY DEF FastKeys
<1>3. S = {} => Cardinality(S) < PopLimit
  <2>1. Cardinality({}) = 0
    BY FS_EmptySet
  <2> QED
    BY <2>1
<1>4. HandlerType
  BY <1>i DEF LoopOK
<1>5. first' \in 0..Never /\ \A j \in FastKeys \ S : first' <= fast[j]
  BY <1>1, <1>2, <1>3, <1>4, NextTimeoutOK
<1>6. fast' \in [Keys -> 0..MaxTime] /\ \A k \in Keys : fast'[k] # 0 => k \in FastKeys \ S /\ fast'[k] = fast[k]
  BY <1>1, <1>4 DEF HandlerType, FastKeys
<1>7. loop' \in LoopRec /\ loop'.pc = "del"
  BY <1>i, <1>u DEF LoopOK, LoopRec
<1>8. LoopOK'
  BY <1>5, <1>6, <1>7 DEF LoopOK, HandlerType, WakesInTime, FastKeys, LoopRec
<1>9. BulkOK' /\ LoopInv'
  BY <1>i, <1>1, <1>2, <1>7, BulkTypes, BulkMove DEF LoopInv
<1> QED
  BY <1>i, <1>u, <1>8, <1>9, PartsNext, SameDb, SameClients

----------------------------------------------------------------------------
(* The clock, FLUSHDB, restarts and the start *)

LEMMA TickInv ==
    ASSUME IndInv, Tick
    PROVE  IndInv'
<1>i. DbOK /\ LoopOK /\ lock \in [Keys -> BOOLEAN] /\ ClientsOK /\ BulkOK /\ LoopInv
  BY Parts
<1>1. DbOK'
  BY <1>i DEF Tick, DbOK, db, TTLIndexed
<1> QED
  BY <1>i, <1>1, PartsNext, SameLoop, SameClients, SameBulk, SameRound DEF Tick

LEMMA FlushDbInv ==
    ASSUME IndInv, FlushDb
    PROVE  IndInv'
<1>i. DbOK /\ LoopOK /\ lock \in [Keys -> BOOLEAN] /\ ClientsOK /\ BulkOK /\ LoopInv
  BY Parts
<1>1. DbOK'
  BY <1>i DEF FlushDb, DbOK, TTLIndexed
<1> QED
  BY <1>i, <1>1, PartsNext, SameLoop, SameClients, SameBulk, SameRound DEF FlushDb

\* What a server is when it starts, on any database.
LEMMA StartOK ==
    /\ IdleClient \in [pc : {"idle", "staged"}, key : Keys, op : Op] /\ OpOK(IdleClient.op)
    /\ IdleLoop \in LoopRec /\ IdleBulk.pc = "idle"
BY KeepOK DEF IdleClient, IdleLoop, LoopRec, IdleBulk

LEMMA RestartInv ==
    ASSUME IndInv, Restart
    PROVE  IndInv'
<1>i. DbOK
  BY Parts
<1>1. LoopOK'
  BY StartOK DEF Restart, LoopOK, HandlerType, WakesInTime, FastKeys, LoopRec, Never
<1>2. ClientsOK' /\ lock' \in [Keys -> BOOLEAN]
  BY StartOK DEF Restart, ClientsOK
<1>3. BulkOK'
  BY BulkTypes DEF Restart, BulkOK
<1>4. LoopInv'
  BY StartOK DEF Restart, LoopInv
<1> QED
  BY <1>i, <1>1, <1>2, <1>3, <1>4, PartsNext, SameDb DEF Restart

LEMMA InitInv == Init => IndInv
<1> SUFFICES ASSUME Init
             PROVE  IndInv
  OBVIOUS
<1>1. DbOK
  BY DEF Init, DbOK, TTLIndexed, Times
<1>2. LoopOK
  BY StartOK DEF Init, LoopOK, HandlerType, WakesInTime, FastKeys, LoopRec, Never
<1>3. ClientsOK /\ lock \in [Keys -> BOOLEAN]
  BY StartOK DEF Init, ClientsOK
<1>4. BulkOK
  BY BulkTypes DEF Init, BulkOK
<1>5. LoopInv
  BY StartOK DEF Init, LoopInv
<1> QED
  BY <1>1, <1>2, <1>3, <1>4, <1>5, Parts

LEMMA NextInv == IndInv /\ [Next]_vars => IndInv'
<1> SUFFICES ASSUME IndInv, [Next]_vars
             PROVE  IndInv'
  OBVIOUS
<1>1. ASSUME NEW c \in Clients, ClientCommand(c) \/ Commit(c)
      PROVE  IndInv'
  BY <1>1, CommandInv, CommitInv
<1>2. ASSUME NEW d \in Deleters, DelStep(d) \/ \E ks \in (SUBSET Keys) \ {{}} : MultiDel(d, ks)
      PROVE  IndInv'
  BY <1>2, DelStepInv, MultiDelInv
<1>3. CASE LoopStep
  BY <1>3, WakeInv, LoadKeyInv, LoadDoneInv, PopDueInv, DelStepInv DEF LoopStep
<1>4. CASE Tick \/ FlushDb \/ Restart
  BY <1>4, TickInv, FlushDbInv, RestartInv
<1>5. CASE UNCHANGED vars
  <2>1. DbOK' /\ LoopOK' /\ ClientsOK'
    BY <1>5, Parts, SameDb, SameLoop, SameClients DEF vars, db, handler
  <2>2. lock' \in [Keys -> BOOLEAN]
    BY <1>5, Parts DEF vars
  <2>3. BulkOK'
    BY <1>5, Parts DEF vars, BulkOK
  <2>4. LoopInv'
    BY <1>5, Parts DEF vars, LoopInv
  <2> QED
    BY <2>1, <2>2, <2>3, <2>4, PartsNext
<1> QED
  BY <1>1, <1>2, <1>3, <1>4, <1>5 DEF Next, Up

----------------------------------------------------------------------------
(* The theorems *)

\* The handler, the batches and the database stay well formed together.
THEOREM HandlerSound == Spec => []IndInv
BY InitInv, NextInv, PTL DEF Spec

\* Every time to live is filed in ESCORE, whatever DEL and the expire thread
\* overwrite without a lock, whichever writes fail, across FLUSHDB and crashes.
THEOREM TTLsIndexed == Spec => []TTLIndexed
<1>1. IndInv => TTLIndexed
  BY DEF IndInv
<1> QED
  BY <1>1, HandlerSound, PTL

\* The expire thread never sleeps past a key in fast_keys.
THEOREM WakesUp == Spec => []WakesInTime
<1>1. IndInv => WakesInTime
  BY DEF IndInv
<1> QED
  BY <1>1, HandlerSound, PTL
=============================================================================
