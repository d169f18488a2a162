----------------------------- MODULE Expiration -----------------------------
(***************************************************************************)
(* The expiration of keys (ExpirationHandler, ttl.cpp and t_eset.cpp).     *)
(*                                                                         *)
(* A key's time to live is stored twice: EKEY maps the key to the time it  *)
(* expires at, ESCORE orders the keys by that time.  The expire thread     *)
(* keeps the next keys to expire in memory (fast_keys) and the time it has *)
(* to wake up at (first_timeout).  Commands change fast_keys and           *)
(* first_timeout at once, under the handler's mutex, and EKEY and ESCORE   *)
(* later, when their WriteBatch is written; the thread loads fast_keys     *)
(* from ESCORE without any key's lock and deletes due keys with multi_del, *)
(* which takes no lock either.                                             *)
(*                                                                         *)
(* Of a META record only its liveness matters here.                        *)
(***************************************************************************)
EXTENDS Integers, FiniteSets

CONSTANTS
    Keys,
    Clients,        \* connections running commands that lock their key
    Expirers,       \* the clients that give keys a time to live
    Deleters,       \* connections running DEL
    Loop,           \* the expire thread, as a caller of multi_del
    MaxTime,        \* the clock stops here
    BatchSize,      \* BATCH_SIZE, 1000 in the code
    PopLimit,       \* keys expired in one round, 102 in the code
    WriteErrors     \* whether CommitBatch may fail

ASSUME ExpirationAssumption ==
    /\ Keys # {}
    /\ Expirers \subseteq Clients
    /\ Loop \notin Deleters
    /\ MaxTime \in Nat
    /\ BatchSize \in Nat \ {0}
    /\ PopLimit \in Nat \ {0}
    /\ WriteErrors \in BOOLEAN

VARIABLES
    now,        \* time_ms()
    live,       \* the keys whose META record is enabled
    ekey,       \* EKEY records: when a key expires, 0 for never
    escore,     \* ESCORE records: the times a key is filed under
    fast,       \* fast_keys: the score of a key, 0 when it is not there
    first,      \* first_timeout
    lock,       \* is the mutex of the key locked
    client,     \* the command each client runs
    bulk,       \* the multi_del each deleter, and the expire thread, runs
    loop        \* where the expire thread is, and what its load has yet to add

db == <<live, ekey, escore>>
handler == <<fast, first>>
vars == <<now, live, ekey, escore, fast, first, lock, client, bulk, loop>>

Times == 1..MaxTime
Never == MaxTime + 1    \* INT64_MAX

----------------------------------------------------------------------------
(* What a WriteBatch does to one key: the META record, EKEY (-1 leaves it   *)
(* alone, 0 deletes it) and ESCORE.                                         *)

Op == [st : {"keep", "live", "dead"}, ekey : -1..MaxTime, put : SUBSET Times,
       del : SUBSET Times]

Keep == [st |-> "keep", ekey |-> -1, put |-> {}, del |-> {}]

\* Faulty EdelOne: EKEY stays.
EdelOneKeepsKey(k, st) ==
    IF ekey[k] = 0 THEN [Keep EXCEPT !.st = st]
    ELSE [st |-> st, ekey |-> -1, put |-> {}, del |-> {ekey[k]}]

\* edel_one, in a batch that leaves the META record in state st.
EdelOne(k, st) ==
    IF ekey[k] = 0 THEN [Keep EXCEPT !.st = st]
    ELSE [st |-> st, ekey |-> 0, put |-> {}, del |-> {ekey[k]}]

\* eset_one
EsetOne(k, st, t) ==
    [st |-> st, ekey |-> t, put |-> {t}, del |-> {ekey[k]} \ {0, t}]

\* The writes of a batch that holds one operation for each key.
Write(ops) ==
    /\ live' = {k \in Keys : ops[k].st = "live" \/ (ops[k].st = "keep" /\ k \in live)}
    /\ ekey' = [k \in Keys |-> IF ops[k].ekey = -1 THEN ekey[k] ELSE ops[k].ekey]
    /\ escore' = [k \in Keys |-> (escore[k] \ ops[k].del) \cup ops[k].put]

NoOps == [k \in Keys |-> Keep]

----------------------------------------------------------------------------
(* fast_keys and first_timeout, under the handler's mutex                   *)

FastKeys == {k \in Keys : fast[k] # 0}

\* max_score() of an empty set is 0.
BelowMaxScore(t) == \E k \in FastKeys : t <= fast[k]

\* add, followed by pop_back when there are more than BatchSize keys.
AddFastKey(k, t) ==
    LET added == [fast EXCEPT ![k] = t]
        keys == FastKeys \cup {k}
    IN IF Cardinality(keys) <= BatchSize THEN fast' = added
       ELSE \E j \in keys : /\ \A i \in keys : added[i] <= added[j]
                            /\ fast' = [added EXCEPT ![j] = 0]

\* Faulty InsertFastKey: first_timeout is not lowered.
InsertFastKeyNoWake(k, t) ==
    /\ first' = first
    /\ IF BelowMaxScore(t) THEN AddFastKey(k, t) ELSE fast' = [fast EXCEPT ![k] = 0]

\* _insertFastKey
InsertFastKey(k, t) ==
    /\ first' = IF t < first THEN t ELSE first
    /\ IF BelowMaxScore(t) THEN AddFastKey(k, t) ELSE fast' = [fast EXCEPT ![k] = 0]

\* The half of cancelExpiration that is about fast_keys; EdelOne is the other.
CancelExpiration(k) == fast' = [fast EXCEPT ![k] = 0] /\ first' = first

----------------------------------------------------------------------------
(* Commands: the key's lock is taken, fast_keys changed and a batch built;  *)
(* then the batch is written and the lock released.                         *)

IdleClient == [pc |-> "idle", key |-> CHOOSE k \in Keys : TRUE, op |-> Keep]

Stage(c, k, op) ==
    /\ client[c].pc = "idle"
    /\ ~lock[k]
    /\ lock' = [lock EXCEPT ![k] = TRUE]
    /\ client' = [client EXCEPT ![c] = [pc |-> "staged", key |-> k, op |-> op]]
    /\ UNCHANGED <<now, db, bulk, loop>>

\* SET without EX, and GETSET
SetGeneric(c, k) == CancelExpiration(k) /\ Stage(c, k, EdelOne(k, "live"))

\* SET with EX or PX, SETEX and PSETEX
SetGenericEx(c, k, t) ==
    /\ c \in Expirers /\ t > now
    /\ InsertFastKey(k, t)
    /\ Stage(c, k, EsetOne(k, "live", t))

\* Any other command that writes to a key leaves its time to live alone.
UpdateKey(c, k) ==
    /\ k \notin live
    /\ UNCHANGED handler
    /\ Stage(c, k, [Keep EXCEPT !.st = "live"])

\* The last item of a collection goes.
RemoveLastItem(c, k) ==
    /\ k \in live
    /\ CancelExpiration(k)
    /\ Stage(c, k, EdelOne(k, "dead"))

\* EXPIRE, PEXPIRE, EXPIREAT and PEXPIREAT
ExpireAt(c, k, t) ==
    /\ c \in Expirers
    /\ k \in live
    /\ \/ t <= now /\ CancelExpiration(k) /\ Stage(c, k, EdelOne(k, "dead"))
       \/ t > now /\ InsertFastKey(k, t) /\ Stage(c, k, EsetOne(k, "keep", t))

\* PERSIST does nothing while the thread has nothing to wait for.
Persist(c, k) ==
    /\ first # Never
    /\ CancelExpiration(k)
    /\ Stage(c, k, EdelOne(k, "keep"))

\* The batch is written, or CommitBatch fails.
Commit(c) ==
    /\ client[c].pc = "staged"
    /\ \/ Write([NoOps EXCEPT ![client[c].key] = client[c].op])
       \/ WriteErrors /\ UNCHANGED db
    /\ lock' = [lock EXCEPT ![client[c].key] = FALSE]
    /\ client' = [client EXCEPT ![c] = IdleClient]
    /\ UNCHANGED <<now, handler, bulk, loop>>

----------------------------------------------------------------------------
(* multi_del, for DEL and for the expire thread: no lock is taken           *)

IdleBulk == [pc |-> "idle", todo |-> {}, keys |-> {}, found |-> {}, ops |-> NoOps]

StartDel(ks) == [pc |-> "read", todo |-> ks, keys |-> ks, found |-> {}, ops |-> NoOps]

MultiDel(d, ks) ==
    /\ bulk[d].pc = "idle"
    /\ bulk' = [bulk EXCEPT ![d] = StartDel(ks)]
    /\ UNCHANGED <<now, db, handler, lock, client, loop>>

\* del_key_internal reads the META record: a key that is not live is skipped,
\* its time to live too.
MultiDelKey(p, k) ==
    /\ bulk[p].pc = "read" /\ bulk[p].found = {}
    /\ k \in bulk[p].todo
    /\ bulk' = [bulk EXCEPT ![p].todo = bulk[p].todo \ {k},
                            ![p].found = {k} \cap live]
    /\ UNCHANGED <<now, db, handler, lock, client, loop>>

\* mark_key_deleted of a live record ends with cancelExpiration.
MarkKeyDeleted(p, k) ==
    /\ bulk[p].pc = "read"
    /\ k \in bulk[p].found
    /\ CancelExpiration(k)
    /\ bulk' = [bulk EXCEPT ![p].found = {}, ![p].ops[k] = EdelOne(k, "dead")]
    /\ UNCHANGED <<now, db, lock, client, loop>>

MultiDelCommit(p) ==
    /\ bulk[p].pc = "read" /\ bulk[p].todo \cup bulk[p].found = {}
    /\ Write(bulk[p].ops) \/ (WriteErrors /\ UNCHANGED db)
    /\ bulk' = [bulk EXCEPT ![p].pc = "unlock"]
    /\ UNCHANGED <<now, handler, lock, client, loop>>

\* ~RecordLocks unlocks every key, whoever locked it.
MultiDelUnlock(p) ==
    /\ bulk[p].pc = "unlock"
    /\ lock' = [k \in Keys |-> lock[k] /\ k \notin bulk[p].keys]
    /\ bulk' = [bulk EXCEPT ![p] = IdleBulk]
    /\ loop' = IF p = Loop THEN [loop EXCEPT !.pc = "idle"] ELSE loop
    /\ UNCHANGED <<now, db, handler, client>>

----------------------------------------------------------------------------
(* The expire thread (_thread_func and _expire_loop)                        *)

IdleLoop == [pc |-> "idle", load |-> {}]

Scores == {s \in Keys \X Times : s[2] \in escore[s[1]]}

\* The wait is over.  With fast_keys empty the first BatchSize records of
\* ESCORE are read, in a snapshot.
Wake ==
    /\ loop.pc = "idle"
    /\ first <= now
    /\ IF FastKeys # {} THEN loop' = [pc |-> "pop", load |-> {}]
       ELSE \E S \in SUBSET Scores :
              /\ Cardinality(S) = BatchSize \/ (S = Scores /\ Cardinality(S) <= BatchSize)
              /\ \A s \in S, r \in Scores \ S : s[2] <= r[2]
              /\ loop' = [pc |-> "load", load |-> S]
    /\ UNCHANGED <<now, db, handler, lock, client, bulk>>

\* Each record takes the mutex for itself; a later record of a key replaces an
\* earlier one.
LoadKey ==
    /\ loop.pc = "load"
    /\ \E s \in loop.load :
         /\ \A r \in loop.load : s[2] <= r[2]
         /\ fast' = [fast EXCEPT ![s[1]] = s[2]]
         /\ loop' = [loop EXCEPT !.load = loop.load \ {s}]
    /\ UNCHANGED <<now, db, first, lock, client, bulk>>

\* Faulty LoadDone: the thread sleeps whatever it has loaded.
LoadDoneAlwaysSleeps ==
    /\ loop.pc = "load" /\ loop.load = {}
    /\ first' = Never /\ loop' = IdleLoop
    /\ UNCHANGED <<now, db, fast, lock, client, bulk>>

\* Nothing to expire: the thread waits for a command to lower first_timeout.
LoadDone ==
    /\ loop.pc = "load" /\ loop.load = {}
    /\ IF FastKeys = {} THEN first' = Never /\ loop' = IdleLoop
       ELSE first' = first /\ loop' = [loop EXCEPT !.pc = "pop"]
    /\ UNCHANGED <<now, db, fast, lock, client, bulk>>

\* first_timeout after the keys in S were popped: the score of the last key
\* that was looked at, which is the next key unless PopLimit ended the round.
NextTimeout(S) ==
    LET rest == FastKeys \ S IN
    IF Cardinality(S) < PopLimit /\ rest # {}
    THEN \E k \in rest : first' = fast[k] /\ \A j \in rest : fast[k] <= fast[j]
    ELSE IF S = {} THEN first' = first
    ELSE \E k \in S : first' = fast[k] /\ \A j \in S : fast[j] <= fast[k]

\* Due keys are popped, the earliest first, and handed to multi_del.
PopDue ==
    LET due == {k \in FastKeys : fast[k] <= now} IN
    /\ loop.pc = "pop"
    /\ \E S \in SUBSET due :
         /\ Cardinality(S) = PopLimit \/ (S = due /\ Cardinality(S) < PopLimit)
         /\ \A i \in S, j \in FastKeys \ S : fast[i] <= fast[j]
         /\ NextTimeout(S)
         /\ fast' = [k \in Keys |-> IF k \in S THEN 0 ELSE fast[k]]
         /\ bulk' = [bulk EXCEPT ![Loop] = StartDel(S)]
    /\ loop' = [loop EXCEPT !.pc = "del"]
    /\ UNCHANGED <<now, db, lock, client>>

----------------------------------------------------------------------------

Tick == now < MaxTime /\ now' = now + 1
        /\ UNCHANGED <<db, handler, lock, client, bulk, loop>>

\* A crash or a restart: start() clears fast_keys and wakes the thread at once.
Restart ==
    /\ fast' = [k \in Keys |-> 0] /\ first' = 0
    /\ lock' = [k \in Keys |-> FALSE]
    /\ client' = [c \in Clients |-> IdleClient]
    /\ bulk' = [p \in Deleters \cup {Loop} |-> IdleBulk]
    /\ loop' = IdleLoop
    /\ UNCHANGED <<now, db>>

\* flushdb holds the global lock and does not touch the handler.
FlushDb ==
    /\ \A k \in Keys : ~lock[k]
    /\ live' = {}
    /\ ekey' = [k \in Keys |-> 0]
    /\ escore' = [k \in Keys |-> {}]
    /\ UNCHANGED <<now, handler, lock, client, bulk, loop>>

\* The server starts on a database that an earlier run left.
Init ==
    /\ now = 0
    /\ live \in SUBSET Keys
    /\ ekey \in [Keys -> 0..MaxTime]
    /\ \A k \in Keys : ekey[k] # 0 => k \in live
    /\ escore = [k \in Keys |-> {ekey[k]} \ {0}]
    /\ fast = [k \in Keys |-> 0] /\ first = 0
    /\ lock = [k \in Keys |-> FALSE]
    /\ client = [c \in Clients |-> IdleClient]
    /\ bulk = [p \in Deleters \cup {Loop} |-> IdleBulk]
    /\ loop = IdleLoop

ClientCommand(c) ==
    \E k \in Keys :
      \/ SetGeneric(c, k) \/ UpdateKey(c, k) \/ RemoveLastItem(c, k) \/ Persist(c, k)
      \/ \E t \in Times : SetGenericEx(c, k, t) \/ ExpireAt(c, k, t)

DelStep(p) ==
    \/ \E k \in Keys : MultiDelKey(p, k) \/ MarkKeyDeleted(p, k)
    \/ MultiDelCommit(p) \/ MultiDelUnlock(p)

LoopStep == Wake \/ LoadKey \/ LoadDone \/ PopDue \/ DelStep(Loop)

\* The server while it stays up.
Up ==
    \/ Tick
    \/ \E c \in Clients : ClientCommand(c) \/ Commit(c)
    \/ \E d \in Deleters : DelStep(d) \/ \E ks \in (SUBSET Keys) \ {{}} : MultiDel(d, ks)
    \/ LoopStep
    \/ FlushDb

Next == Up \/ Restart

Spec == Init /\ [][Next]_vars

\* Commands that have begun and the expire thread are scheduled.
Fairness ==
    /\ \A c \in Clients : WF_vars(Commit(c))
    /\ \A d \in Deleters : WF_vars(DelStep(d))
    /\ WF_vars(LoopStep)

FairSpec == Init /\ [][Up]_vars /\ Fairness

----------------------------------------------------------------------------
(* Properties *)

TypeOK ==
    /\ now \in 0..MaxTime
    /\ live \in SUBSET Keys
    /\ ekey \in [Keys -> 0..MaxTime]
    /\ escore \in [Keys -> SUBSET Times]
    /\ fast \in [Keys -> 0..MaxTime]
    /\ first \in 0..Never
    /\ lock \in [Keys -> BOOLEAN]
    /\ client \in [Clients -> [pc : {"idle", "staged"}, key : Keys, op : Op]]
    /\ bulk \in [Deleters \cup {Loop} -> [pc : {"idle", "read", "unlock"}, todo : SUBSET Keys,
                                          keys : SUBSET Keys, found : SUBSET Keys,
                                          ops : [Keys -> Op]]]
    /\ loop \in [pc : {"idle", "load", "pop", "del"}, load : SUBSET (Keys \X Times)]

\* A key that has a time to live is filed under it, so that the expire thread
\* can find it after a restart: whatever the commands that hold no lock
\* overwrite, whichever writes fail, and wherever the server crashes.
TTLIndexed == \A k \in Keys : ekey[k] # 0 => ekey[k] \in escore[k]

\* The thread wakes up in time for every key it has in memory.
WakesInTime ==
    loop.pc \in {"idle", "del"} => \A k \in FastKeys : first <= fast[k]

\* Keys whose time has come are deleted in the end.
Due(k) == k \in live /\ ekey[k] # 0 /\ ekey[k] <= now

DueKeysExpire == \A k \in Keys : Due(k) ~> ~Due(k)

\* The expire thread deletes only keys whose time has come: in the batch it is
\* about to write, a key that is live has a time to live that is over.
NoPrematureExpire ==
    \A k \in Keys :
        /\ bulk[Loop].pc = "read" /\ bulk[Loop].todo \cup bulk[Loop].found = {}
        /\ bulk[Loop].ops[k].st = "dead"
        /\ k \in live
        => ekey[k] \in 1..now

----------------------------------------------------------------------------
(* The inductive invariant: every batch that sets or keeps EKEY keeps it    *)
(* filed.                                                                   *)

OpOK(o) ==
    /\ o.ekey > 0 => o.ekey \in o.put
    /\ o.ekey = -1 => o.del = {}

OpsInv ==
    /\ \A c \in Clients : OpOK(client[c].op)
    /\ \A p \in Deleters \cup {Loop}, k \in Keys : OpOK(bulk[p].ops[k])

\* The expire thread is inside multi_del only at the end of a round.
LoopInv == bulk[Loop].pc # "idle" => loop.pc = "del"

IndInv == TypeOK /\ TTLIndexed /\ OpsInv /\ WakesInTime /\ LoopInv
=============================================================================
