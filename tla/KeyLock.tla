------------------------------- MODULE KeyLock -------------------------------
(***************************************************************************)
(* What a RecordKeyLock promises: a thread that holds the lock of a key is *)
(* the only one.  RecordMutex implements it.                               *)
(***************************************************************************)
CONSTANTS Keys, Threads

VARIABLE holders    \* the threads that hold the lock of each key

Init == holders = [k \in Keys |-> {}]

Acquire(t, k) ==
    /\ holders[k] = {}
    /\ holders' = [holders EXCEPT ![k] = {t}]

Release(t, k) ==
    /\ t \in holders[k]
    /\ holders' = [holders EXCEPT ![k] = holders[k] \ {t}]

Next == \E t \in Threads, k \in Keys : Acquire(t, k) \/ Release(t, k)

Spec == Init /\ [][Next]_holders
=============================================================================
