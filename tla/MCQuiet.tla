------------------------------ MODULE MCQuiet ------------------------------
(* Expiration with the limit of a load, BatchSize, smaller than the number of *)
(* keys.  A load that filled its batch is not emptied again by commands       *)
(* before LoadDone looks at it: of 1000 keys in the code.                     *)
EXTENDS Expiration

VARIABLE full   \* did the load that is going on fill its batch

Emptied == full' /\ loop'.pc = "load" /\ loop'.load = {} /\ FastKeys' = {}

MCInit == Init /\ full = FALSE
MCUp ==
    /\ Up
    /\ full' = IF loop.pc = "load" THEN full ELSE Cardinality(loop'.load) = BatchSize
    /\ ~Emptied
MCFairSpec == MCInit /\ [][MCUp]_<<vars, full>> /\ Fairness
=============================================================================
