---------------------------- MODULE MCRecordMutex ----------------------------
(* Instances of RecordMutex for TLC.  There are as many cells as threads: a  *)
(* cell in use has a thread that uses it.                                    *)
EXTENDS RecordMutex
=============================================================================
