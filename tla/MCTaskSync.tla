------------------------------ MODULE MCTaskSync ------------------------------
(* Small instances of TaskSync.                                            *)
EXTENDS TaskSync, TLC

CONSTANTS t1, t2, l1

AllKinds == RequestKinds
=============================================================================
