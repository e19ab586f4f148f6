---------------------------- MODULE MCWorkerPool ----------------------------
(* Two workers over a pool of two slots.                                     *)
EXTENDS WorkerPool
=============================================================================
