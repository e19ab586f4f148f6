---------------------------- MODULE MCBackground ----------------------------
(* Two workers, queues of one slot, batches of two records.                  *)
EXTENDS Background
=============================================================================
