----------------------------- MODULE MCQueryPath -----------------------------
(* Two workers: SELECTs of one query text, an INSERT and a DELETE on the      *)
(* table it names.                                                            *)
EXTENDS QueryPath, TLC

CONSTANTS plain, ins, del, tab

MCDocs   == SUBSET Writes
MCTarget == [x \in Writes |-> tab]
MCDelta  == [x \in Writes |-> IF x = ins THEN 1 ELSE -1]
MCReads  == [k \in Keys |-> tab]
MCNamed  == [k \in Keys |-> {tab}]

WorkerSymmetry == Permutations(Readers)
=============================================================================
