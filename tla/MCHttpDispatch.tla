--------------------------- MODULE MCHttpDispatch ---------------------------
(* Few handlers, two or three queues of depth one: queues fill up, scans     *)
(* overflow, and a stop can meet requests in every stage.                    *)
EXTENDS HttpDispatch, TLC

RequestSymmetry == Permutations(Handlers) \cup Permutations(Writes)
                   \cup Permutations(Reads) \cup Permutations(Asyncs)
=============================================================================
