-------------------------- MODULE MCConnectionPool --------------------------
(* Four borrowers over a pool of three slots, one opened at startup: threads *)
(* sleep, time out and steal wakeups, the pool grows and shrinks.           *)
EXTENDS ConnectionPool
=============================================================================
