---------------------------- MODULE MCWritePath ----------------------------
(* One worker for what a session carries from one request to the next, two   *)
(* for what they do to each other through the audit guard.                   *)
EXTENDS WritePath

Calm == [reset |-> FALSE, validation |-> FALSE, audit |-> FALSE, response |-> FALSE]

\* Both kinds of worker, with none, one or all of the three kinds of failure.
MCAll ==
    {[Calm EXCEPT !.reset = r] : r \in BOOLEAN}
    \cup {[Calm EXCEPT !.validation = TRUE], [Calm EXCEPT !.audit = TRUE],
          [Calm EXCEPT !.response = TRUE],
          [reset |-> FALSE, validation |-> TRUE, audit |-> TRUE, response |-> TRUE]}

MCCalm       == {Calm}
MCValidation == {[Calm EXCEPT !.validation = TRUE]}
============================================================================
