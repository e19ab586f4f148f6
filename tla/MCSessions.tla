------------------------------ MODULE MCSessions ------------------------------
(* Two workers and the Session Manager thread on one session.                *)
EXTENDS Sessions

CONSTANTS w1, w2, rn

MCReaders == {w1, w2, rn}
MCDocs    == {"ACTIVE"}
=============================================================================
