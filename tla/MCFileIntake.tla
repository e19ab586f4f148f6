----------------------------- MODULE MCFileIntake -----------------------------
(* Two names, one of a write; the writer queue and one other, one slot each.  *)
EXTENDS FileIntake
=============================================================================
