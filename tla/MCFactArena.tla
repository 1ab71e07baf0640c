---------------------------- MODULE MCFactArena ----------------------------
(* FactArena for TLC: with the bounds of MCFactArena.cfg it is small enough to
   be checked as it stands. *)
EXTENDS FactArena
============================================================================
