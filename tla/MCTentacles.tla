------------------------------ MODULE MCTentacles ------------------------------
(* An instance of the tentacles for TLC, with the whole of their state.      *)
EXTENDS Tentacles

MCGarbage == {0}
=============================================================================
