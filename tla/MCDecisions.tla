---------------------------- MODULE MCDecisions ----------------------------
(* Jobs are interchangeable.                                                *)
EXTENDS Decisions, TLC

Symmetry == Permutations(Jobs)
=============================================================================
