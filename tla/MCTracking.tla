------------------------------ MODULE MCTracking ------------------------------
(***************************************************************************)
(* Tracking for TLC.  The pool slots are interchangeable, so the safety    *)
(* runs identify states that differ by a permutation of them.              *)
(***************************************************************************)
EXTENDS Tracking, TLC

PoolSymmetry == Permutations(Jobs)

===============================================================================
