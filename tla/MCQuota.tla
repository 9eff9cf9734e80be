------------------------------- MODULE MCQuota -------------------------------
(* Questions are interchangeable: no property names one. *)
EXTENDS Quota, TLC

CONSTANTS p1, p2
Interchangeable == Permutations(Requests)
=============================================================================
