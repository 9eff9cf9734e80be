----------------------------- MODULE MCIngestion -----------------------------
(* Ingestion for TLC: which rows and requests there are. *)
EXTENDS Ingestion, TLC

AllRows == {KB, Source} \cup Docs \cup {Passages(d) : d \in Docs}
Renaming == Permutations(Requests)
===============================================================================
