------------------------------- MODULE Policies -------------------------------
(***************************************************************************)
(* The policies both sides of authorization share                           *)
(* (domain/shared/policies.py): who may hand out a role, and what a role    *)
(* reaches over the hierarchy.                                              *)
(***************************************************************************)
EXTENDS Naturals

CONSTANT MaxHierarchyDepth      \* MAX_HIERARCHY_DEPTH

ASSUME PoliciesAssumption == MaxHierarchyDepth \in Nat

(* What r reaches over `edges`, in chains of at most MaxHierarchyDepth. *)
Reached(edges, r) ==
    LET Next1(R) == R \cup {e[2] : e \in {x \in edges : x[1] \in R}}
        within[n \in 0..MaxHierarchyDepth] == IF n = 0 THEN {r} ELSE Next1(within[n - 1])
    IN  within[MaxHierarchyDepth] \ {r}

(* The new edge closes no cycle that is seen. *)
AnyEdge(edges, parent, child) == TRUE                             \* mutant
StaysAcyclic(edges, parent, child) == parent # child /\ parent \notin Reached(edges, child)

Highest(ranks) == IF ranks = {} THEN 0 ELSE CHOOSE n \in ranks : \A k \in ranks : k <= n

(* The self-escalation guard: who holds the codes `held` and roles of these *)
(* ranks gives nothing it does not hold, and itself no rank it has.         *)
GiveAnything(held, ranks, toSelf, rank, codes) == TRUE            \* mutant
CanAssignRole(held, ranks, toSelf, rank, codes) ==
    /\ toSelf => rank < Highest(ranks)
    /\ codes \subseteq held

=============================================================================
