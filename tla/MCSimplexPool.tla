--------------------------- MODULE MCSimplexPool ---------------------------
(* Instances of SimplexPool for TLC. *)
EXTENDS SimplexPool

CONSTANTS a0, a1, c2, d2

(* a0 is the parent of a1 (slot 1) and, over slot 1, of c2; d2 passes over
   slots 0 and 1. *)
MCSlotOf == [c \in Candidates |-> IF c = a0 THEN 0 ELSE IF c = a1 THEN 1 ELSE 2]
MCParentOf == [c \in Candidates |-> IF c \in {a1, c2} THEN a0 ELSE Genesis]

=============================================================================
