------------------------- MODULE MCSimplexConsensus -------------------------
(* Instances of SimplexConsensus for TLC. *)
EXTENDS SimplexConsensus

CONSTANTS me, peer, byz, a0, b0, c1

(* Three validators of weights 1, 2 and 1: the threshold is 3. *)
MCWeightOf ==
    [S \in SUBSET Validators |->
        (IF me \in S THEN 1 ELSE 0) + (IF peer \in S THEN 2 ELSE 0)
        + (IF byz \in S THEN 1 ELSE 0)]

(* Two candidates of slot 0 and one of slot 1 that passes over slot 0. *)
MCSlotOf == [c \in Candidates |-> IF c = c1 THEN 1 ELSE 0]
MCParentOf == [c \in Candidates |-> Genesis]

=============================================================================
