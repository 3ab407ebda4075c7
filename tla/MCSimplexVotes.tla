--------------------------- MODULE MCSimplexVotes ---------------------------
(* Instances of SimplexVotes for TLC. *)
EXTENDS SimplexVotes, FiniteSetsExt, TLC

CONSTANTS h1, h2, h3, byz, a, b

(* Equal weights: any three of the four validators make a quorum. *)
MCWeightOf == [S \in SUBSET Validators |-> Cardinality(S)]
MCSymmetry == Permutations({h1, h2, h3})

=============================================================================
