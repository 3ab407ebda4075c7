--------------------------- MODULE SimplexWeights ---------------------------
(***************************************************************************)
(* Validator weights and the certificate threshold, shared by every module *)
(* that counts votes. WeightOf gives the weight of a set of validators;    *)
(* the assumptions say that it is additive, as a sum of per-validator      *)
(* weights is, and that less than a third of the weight is Byzantine.      *)
(***************************************************************************)
EXTENDS Naturals

CONSTANTS
    Validators,   \* validator_set of the group
    Byzantine,    \* the validators that do not run this code
    WeightOf      \* weight of each set of validators

Honest == Validators \ Byzantine

ASSUME WeightAssumption ==
    /\ Byzantine \subseteq Validators
    /\ WeightOf \in [SUBSET Validators -> Nat]
    /\ WeightOf[{}] = 0
    /\ \A A, B \in SUBSET Validators :
          WeightOf[A \cup B] + WeightOf[A \cap B] = WeightOf[A] + WeightOf[B]
    /\ 3 * WeightOf[Byzantine] < WeightOf[Validators]

total_weight == WeightOf[Validators]

(* A threshold of two thirds rounded down: quorums may meet in Byzantine only. *)
TwoThirdsThreshold == (total_weight * 2) \div 3

weight_threshold == (total_weight * 2) \div 3 + 1

Quorums == {Q \in SUBSET Validators : WeightOf[Q] >= weight_threshold}

=============================================================================
