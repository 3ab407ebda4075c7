------------------------- MODULE MCSimplexProtocol -------------------------
(***************************************************************************)
(* Instances of SimplexProtocol: three honest validators and a Byzantine   *)
(* one of equal weight; candidate trees that fork within a slot, over a    *)
(* skipped slot and over a finalized one.                                  *)
(***************************************************************************)
EXTENDS SimplexProtocol, FiniteSetsExt, TLC

CONSTANTS h1, h2, h3, b, a0, b0, a1, b2

MCValidators == {h1, h2, h3, b}
MCByzantine == {b}
MCWeightOf == [Q \in SUBSET MCValidators |-> Cardinality(Q)]
MCSymmetry == Permutations({h1, h2, h3})

(* Slot 0 forks; a1 extends a0, and so does b2, over a skipped slot 1. *)
MCSlots == 0..2
MCCandidates == {a0, b0, a1, b2}
MCSlotOf == (a0 :> 0) @@ (b0 :> 0) @@ (a1 :> 1) @@ (b2 :> 2)
MCParentOf == (a0 :> Genesis) @@ (b0 :> Genesis) @@ (a1 :> a0) @@ (b2 :> a0)

(* Two slots, for progress: b0's slot may be skipped under a1. *)
ShortSlots == 0..1
ShortCandidates == {a0, b0, a1}
ShortSlotOf == (a0 :> 0) @@ (b0 :> 0) @@ (a1 :> 1)
ShortParentOf == (a0 :> Genesis) @@ (b0 :> Genesis) @@ (a1 :> Genesis)
=============================================================================
