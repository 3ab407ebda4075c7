-------------------------- MODULE MCBlockProducer --------------------------
(* Instances of BlockProducer for TLC. *)
EXTENDS BlockProducer

=============================================================================
