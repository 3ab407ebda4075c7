---------------------------- MODULE MCStandstill ----------------------------
(* Instances of Standstill for TLC. *)
EXTENDS Standstill

CONSTANTS a, b

(* Both are needed, or a is a quorum by itself and b may fall behind. *)
MCSystems == {{{a, b}}, {{a}, {a, b}}}

(* Slot 0 is skipped and the candidate of slot 1 made final. *)
MCAgenda == [n \in Nodes |-> {Vote(0, "skip"), Vote(1, "notar"), Vote(1, "final")}]

=============================================================================
