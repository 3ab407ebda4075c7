------------------------ MODULE MCCandidateResolver ------------------------
(* Three honest validators, any two of which complete a quorum of the group
   together with a Byzantine one; one of them asks for the candidate, twice. *)
EXTENDS CandidateResolver

CONSTANTS n1, n2, n3

MCQuorums == {{n1, n2}, {n1, n3}, {n2, n3}}

=============================================================================
