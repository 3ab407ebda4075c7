--------------------------- MODULE AcceptedChain ---------------------------
(***************************************************************************)
(* What a validator group promises to the ValidatorManager: which blocks   *)
(* accept_block is called for, and when. A block of the masterchain comes  *)
(* with a final certificate of its own candidate or of an empty candidate  *)
(* that refers to it. A block of a shard comes after the block before it,  *)
(* so what a shard's manager has is a chain without gaps, and only         *)
(* something final makes the group accept at all.                          *)
(***************************************************************************)
CONSTANTS
    Candidates, Genesis,
    parent,   \* Candidate::parent_id, Genesis for none
    block     \* Candidate::block_id(): itself, or what an empty one refers to

VARIABLES masterchain, finals, accepted
vars == <<masterchain, finals, accepted>>

Init ==
    /\ masterchain \in BOOLEAN
    /\ finals = {}
    /\ accepted = {}

Finalize(c) ==
    /\ finals' = finals \cup {c}
    /\ UNCHANGED <<masterchain, accepted>>

Accept(b) ==
    /\ finals # {}
    /\ IF masterchain THEN \E f \in finals : block[f] = b
                      ELSE parent[b] = Genesis \/ block[parent[b]] \in accepted
    /\ accepted' = accepted \cup {b}
    /\ UNCHANGED <<masterchain, finals>>

Next == \E c \in Candidates : Finalize(c) \/ Accept(c)
Spec == Init /\ [][Next]_vars

=============================================================================
