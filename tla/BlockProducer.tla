--------------------------- MODULE BlockProducer ---------------------------
(***************************************************************************)
(* One validator's BlockProducerImpl (block-producer.cpp) in one life of   *)
(* the process: the coroutine generate_candidates of every leader window,  *)
(* which collates, signs and publishes a candidate per slot while it is    *)
(* the window of the actor, the windows that start while an earlier        *)
(* coroutine is suspended, and the finalizations that decide between full  *)
(* and empty candidates. Collation may fail or take longer than its slot,  *)
(* signing may fail; clocks are left out.                                  *)
(*                                                                         *)
(* A coroutine starts from the actor's mailbox, after what is already in   *)
(* it, and takes current_leader_window_ as it is by then.                  *)
(***************************************************************************)
EXTENDS Naturals, Sequences, FiniteSets

CONSTANTS
    Windows,    \* start_slot of the windows this validator leads
    W,          \* slots per window
    MaxAhead,   \* how far a shard may run ahead of the masterchain (8)
    MaxSeqno,   \* bound on the height of blocks
    Other,      \* blocks and candidates of other leaders
    None

ASSUME ProducerAssumption ==
    /\ Windows \subseteq Nat
    /\ W \in Nat \ {0} /\ MaxAhead \in Nat /\ MaxSeqno \in Nat \ {0}
    /\ None \notin Nat /\ Other \notin Nat /\ None # Other
    /\ \A v, w \in Windows : v < w => v + W <= w

SlotsOf(w) == w..(w + W - 1)
Slots == UNION {SlotsOf(w) : w \in Windows}

(* Who made a block: a candidate of ours, by its slot, or somebody else. *)
Makers == Slots \cup {Other}

(* ChainState: the last block, its height, whether the shard splits after it. *)
States == [block : Makers, seqno : 0..MaxSeqno, split : BOOLEAN]

(* A candidate of ours; prev is the block that its own builds upon, or the one
   an empty candidate refers to, state what it leads to. *)
Candidates ==
    [slot : Slots, parent : Makers \cup {None}, full : BOOLEAN, prev : Makers,
     state : States]

VARIABLES
    masterchain,   \* bus.shard.is_masterchain()
    current,       \* current_leader_window_
    scheduled,     \* coroutines in the mailbox that have not started
    pc,            \* where the coroutine of a window stands
    base,          \* OurLeaderWindowStarted::base, with its state
    window,        \* its local variables: window,
    slot,          \*   slot,
    parent,        \*   parent,
    state,         \*   state,
    generation,    \*   the block block_generation builds upon, when active
    pending,       \*   and the candidate being signed
    consensusFinal, mcFinal,   \* last_consensus_finalized_seqno_, last_mc_...
    signed,        \* candidates given to the keyring
    published

coVars == <<pc, base, window, slot, parent, state, generation, pending>>
finalVars == <<consensusFinal, mcFinal>>
vars == <<masterchain, current, scheduled, coVars, finalVars, signed, published>>

Genesis == [block |-> Other, seqno |-> 0, split |-> FALSE]

TypeOK ==
    /\ masterchain \in BOOLEAN
    /\ current \in Windows \cup {None}
    /\ scheduled \in Seq(Windows)
    /\ pc \in [Windows -> {"none", "scheduled", "begin", "wait", "sign", "done",
                         "failed"}]
    /\ base \in [Windows -> [parent : Makers \cup {None}, state : States]]
    /\ window \in [Windows -> Windows \cup {None}]
    /\ slot \in [Windows -> Nat]
    /\ parent \in [Windows -> Makers \cup {None}]
    /\ state \in [Windows -> States]
    /\ generation \in [Windows -> Makers \cup {None}]
    /\ pending \in [Windows -> Candidates \cup {None}]
    /\ consensusFinal \in Nat /\ mcFinal \in Nat
    /\ signed \subseteq Candidates /\ published \subseteq signed

Init ==
    /\ masterchain \in BOOLEAN
    /\ current = None /\ scheduled = <<>>
    /\ pc = [w \in Windows |-> "none"]
    /\ base = [w \in Windows |-> [parent |-> None, state |-> Genesis]]
    /\ window = [w \in Windows |-> None]
    /\ slot = [w \in Windows |-> w]
    /\ parent = [w \in Windows |-> None]
    /\ state = [w \in Windows |-> Genesis]
    /\ generation = [w \in Windows |-> None]
    /\ pending = [w \in Windows |-> None]
    /\ consensusFinal = 0 /\ mcFinal = 0
    /\ signed = {} /\ published = {}

-----------------------------------------------------------------------------
(* What a window may start from: nothing yet, a candidate of ours, or one of
   another leader, whose block may be the last before a split. *)
Bases(w) ==
    {[parent |-> None, state |-> Genesis]}
    \cup {[parent |-> Other, state |-> [block |-> Other, seqno |-> 1, split |-> p]] :
             p \in BOOLEAN}
    \cup {[parent |-> c.slot, state |-> c.state] : c \in {d \in published : d.slot < w}}

(* handle(OurLeaderWindowStarted). Windows come in order, as the CHECK of the
   handler requires: LeadsInOrder of SimplexConsensus. *)
OurLeaderWindowStarted(w, b) ==
    /\ pc[w] = "none" /\ b \in Bases(w)
    /\ \A v \in Windows : v > w => pc[v] = "none"
    /\ current' = w
    /\ scheduled' = Append(scheduled, w)
    /\ pc' = [pc EXCEPT ![w] = "scheduled"]
    /\ base' = [base EXCEPT ![w] = b]
    /\ UNCHANGED <<masterchain, window, slot, parent, state, generation, pending,
                   finalVars, signed, published>>

(* The coroutine starts: with the actor's window, whichever that is now. *)
generate_candidates ==
    /\ scheduled # <<>>
    /\ LET w == Head(scheduled) IN
          /\ pc' = [pc EXCEPT ![w] = IF current = None THEN "done" ELSE "begin"]
          /\ window' = [window EXCEPT ![w] = current]
          /\ state' = [state EXCEPT ![w] = base[w].state]
          /\ parent' = [parent EXCEPT ![w] = base[w].parent]
    /\ scheduled' = Tail(scheduled)
    /\ UNCHANGED <<masterchain, current, base, slot, generation, pending, finalVars,
                   signed, published>>

(* A suspended coroutine goes on, behind those that are to start. *)
Resumes(w, at) == pc[w] = at /\ scheduled = <<>>

InWindow(w) == current = window[w]

is_first_block(w) == parent[w] = None

(* Compares with the height of the last block instead of the next. *)
should_generate_late(w) ==
    \/ state[w].split
    \/ IF masterchain THEN consensusFinal + 1 < state[w].seqno
                      ELSE mcFinal + MaxAhead < state[w].seqno

should_generate_empty_block(w) ==
    \/ state[w].split
    \/ IF masterchain THEN consensusFinal + 1 < state[w].seqno + 1
                      ELSE mcFinal + MaxAhead < state[w].seqno + 1

(* The loop is left because the window is over. *)
Leave(w) == pc' = [pc EXCEPT ![w] = "done"]

(* The top of the loop, after its first sleep: collation starts, unless it still
   runs from an earlier slot or an empty candidate is due. *)
Begin(w) ==
    /\ Resumes(w, "begin")
    /\ IF ~InWindow(w)
       THEN /\ Leave(w)
            /\ UNCHANGED generation
       ELSE /\ pc' = [pc EXCEPT ![w] = "wait"]
            /\ generation' = [generation EXCEPT ![w] =
                   IF @ = None /\ (~should_generate_empty_block(w) \/ is_first_block(w))
                   THEN state[w].block ELSE @]
    /\ UNCHANGED <<masterchain, current, scheduled, base, window, slot, parent, state,
                   pending, finalVars, signed, published>>

(* The keyring is asked to sign: the candidate is of this slot and on top of
   parent. *)
Sign(w, c) ==
    /\ pending' = [pending EXCEPT ![w] = c]
    /\ signed' = signed \cup {c}
    /\ pc' = [pc EXCEPT ![w] = "sign"]

(* The block has come: it is applied to the state and goes into a candidate. *)
Collated(w, split) ==
    /\ Resumes(w, "wait")
    /\ generation[w] # None
    /\ state[w].seqno < MaxSeqno
    /\ generation' = [generation EXCEPT ![w] = None]
    /\ LET applied == [block |-> slot[w], seqno |-> state[w].seqno + 1, split |-> split]
       IN  IF ~InWindow(w)
           THEN Leave(w) /\ UNCHANGED <<state, pending, signed>>
           ELSE /\ state' = [state EXCEPT ![w] = applied]
                /\ Sign(w, [slot |-> slot[w], parent |-> parent[w], full |-> TRUE,
                            prev |-> generation[w], state |-> applied])
    /\ UNCHANGED <<masterchain, current, scheduled, base, window, slot, parent,
                   finalVars, published>>

EmptyCandidate(w) ==
    [slot |-> slot[w], parent |-> parent[w], full |-> FALSE,
     prev |-> state[w].block, state |-> state[w]]

(* No block: none was due, or collation failed or is late. Collation that is
   only late goes on. An empty candidate unless the window is over. *)
NoBlock(w, late) ==
    /\ Resumes(w, "wait")
    /\ generation[w] = None => late
    /\ generation[w] # None => ~is_first_block(w)
    /\ generation' = [generation EXCEPT ![w] = IF late THEN @ ELSE None]
    /\ IF ~InWindow(w)
       THEN Leave(w) /\ UNCHANGED <<pending, signed>>
       ELSE Sign(w, EmptyCandidate(w))
    /\ UNCHANGED <<masterchain, current, scheduled, base, window, slot, parent, state,
                   finalVars, published>>

(* An empty candidate is not allowed: it would be the first, or nothing has been
   finalized for too long. The loop starts over with the same slot. *)
Retry(w, late) ==
    /\ Resumes(w, "wait")
    /\ generation[w] # None
    /\ generation' = [generation EXCEPT ![w] = IF late THEN @ ELSE None]
    /\ IF InWindow(w) THEN pc' = [pc EXCEPT ![w] = "begin"] ELSE Leave(w)
    /\ UNCHANGED <<masterchain, current, scheduled, base, window, slot, parent, state,
                   pending, finalVars, signed, published>>

(* The signature has come: the candidate is published and the loop goes on with
   slot s on top of p, or ends and gives the window up; or else the window is
   over, and current_leader_window_ is left as it is. *)
AfterSignature(w, p, s, left) ==
    /\ Resumes(w, "sign")
    /\ IF InWindow(w)
       THEN /\ published' = published \cup {pending[w]}
            /\ parent' = [parent EXCEPT ![w] = p]
            /\ slot' = [slot EXCEPT ![w] = s]
            /\ pc' = [pc EXCEPT ![w] = IF s < w + W THEN "begin" ELSE "done"]
            /\ current' = IF s < w + W THEN current ELSE None
       ELSE Leave(w) /\ current' = left /\ UNCHANGED <<slot, parent, published>>
    /\ UNCHANGED <<masterchain, scheduled, base, window, state, generation, pending,
                   finalVars, signed>>

(* Starts the next round with the same slot. *)
PublishedSameSlot(w) == AfterSignature(w, slot[w], slot[w], current)

(* Keeps the parent of the window. *)
PublishedOnBase(w) == AfterSignature(w, parent[w], slot[w] + 1, current)

(* Closes the window also when it has been overtaken. *)
PublishedOrClosed(w) == AfterSignature(w, slot[w], slot[w] + 1, None)

Published(w) == AfterSignature(w, slot[w], slot[w] + 1, current)

(* The keyring answers with an error, which ends the coroutine where it stands:
   nothing is published, and current_leader_window_ is not given up. *)
SignatureFailed(w) ==
    /\ Resumes(w, "sign")
    /\ pc' = [pc EXCEPT ![w] = "failed"]
    /\ UNCHANGED <<masterchain, current, scheduled, base, window, slot, parent, state,
                   generation, pending, finalVars, signed, published>>

-----------------------------------------------------------------------------
Max(m, n) == IF m < n THEN n ELSE m

(* handle(FinalizeBlock) with final signatures. *)
FinalizeBlock(n) ==
    /\ n > consensusFinal
    /\ consensusFinal' = n
    /\ UNCHANGED <<masterchain, current, scheduled, coVars, mcFinal, signed, published>>

(* handle(BlockFinalizedInMasterchain) *)
BlockFinalizedInMasterchain(n) ==
    /\ n > mcFinal
    /\ mcFinal' = n
    /\ consensusFinal' = Max(n, consensusFinal)
    /\ UNCHANGED <<masterchain, current, scheduled, coVars, signed, published>>

Next ==
    \/ \E w \in Windows :
          \/ \E b \in Bases(w) : OurLeaderWindowStarted(w, b)
          \/ Begin(w) \/ Published(w) \/ SignatureFailed(w)
          \/ \E f \in BOOLEAN : Collated(w, f) \/ NoBlock(w, f) \/ Retry(w, f)
    \/ generate_candidates
    \/ \E n \in 1..MaxSeqno : FinalizeBlock(n) \/ BlockFinalizedInMasterchain(n)

Spec == Init /\ [][Next]_vars

-----------------------------------------------------------------------------
(* The validator signs at most one candidate for a slot, also when collation is
   retried, late, or overtaken by the next window while a signature is on its
   way: two would be an equivocation. *)
SignsOncePerSlot == \A c, d \in signed : c.slot = d.slot => c = d

(* What a window publishes is a chain from its base without gaps, in which every
   block was collated on the block below it: a collation that outlives its slot
   and ends in a later one still fits, since only empty candidates came between.
   Where there is nothing below, it starts with a block: CHECK(parent.has_value()). *)
WindowIsChain ==
    \A w \in Windows, c \in published : c.slot \in SlotsOf(w) =>
        IF c.slot = w
        THEN /\ c.parent = base[w].parent /\ c.prev = base[w].state.block
             /\ c.parent = None => c.full
        ELSE \E d \in published :
                d.slot = c.slot - 1 /\ c.parent = d.slot /\ c.prev = d.state.block

(* A full candidate that is not the first of the session builds on a block that
   is final in the masterchain group, stays within MaxAhead of the blocks the
   masterchain has in a shard, and never follows the last block before a split,
   although this is looked up before collation, slots before it is published. *)
FullWithinFinal ==
    \A c \in signed : c.full /\ c.parent # None =>
        /\ c.state.seqno <= IF masterchain THEN consensusFinal + 1 ELSE mcFinal + MaxAhead
        /\ \A d \in signed : d.slot = c.parent => ~d.state.split

(* The production of a window stops short of its last slot only because a
   signature failed, for a later window, or because the coroutine of an earlier
   one was started late, took the window for its own and closed it when it was
   through. The candidate that was not signed is never published. *)
CutShort ==
    \A w \in Windows : slot[w] < w + W =>
        /\ pc[w] = "done" =>
              \E v \in Windows : v # w /\ ((v > w /\ pc[v] # "none") \/ window[v] = w)
        /\ pc[w] = "failed" => \A c \in published : c.slot # slot[w]

=============================================================================
