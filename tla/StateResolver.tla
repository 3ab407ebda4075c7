--------------------------- MODULE StateResolver ---------------------------
(***************************************************************************)
(* One validator's StateResolverImpl (simplex/state-resolver.cpp) with the *)
(* BlockAccepter it drives and the BlockValidator that waits for it,       *)
(* through crashes and restarts, for a masterchain or a shard group.       *)
(*                                                                         *)
(* It gives the manager the blocks of the chain that ends in a finalized   *)
(* candidate (finalize_blocks), and works out the state a candidate builds *)
(* upon (resolve_state), from the manager for what it takes to be          *)
(* finalized and by applying blocks above that. Both are trees of          *)
(* coroutines, one per candidate, that wait for the one of the parent. The *)
(* state then goes with a candidate to the validator, which in the         *)
(* masterchain waits until the block before is the last one accepted.      *)
(*                                                                         *)
(* Pool is seen through FinalizationObserved. ResolveCandidate and         *)
(* accept_block retry for ever (CandidateResolver; bridge.cpp:55), and     *)
(* Db::set succeeds or aborts the process, so finalize_blocks fails only   *)
(* when the group is destroyed together with its database. A block that    *)
(* does not fit the state it is applied to aborts the process; what comes  *)
(* after that is not followed.                                             *)
(***************************************************************************)
EXTENDS Naturals

CONSTANTS
    Candidates,
    Genesis,
    parent,      \* Candidate::parent_id, Genesis for none
    block,       \* Candidate::block_id(): itself, or what an empty one refers to
    slot,        \* CandidateId::slot
    order,       \* the order of BlockIdExt: the height first, then the hash
    Final,       \* the candidates the group finalizes
    Requested,   \* those on which a full candidate comes to be validated
    MaxCrashes,  \* bound on the crashes of a behaviour
    None

ParentIds == Candidates \cup {Genesis}
Full == {c \in Candidates : block[c] = c}

(* The reference of an empty candidate is what its validators checked
   (BlockValidator: the block of the parent's state). *)
ASSUME ResolverAssumption ==
    /\ Genesis \notin Candidates /\ None \notin Candidates
    /\ parent \in [Candidates -> ParentIds]
    /\ block \in [Candidates -> Candidates]
    /\ slot \in [Candidates -> Nat] /\ order \in [ParentIds -> Nat]
    /\ Final \subseteq Candidates /\ Requested \subseteq Candidates
    /\ MaxCrashes \in Nat
    /\ \A c \in Candidates :
          /\ block[c] # c => parent[c] # Genesis /\ block[c] = block[parent[c]]
          /\ block[block[c]] = block[c]
          /\ parent[c] # Genesis => slot[parent[c]] < slot[c]
          /\ order[Genesis] < order[c]
          /\ block[c] = c /\ parent[c] # Genesis => order[block[parent[c]]] < order[c]
    /\ \A b, c \in Full : order[b] = order[c] => b = c

(* The blocks a state is made of: what ChainState::apply computes. *)
Applied[c \in ParentIds] ==
    IF c = Genesis THEN {} ELSE Applied[parent[c]] \cup {block[c]}

VARIABLES
    masterchain,   \* bus.shard.is_masterchain()
    finals,        \* the final certificates Pool has on disk
    lastFinal,     \* slots below this one are not tracked by Pool any more
    fin,           \* finalized_blocks_: where finalize_blocks_inner stands
    cert,          \* the candidate of the certificate it was given
    accepted,      \* the blocks the manager has accepted from the group
    saved,         \* the finalizedBlock keys on disk
    cache,         \* state_cache_: where resolve_state_inner stands
    state,         \* the state it found
    request,       \* how far try_notarize of the candidate on top has come
    start,         \* the last block when the session was started
    lastAccepted,  \* BlockValidator::last_accepted_block_
    aborted,       \* whether a block did not fit the state below
    crashes

finVars == <<fin, cert, accepted, saved>>
stateVars == <<cache, state, request>>
lifeVars == <<start, lastAccepted, aborted, crashes>>
vars == <<masterchain, finals, lastFinal, finVars, stateVars, lifeVars>>

TypeOK ==
    /\ masterchain \in BOOLEAN
    /\ finals \subseteq Final
    /\ lastFinal \in Nat
    /\ fin \in [Candidates -> {"none", "candidate", "parent", "accept", "save", "done"}]
    /\ cert \in [Candidates -> Candidates \cup {None}]
    /\ accepted \subseteq Full
    /\ saved \subseteq Candidates
    /\ cache \in [ParentIds -> {"none", "candidate", "parent", "ready", "failed",
                                "manager", "done"}]
    /\ state \in [ParentIds -> SUBSET Full]
    /\ request \in [Candidates -> {"idle", "waiting", "failed", "resolved", "blocked",
                                  "stale", "validated"}]
    /\ start \in ParentIds /\ lastAccepted \in ParentIds
    /\ aborted \in BOOLEAN
    /\ crashes \in 0..MaxCrashes

Init ==
    /\ masterchain \in BOOLEAN
    /\ finals = {} /\ lastFinal = 0
    /\ fin = [c \in Candidates |-> "none"]
    /\ cert = [c \in Candidates |-> None]
    /\ accepted = {} /\ saved = {}
    /\ cache = [c \in ParentIds |-> "none"]
    /\ state = [c \in ParentIds |-> {}]
    /\ request = [c \in Candidates |-> "idle"]
    /\ start = Genesis /\ lastAccepted = Genesis
    /\ aborted = FALSE
    /\ crashes = 0

-----------------------------------------------------------------------------
(* finalize_blocks *)

(* The entry of c after a call of finalize_blocks(c, f): what was started or
   done stays; the masterchain needs nothing done without a certificate. *)
finalize_blocks(c, f) ==
    IF fin[c] # "none" THEN fin[c]
    ELSE IF f = None /\ masterchain THEN "done" ELSE "candidate"

CertOf(c, f) == IF fin[c] = "none" THEN f ELSE cert[c]

(* Pool's start_up has published what is on disk before it does anything else. *)
Replayed == \A f \in finals : slot[f] < lastFinal

(* handle(FinalizationObserved): a new certificate, or one Pool replays from
   disk after a start, in any order. Pool drops what is below the last one. *)
FinalizationObserved(c) ==
    /\ c \in Final
    /\ c \in finals \/ Replayed
    /\ slot[c] >= lastFinal
    /\ finals' = finals \cup {c}
    /\ lastFinal' = slot[c] + 1
    /\ fin' = [fin EXCEPT ![c] = finalize_blocks(c, c)]
    /\ cert' = [cert EXCEPT ![c] = CertOf(c, c)]
    /\ UNCHANGED <<masterchain, accepted, saved, stateVars, lifeVars>>

(* What follows once the parent is finalized. *)
AfterParent(c) == IF c \in Full THEN "accept" ELSE "save"

(* Hands the block to the manager without waiting for the one before it. *)
CandidateNotWaiting(c) ==
    /\ fin[c] = "candidate"
    /\ LET p == parent[c]
           f == IF c \in Full THEN None ELSE cert[c]
       IN IF p = Genesis
          THEN /\ fin' = [fin EXCEPT ![c] = AfterParent(c)]
               /\ UNCHANGED cert
          ELSE /\ fin' = [fin EXCEPT ![p] = finalize_blocks(p, f), ![c] = AfterParent(c)]
               /\ cert' = [cert EXCEPT ![p] = CertOf(p, f)]
    /\ UNCHANGED <<masterchain, finals, lastFinal, accepted, saved, stateVars, lifeVars>>

(* ResolveCandidate is answered; finalize_blocks is called for the parent, with
   the certificate only if this candidate is empty. *)
CandidateResolved(c) ==
    /\ fin[c] = "candidate"
    /\ LET p == parent[c]
           f == IF c \in Full THEN None ELSE cert[c]
       IN IF p = Genesis
          THEN /\ fin' = [fin EXCEPT ![c] = AfterParent(c)]
               /\ UNCHANGED cert
          ELSE /\ fin' = [fin EXCEPT
                              ![p] = finalize_blocks(p, f),
                              ![c] = IF finalize_blocks(p, f) = "done"
                                     THEN AfterParent(c) ELSE "parent"]
               /\ cert' = [cert EXCEPT ![p] = CertOf(p, f)]
    /\ UNCHANGED <<masterchain, finals, lastFinal, accepted, saved, stateVars, lifeVars>>

ParentFinalized(c) ==
    /\ fin[c] = "parent"
    /\ fin[parent[c]] = "done"
    /\ fin' = [fin EXCEPT ![c] = AfterParent(c)]
    /\ UNCHANGED <<masterchain, finals, lastFinal, cert, accepted, saved, stateVars, lifeVars>>

(* FinalizeBlock, up to ManagerFacadeImpl::accept_block's last attempt. *)
BlockAccepted(c) ==
    /\ fin[c] = "accept"
    /\ accepted' = accepted \cup {c}
    /\ fin' = [fin EXCEPT ![c] = "save"]
    /\ UNCHANGED <<masterchain, finals, lastFinal, cert, saved, stateVars, lifeVars>>

(* The key is written before the manager has accepted the block. *)
SavedBeforeAccept(c) ==
    /\ fin[c] \in {"accept", "save"}
    /\ saved' = saved \cup {c}
    /\ fin' = [fin EXCEPT ![c] = IF c \in saved \/ c \notin Full \/ c \in accepted
                                 THEN "done" ELSE "accept"]
    /\ UNCHANGED <<masterchain, finals, lastFinal, cert, accepted, stateVars, lifeVars>>

(* The finalizedBlock key is on disk, and those who wait are told. *)
FinalizedSaved(c) ==
    /\ fin[c] = "save"
    /\ saved' = saved \cup {c}
    /\ fin' = [fin EXCEPT ![c] = "done"]
    /\ UNCHANGED <<masterchain, finals, lastFinal, cert, accepted, stateVars, lifeVars>>

-----------------------------------------------------------------------------
(* resolve_state *)

(* Also takes a candidate that is just being finalized to be finalized. *)
is_started(c) == fin[c] # "none"

is_finalized(c) == fin[c] = "done"

(* The entry of id after a call of resolve_state(id); genesis_ is there from
   the start of the session, so the manager is asked at once. *)
resolve_state(id) ==
    IF cache[id] # "none" THEN cache[id]
    ELSE IF id = Genesis THEN "manager" ELSE "candidate"

Children(id) == {c \in Candidates : parent[c] = id /\ cache[c] = "parent"}

(* Forgets the promises of those who wait for an entry that failed. *)
DeliverSuccess(id, ok) ==
    /\ cache' = [c \in ParentIds |->
           IF c = id THEN IF ok THEN "done" ELSE "none"
           ELSE IF c \in Children(id) /\ ok THEN "ready" ELSE cache[c]]
    /\ request' = [c \in Candidates |->
           IF c = id /\ request[c] = "waiting" /\ ok THEN "resolved" ELSE request[c]]

(* The end of resolve_state: everyone who waits gets the result, and a failure
   is not kept. *)
Deliver(id, ok) ==
    /\ cache' = [c \in ParentIds |->
           IF c = id THEN IF ok THEN "done" ELSE "none"
           ELSE IF c \in Children(id) THEN IF ok THEN "ready" ELSE "failed"
           ELSE cache[c]]
    /\ request' = [c \in Candidates |->
           IF c = id /\ request[c] = "waiting"
           THEN IF ok THEN "resolved" ELSE "failed" ELSE request[c]]

(* process(ResolveState), published once WaitForParent has let the candidate
   pass: its parent is the last finalized candidate or a later one. *)
ResolveState(c) ==
    /\ c \in Requested
    /\ request[c] = "idle"
    /\ Replayed /\ slot[c] + 1 >= lastFinal
    /\ request' = [request EXCEPT ![c] = IF cache[c] = "done" THEN "resolved" ELSE "waiting"]
    /\ cache' = [cache EXCEPT ![c] = resolve_state(c)]
    /\ UNCHANGED <<masterchain, finals, lastFinal, finVars, state, lifeVars>>

(* Applies the block of c to the state of its parent: ChainState::apply aborts
   when the Merkle update of the block starts from another state. *)
ApplyTo(c, s) ==
    IF c \in Full /\ s # Applied[parent[c]]
    THEN /\ aborted' = TRUE
         /\ UNCHANGED stateVars
    ELSE /\ state' = [state EXCEPT ![c] = IF c \in Full THEN s \cup {c} ELSE s]
         /\ Deliver(c, TRUE)
         /\ UNCHANGED aborted

(* ResolveCandidate is answered: ask the manager for a finalized block, else
   the parent; what the cache has is used at once. *)
StateCandidateResolved(c) ==
    /\ cache[c] = "candidate"
    /\ LET p == parent[c] IN
       \/ /\ c \in Full /\ is_finalized(c)
          /\ cache' = [cache EXCEPT ![c] = "manager"]
          /\ UNCHANGED <<state, request, aborted>>
       \/ /\ ~(c \in Full /\ is_finalized(c))
          /\ cache[p] # "done"
          /\ cache' = [cache EXCEPT ![p] = resolve_state(p), ![c] = "parent"]
          /\ UNCHANGED <<state, request, aborted>>
       \/ /\ ~(c \in Full /\ is_finalized(c))
          /\ cache[p] = "done"
          /\ ApplyTo(c, state[p])
    /\ UNCHANGED <<masterchain, finals, lastFinal, finVars, start, lastAccepted, crashes>>

(* The parent's state has come: apply the block. *)
ParentState(c) ==
    /\ cache[c] = "ready"
    /\ ApplyTo(c, state[parent[c]])
    /\ UNCHANGED <<masterchain, finals, lastFinal, finVars, start, lastAccepted, crashes>>

ParentStateFailed(c) ==
    /\ cache[c] = "failed"
    /\ Deliver(c, FALSE)
    /\ UNCHANGED <<masterchain, finals, lastFinal, finVars, state, lifeVars>>

(* ChainState::from_manager, which gives up after ten seconds. No candidate
   means the block the session was started from. *)
ManagerState(id) ==
    /\ cache[id] = "manager"
    /\ state' = [state EXCEPT ![id] = Applied[IF id = Genesis THEN start ELSE id]]
    /\ Deliver(id, TRUE)
    /\ UNCHANGED <<masterchain, finals, lastFinal, finVars, lifeVars>>

ManagerStateFailed(id) ==
    /\ cache[id] = "manager"
    /\ Deliver(id, FALSE)
    /\ UNCHANGED <<masterchain, finals, lastFinal, finVars, state, lifeVars>>

-----------------------------------------------------------------------------
(* BlockValidator *)

(* Only as many validations go on as there are blocks to go with. *)
WakeOne(b) ==
    /\ masterchain
    /\ b \in accepted \cup {block[f] : f \in Final}
    /\ order[lastAccepted] < order[b]
    /\ lastAccepted' = b
    /\ request' = [c \in Candidates |->
           IF request[c] = "blocked" /\ block[c] = b THEN "resolved" ELSE request[c]]
    /\ UNCHANGED <<masterchain, finals, lastFinal, finVars, cache, state, start, aborted, crashes>>

(* FinalizeBlock is done, or the manager has the block from elsewhere and says
   BlockFinalizedInMasterchain: all who wait look again. A shard's validator
   never looks at last_accepted_block_. *)
on_new_accepted_block(b) ==
    /\ masterchain
    /\ b \in accepted \cup {block[f] : f \in Final}
    /\ order[lastAccepted] < order[b]
    /\ lastAccepted' = b
    /\ request' = [c \in Candidates |->
           IF request[c] = "blocked" THEN "resolved" ELSE request[c]]
    /\ UNCHANGED <<masterchain, finals, lastFinal, finVars, cache, state, start, aborted, crashes>>

(* Goes on although a later block than the expected one is accepted, or before. *)
ValidateAtOnce(c) ==
    /\ request[c] = "resolved"
    /\ request' = [request EXCEPT ![c] = "validated"]
    /\ UNCHANGED <<masterchain, finals, lastFinal, finVars, cache, state, lifeVars>>

(* process(ValidationRequest) of a full candidate on top of c. *)
ValidationRequest(c) ==
    /\ request[c] = "resolved"
    /\ request' = [request EXCEPT ![c] =
           IF masterchain /\ order[lastAccepted] < order[block[c]] THEN "blocked"
           ELSE IF masterchain /\ order[block[c]] < order[lastAccepted] THEN "stale"
           ELSE "validated"]
    /\ UNCHANGED <<masterchain, finals, lastFinal, finVars, cache, state, lifeVars>>

-----------------------------------------------------------------------------
(* A crash, then start_up: what was saved is done. The manager starts the
   session from its last block: of the masterchain all that was accepted, of a
   shard what the masterchain has of it. *)
Restart ==
    /\ crashes < MaxCrashes
    /\ crashes' = crashes + 1
    /\ start' \in {b \in {Genesis} \cup accepted :
                      masterchain => \A o \in accepted : order[o] <= order[b]}
    /\ lastAccepted' = start'
    /\ lastFinal' = 0
    /\ fin' = [c \in Candidates |-> IF c \in saved THEN "done" ELSE "none"]
    /\ cert' = [c \in Candidates |-> None]
    /\ cache' = [c \in ParentIds |-> "none"]
    /\ state' = [c \in ParentIds |-> {}]
    /\ request' = [c \in Candidates |-> "idle"]
    /\ UNCHANGED <<masterchain, finals, accepted, saved, aborted>>

FinalizeStep(c) ==
    \/ CandidateResolved(c) \/ ParentFinalized(c)
    \/ BlockAccepted(c) \/ FinalizedSaved(c)

StateStep(id) ==
    \/ ManagerState(id) \/ ManagerStateFailed(id)
    \/ id \in Candidates /\ \/ StateCandidateResolved(id)
                            \/ ParentState(id) \/ ParentStateFailed(id)

Next ==
    /\ ~aborted
    /\ \/ \E c \in Candidates :
             \/ FinalizationObserved(c) \/ FinalizeStep(c)
             \/ ResolveState(c) \/ ValidationRequest(c) \/ on_new_accepted_block(c)
       \/ \E id \in ParentIds : StateStep(id)
       \/ Restart

Spec == Init /\ [][Next]_vars

(* Coroutines run on, mailboxes are emptied, and Pool replays what it has on
   disk. In one life there is only so much of this to do. *)
Internal ==
    /\ ~aborted
    /\ \/ \E c \in finals : FinalizationObserved(c)
       \/ \E c \in Candidates : FinalizeStep(c) \/ ValidationRequest(c)
       \/ \E b \in accepted : on_new_accepted_block(b)
       \/ \E id \in ParentIds : StateStep(id)

FairSpec == Spec /\ WF_vars(Internal)

-----------------------------------------------------------------------------
A == INSTANCE AcceptedChain
     WITH masterchain <- masterchain, finals <- finals, accepted <- accepted

(* The group gives the manager what AcceptedChain allows: in a shard no block
   before its predecessor, in the masterchain none without a final certificate,
   whatever is observed first and wherever it crashes (finalize_blocks). *)
ImplementsAcceptedChain == A!Spec

(* A state is asked of the manager of a shard only for a block it was given, so
   is_finalized, also as start_up restores it, never sends resolve_state to wait
   for a block that this validator has yet to hand over. *)
ManagerHasBlock ==
    \A c \in Full : cache[c] = "manager" /\ ~masterchain => c \in accepted

(* ChainState::apply never meets a block that starts from another state: its
   .ensure() on the Merkle update says so. *)
ApplyFits == ~aborted

(* In the masterchain no full candidate is validated, and so none is voted for,
   unless the block below it is final. *)
MasterchainOnFinal ==
    \A c \in Candidates : request[c] = "validated" /\ masterchain
        => \E f \in Final : block[f] = block[c]

(* Whoever waits for a state waits for an entry that is being worked on: none is
   left in the promises of an entry whose parent failed, was answered from the
   cache or was started anew in between. *)
WaitersHaveTask ==
    /\ \A c \in Candidates : request[c] = "waiting" => cache[c] \notin {"none", "done"}
    /\ \A c \in Candidates : cache[c] = "parent" => cache[parent[c]] \notin {"none", "done"}

(* A validation that waits for the block below it has not missed it: what
   last_accepted_block_ is at is below (next_block_promises_). *)
NoLostWakeup ==
    \A c \in Candidates : request[c] = "blocked" => order[lastAccepted] < order[block[c]]

(* A finalized candidate's block reaches the manager, also when the process dies
   after the certificate was saved; in the masterchain a later finalization may
   take its place. *)
FinalIsAccepted ==
    \A c \in Final :
        c \in finals
            ~> \/ block[c] \in accepted \/ aborted
               \/ masterchain /\ \E f \in finals : slot[f] > slot[c]

=============================================================================
