------------------------ MODULE StateResolverProofs ------------------------
(***************************************************************************)
(* Proofs about StateResolver for every set of candidates, every chain and *)
(* any number of crashes: what a group hands to the manager is what        *)
(* AcceptedChain allows, and the invariants of the resolver and of the     *)
(* validator hold.                                                         *)
(***************************************************************************)
EXTENDS StateResolver, TLAPS

USE ZenonT(20)

(* The part of the types that the proofs need. *)
Types ==
    /\ masterchain \in BOOLEAN
    /\ finals \subseteq Final
    /\ fin \in [Candidates -> {"none", "candidate", "parent", "accept", "save", "done"}]
    /\ cert \in [Candidates -> Candidates \cup {None}]
    /\ accepted \subseteq Full
    /\ saved \subseteq Candidates
    /\ cache \in [ParentIds -> {"none", "candidate", "parent", "ready", "failed",
                                "manager", "done"}]
    /\ request \in [Candidates -> {"idle", "waiting", "failed", "resolved", "blocked",
                                  "stale", "validated"}]
    /\ lastAccepted \in ParentIds

(* The masterchain works on a candidate only with a certificate for its block. *)
CertifiedWork ==
    masterchain =>
        \A c \in Candidates : fin[c] \in {"candidate", "parent", "accept"} =>
            cert[c] \in finals /\ block[cert[c]] = block[c]

(* Whatever is being worked on, something is final; only blocks are accepted. *)
WorkNeedsFinal ==
    \A c \in Candidates :
        /\ fin[c] \in {"candidate", "parent", "accept"} => finals # {}
        /\ fin[c] = "accept" => c \in Full

(* In a shard the work on a candidate goes as far as the manager has its blocks. *)
WorkInOrder ==
    ~masterchain =>
        \A c \in Candidates :
            /\ fin[c] = "done" \/ c \in saved => block[c] \in accepted
            /\ fin[c] \in {"accept", "save"} =>
                  parent[c] = Genesis \/ block[parent[c]] \in accepted
            /\ fin[c] = "save" /\ c \in Full => c \in accepted

(* The masterchain's blocks have certificates. *)
AcceptedFinal ==
    masterchain =>
        /\ \A b \in accepted : \E f \in Final : block[f] = b
        /\ lastAccepted # Genesis => \E f \in Final : block[f] = lastAccepted

IInv ==
    /\ Types
    /\ CertifiedWork /\ WorkNeedsFinal /\ WorkInOrder /\ AcceptedFinal
    /\ ManagerHasBlock /\ MasterchainOnFinal /\ WaitersHaveTask /\ NoLostWakeup

USE ResolverAssumption

(* The candidate of a block is full, and a candidate is not its own parent. *)
LEMMA Chain ==
    ASSUME NEW c \in Candidates
    PROVE  /\ block[c] \in Full
           /\ parent[c] \in ParentIds
           /\ parent[c] # c
           /\ parent[c] # Genesis => parent[c] \in Candidates
           /\ c \notin Full => parent[c] # Genesis /\ block[c] = block[parent[c]]
           /\ c \in Full => block[c] = c
BY SMT DEF Full, ParentIds

LEMMA InitIInv == Init => IInv
BY SMT DEF Init, IInv, Types, CertifiedWork, WorkNeedsFinal, WorkInOrder, AcceptedFinal,
       ManagerHasBlock, MasterchainOnFinal, WaitersHaveTask, NoLostWakeup, Full, ParentIds

(* The actions of finalize_blocks leave the rest alone. *)
LEMMA FinPreserves ==
    ASSUME IInv, Types', CertifiedWork', WorkNeedsFinal', WorkInOrder',
           accepted \subseteq accepted', AcceptedFinal',
           UNCHANGED <<masterchain, stateVars, lastAccepted>>
    PROVE  IInv'
BY DEF IInv, ManagerHasBlock, MasterchainOnFinal, WaitersHaveTask, NoLostWakeup, stateVars

(* What changes only the states and the requests keeps what finalize_blocks needs. *)
LEMMA StatePreserves ==
    ASSUME IInv, UNCHANGED <<masterchain, finals, finVars, lastAccepted>>,
           cache' \in [ParentIds -> {"none", "candidate", "parent", "ready", "failed",
                                     "manager", "done"}],
           request' \in [Candidates -> {"idle", "waiting", "failed", "resolved", "blocked",
                                       "stale", "validated"}],
           ManagerHasBlock', MasterchainOnFinal', WaitersHaveTask', NoLostWakeup'
    PROVE  IInv'
BY DEF IInv, Types, CertifiedWork, WorkNeedsFinal, WorkInOrder, AcceptedFinal, finVars

LEMMA ObservedPreserves ==
    ASSUME IInv, NEW c \in Candidates, FinalizationObserved(c)
    PROVE  IInv'
<1>1. Types'
  BY DEF IInv, Types, FinalizationObserved, finalize_blocks, CertOf, stateVars, lifeVars
<1>2. CertifiedWork' /\ WorkNeedsFinal' /\ WorkInOrder'
  BY DEF IInv, Types, CertifiedWork, WorkNeedsFinal, WorkInOrder, FinalizationObserved,
         finalize_blocks, CertOf
<1>3. AcceptedFinal'
  BY DEF IInv, AcceptedFinal, FinalizationObserved, lifeVars
<1> QED
  BY <1>1, <1>2, <1>3, FinPreserves DEF FinalizationObserved, stateVars, lifeVars

LEMMA CandidatePreserves ==
    ASSUME IInv, NEW c \in Candidates, CandidateResolved(c)
    PROVE  IInv'
<1> DEFINE p == parent[c]
           f == IF c \in Full THEN None ELSE cert[c]
<1>1. Types'
  BY Chain, SMT DEF IInv, Types, CandidateResolved, finalize_blocks, CertOf, AfterParent, stateVars,
         lifeVars, ParentIds
<1>2. CASE p = Genesis
  <2>1. c \in Full
    BY <1>2, Chain
  <2>2. /\ fin' = [fin EXCEPT ![c] = "accept"] /\ fin[c] = "candidate"
        /\ UNCHANGED <<cert, masterchain, finals, accepted, saved>>
    BY <1>2, <2>1 DEF CandidateResolved, AfterParent
  <2>3. CertifiedWork' /\ WorkNeedsFinal' /\ WorkInOrder'
    BY <1>2, <2>1, <2>2 DEF IInv, Types, CertifiedWork, WorkNeedsFinal, WorkInOrder
  <2> QED
    BY <1>1, <2>3, FinPreserves DEF CandidateResolved, stateVars, lifeVars, IInv, AcceptedFinal
<1>3. CASE p # Genesis
  <2>0. p \in Candidates /\ p # c
    BY <1>3, Chain
  <2>1. /\ fin[c] = "candidate"
        /\ fin' = [fin EXCEPT ![p] = finalize_blocks(p, f),
                              ![c] = IF finalize_blocks(p, f) = "done"
                                     THEN AfterParent(c) ELSE "parent"]
        /\ cert' = [cert EXCEPT ![p] = CertOf(p, f)]
        /\ UNCHANGED <<masterchain, finals, accepted, saved>>
    BY <1>3 DEF CandidateResolved
  <2>2. /\ fin'[c] = IF finalize_blocks(p, f) = "done" THEN AfterParent(c) ELSE "parent"
        /\ fin'[p] = finalize_blocks(p, f)
        /\ \A d \in Candidates \ {c, p} : fin'[d] = fin[d]
        /\ \A d \in Candidates \ {p} : cert'[d] = cert[d]
        /\ cert'[p] = CertOf(p, f)
    BY <2>0, <2>1 DEF IInv, Types
  <2>3. CertifiedWork'
    <3> SUFFICES ASSUME masterchain, NEW d \in Candidates,
                        fin'[d] \in {"candidate", "parent", "accept"}
                 PROVE  cert'[d] \in finals /\ block[cert'[d]] = block[d]
      BY <2>1 DEF CertifiedWork
    <3>0. cert[c] \in finals /\ block[cert[c]] = block[c]
      BY <2>1 DEF IInv, CertifiedWork
    <3>1. CASE d = p
      <4>1. CASE fin[p] = "none"
        <5>1. f # None /\ cert'[p] = f
          BY <4>1, <3>1, <2>2 DEF finalize_blocks, CertOf
        <5>2. c \notin Full /\ f = cert[c] /\ block[c] = block[p]
          BY <5>1, Chain
        <5> QED
          BY <5>1, <5>2, <3>0, <3>1
      <4>2. CASE fin[p] # "none"
        BY <4>2, <3>1, <2>2, <2>0 DEF IInv, CertifiedWork, finalize_blocks, CertOf
      <4> QED BY <4>1, <4>2
    <3>2. CASE d = c
      BY <3>0, <3>2, <2>0, <2>2
    <3>3. CASE d \notin {c, p}
      BY <3>3, <2>2 DEF IInv, CertifiedWork
    <3> QED BY <3>1, <3>2, <3>3
  <2>4. WorkNeedsFinal'
    <3>1. finals # {}
      BY <2>1 DEF IInv, WorkNeedsFinal
    <3>2. /\ fin'[c] = "accept" => c \in Full
          /\ fin'[p] = "accept" => fin[p] = "accept"
      BY <2>2 DEF finalize_blocks, AfterParent
    <3>3. \A d \in Candidates : fin'[d] = "accept" => d \in Full
      BY <3>2, <2>0, <2>2 DEF IInv, WorkNeedsFinal
    <3> QED BY <3>1, <3>3, <2>1 DEF WorkNeedsFinal, Full
  <2>5. WorkInOrder'
    <3> SUFFICES ASSUME ~masterchain, NEW d \in Candidates
                 PROVE  /\ fin'[d] = "done" \/ d \in saved => block[d] \in accepted
                        /\ fin'[d] \in {"accept", "save"} =>
                              parent[d] = Genesis \/ block[parent[d]] \in accepted
                        /\ fin'[d] = "save" /\ d \in Full => d \in accepted
      BY <2>1 DEF WorkInOrder
    <3>1. finalize_blocks(p, f) = IF fin[p] = "none" THEN "candidate" ELSE fin[p]
      BY DEF finalize_blocks
    <3>2. CASE d = p
      BY <3>1, <3>2, <2>2, <2>0, SMT DEF IInv, WorkInOrder
    <3>3. CASE d = c
      <4>1. finalize_blocks(p, f) = "done" => block[p] \in accepted
        BY <3>1, <2>0 DEF IInv, WorkInOrder
      <4>2. fin'[c] # "done" /\ (fin'[c] = "save" => c \notin Full)
        BY <2>2 DEF AfterParent
      <4>3. fin'[c] \in {"accept", "save"} => finalize_blocks(p, f) = "done"
        BY <2>2
      <4> QED
        BY <4>1, <4>2, <4>3, <3>3 DEF IInv, WorkInOrder
    <3>4. CASE d \notin {c, p}
      BY <3>4, <2>2 DEF IInv, WorkInOrder
    <3> QED BY <3>2, <3>3, <3>4
  <2> QED
    BY <1>1, <2>3, <2>4, <2>5, FinPreserves
    DEF CandidateResolved, stateVars, lifeVars, IInv, AcceptedFinal
<1> QED BY <1>2, <1>3

LEMMA ParentPreserves ==
    ASSUME IInv, NEW c \in Candidates, ParentFinalized(c)
    PROVE  IInv'
<1>0. /\ fin[c] = "parent" /\ fin[parent[c]] = "done"
      /\ fin' = [fin EXCEPT ![c] = AfterParent(c)]
      /\ UNCHANGED <<masterchain, finals, cert, accepted, saved, stateVars, lastAccepted>>
  BY DEF ParentFinalized, lifeVars
<1>1. Types'
  BY <1>0 DEF IInv, Types, AfterParent, stateVars
<1>2. CertifiedWork' /\ WorkNeedsFinal'
  BY <1>0 DEF IInv, Types, CertifiedWork, WorkNeedsFinal, AfterParent
<1>3. WorkInOrder'
  <2>1. ~masterchain => parent[c] = Genesis \/ block[parent[c]] \in accepted
    BY <1>0, Chain DEF IInv, WorkInOrder
  <2>2. fin'[c] # "done" /\ (fin'[c] = "save" => c \notin Full)
    BY <1>0 DEF AfterParent, IInv, Types
  <2> QED
    BY <1>0, <2>1, <2>2 DEF IInv, Types, WorkInOrder
<1>4. AcceptedFinal'
  BY <1>0 DEF IInv, AcceptedFinal
<1> QED BY <1>0, <1>1, <1>2, <1>3, <1>4, FinPreserves

(* What AcceptedChain asks for before a block is accepted. *)
LEMMA AcceptAllowed ==
    ASSUME IInv, NEW c \in Candidates, BlockAccepted(c)
    PROVE  c \in Full /\ A!Accept(c)
<1>1. fin[c] = "accept" /\ accepted' = accepted \cup {c} /\ UNCHANGED <<masterchain, finals>>
  BY DEF BlockAccepted
<1>2. finals # {} /\ c \in Full
  BY <1>1 DEF IInv, WorkNeedsFinal
<1>3. masterchain => \E f \in finals : block[f] = c
  BY <1>1, <1>2, Chain, SMT DEF IInv, CertifiedWork
<1>4. ~masterchain => parent[c] = Genesis \/ block[parent[c]] \in accepted
  BY <1>1 DEF IInv, WorkInOrder
<1> QED BY <1>1, <1>2, <1>3, <1>4 DEF A!Accept

LEMMA AcceptPreserves ==
    ASSUME IInv, NEW c \in Candidates, BlockAccepted(c)
    PROVE  IInv'
<1>0. /\ fin[c] = "accept" /\ c \in Full /\ accepted' = accepted \cup {c}
      /\ fin' = [fin EXCEPT ![c] = "save"]
      /\ UNCHANGED <<masterchain, finals, cert, saved, stateVars, lastAccepted>>
  BY AcceptAllowed DEF BlockAccepted, lifeVars
<1>1. Types'
  BY <1>0 DEF IInv, Types, stateVars, Full
<1>2. CertifiedWork' /\ WorkNeedsFinal' /\ WorkInOrder'
  BY <1>0 DEF IInv, Types, CertifiedWork, WorkNeedsFinal, WorkInOrder
<1>3. AcceptedFinal'
  <2>1. masterchain => \E f \in Final : block[f] = c
    BY <1>0, Chain, SMT DEF IInv, Types, CertifiedWork
  <2> QED BY <1>0, <2>1 DEF IInv, AcceptedFinal
<1> QED BY <1>0, <1>1, <1>2, <1>3, FinPreserves

LEMMA SavedPreserves ==
    ASSUME IInv, NEW c \in Candidates, FinalizedSaved(c)
    PROVE  IInv'
<1>0. /\ fin[c] = "save" /\ saved' = saved \cup {c}
      /\ fin' = [fin EXCEPT ![c] = "done"]
      /\ UNCHANGED <<masterchain, finals, cert, accepted, stateVars, lastAccepted>>
  BY DEF FinalizedSaved, lifeVars
<1>1. Types'
  BY <1>0 DEF IInv, Types, stateVars
<1>2. CertifiedWork' /\ WorkNeedsFinal'
  BY <1>0 DEF IInv, Types, CertifiedWork, WorkNeedsFinal
<1>3. WorkInOrder'
  <2>1. ~masterchain => block[c] \in accepted
    BY <1>0, Chain DEF IInv, WorkInOrder
  <2> QED BY <1>0, <2>1 DEF IInv, Types, WorkInOrder
<1>4. AcceptedFinal'
  BY <1>0 DEF IInv, AcceptedFinal
<1> QED BY <1>0, <1>1, <1>2, <1>3, <1>4, FinPreserves

(* The end of an entry keeps the promises to those who wait. *)
LEMMA DeliverPreserves ==
    ASSUME IInv, NEW id \in ParentIds, NEW ok \in BOOLEAN, Deliver(id, ok),
           UNCHANGED <<masterchain, finals, finVars, lastAccepted>>
    PROVE  IInv'
<1>1. /\ cache' \in [ParentIds -> {"none", "candidate", "parent", "ready", "failed",
                                    "manager", "done"}]
      /\ request' \in [Candidates -> {"idle", "waiting", "failed", "resolved", "blocked",
                                       "stale", "validated"}]
  BY DEF Deliver, IInv, Types
<1>2. /\ \A d \in ParentIds : cache'[d] = "manager" => cache[d] = "manager"
      /\ \A d \in Candidates : request'[d] \in {"validated", "blocked"} => request'[d] = request[d]
  BY DEF Deliver, Children
<1>3. ManagerHasBlock' /\ MasterchainOnFinal' /\ NoLostWakeup'
  BY <1>2 DEF IInv, ManagerHasBlock, MasterchainOnFinal, NoLostWakeup, Full, ParentIds, finVars
<1>4. WaitersHaveTask'
  <2> SUFFICES ASSUME NEW c \in Candidates
               PROVE  /\ request'[c] = "waiting" => cache'[c] \notin {"none", "done"}
                      /\ cache'[c] = "parent" => cache'[parent[c]] \notin {"none", "done"}
    BY DEF WaitersHaveTask
  <2>0. c \in ParentIds /\ parent[c] \in ParentIds /\ parent[c] # c
    BY Chain DEF ParentIds
  <2>1. request'[c] = "waiting" => c # id /\ request[c] = "waiting"
    BY DEF Deliver
  <2>2. request'[c] = "waiting" => cache'[c] \notin {"none", "done"}
    BY <2>0, <2>1 DEF Deliver, IInv, WaitersHaveTask
  <2>3. cache'[c] = "parent" => c # id /\ cache[c] = "parent" /\ parent[c] # id
    BY <2>0 DEF Deliver, Children
  <2>4. cache'[c] = "parent" => cache'[parent[c]] \notin {"none", "done"}
    BY <2>0, <2>3 DEF Deliver, IInv, WaitersHaveTask
  <2> QED BY <2>2, <2>4
<1> QED BY <1>1, <1>3, <1>4, StatePreserves

(* ApplyTo delivers a state, unless the process ends. *)
LEMMA ApplyPreserves ==
    ASSUME IInv, NEW c \in Candidates, NEW s, ApplyTo(c, s),
           UNCHANGED <<masterchain, finals, finVars, lastAccepted>>
    PROVE  IInv'
<1>1. CASE aborted' = TRUE /\ UNCHANGED stateVars
  BY <1>1 DEF IInv, Types, CertifiedWork, WorkNeedsFinal, WorkInOrder, AcceptedFinal,
              ManagerHasBlock, MasterchainOnFinal, WaitersHaveTask, NoLostWakeup, finVars, stateVars
<1>2. CASE Deliver(c, TRUE)
  BY <1>2, DeliverPreserves DEF ParentIds
<1> QED BY <1>1, <1>2 DEF ApplyTo

LEMMA ResolvePreserves ==
    ASSUME IInv, NEW c \in Candidates, ResolveState(c)
    PROVE  IInv'
<1>0. /\ request[c] = "idle"
      /\ request' = [request EXCEPT ![c] = IF cache[c] = "done" THEN "resolved" ELSE "waiting"]
      /\ cache' = [cache EXCEPT ![c] = resolve_state(c)]
      /\ UNCHANGED <<masterchain, finals, finVars, lastAccepted>>
  BY DEF ResolveState, lifeVars
<1>1. /\ c \in ParentIds /\ c # Genesis
      /\ resolve_state(c) = IF cache[c] = "none" THEN "candidate" ELSE cache[c]
  BY DEF resolve_state, ParentIds
<1>2. /\ cache' \in [ParentIds -> {"none", "candidate", "parent", "ready", "failed",
                                    "manager", "done"}]
      /\ request' \in [Candidates -> {"idle", "waiting", "failed", "resolved", "blocked",
                                       "stale", "validated"}]
  BY <1>0, <1>1 DEF IInv, Types
<1>3. ManagerHasBlock' /\ MasterchainOnFinal' /\ NoLostWakeup'
  BY <1>0, <1>1, SMT DEF IInv, Types, ManagerHasBlock, MasterchainOnFinal, NoLostWakeup, Full,
                    ParentIds, finVars
<1>4. WaitersHaveTask'
  BY <1>0, <1>1, Chain, SMT DEF IInv, Types, WaitersHaveTask
<1> QED BY <1>0, <1>2, <1>3, <1>4, StatePreserves

LEMMA StateCandidatePreserves ==
    ASSUME IInv, NEW c \in Candidates, StateCandidateResolved(c)
    PROVE  IInv'
<1> DEFINE p == parent[c]
<1>0. /\ cache[c] = "candidate"
      /\ UNCHANGED <<masterchain, finals, finVars, lastAccepted>>
      /\ c \in ParentIds /\ p \in ParentIds /\ p # c
  BY Chain DEF StateCandidateResolved, ParentIds
<1>1. CASE /\ c \in Full /\ is_finalized(c)
           /\ cache' = [cache EXCEPT ![c] = "manager"] /\ UNCHANGED request
  <2>1. ~masterchain => c \in accepted
    BY <1>1, Chain DEF IInv, WorkInOrder, is_finalized
  <2>2. /\ cache' \in [ParentIds -> {"none", "candidate", "parent", "ready", "failed",
                                      "manager", "done"}]
        /\ ManagerHasBlock' /\ MasterchainOnFinal' /\ NoLostWakeup'
    BY <1>0, <1>1, <2>1, SMT DEF IInv, Types, ManagerHasBlock, MasterchainOnFinal, NoLostWakeup,
                            finVars, Full, ParentIds
  <2>3. WaitersHaveTask'
    BY <1>0, <1>1, Chain, SMT DEF IInv, Types, WaitersHaveTask
  <2> QED BY <1>0, <1>1, <2>2, <2>3, StatePreserves DEF IInv, Types
<1>2. CASE /\ cache[p] # "done" /\ UNCHANGED request
           /\ cache' = [cache EXCEPT ![p] = resolve_state(p), ![c] = "parent"]
  <2>1. /\ resolve_state(p) \notin {"none", "done"}
        /\ resolve_state(p) = "manager" => p = Genesis \/ cache[p] = "manager"
        /\ resolve_state(p) = cache[p] \/ cache[p] = "none"
        /\ resolve_state(p) \in {"candidate", "parent", "ready", "failed", "manager", "done"}
    BY <1>0, <1>2 DEF resolve_state, IInv, Types
  <2>2. /\ cache'[c] = "parent" /\ cache'[p] = resolve_state(p)
        /\ \A d \in ParentIds \ {c, p} : cache'[d] = cache[d]
        /\ cache' \in [ParentIds -> {"none", "candidate", "parent", "ready", "failed",
                                      "manager", "done"}]
    BY <1>0, <1>2, <2>1 DEF IInv, Types
  <2>3. ManagerHasBlock' /\ MasterchainOnFinal' /\ NoLostWakeup'
    BY <1>0, <1>2, <2>1, <2>2, SMT DEF IInv, ManagerHasBlock, MasterchainOnFinal, NoLostWakeup,
                            finVars, Full, ParentIds
  <2>4. WaitersHaveTask'
    <3> SUFFICES ASSUME NEW d \in Candidates
                 PROVE  /\ request[d] = "waiting" => cache'[d] \notin {"none", "done"}
                        /\ cache'[d] = "parent" => cache'[parent[d]] \notin {"none", "done"}
      BY <1>2 DEF WaitersHaveTask
    <3>1. d \in ParentIds /\ parent[d] \in ParentIds
      BY Chain DEF ParentIds
    <3>2. request[d] = "waiting" => cache'[d] \notin {"none", "done"}
      BY <3>1, <2>1, <2>2 DEF IInv, WaitersHaveTask
    <3>3. CASE parent[d] \in {c, p}
      BY <3>2, <3>3, <2>1, <2>2
    <3>4. CASE parent[d] \notin {c, p}
      <4>1. cache'[parent[d]] = cache[parent[d]]
        BY <3>1, <3>4, <2>2
      <4>2. d # c
        BY <3>4
      <4>3. d # p \/ cache[p] # "none" => (cache'[d] = "parent" => cache[d] = "parent")
        BY <4>2, <3>1, <2>1, <2>2
      <4>4. cache[p] = "none" => resolve_state(p) # "parent"
        BY <1>0 DEF resolve_state
      <4> QED BY <4>1, <4>2, <4>3, <4>4, <3>1, <3>2, <2>2 DEF IInv, WaitersHaveTask
    <3> QED BY <3>2, <3>3, <3>4
  <2> QED BY <1>0, <1>2, <2>2, <2>3, <2>4, StatePreserves DEF IInv, Types
<1>3. CASE ApplyTo(c, state[p])
  BY <1>0, <1>3, ApplyPreserves
<1> QED BY <1>1, <1>2, <1>3 DEF StateCandidateResolved

LEMMA AcceptedBlockPreserves ==
    ASSUME IInv, NEW b \in Candidates, on_new_accepted_block(b)
    PROVE  IInv'
<1>0. /\ masterchain /\ b \in accepted \cup {block[f] : f \in Final}
      /\ lastAccepted' = b
      /\ request' = [c \in Candidates |->
             IF request[c] = "blocked" THEN "resolved" ELSE request[c]]
      /\ UNCHANGED <<masterchain, finals, fin, cert, accepted, saved, cache>>
  BY DEF on_new_accepted_block, finVars
<1>1. Types'
  BY <1>0 DEF IInv, Types, ParentIds
<1>2. AcceptedFinal'
  BY <1>0, SMT DEF IInv, AcceptedFinal
<1>3. CertifiedWork' /\ WorkNeedsFinal' /\ WorkInOrder' /\ ManagerHasBlock'
  BY <1>0 DEF IInv, CertifiedWork, WorkNeedsFinal, WorkInOrder, ManagerHasBlock
<1>4. MasterchainOnFinal' /\ WaitersHaveTask' /\ NoLostWakeup'
  BY <1>0 DEF IInv, MasterchainOnFinal, WaitersHaveTask, NoLostWakeup
<1> QED BY <1>1, <1>2, <1>3, <1>4 DEF IInv

LEMMA ValidationPreserves ==
    ASSUME IInv, NEW c \in Candidates, ValidationRequest(c)
    PROVE  IInv'
<1> DEFINE r == IF masterchain /\ order[lastAccepted] < order[block[c]] THEN "blocked"
                ELSE IF masterchain /\ order[block[c]] < order[lastAccepted] THEN "stale"
                ELSE "validated"
<1>0. /\ request[c] = "resolved"
      /\ request' = [request EXCEPT ![c] = r]
      /\ UNCHANGED <<masterchain, finals, finVars, cache, lastAccepted>>
  BY DEF ValidationRequest, lifeVars
<1>1. request' \in [Candidates -> {"idle", "waiting", "failed", "resolved", "blocked",
                                   "stale", "validated"}]
  BY <1>0 DEF IInv, Types
<1>2. /\ request'[c] = r /\ r \in {"blocked", "stale", "validated"}
      /\ \A d \in Candidates \ {c} : request'[d] = request[d]
  BY <1>0 DEF IInv, Types
<1> HIDE DEF r
<1>3. masterchain /\ r = "validated" => \E f \in Final : block[f] = block[c]
  <2> SUFFICES ASSUME masterchain, r = "validated"
               PROVE  \E f \in Final : block[f] = block[c]
    OBVIOUS
  <2>1. /\ order[lastAccepted] \in Nat /\ order[block[c]] \in Nat
        /\ block[c] \in Full /\ order[Genesis] < order[block[c]] /\ order[Genesis] \in Nat
    BY Chain DEF IInv, Types, ParentIds, Full
  <2>2. order[lastAccepted] = order[block[c]]
    BY <2>1, SMT DEF r
  <2>3. PICK f \in Final : block[f] = lastAccepted
    BY <2>1, <2>2, SMT DEF IInv, AcceptedFinal
  <2>4. lastAccepted \in Full
    BY <2>3, Chain
  <2> QED BY <2>1, <2>2, <2>3, <2>4
<1>4. r = "blocked" => order[lastAccepted] < order[block[c]]
  BY DEF r
<1>5. MasterchainOnFinal' /\ NoLostWakeup' /\ WaitersHaveTask' /\ ManagerHasBlock'
  BY <1>0, <1>2, <1>3, <1>4
  DEF IInv, MasterchainOnFinal, NoLostWakeup, WaitersHaveTask, ManagerHasBlock, finVars
<1> QED BY <1>0, <1>1, <1>5, StatePreserves DEF IInv, Types

LEMMA RestartPreserves ==
    ASSUME IInv, Restart
    PROVE  IInv'
<1>0. /\ start' \in {Genesis} \cup accepted /\ lastAccepted' = start'
      /\ fin' = [c \in Candidates |-> IF c \in saved THEN "done" ELSE "none"]
      /\ cert' = [c \in Candidates |-> None]
      /\ cache' = [c \in ParentIds |-> "none"]
      /\ request' = [c \in Candidates |-> "idle"]
      /\ UNCHANGED <<masterchain, finals, accepted, saved>>
  BY DEF Restart
<1>1. Types'
  BY <1>0 DEF IInv, Types, ParentIds, Full
<1>2. CertifiedWork' /\ WorkNeedsFinal' /\ WorkInOrder'
  BY <1>0 DEF IInv, CertifiedWork, WorkNeedsFinal, WorkInOrder
<1>3. AcceptedFinal'
  BY <1>0 DEF IInv, AcceptedFinal
<1>4. ManagerHasBlock' /\ MasterchainOnFinal' /\ WaitersHaveTask' /\ NoLostWakeup'
  BY <1>0 DEF ManagerHasBlock, MasterchainOnFinal, WaitersHaveTask, NoLostWakeup, ParentIds, Full
<1> QED BY <1>1, <1>2, <1>3, <1>4 DEF IInv

LEMMA NextIInv == IInv /\ [Next]_vars => IInv'
<1> SUFFICES ASSUME IInv, [Next]_vars PROVE IInv'
  OBVIOUS
<1>1. ASSUME NEW c \in Candidates, FinalizationObserved(c) PROVE IInv'
  BY <1>1, ObservedPreserves
<1>2. ASSUME NEW c \in Candidates, FinalizeStep(c) PROVE IInv'
  BY <1>2, CandidatePreserves, ParentPreserves, AcceptPreserves, SavedPreserves
  DEF FinalizeStep
<1>3. ASSUME NEW c \in Candidates, ResolveState(c) PROVE IInv'
  BY <1>3, ResolvePreserves
<1>4. ASSUME NEW c \in Candidates, ValidationRequest(c) PROVE IInv'
  BY <1>4, ValidationPreserves
<1>5. ASSUME NEW c \in Candidates, on_new_accepted_block(c) PROVE IInv'
  BY <1>5, AcceptedBlockPreserves
<1>6. ASSUME NEW id \in ParentIds, StateStep(id) PROVE IInv'
  <2>1. CASE ManagerState(id)
    BY <2>1, DeliverPreserves DEF ManagerState, lifeVars
  <2>2. CASE ManagerStateFailed(id)
    BY <2>2, DeliverPreserves DEF ManagerStateFailed, lifeVars
  <2>3. CASE id \in Candidates /\ StateCandidateResolved(id)
    BY <2>3, StateCandidatePreserves
  <2>4. CASE id \in Candidates /\ ParentState(id)
    BY <2>4, ApplyPreserves DEF ParentState
  <2>5. CASE id \in Candidates /\ ParentStateFailed(id)
    BY <2>5, DeliverPreserves DEF ParentStateFailed, lifeVars
  <2> QED BY <1>6, <2>1, <2>2, <2>3, <2>4, <2>5 DEF StateStep
<1>7. CASE Restart
  BY <1>7, RestartPreserves
<1>8. CASE UNCHANGED vars
  BY <1>8 DEF vars, finVars, stateVars, lifeVars, IInv, Types, CertifiedWork, WorkNeedsFinal,
              WorkInOrder, AcceptedFinal, ManagerHasBlock, MasterchainOnFinal, WaitersHaveTask,
              NoLostWakeup
<1> QED BY <1>1, <1>2, <1>3, <1>4, <1>5, <1>6, <1>7, <1>8 DEF Next

LEMMA Invariance == Spec => []IInv
  BY InitIInv, NextIInv, PTL DEF Spec

(* However often the process dies, the manager of a shard is asked only for the
   states of blocks it was given: is_finalized is never ahead of accept_block. *)
THEOREM ManagerAlwaysHasBlock == Spec => []ManagerHasBlock
<1>1. IInv => ManagerHasBlock
  BY DEF IInv
<1> QED BY <1>1, Invariance, PTL

(* The masterchain validates on final blocks only, whatever last_accepted_block_
   was started from. *)
THEOREM MasterchainAlwaysOnFinal == Spec => []MasterchainOnFinal
<1>1. IInv => MasterchainOnFinal
  BY DEF IInv
<1> QED BY <1>1, Invariance, PTL

(* Nobody waits in resolve_state for an entry that nobody works on. *)
THEOREM WaitersAlwaysHaveTask == Spec => []WaitersHaveTask
<1>1. IInv => WaitersHaveTask
  BY DEF IInv
<1> QED BY <1>1, Invariance, PTL

(* A validation in next_block_promises_ has not missed its block. *)
THEOREM WakeupsNeverLost == Spec => []NoLostWakeup
<1>1. IInv => NoLostWakeup
  BY DEF IInv
<1> QED BY <1>1, Invariance, PTL

(* Every step that is not finalize_blocks's leaves what the manager sees. *)
LEMMA NextRefines == IInv /\ [Next]_vars => [A!Next]_(A!vars)
<1> SUFFICES ASSUME IInv, [Next]_vars PROVE A!Next \/ UNCHANGED A!vars
  OBVIOUS
<1>1. ASSUME NEW c \in Candidates, FinalizationObserved(c) PROVE A!Next
  BY <1>1 DEF FinalizationObserved, A!Next, A!Finalize
<1>2. ASSUME NEW c \in Candidates, BlockAccepted(c) PROVE A!Next
  BY <1>2, AcceptAllowed DEF A!Next
<1>3. ASSUME NEW c \in Candidates,
             CandidateResolved(c) \/ ParentFinalized(c) \/ FinalizedSaved(c)
      PROVE  UNCHANGED A!vars
  BY <1>3 DEF CandidateResolved, ParentFinalized, FinalizedSaved, A!vars
<1>4. ASSUME NEW c \in Candidates,
             ResolveState(c) \/ ValidationRequest(c) \/ on_new_accepted_block(c)
      PROVE  UNCHANGED A!vars
  BY <1>4 DEF ResolveState, ValidationRequest, on_new_accepted_block, A!vars, finVars
<1>5. ASSUME NEW id \in ParentIds, StateStep(id) PROVE UNCHANGED A!vars
  BY <1>5 DEF StateStep, ManagerState, ManagerStateFailed, StateCandidateResolved,
              ParentState, ParentStateFailed, A!vars, finVars
<1>6. CASE Restart
  BY <1>6 DEF Restart, A!vars
<1>7. CASE UNCHANGED vars
  BY <1>7 DEF vars, A!vars, finVars
<1> QED BY <1>1, <1>2, <1>3, <1>4, <1>5, <1>6, <1>7 DEF Next, FinalizeStep

(* The group hands the manager what AcceptedChain allows: the coroutines of
   finalize_blocks_inner, with the masterchain's short cut and across restarts,
   implement it. *)
THEOREM Refinement == Spec => ImplementsAcceptedChain
<1>1. Init => A!Init
  BY DEF Init, A!Init
<1> QED BY <1>1, InitIInv, NextIInv, NextRefines, PTL DEF Spec, ImplementsAcceptedChain, A!Spec

=============================================================================
