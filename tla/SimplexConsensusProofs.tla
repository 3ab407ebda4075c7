----------------------- MODULE SimplexConsensusProofs -----------------------
(***************************************************************************)
(* Proofs about SimplexConsensus for every group, any slots, candidates    *)
(* and window size, and any number of crashes: what the validator signs is *)
(* what SimplexProtocol allows, and the invariants behind it.              *)
(***************************************************************************)
EXTENDS SimplexConsensus, FiniteSetTheorems, TLAPS

USE ZenonT(20)

Types ==
    /\ P!TypeOK
    /\ stored \subseteq Candidates
    /\ slot \in [Slots -> SlotState]
    /\ task \in [Slots -> {"none", "parent", "validate", "ended"}]
    /\ published \in Seq(Votes)

(* Memory has every vote that was cast, of every slot; and what it has of
   notarizations was cast, or certified. *)
MemoryExact ==
    \A s \in Slots :
        /\ Cast(Skip(s)) => slot[s].voted_skip
        /\ \A c \in Candidates : SlotOf[c] = s =>
              /\ Cast(Notarize(c)) => slot[s].voted_notar = c
              /\ Cast(Finalize(c)) => slot[s].voted_final
        /\ \A c \in Candidates :
              /\ slot[s].voted_notar = c => SlotOf[c] = s /\ Cast(Notarize(c))
              /\ slot[s].notar_cert = c => SlotOf[c] = s /\ c \in notarCerts
              /\ slot[s].pending = c => SlotOf[c] = s

(* A running try_notarize has its candidate, and none was voted for. *)
TaskReady ==
    \A s \in Slots :
        /\ task[s] \in {"parent", "validate"} =>
              slot[s].voted_notar = None /\ slot[s].pending \in Candidates
        /\ task[s] = "validate" => P!ParentReady(slot[s].pending)

(* The votes on disk and on their way there are ones SimplexProtocol allows. *)
VotesAllowed ==
    \A c \in Candidates :
        /\ Cast(Notarize(c)) => P!ParentReady(c) /\ c \in stored
        /\ Cast(Finalize(c)) => c \in notarCerts /\ ~Cast(Skip(SlotOf[c]))

(* A finalization vote follows the notarization vote of its candidate. *)
Ordered(p, saved) ==
    \A i \in 1..Len(p), c \in Candidates : p[i] = Finalize(c) =>
        c \in saved \/ \E j \in 1..(i - 1) : p[j] = Notarize(c)

(* What alarm and start_up compute with. *)
Timing ==
    /\ timeoutSlot \in Nat /\ armed \in BOOLEAN /\ window \in Nat /\ dbWindow \in Nat
    /\ announced \in Seq(Slots)
    /\ TimeoutArithmeticSafe

IInv ==
    /\ Types /\ MemoryExact /\ TaskReady /\ VotesAllowed
    /\ Ordered(published, notarize[self])

-----------------------------------------------------------------------------
LEMMA VoteFacts ==
    /\ \A c, d : Notarize(c) # Finalize(d) /\ Notarize(c) # Skip(d) /\ Finalize(c) # Skip(d)
    /\ \A c, d : Notarize(c) = Notarize(d) => c = d
    /\ \A c, d : Finalize(c) = Finalize(d) => c = d
    /\ \A c, d : Skip(c) = Skip(d) => c = d
    /\ \A c \in Candidates : Notarize(c) \in Votes /\ Finalize(c) \in Votes
    /\ \A s \in Slots : Skip(s) \in Votes
    /\ \A vote \in Votes : \/ \E c \in Candidates : vote = Notarize(c) \/ vote = Finalize(c)
                           \/ \E s \in Slots : vote = Skip(s)
BY DEF Notarize, Finalize, Skip, Votes

LEMMA SlotFacts ==
    /\ Slots \subseteq Nat /\ None \notin Candidates /\ self \in Honest
    /\ \A c \in Candidates : SlotOf[c] \in Slots /\ SlotOf[c] \in Nat
    /\ W \in Nat /\ W > 0
<1>1. Slots \subseteq Nat /\ None \notin Candidates /\ self \in Honest /\ W \in Nat \ {0}
  BY ConsensusAssumption
<1>2. \A c \in Candidates : SlotOf[c] \in Slots
  BY ConsensusAssumption
<1>3. \A c \in Candidates : SlotOf[c] \in Nat
  BY <1>1, <1>2
<1>4. W \in Nat /\ W > 0
  BY <1>1, SMTT(20)
<1> QED BY <1>1, <1>2, <1>3, <1>4

LEMMA CastFacts ==
    /\ \A c : Cast(Notarize(c)) <=> \/ c \in notarize[self]
                                    \/ \E i \in DOMAIN published : published[i] = Notarize(c)
    /\ \A c : Cast(Finalize(c)) <=> \/ c \in finalize[self]
                                    \/ \E i \in DOMAIN published : published[i] = Finalize(c)
    /\ \A s : Cast(Skip(s)) <=> \/ s \in skip[self]
                                \/ \E i \in DOMAIN published : published[i] = Skip(s)
BY DEF Cast, OnDisk, Notarize, Finalize, Skip

(* What is cast after votes are appended. *)
LEMMA Appended ==
    ASSUME published \in Seq(Votes), NEW q \in Seq(Votes), published' = published \o q,
           UNCHANGED <<notarize, skip, finalize>>
    PROVE  /\ published' \in Seq(Votes)
           /\ \A vote : Cast(vote)' <=> Cast(vote) \/ \E i \in DOMAIN q : q[i] = vote
<1>1. published' \in Seq(Votes)
  BY SMTT(20)
<1>2. /\ \A i \in DOMAIN published : i \in DOMAIN published' /\ published'[i] = published[i]
      /\ \A i \in DOMAIN q : /\ Len(published) + i \in DOMAIN published'
                             /\ published'[Len(published) + i] = q[i]
      /\ \A i \in DOMAIN published' :
            \/ i \in DOMAIN published
            \/ i - Len(published) \in DOMAIN q /\ published'[i] = q[i - Len(published)]
  BY SMTT(20)
<1>3. \A vote : OnDisk(vote)' <=> OnDisk(vote)
  BY DEF OnDisk
<1>4. ASSUME NEW vote
      PROVE  Cast(vote)' <=> Cast(vote) \/ \E i \in DOMAIN q : q[i] = vote
  <2>1. Cast(vote)' <=> OnDisk(vote)' \/ \E i \in DOMAIN published' : published'[i] = vote
    BY DEF Cast
  <2>2. Cast(vote) <=> OnDisk(vote) \/ \E i \in DOMAIN published : published[i] = vote
    BY DEF Cast
  <2>3. (\E i \in DOMAIN published' : published'[i] = vote)
           <=> \/ \E i \in DOMAIN published : published[i] = vote
               \/ \E i \in DOMAIN q : q[i] = vote
    <3>1. ASSUME NEW i \in DOMAIN published', published'[i] = vote
          PROVE  \/ \E j \in DOMAIN published : published[j] = vote
                 \/ \E j \in DOMAIN q : q[j] = vote
      BY <1>2, <3>1
    <3>2. ASSUME NEW i \in DOMAIN published, published[i] = vote
          PROVE  \E j \in DOMAIN published' : published'[j] = vote
      BY <1>2, <3>2
    <3>3. ASSUME NEW i \in DOMAIN q, q[i] = vote
          PROVE  \E j \in DOMAIN published' : published'[j] = vote
      BY <1>2, <3>3
    <3> QED BY <3>1, <3>2, <3>3
  <2> QED BY <1>3, <2>1, <2>2, <2>3
<1> QED BY <1>1, <1>4

LEMMA NewVote ==
    ASSUME NEW vote \in Votes
    PROVE  /\ New(vote) \in Seq(Votes) /\ Len(New(vote)) \in {0, 1}
           /\ Cast(vote) => New(vote) = <<>>
           /\ ~Cast(vote) => New(vote) = <<vote>>
           /\ \A i \in DOMAIN New(vote) : New(vote)[i] = vote
           /\ (\E i \in DOMAIN New(vote) : New(vote)[i] = vote) \/ Cast(vote)
BY SMTT(20) DEF New

LEMMA OrderedAppend ==
    ASSUME NEW p \in Seq(Votes), NEW saved, Ordered(p, saved), NEW vote \in Votes,
           \A c \in Candidates : vote = Finalize(c) =>
               c \in saved \/ \E j \in 1..Len(p) : p[j] = Notarize(c)
    PROVE  Ordered(p \o <<vote>>, saved) /\ p \o <<vote>> \in Seq(Votes)
<1> DEFINE r == p \o <<vote>>
<1>1. /\ r \in Seq(Votes) /\ Len(r) = Len(p) + 1 /\ r[Len(p) + 1] = vote
      /\ \A i \in 1..Len(p) : r[i] = p[i]
  BY SMTT(20)
<1> HIDE DEF r
<1>2. ASSUME NEW i \in 1..Len(r), NEW c \in Candidates, r[i] = Finalize(c)
      PROVE  c \in saved \/ \E j \in 1..(i - 1) : r[j] = Notarize(c)
  <2>1. CASE i = Len(p) + 1
    BY <1>1, <1>2, <2>1, SMTT(20)
  <2>2. CASE i \in 1..Len(p)
    <3>1. c \in saved \/ \E j \in 1..(i - 1) : p[j] = Notarize(c)
      BY <1>1, <1>2, <2>2 DEF Ordered
    <3> QED BY <1>1, <2>2, <3>1, SMTT(20)
  <2> QED BY <1>1, <2>1, <2>2, SMTT(20)
<1>3. Ordered(r, saved)
  BY <1>2 DEF Ordered
<1> QED BY <1>1, <1>3 DEF r

LEMMA OrderedNoFinal ==
    ASSUME NEW p \in Seq(Votes), NEW saved, Ordered(p, saved), NEW q \in Seq(Votes),
           \A i \in DOMAIN q : \E s \in Slots : q[i] = Skip(s)
    PROVE  Ordered(p \o q, saved)
<1> DEFINE r == p \o q
<1>1. /\ Len(r) = Len(p) + Len(q) /\ Len(p) \in Nat /\ Len(q) \in Nat
      /\ \A i \in 1..Len(p) : r[i] = p[i]
      /\ \A i \in 1..Len(r) : i \in 1..Len(p) \/ (i - Len(p) \in DOMAIN q /\ r[i] = q[i - Len(p)])
  BY SMTT(20)
<1> HIDE DEF r
<1>2. ASSUME NEW i \in 1..Len(r), NEW c \in Candidates, r[i] = Finalize(c)
      PROVE  c \in saved \/ \E j \in 1..(i - 1) : r[j] = Notarize(c)
  <2>1. i \in 1..Len(p)
    BY <1>1, <1>2, VoteFacts, SMTT(20)
  <2>2. c \in saved \/ \E j \in 1..(i - 1) : p[j] = Notarize(c)
    BY <1>1, <1>2, <2>1 DEF Ordered
  <2> QED BY <1>1, <2>1, <2>2, SMTT(20)
<1> QED BY <1>2 DEF Ordered, r

(* The skip votes of a bounded set of slots. *)
LEMMA SkipsInOrder ==
    ASSUME NEW from \in Nat, NEW to \in Nat, NEW S \in SUBSET (Slots \cap (from..to)),
           NEW f \in InOrder(S)
    PROVE  /\ SkipVotes(f) \in Seq(Votes)
           /\ \A i \in DOMAIN SkipVotes(f) : \E s \in S : SkipVotes(f)[i] = Skip(s)
<1>1. IsFiniteSet(from..to)
  BY FS_Interval, SMTT(20)
<1>2. S \subseteq from..to
  OBVIOUS
<1>3. IsFiniteSet(S)
  BY <1>1, <1>2, FS_Subset
<1>4. Cardinality(S) \in Nat
  BY <1>3, FS_CardinalityType
<1>5. f \in [1..Cardinality(S) -> S]
  BY DEF InOrder
<1>6. SkipVotes(f) = [i \in 1..Cardinality(S) |-> Skip(f[i])]
  BY <1>5 DEF SkipVotes
<1>7. \A i \in 1..Cardinality(S) : f[i] \in S /\ Skip(f[i]) \in Votes
  BY <1>5, VoteFacts
<1>8. SkipVotes(f) \in [1..Cardinality(S) -> Votes]
  BY <1>6, <1>7
<1> QED BY <1>4, <1>6, <1>7, <1>8, SMTT(20)

-----------------------------------------------------------------------------
(* The steps. *)

LEMMA CastKept ==
    ASSUME UNCHANGED <<notarize[self], skip[self], finalize[self], published>>
    PROVE  \A vote : Cast(vote)' <=> Cast(vote)
BY DEF Cast, OnDisk

LEMMA ReadyKept ==
    ASSUME notarCerts \subseteq notarCerts', skipCerts \subseteq skipCerts',
           finalCerts \subseteq finalCerts', NEW c, P!ParentReady(c)
    PROVE  P!ParentReady(c)'
BY DEF P!ParentReady, P!SlotsAfterParent

LEMMA InitIInv == Init => IInv
<1> SUFFICES ASSUME Init PROVE IInv
  OBVIOUS
<1>1. published = <<>> /\ published \in Seq(Votes) /\ Len(published) = 0
  BY SMTT(20) DEF Init
<1>2. notarize[self] = {} /\ skip[self] = {} /\ finalize[self] = {}
  BY SlotFacts DEF Init, P!Init, P!Honest, Honest
<1>3. \A vote : ~Cast(vote)
  BY <1>1, <1>2, SMTT(20) DEF Cast, OnDisk
<1>4. P!TypeOK
  BY DEF Init, P!Init, P!TypeOK
<1>5. slot \in [Slots -> SlotState] /\ \A s \in Slots : slot[s] = EmptySlot
  BY DEF Init, EmptySlot, SlotState, MaybeCandidate
<1>6. Types
  BY <1>1, <1>4, <1>5 DEF Init, Types
<1>7. MemoryExact
  <2>1. \A s \in Slots : /\ slot[s].voted_notar = None /\ slot[s].notar_cert = None
                         /\ slot[s].pending = None
    BY <1>5, SMTT(20) DEF EmptySlot
  <2> QED BY <1>3, <2>1, SlotFacts DEF MemoryExact
<1>8. TaskReady
  BY DEF Init, TaskReady
<1>9. VotesAllowed
  BY <1>3 DEF VotesAllowed
<1>10. Ordered(published, notarize[self])
  BY <1>1, SMTT(20) DEF Ordered
<1> QED BY <1>6, <1>7, <1>8, <1>9, <1>10 DEF IInv

LEMMA QuietIInv ==
    ASSUME IInv, UNCHANGED <<protocolVars, stored, slot, task, published>>
    PROVE  IInv'
<1>1. \A vote : Cast(vote)' <=> Cast(vote)
  BY CastKept DEF protocolVars
<1>2. \A c : P!ParentReady(c)' <=> P!ParentReady(c)
  BY DEF P!ParentReady, P!SlotsAfterParent, protocolVars
<1>3. Types' /\ Ordered(published, notarize[self])'
  BY DEF IInv, Types, P!TypeOK, protocolVars, Ordered
<1>4. MemoryExact'
  BY <1>1 DEF IInv, MemoryExact, protocolVars
<1>5. TaskReady' /\ VotesAllowed'
  BY <1>1, <1>2 DEF IInv, TaskReady, VotesAllowed, protocolVars
<1> QED BY <1>3, <1>4, <1>5 DEF IInv

LEMMA CandidateReceivedIInv ==
    ASSUME IInv, NEW c \in Candidates, CandidateReceived(c)
    PROVE  IInv'
<1> DEFINE s == SlotOf[c]
<1>0. s \in Slots /\ c # None
  BY SlotFacts
<1>1. /\ UNCHANGED <<protocolVars, stored, published>>
      /\ slot[s].voted_notar = None /\ slot[s].pending = None
      /\ slot' = [slot EXCEPT ![s].pending = c]
      /\ task' = [task EXCEPT ![s] = "parent"]
  BY DEF CandidateReceived, diskVars
<1>2. \A vote : Cast(vote)' <=> Cast(vote)
  BY <1>1, CastKept DEF protocolVars
<1>3. \A d : P!ParentReady(d)' <=> P!ParentReady(d)
  BY <1>1 DEF P!ParentReady, P!SlotsAfterParent, protocolVars
<1>4. /\ slot' \in [Slots -> SlotState]
      /\ \A t \in Slots \ {s} : slot'[t] = slot[t]
      /\ slot'[s] = [slot[s] EXCEPT !.pending = c]
      /\ slot[s] \in SlotState
  BY <1>0, <1>1 DEF IInv, Types, SlotState, MaybeCandidate
<1>5. /\ slot'[s].pending = c /\ slot'[s].voted_notar = slot[s].voted_notar
      /\ slot'[s].notar_cert = slot[s].notar_cert
      /\ slot'[s].voted_skip = slot[s].voted_skip /\ slot'[s].voted_final = slot[s].voted_final
  BY <1>4 DEF SlotState
<1>6. Types' /\ Ordered(published, notarize[self])'
  BY <1>0, <1>1, <1>4, SMTT(20) DEF IInv, Types, P!TypeOK, protocolVars, Ordered
<1>7. MemoryExact'
  BY <1>1, <1>2, <1>4, <1>5, SMTT(20) DEF IInv, MemoryExact, protocolVars
<1>8. TaskReady'
  BY <1>0, <1>1, <1>3, <1>4, <1>5 DEF IInv, TaskReady, Types
<1>9. VotesAllowed'
  BY <1>1, <1>2, <1>3 DEF IInv, VotesAllowed, protocolVars
<1> QED BY <1>6, <1>7, <1>8, <1>9 DEF IInv

LEMMA TaskStepIInv ==
    ASSUME IInv, NEW s \in Slots,
           StoreCandidate(s) \/ ParentResolved(s) \/ CandidateDropped(s)
    PROVE  IInv'
<1>1. /\ UNCHANGED <<protocolVars, slot, published>>
      /\ stored \subseteq stored' /\ stored' \subseteq Candidates
      /\ task' \in [Slots -> {"none", "parent", "validate", "ended"}]
      /\ \A t \in Slots :
            \/ task'[t] = task[t]
            \/ task'[t] = "ended"
            \/ task[t] = "parent" /\ P!ParentReady(slot[t].pending)
  <2>1. CASE StoreCandidate(s)
    <3>1. slot[s] \in SlotState
      BY DEF IInv, Types
    <3>2. slot[s].pending \in Candidates
      BY <2>1, <3>1 DEF StoreCandidate, SlotState, MaybeCandidate
    <3> QED BY <2>1, <3>2 DEF StoreCandidate, IInv, Types, memVars
  <2>2. CASE ParentResolved(s)
    BY <2>2 DEF ParentResolved, IInv, Types, diskVars
  <2>3. CASE CandidateDropped(s)
    BY <2>3 DEF CandidateDropped, IInv, Types, diskVars
  <2> QED BY <2>1, <2>2, <2>3
<1>2. \A vote : Cast(vote)' <=> Cast(vote)
  BY <1>1, CastKept DEF protocolVars
<1>3. \A d : P!ParentReady(d)' <=> P!ParentReady(d)
  BY <1>1 DEF P!ParentReady, P!SlotsAfterParent, protocolVars
<1>4. Types' /\ Ordered(published, notarize[self])'
  BY <1>1 DEF IInv, Types, P!TypeOK, protocolVars, Ordered
<1>5. MemoryExact'
  BY <1>1, <1>2 DEF IInv, MemoryExact, protocolVars
<1>6. TaskReady' /\ VotesAllowed'
  BY <1>1, <1>2, <1>3 DEF IInv, TaskReady, VotesAllowed, protocolVars
<1> QED BY <1>4, <1>5, <1>6 DEF IInv

(* SetSlot, on a state that differs from the slot's in voted_notar or notar_cert. *)
LEMMA SetSlotEffect ==
    ASSUME slot \in [Slots -> SlotState], NEW s \in Slots, NEW st \in SlotState, SetSlot(s, st)
    PROVE  /\ slot' \in [Slots -> SlotState]
           /\ \A t \in Slots \ {s} : slot'[t] = slot[t]
           /\ slot'[s].pending = st.pending /\ slot'[s].voted_notar = st.voted_notar
           /\ slot'[s].notar_cert = st.notar_cert /\ slot'[s].voted_skip = st.voted_skip
           /\ slot'[s].voted_final <=> st.voted_final \/ CanVoteFinal(st)
<1>1. st.voted_final \in BOOLEAN /\ CanVoteFinal(st) \in BOOLEAN
  BY DEF SlotState, CanVoteFinal
<1> HIDE DEF CanVoteFinal
<1> QED BY <1>1 DEF SetSlot, SlotState

(* The votes of try_vote_final and their order. *)
LEMMA FinalVoteEffect ==
    ASSUME NEW p \in Seq(Votes), Ordered(p, notarize[self]),
           NEW st, CanVoteFinal(st) \in BOOLEAN, CanVoteFinal(st) => st.voted_notar \in Candidates,
           CanVoteFinal(st) => \/ st.voted_notar \in notarize[self]
                               \/ \E j \in 1..Len(p) : p[j] = Notarize(st.voted_notar)
    PROVE  /\ FinalVote(st) \in Seq(Votes)
           /\ Ordered(p \o FinalVote(st), notarize[self])
           /\ \A i \in DOMAIN FinalVote(st) :
                 CanVoteFinal(st) /\ FinalVote(st)[i] = Finalize(st.voted_notar)
<1>1. CASE FinalVote(st) = <<>>
  <2>1. p \o FinalVote(st) = p
    BY <1>1, SMTT(20)
  <2> QED BY <1>1, <2>1, SMTT(20)
<1>2. CASE FinalVote(st) # <<>>
  <2>1. /\ CanVoteFinal(st) /\ FinalVote(st) = <<Finalize(st.voted_notar)>>
        /\ Finalize(st.voted_notar) \in Votes
    BY <1>2, VoteFacts DEF FinalVote, New
  <2>2. Ordered(p \o FinalVote(st), notarize[self])
    BY <2>1, OrderedAppend, VoteFacts
  <2> QED BY <2>1, <2>2, SMTT(20)
<1> QED BY <1>1, <1>2

LEMMA VoteNotarizeIInv ==
    ASSUME IInv, NEW s \in Slots, VoteNotarize(s)
    PROVE  IInv'
<1>a. PICK c : c = slot[s].pending
  OBVIOUS
<1> DEFINE st == [slot[s] EXCEPT !.voted_notar = c]
           q1 == published \o New(Notarize(c))
<1>0. /\ Types /\ MemoryExact /\ TaskReady /\ VotesAllowed
      /\ Ordered(published, notarize[self])
  BY DEF IInv
<1>1. /\ task[s] = "validate" /\ c \in stored
      /\ task' = [task EXCEPT ![s] = "ended"]
      /\ SetSlot(s, st)
      /\ published' = q1 \o FinalVote(st)
      /\ UNCHANGED <<protocolVars, stored, first>>
  BY <1>a DEF VoteNotarize, diskVars
<1>2. /\ c \in Candidates /\ slot[s].voted_notar = None /\ P!ParentReady(c)
      /\ SlotOf[c] = s /\ c # None
  BY <1>a, <1>0, <1>1, SlotFacts, SMTT(20) DEF TaskReady, MemoryExact
<1>3. /\ slot[s] \in SlotState /\ st \in SlotState
      /\ st.pending = c /\ st.voted_notar = c
      /\ st.notar_cert = slot[s].notar_cert /\ st.voted_skip = slot[s].voted_skip
      /\ st.voted_final = slot[s].voted_final
  BY <1>a, <1>0, <1>2 DEF Types, SlotState, MaybeCandidate
<1> HIDE DEF st
<1>4. /\ slot' \in [Slots -> SlotState]
      /\ \A t \in Slots \ {s} : slot'[t] = slot[t]
      /\ slot'[s].pending = c /\ slot'[s].voted_notar = c
      /\ slot'[s].notar_cert = slot[s].notar_cert /\ slot'[s].voted_skip = slot[s].voted_skip
      /\ slot'[s].voted_final <=> slot[s].voted_final \/ CanVoteFinal(st)
  BY <1>0, <1>1, <1>3, SetSlotEffect DEF Types
<1>5. CanVoteFinal(st) \in BOOLEAN
  BY <1>3 DEF CanVoteFinal, SlotState
<1>6. /\ New(Notarize(c)) \in Seq(Votes) /\ Notarize(c) \in Votes
      /\ \A i \in DOMAIN New(Notarize(c)) : New(Notarize(c))[i] = Notarize(c)
      /\ (\E i \in DOMAIN New(Notarize(c)) : New(Notarize(c))[i] = Notarize(c))
         \/ Cast(Notarize(c))
  BY <1>2, VoteFacts, NewVote
<1>7. q1 \in Seq(Votes) /\ Ordered(q1, notarize[self])
  <2>1. published \in Seq(Votes)
    BY <1>0 DEF Types
  <2>2. CASE New(Notarize(c)) = <<>>
    BY <1>0, <2>1, <2>2, SMTT(20)
  <2>3. CASE New(Notarize(c)) = <<Notarize(c)>>
    BY <1>0, <1>6, <2>1, <2>3, OrderedAppend, VoteFacts
  <2> QED BY <2>2, <2>3 DEF New
<1>8. c \in notarize[self] \/ \E j \in 1..Len(q1) : q1[j] = Notarize(c)
  <2>1. published \in Seq(Votes)
    BY <1>0 DEF Types
  <2>2. CASE Cast(Notarize(c))
    <3>1. c \in notarize[self] \/ \E i \in DOMAIN published : published[i] = Notarize(c)
      BY <2>2, CastFacts
    <3> QED BY <1>6, <2>1, <3>1, SMTT(20)
  <2>3. CASE ~Cast(Notarize(c))
    <3>1. q1 = published \o <<Notarize(c)>>
      BY <2>3 DEF New
    <3>2. Len(q1) = Len(published) + 1 /\ q1[Len(published) + 1] = Notarize(c)
      BY <1>6, <2>1, <3>1, SMTT(20)
    <3> QED BY <2>1, <3>2, SMTT(20)
  <2> QED BY <2>2, <2>3
<1>9. /\ FinalVote(st) \in Seq(Votes)
      /\ Ordered(q1 \o FinalVote(st), notarize[self])
      /\ \A i \in DOMAIN FinalVote(st) : CanVoteFinal(st) /\ FinalVote(st)[i] = Finalize(c)
  <2> HIDE DEF q1
  <2>1. /\ st.voted_notar \in Candidates
        /\ \/ st.voted_notar \in notarize[self]
           \/ \E j \in 1..Len(q1) : q1[j] = Notarize(st.voted_notar)
    BY <1>2, <1>3, <1>8
  <2>2. /\ FinalVote(st) \in Seq(Votes)
        /\ Ordered(q1 \o FinalVote(st), notarize[self])
        /\ \A i \in DOMAIN FinalVote(st) :
              CanVoteFinal(st) /\ FinalVote(st)[i] = Finalize(st.voted_notar)
    BY <1>5, <1>7, <2>1, FinalVoteEffect, SMTT(20)
  <2> QED BY <1>3, <2>2
<1>10. /\ published' \in Seq(Votes)
       /\ \A x : Cast(x)' => \/ Cast(x) \/ x = Notarize(c)
                             \/ CanVoteFinal(st) /\ x = Finalize(c)
       /\ \A x : Cast(x) => Cast(x)'
       /\ Cast(Notarize(c))'
  <2> DEFINE q == New(Notarize(c)) \o FinalVote(st)
  <2>1. published \in Seq(Votes) /\ q \in Seq(Votes) /\ published' = published \o q
    BY <1>0, <1>1, <1>6, <1>9, SMTT(20) DEF Types
  <2>2. \A i \in DOMAIN q : \/ i \in DOMAIN New(Notarize(c)) /\ q[i] = New(Notarize(c))[i]
                            \/ /\ i - Len(New(Notarize(c))) \in DOMAIN FinalVote(st)
                               /\ q[i] = FinalVote(st)[i - Len(New(Notarize(c)))]
    BY <1>6, <1>9, SMTT(20)
  <2>3. \A i \in DOMAIN New(Notarize(c)) : i \in DOMAIN q /\ q[i] = New(Notarize(c))[i]
    BY <1>6, <1>9, SMTT(20)
  <2> HIDE DEF q
  <2>4. /\ published' \in Seq(Votes)
        /\ \A x : Cast(x)' <=> Cast(x) \/ \E i \in DOMAIN q : q[i] = x
    BY <1>1, <2>1, Appended DEF protocolVars
  <2>5. \A i \in DOMAIN q : q[i] = Notarize(c) \/ (CanVoteFinal(st) /\ q[i] = Finalize(c))
    BY <1>6, <1>9, <2>2
  <2>6. Cast(Notarize(c)) \/ \E i \in DOMAIN q : q[i] = Notarize(c)
    BY <1>6, <2>3
  <2>7. ASSUME NEW x, Cast(x)'
        PROVE  Cast(x) \/ x = Notarize(c) \/ (CanVoteFinal(st) /\ x = Finalize(c))
    <3>1. Cast(x) \/ \E i \in DOMAIN q : q[i] = x
      BY <2>4, <2>7
    <3> QED BY <2>5, <3>1
  <2> QED BY <2>4, <2>6, <2>7
<1>11. CanVoteFinal(st) => /\ ~slot[s].voted_skip /\ slot[s].notar_cert = c
                           /\ c \in notarCerts
  <2>1. CanVoteFinal(st) => ~slot[s].voted_skip /\ slot[s].notar_cert = c
    BY <1>3 DEF CanVoteFinal
  <2> QED BY <1>0, <1>2, <2>1 DEF MemoryExact
<1>12. Types'
  BY <1>0, <1>1, <1>4, <1>10 DEF Types, P!TypeOK, protocolVars
<1>13. \A d : P!ParentReady(d)' <=> P!ParentReady(d)
  BY <1>1 DEF P!ParentReady, P!SlotsAfterParent, protocolVars
<1>14. MemoryExact'
  <2> SUFFICES ASSUME NEW t \in Slots
               PROVE  /\ Cast(Skip(t))' => slot'[t].voted_skip
                      /\ \A d \in Candidates : SlotOf[d] = t =>
                            /\ Cast(Notarize(d))' => slot'[t].voted_notar = d
                            /\ Cast(Finalize(d))' => slot'[t].voted_final
                      /\ \A d \in Candidates :
                            /\ slot'[t].voted_notar = d => SlotOf[d] = t /\ Cast(Notarize(d))'
                            /\ slot'[t].notar_cert = d => SlotOf[d] = t /\ d \in notarCerts'
                            /\ slot'[t].pending = d => SlotOf[d] = t
    BY DEF MemoryExact
  <2>1. Cast(Skip(t))' => Cast(Skip(t))
    BY <1>10, VoteFacts, SMTT(20)
  <2>2. ASSUME NEW d, Cast(Notarize(d))' PROVE Cast(Notarize(d)) \/ d = c
    <3>1. \/ Cast(Notarize(d)) \/ Notarize(d) = Notarize(c)
          \/ CanVoteFinal(st) /\ Notarize(d) = Finalize(c)
      BY <1>10, <2>2
    <3> QED BY <3>1, VoteFacts
  <2>3. \A d : Cast(Finalize(d))' => Cast(Finalize(d)) \/ (CanVoteFinal(st) /\ d = c)
    BY <1>10, VoteFacts, SMTT(20)
  <2>4. CASE t = s
    <3>1. Cast(Skip(t))' => slot'[t].voted_skip
      BY <1>0, <1>4, <2>1, <2>4 DEF MemoryExact
    <3>2. ASSUME NEW d \in Candidates, SlotOf[d] = t
          PROVE  /\ Cast(Notarize(d))' => slot'[t].voted_notar = d
                 /\ Cast(Finalize(d))' => slot'[t].voted_final
      BY <1>0, <1>2, <1>4, <2>2, <2>3, <2>4, <3>2, SlotFacts, SMTT(20) DEF MemoryExact
    <3>3. ASSUME NEW d \in Candidates
          PROVE  /\ slot'[t].voted_notar = d => SlotOf[d] = t /\ Cast(Notarize(d))'
                 /\ slot'[t].notar_cert = d => SlotOf[d] = t /\ d \in notarCerts'
                 /\ slot'[t].pending = d => SlotOf[d] = t
      <4>1. slot'[t].voted_notar = d => d = c
        BY <1>4, <2>4
      <4>2. SlotOf[c] = t /\ Cast(Notarize(c))'
        BY <1>2, <1>10, <2>4
      <4>3. /\ slot'[t].notar_cert = d => SlotOf[d] = t /\ d \in notarCerts'
            /\ slot'[t].pending = d => SlotOf[d] = t
        BY <1>0, <1>1, <1>2, <1>4, <2>4, SMTT(20) DEF MemoryExact, protocolVars
      <4> QED BY <4>1, <4>2, <4>3
    <3> QED BY <3>1, <3>2, <3>3
  <2>5. CASE t # s
    BY <1>0, <1>1, <1>2, <1>4, <1>10, <2>1, <2>2, <2>3, <2>5, SMTT(20) DEF MemoryExact, protocolVars
  <2> QED BY <2>4, <2>5
<1>15. TaskReady'
  BY <1>0, <1>1, <1>4, <1>13 DEF TaskReady, Types
<1>16. VotesAllowed'
  <2>1. \A t : Cast(Skip(t))' => Cast(Skip(t))
    BY <1>10, VoteFacts, SMTT(20)
  <2>2. ASSUME NEW d \in Candidates, Cast(Notarize(d))'
        PROVE  P!ParentReady(d)' /\ d \in stored'
    <3>1. \/ Cast(Notarize(d)) \/ Notarize(d) = Notarize(c)
          \/ CanVoteFinal(st) /\ Notarize(d) = Finalize(c)
      BY <1>10, <2>2
    <3>2. Cast(Notarize(d)) \/ d = c
      BY <3>1, VoteFacts
    <3> QED BY <1>0, <1>1, <1>2, <1>13, <3>2 DEF VotesAllowed
  <2>3. ASSUME NEW d \in Candidates, Cast(Finalize(d))'
        PROVE  d \in notarCerts' /\ ~Cast(Skip(SlotOf[d]))'
    <3>1. CASE Cast(Finalize(d))
      BY <1>0, <1>1, <2>1, <3>1 DEF VotesAllowed, protocolVars
    <3>2. CASE CanVoteFinal(st) /\ d = c
      BY <1>0, <1>1, <1>2, <1>11, <2>1, <3>2 DEF MemoryExact, protocolVars
    <3> QED BY <1>10, <2>3, <3>1, <3>2, VoteFacts, SMTT(20)
  <2> QED BY <2>2, <2>3 DEF VotesAllowed
<1>17. Ordered(published, notarize[self])'
  BY <1>1, <1>9 DEF Ordered, protocolVars
<1> QED BY <1>12, <1>14, <1>15, <1>16, <1>17 DEF IInv

LEMMA NotarizationObservedIInv ==
    ASSUME IInv, NEW c \in Candidates, NotarizationObserved(c)
    PROVE  IInv'
<1>a. PICK s : s = SlotOf[c]
  OBVIOUS
<1> DEFINE st == [slot[s] EXCEPT !.notar_cert = c]
<1>0. /\ Types /\ MemoryExact /\ TaskReady /\ VotesAllowed
      /\ Ordered(published, notarize[self])
  BY DEF IInv
<1>1. /\ c \in notarCerts /\ slot[s].notar_cert = None
      /\ SetSlot(s, st)
      /\ published' = published \o FinalVote(st)
      /\ UNCHANGED <<protocolVars, stored, first, task>>
  BY <1>a DEF NotarizationObserved, diskVars
<1>2. s \in Slots /\ SlotOf[c] = s /\ c # None
  BY <1>a, SlotFacts
<1>3. /\ slot[s] \in SlotState /\ st \in SlotState
      /\ st.pending = slot[s].pending /\ st.voted_notar = slot[s].voted_notar
      /\ st.notar_cert = c /\ st.voted_skip = slot[s].voted_skip
      /\ st.voted_final = slot[s].voted_final
  BY <1>0, <1>2, SMTT(20) DEF Types, SlotState, MaybeCandidate
<1> HIDE DEF st
<1>4. /\ slot' \in [Slots -> SlotState]
      /\ \A t \in Slots \ {s} : slot'[t] = slot[t]
      /\ slot'[s].pending = slot[s].pending /\ slot'[s].voted_notar = slot[s].voted_notar
      /\ slot'[s].notar_cert = c /\ slot'[s].voted_skip = slot[s].voted_skip
      /\ slot'[s].voted_final <=> slot[s].voted_final \/ CanVoteFinal(st)
  BY <1>0, <1>1, <1>2, <1>3, SetSlotEffect DEF Types
<1>5. CanVoteFinal(st) \in BOOLEAN
  BY <1>3 DEF CanVoteFinal, SlotState
<1>6. CanVoteFinal(st) => ~slot[s].voted_skip /\ slot[s].voted_notar = c
  BY <1>3 DEF CanVoteFinal
<1>7. CanVoteFinal(st) => \/ c \in notarize[self]
                          \/ \E j \in 1..Len(published) : published[j] = Notarize(c)
  <2>1. DOMAIN published = 1..Len(published)
    BY <1>0, SMTT(20) DEF Types
  <2>2. CanVoteFinal(st) => Cast(Notarize(c))
    BY <1>0, <1>2, <1>6 DEF MemoryExact
  <2> QED BY <2>1, <2>2, CastFacts
<1>8. /\ FinalVote(st) \in Seq(Votes)
      /\ Ordered(published \o FinalVote(st), notarize[self])
      /\ \A i \in DOMAIN FinalVote(st) : CanVoteFinal(st) /\ FinalVote(st)[i] = Finalize(c)
  <2>1. CanVoteFinal(st) =>
            /\ st.voted_notar \in Candidates
            /\ \/ st.voted_notar \in notarize[self]
               \/ \E j \in 1..Len(published) : published[j] = Notarize(st.voted_notar)
    BY <1>3, <1>6, <1>7
  <2>2. /\ FinalVote(st) \in Seq(Votes)
        /\ Ordered(published \o FinalVote(st), notarize[self])
        /\ \A i \in DOMAIN FinalVote(st) :
              CanVoteFinal(st) /\ FinalVote(st)[i] = Finalize(st.voted_notar)
    BY <1>0, <1>5, <2>1, FinalVoteEffect, SMTT(20) DEF Types
  <2> QED BY <1>3, <1>6, <2>2
<1>9. /\ published' \in Seq(Votes)
      /\ \A x : Cast(x) => Cast(x)'
      /\ \A x : Cast(x)' => Cast(x) \/ (CanVoteFinal(st) /\ x = Finalize(c))
  <2>1. /\ published' \in Seq(Votes)
        /\ \A x : Cast(x)' <=> Cast(x) \/ \E i \in DOMAIN FinalVote(st) : FinalVote(st)[i] = x
    BY <1>0, <1>1, <1>8, Appended DEF Types, protocolVars
  <2>2. ASSUME NEW x, Cast(x)' PROVE Cast(x) \/ (CanVoteFinal(st) /\ x = Finalize(c))
    <3>1. Cast(x) \/ \E i \in DOMAIN FinalVote(st) : FinalVote(st)[i] = x
      BY <2>1, <2>2
    <3> QED BY <1>8, <3>1
  <2> QED BY <2>1, <2>2
<1>10. Types'
  BY <1>0, <1>1, <1>4, <1>9 DEF Types, P!TypeOK, protocolVars
<1>11. \A d : P!ParentReady(d)' <=> P!ParentReady(d)
  BY <1>1 DEF P!ParentReady, P!SlotsAfterParent, protocolVars
<1>12. ASSUME NEW t PROVE Cast(Skip(t))' => Cast(Skip(t))
  BY <1>9, VoteFacts, SMTT(20)
<1>13. ASSUME NEW d PROVE Cast(Notarize(d))' <=> Cast(Notarize(d))
  BY <1>9, VoteFacts, SMTT(20)
<1>14. ASSUME NEW d PROVE Cast(Finalize(d))' => Cast(Finalize(d)) \/ (CanVoteFinal(st) /\ d = c)
  BY <1>9, VoteFacts, SMTT(20)
<1>15. MemoryExact'
  <2> SUFFICES ASSUME NEW t \in Slots
               PROVE  /\ Cast(Skip(t))' => slot'[t].voted_skip
                      /\ \A d \in Candidates : SlotOf[d] = t =>
                            /\ Cast(Notarize(d))' => slot'[t].voted_notar = d
                            /\ Cast(Finalize(d))' => slot'[t].voted_final
                      /\ \A d \in Candidates :
                            /\ slot'[t].voted_notar = d => SlotOf[d] = t /\ Cast(Notarize(d))'
                            /\ slot'[t].notar_cert = d => SlotOf[d] = t /\ d \in notarCerts'
                            /\ slot'[t].pending = d => SlotOf[d] = t
    BY DEF MemoryExact
  <2>1. CASE t = s
    BY <1>0, <1>1, <1>2, <1>4, <1>12, <1>13, <1>14, <2>1, SMTT(20) DEF MemoryExact, protocolVars
  <2>2. CASE t # s
    BY <1>0, <1>1, <1>2, <1>4, <1>12, <1>13, <1>14, <2>2, SMTT(20) DEF MemoryExact, protocolVars
  <2> QED BY <2>1, <2>2
<1>16. TaskReady'
  <2>1. \A t \in Slots : /\ slot'[t].voted_notar = slot[t].voted_notar
                         /\ slot'[t].pending = slot[t].pending /\ task'[t] = task[t]
    BY <1>1, <1>4
  <2> QED BY <1>0, <1>11, <2>1 DEF TaskReady
<1>17. VotesAllowed'
  <2>1. ASSUME NEW d \in Candidates, Cast(Finalize(d))'
        PROVE  d \in notarCerts' /\ ~Cast(Skip(SlotOf[d]))'
    <3>1. CASE Cast(Finalize(d))
      BY <1>0, <1>1, <1>12, <3>1 DEF VotesAllowed, protocolVars
    <3>2. CASE CanVoteFinal(st) /\ d = c
      BY <1>0, <1>1, <1>2, <1>6, <1>12, <3>2 DEF MemoryExact, protocolVars
    <3> QED BY <1>14, <2>1, <3>1, <3>2
  <2> QED BY <1>0, <1>1, <1>11, <1>13, <2>1 DEF VotesAllowed
<1>18. Ordered(published, notarize[self])'
  BY <1>1, <1>8 DEF Ordered, protocolVars
<1> QED BY <1>10, <1>15, <1>16, <1>17, <1>18 DEF IInv

(* Marking and publishing the skips of a bounded set of slots, none of them finalized. *)
LEMMA SkipsIInv ==
    ASSUME IInv, NEW S \in SUBSET Slots, \A s \in S : ~slot[s].voted_final,
           slot' = MarkSkipped(slot, S),
           NEW q \in Seq(Votes), \A i \in DOMAIN q : \E s \in S : q[i] = Skip(s),
           published' = published \o q, UNCHANGED <<protocolVars, stored, task>>
    PROVE  IInv'
<1>0. /\ Types /\ MemoryExact /\ TaskReady /\ VotesAllowed
      /\ Ordered(published, notarize[self])
  BY DEF IInv
<1>1. /\ slot' \in [Slots -> SlotState]
      /\ \A t \in Slots : /\ slot'[t].pending = slot[t].pending
                          /\ slot'[t].voted_notar = slot[t].voted_notar
                          /\ slot'[t].notar_cert = slot[t].notar_cert
                          /\ slot'[t].voted_final = slot[t].voted_final
                          /\ slot'[t].voted_skip <=> slot[t].voted_skip \/ t \in S
  BY <1>0 DEF Types, MarkSkipped, SlotState
<1>2. /\ published' \in Seq(Votes)
      /\ \A x : Cast(x)' <=> Cast(x) \/ \E i \in DOMAIN q : q[i] = x
  BY <1>0, Appended DEF Types, protocolVars
<1>3. ASSUME NEW d PROVE /\ Cast(Notarize(d))' <=> Cast(Notarize(d))
                         /\ Cast(Finalize(d))' <=> Cast(Finalize(d))
  <2>1. \A i \in DOMAIN q : q[i] # Notarize(d) /\ q[i] # Finalize(d)
    BY VoteFacts
  <2> QED BY <1>2, <2>1
<1>4. ASSUME NEW t, Cast(Skip(t))' PROVE Cast(Skip(t)) \/ t \in S
  BY <1>2, <1>4, VoteFacts, SMTT(20)
<1>5. \A d : P!ParentReady(d)' <=> P!ParentReady(d)
  BY DEF P!ParentReady, P!SlotsAfterParent, protocolVars
<1>6. Types'
  BY <1>0, <1>1, <1>2 DEF Types, P!TypeOK, protocolVars
<1>7. MemoryExact'
  BY <1>0, <1>1, <1>3, <1>4, SMTT(20) DEF MemoryExact, protocolVars
<1>8. TaskReady'
  BY <1>0, <1>1, <1>5 DEF TaskReady
<1>9. VotesAllowed'
  <2>1. ASSUME NEW d \in Candidates, Cast(Finalize(d)) PROVE ~Cast(Skip(SlotOf[d]))'
    <3>1. SlotOf[d] \in Slots /\ slot[SlotOf[d]].voted_final /\ ~Cast(Skip(SlotOf[d]))
      BY <1>0, <2>1, SlotFacts DEF MemoryExact, VotesAllowed
    <3> QED BY <1>4, <3>1
  <2> QED BY <1>0, <1>3, <1>5, <2>1 DEF VotesAllowed, protocolVars
<1>10. Ordered(published, notarize[self])'
  <2>1. Ordered(published \o q, notarize[self])
    BY <1>0, OrderedNoFinal DEF Types
  <2> QED BY <2>1 DEF Ordered, protocolVars
<1> QED BY <1>6, <1>7, <1>8, <1>9, <1>10 DEF IInv

-----------------------------------------------------------------------------
(* Arithmetic of windows. *)
LEMMA WindowFacts ==
    ASSUME NEW s \in Nat
    PROVE  /\ WindowOf(s) \in Nat /\ s % W \in 0..(W - 1)
           /\ WindowOf(s) * W <= s /\ s < WindowOf(s) * W + W
<1>1. W \in Nat \ {0}
  BY SlotFacts, SMTT(20)
<1>2. s \div W \in Nat /\ s % W \in 0..(W - 1)
  BY <1>1, SMTT(20)
<1>3. (s \div W) * W <= s
  BY <1>1, SMTT(20)
<1>4. s < (s \div W) * W + W
  BY <1>1, SMTT(20)
<1> QED BY <1>2, <1>3, <1>4 DEF WindowOf

LEMMA InitTiming == Init => Timing
<1>1. W \in Nat
  BY SlotFacts
<1> SUFFICES ASSUME Init PROVE Timing
  OBVIOUS
<1>2. armed \in BOOLEAN /\ ~armed
  BY DEF Init
<1>3. timeoutSlot \in Nat /\ window \in Nat /\ dbWindow \in Nat /\ timeoutSlot >= window * W
  BY <1>1, SMTT(20) DEF Init
<1>4. announced \in Seq(Slots)
  BY SMTT(20) DEF Init
<1> QED BY <1>2, <1>3, <1>4 DEF Timing, TimeoutArithmeticSafe

LEMMA NextTiming ==
    ASSUME Timing, [Next]_vars
    PROVE  Timing'
<1> USE DEF Timing, TimeoutArithmeticSafe
<1>0. W \in Nat /\ W > 0 /\ Slots \subseteq Nat
  BY SlotFacts
<1>1. CASE UNCHANGED <<timeoutSlot, armed, window, dbWindow, announced>>
  BY <1>1
<1>2. ASSUME NEW s \in Slots, AnnounceWindow(s) PROVE Timing'
  <2>1. WindowOf(s) \in Nat
    BY <1>0, WindowFacts
  <2> QED BY <1>2, <2>1, SMTT(20) DEF AnnounceWindow, timeVars
<1>3. CASE LeaderWindowObserved
  <2>1. PICK s \in Slots : s = Head(announced)
    BY <1>3, SMTT(20) DEF LeaderWindowObserved
  <2>2. s \in Nat /\ WindowOf(s) \in Nat /\ WindowOf(s) * W <= s
    BY <1>0, <2>1, WindowFacts
  <2>3. /\ window' = WindowOf(s) /\ dbWindow' = dbWindow
        /\ timeoutSlot' = IF timeoutSlot <= s THEN s + 1 ELSE timeoutSlot
        /\ armed' = (armed \/ timeoutSlot <= s)
        /\ announced' = Tail(announced) /\ announced # <<>>
    BY <1>3, <2>1 DEF LeaderWindowObserved, diskVars
  <2>4. announced' \in Seq(Slots)
    BY <2>3, SMTT(20)
  <2>5. window' * W <= s /\ window' * W \in Nat /\ window' \in Nat
    BY <1>0, <2>2, <2>3, SMTT(20)
  <2>6. timeoutSlot' \in Nat /\ timeoutSlot' > s /\ timeoutSlot' >= window' * W
    BY <2>2, <2>3, <2>5, SMTT(20)
  <2>7. armed' \in BOOLEAN /\ timeoutSlot' > 0
    BY <2>2, <2>3, <2>6, SMTT(20)
  <2> QED BY <2>3, <2>4, <2>5, <2>6, <2>7
<1>4. ASSUME NEW c \in Candidates, NotarizationObserved(c) PROVE Timing'
  <2>1. PICK s \in Slots : s = SlotOf[c]
    BY SlotFacts
  <2>2. /\ UNCHANGED <<window, dbWindow, announced>>
        /\ timeoutSlot' = IF ~(timeoutSlot <= s + 1) THEN timeoutSlot
                          ELSE IF (s + 1) % W = 0 THEN s + 1 ELSE s + 2
        /\ armed' = (armed \/ timeoutSlot <= s + 1)
    BY <1>4, <2>1 DEF NotarizationObserved, diskVars, leadVars
  <2>3. s \in Nat /\ window * W \in Nat
    BY <1>0, SMTT(20)
  <2>4. timeoutSlot' \in Nat /\ timeoutSlot' >= timeoutSlot /\ armed' \in BOOLEAN
    BY <2>2, <2>3, SMTT(20)
  <2>5. timeoutSlot' > 0
    BY <2>2, <2>3, SMTT(20)
  <2>6. window' * W = window * W
    BY <2>2
  <2>7. timeoutSlot' >= window' * W
    BY <2>3, <2>4, <2>6, SMTT(20)
  <2> QED BY <2>2, <2>4, <2>5, <2>7
<1>5. CASE Alarm
  <2> DEFINE from == timeoutSlot - 1
  <2>1. from \in Nat /\ from % W \in 0..(W - 1)
    BY <1>5, WindowFacts, SMTT(20) DEF Alarm
  <2>2. timeoutSlot' = (from - (from % W)) + W /\ armed' = FALSE
        /\ UNCHANGED <<window, dbWindow, announced>>
    BY <1>5 DEF Alarm, diskVars, leadVars
  <2>3. timeoutSlot' \in Nat /\ timeoutSlot' >= timeoutSlot
    BY <1>0, <2>1, <2>2, SMTT(20)
  <2>4. window' * W = window * W /\ window * W \in Nat
    BY <1>0, <2>2, SMTT(20)
  <2>5. timeoutSlot' >= window' * W
    BY <2>3, <2>4, SMTT(20)
  <2>6. armed' \in BOOLEAN /\ ~armed'
    BY <2>2
  <2> QED BY <2>2, <2>3, <2>5, <2>6
<1>6. CASE Restart
  <2>1. /\ timeoutSlot' = 0 /\ armed' = FALSE /\ window' = 0 /\ announced' = <<>>
        /\ dbWindow' = dbWindow
    BY <1>6 DEF Restart, diskVars
  <2>2. timeoutSlot' \in Nat /\ window' \in Nat /\ timeoutSlot' >= window' * W
    BY <1>0, <2>1, SMTT(20)
  <2>3. armed' \in BOOLEAN /\ ~armed'
    BY <2>1
  <2>4. announced' \in Seq(Slots) /\ dbWindow' \in Nat
    BY <2>1, SMTT(20)
  <2> QED BY <2>2, <2>3, <2>4
<1>7. ASSUME PersistVote \/ Environment PROVE Timing'
  BY <1>1, <1>7 DEF PersistVote, Environment, diskVars, timeVars, leadVars
<1>8. ASSUME NEW s \in Slots,
             \/ StartGeneration(s) \/ StoreCandidate(s) \/ ParentResolved(s)
             \/ CandidateDropped(s) \/ VoteNotarize(s)
      PROVE  Timing'
  BY <1>1, <1>8 DEF StartGeneration, StoreCandidate, ParentResolved, CandidateDropped,
     VoteNotarize, diskVars, timeVars, leadVars
<1>9. ASSUME NEW c \in Candidates, CandidateReceived(c) \/ FinalizationObserved(c)
      PROVE  Timing'
  BY <1>1, <1>9 DEF CandidateReceived, FinalizationObserved, diskVars, timeVars, leadVars
<1>10. CASE UNCHANGED vars
  BY <1>1, <1>10 DEF vars, diskVars, timeVars, leadVars
<1> QED BY <1>2, <1>3, <1>4, <1>5, <1>6, <1>7, <1>8, <1>9, <1>10 DEF Next

-----------------------------------------------------------------------------
LEMMA AlarmIInv ==
    ASSUME IInv, Timing, Alarm
    PROVE  IInv'
<1> DEFINE from == timeoutSlot - 1
           to == (from - (from % W)) + W
<1>a. PICK S : S = ToSkip(slot, first, from, to)
  OBVIOUS
<1>0. from \in Nat /\ to \in Nat
  <2>1. W \in Nat /\ W > 0 /\ from \in Nat
    BY SlotFacts, SMTT(20) DEF Alarm, Timing, TimeoutArithmeticSafe
  <2>2. from % W \in 0..(W - 1)
    BY <2>1, WindowFacts
  <2> QED BY <2>1, <2>2, SMTT(20)
<1>1. /\ slot' = MarkSkipped(slot, S) /\ PublishSkips(S)
      /\ UNCHANGED <<protocolVars, stored, task>>
  BY <1>a DEF Alarm, diskVars
<1> HIDE DEF from, to
<1>2. S \in SUBSET (Slots \cap (from..to)) /\ \A s \in S : ~slot[s].voted_final
  <2>1. \A s \in S : s \in Slots /\ from <= s /\ s < to /\ ~slot[s].voted_final
    BY <1>a DEF ToSkip
  <2>2. ASSUME NEW s \in S PROVE s \in from..to
    <3>1. s \in Nat /\ from <= s /\ s < to
      BY <2>1, SlotFacts
    <3> QED BY <1>0, <3>1, SMTT(20)
  <2> QED BY <2>1, <2>2
<1>b. PICK N : N = {s \in S : ~Cast(Skip(s))}
  OBVIOUS
<1>3. N \in SUBSET (Slots \cap (from..to)) /\ N \subseteq S /\ S \in SUBSET Slots
  BY <1>2, <1>b
<1>4. PICK f \in InOrder(N) : published' = published \o SkipVotes(f)
  BY <1>1, <1>b DEF PublishSkips
<1>5. /\ SkipVotes(f) \in Seq(Votes)
      /\ \A i \in DOMAIN SkipVotes(f) : \E s \in N : SkipVotes(f)[i] = Skip(s)
  BY <1>0, <1>3, SkipsInOrder
<1>6. \A i \in DOMAIN SkipVotes(f) : \E s \in S : SkipVotes(f)[i] = Skip(s)
  BY <1>3, <1>5
<1> QED BY <1>1, <1>2, <1>3, <1>4, <1>5, <1>6, SkipsIInv

(* What start_up reads from disk. *)
LEMMA Bootstrap ==
    ASSUME Types, MemoryExact
    PROVE  /\ BootstrapSlots \in [Slots -> SlotState]
           /\ \A s \in Slots :
                 /\ BootstrapSlots[s].pending = None /\ BootstrapSlots[s].notar_cert = None
                 /\ BootstrapSlots[s].voted_skip <=> s \in skip[self]
                 /\ BootstrapSlots[s].voted_final <=> \E c \in finalize[self] : SlotOf[c] = s
                 /\ \A c \in Candidates : BootstrapSlots[s].voted_notar = c
                                          <=> c \in notarize[self] /\ SlotOf[c] = s
<1>1. /\ notarize[self] \subseteq Candidates /\ skip[self] \subseteq Slots
      /\ finalize[self] \subseteq Candidates
  BY SlotFacts DEF Types, P!TypeOK, P!Honest, Honest
<1>2. \A c, d \in notarize[self] : SlotOf[c] = SlotOf[d] => c = d
  BY <1>1, CastFacts, SlotFacts, SMTT(20) DEF MemoryExact
<1>3. ASSUME NEW s \in Slots
      PROVE  LET v == IF \E c \in notarize[self] : SlotOf[c] = s
                      THEN CHOOSE c \in notarize[self] : SlotOf[c] = s ELSE None
             IN  /\ v \in MaybeCandidate
                 /\ \A c \in Candidates : v = c <=> c \in notarize[self] /\ SlotOf[c] = s
  <2>1. CASE \E c \in notarize[self] : SlotOf[c] = s
    <3> DEFINE v == CHOOSE c \in notarize[self] : SlotOf[c] = s
    <3>1. v \in notarize[self] /\ SlotOf[v] = s
      BY <2>1
    <3> HIDE DEF v
    <3>2. /\ v \in MaybeCandidate
          /\ \A c \in Candidates : v = c <=> c \in notarize[self] /\ SlotOf[c] = s
      BY <1>1, <1>2, <3>1 DEF MaybeCandidate
    <3> QED BY <2>1, <3>2 DEF v
  <2>2. CASE ~ \E c \in notarize[self] : SlotOf[c] = s
    BY <2>2, SlotFacts DEF MaybeCandidate
  <2> QED BY <2>1, <2>2
<1>4. ASSUME NEW s \in Slots
      PROVE  /\ BootstrapSlots[s] \in SlotState
             /\ BootstrapSlots[s].pending = None /\ BootstrapSlots[s].notar_cert = None
             /\ BootstrapSlots[s].voted_skip <=> s \in skip[self]
             /\ BootstrapSlots[s].voted_final <=> \E c \in finalize[self] : SlotOf[c] = s
             /\ \A c \in Candidates : BootstrapSlots[s].voted_notar = c
                                      <=> c \in notarize[self] /\ SlotOf[c] = s
  <2> DEFINE v == IF \E c \in notarize[self] : SlotOf[c] = s
                  THEN CHOOSE c \in notarize[self] : SlotOf[c] = s ELSE None
             k == s \in skip[self]
             z == \E c \in finalize[self] : SlotOf[c] = s
  <2>1. BootstrapSlots[s] = [pending |-> None, notar_cert |-> None, voted_notar |-> v,
                             voted_skip |-> k, voted_final |-> z]
    BY DEF BootstrapSlots
  <2>2. /\ v \in MaybeCandidate /\ k \in BOOLEAN /\ z \in BOOLEAN /\ None \in MaybeCandidate
        /\ \A c \in Candidates : v = c <=> c \in notarize[self] /\ SlotOf[c] = s
    BY <1>3, SMTT(20) DEF MaybeCandidate
  <2> HIDE DEF v, k, z
  <2>3. BootstrapSlots[s] \in SlotState
    BY <2>1, <2>2, SMTT(20) DEF SlotState
  <2>4. /\ BootstrapSlots[s].pending = None /\ BootstrapSlots[s].notar_cert = None
        /\ BootstrapSlots[s].voted_notar = v
        /\ BootstrapSlots[s].voted_skip = k /\ BootstrapSlots[s].voted_final = z
    BY <2>1, SMTT(20)
  <2> QED BY <2>2, <2>3, <2>4 DEF k, z
<1>5. BootstrapSlots \in [Slots -> SlotState]
  BY <1>4 DEF BootstrapSlots
<1> QED BY <1>4, <1>5

LEMMA RestartIInv ==
    ASSUME IInv, Timing, Restart
    PROVE  IInv'
<1> DEFINE to == dbWindow * W
           from == IF dbWindow = 0 THEN 0 ELSE to - W
<1>a. PICK S : S = ToSkip(BootstrapSlots, 0, from, to)
  OBVIOUS
<1>b. PICK N : N = {s \in S : ~OnDisk(Skip(s))}
  OBVIOUS
<1>0. from \in Nat /\ to \in Nat
  <2>1. W \in Nat /\ W > 0 /\ dbWindow \in Nat
    BY SlotFacts DEF Timing
  <2>2. dbWindow # 0 => dbWindow * W >= W
    BY <2>1, SMTT(20)
  <2> QED BY <2>1, <2>2, SMTT(20)
<1>1. /\ slot' = MarkSkipped(BootstrapSlots, S)
      /\ \E f \in InOrder(N) : published' = SkipVotes(f)
      /\ task' = [s \in Slots |-> "none"]
      /\ UNCHANGED <<protocolVars, stored>>
  BY <1>a, <1>b DEF Restart, diskVars
<1>2. Types /\ MemoryExact /\ VotesAllowed
  BY DEF IInv
<1> HIDE DEF from, to
<1>3. /\ S \in SUBSET (Slots \cap (from..to)) /\ S \in SUBSET Slots
      /\ \A s \in S : ~BootstrapSlots[s].voted_final
  <2>1. \A s \in S : s \in Slots /\ from <= s /\ s < to /\ ~BootstrapSlots[s].voted_final
    BY <1>a DEF ToSkip
  <2>2. ASSUME NEW s \in S PROVE s \in from..to
    <3>1. s \in Nat /\ from <= s /\ s < to
      BY <2>1, SlotFacts
    <3> QED BY <1>0, <3>1, SMTT(20)
  <2> QED BY <2>1, <2>2
<1>4. N \in SUBSET (Slots \cap (from..to)) /\ N \subseteq S
  BY <1>3, <1>b
<1>5. PICK f \in InOrder(N) : published' = SkipVotes(f)
  BY <1>1
<1>6. /\ published' \in Seq(Votes)
      /\ \A i \in DOMAIN published' : \E s \in S : published'[i] = Skip(s)
  BY <1>0, <1>4, <1>5, SkipsInOrder
<1>7. ASSUME NEW d
      PROVE  /\ Cast(Notarize(d))' => d \in notarize[self]
             /\ d \in notarize[self] => Cast(Notarize(d))'
             /\ Cast(Finalize(d))' => d \in finalize[self]
             /\ Cast(Skip(d))' => d \in skip[self] \/ d \in S
  <2>1. \A i \in DOMAIN published' : /\ published'[i] # Notarize(d) /\ published'[i] # Finalize(d)
                                     /\ published'[i] = Skip(d) => d \in S
    BY <1>6, VoteFacts
  <2>2. UNCHANGED <<notarize, skip, finalize>>
    BY <1>1 DEF protocolVars
  <2> QED BY <2>1, <2>2 DEF Cast, OnDisk, Notarize, Finalize, Skip
<1>8. /\ notarize[self] \subseteq Candidates /\ skip[self] \subseteq Slots
      /\ finalize[self] \subseteq Candidates
  BY <1>2, SlotFacts DEF Types, P!TypeOK, P!Honest, Honest
<1>9. /\ slot' \in [Slots -> SlotState]
      /\ \A s \in Slots :
            /\ slot'[s].pending = None /\ slot'[s].notar_cert = None
            /\ slot'[s].voted_skip <=> s \in skip[self] \/ s \in S
            /\ slot'[s].voted_final <=> \E c \in finalize[self] : SlotOf[c] = s
            /\ \A c \in Candidates : slot'[s].voted_notar = c
                                     <=> c \in notarize[self] /\ SlotOf[c] = s
  <2>1. \A s \in Slots :
           /\ slot'[s] \in SlotState
           /\ slot'[s].pending = BootstrapSlots[s].pending
           /\ slot'[s].notar_cert = BootstrapSlots[s].notar_cert
           /\ slot'[s].voted_notar = BootstrapSlots[s].voted_notar
           /\ slot'[s].voted_final = BootstrapSlots[s].voted_final
           /\ slot'[s].voted_skip <=> BootstrapSlots[s].voted_skip \/ s \in S
    <3>1. PICK B : B = BootstrapSlots
      OBVIOUS
    <3>2. B \in [Slots -> SlotState] /\ slot' = MarkSkipped(B, S)
      BY <1>1, <1>2, <3>1, Bootstrap
    <3>3. \A s \in Slots :
             /\ slot'[s] \in SlotState
             /\ slot'[s].pending = B[s].pending /\ slot'[s].notar_cert = B[s].notar_cert
             /\ slot'[s].voted_notar = B[s].voted_notar
             /\ slot'[s].voted_final = B[s].voted_final
             /\ slot'[s].voted_skip <=> B[s].voted_skip \/ s \in S
      BY <3>2 DEF MarkSkipped, SlotState
    <3> QED BY <3>1, <3>3
  <2>2. slot' \in [Slots -> SlotState]
    BY <1>1, <2>1 DEF MarkSkipped
  <2> QED BY <1>2, <2>1, <2>2, Bootstrap, SMTT(20)
<1>10. Types'
  BY <1>1, <1>2, <1>6, <1>9 DEF Types, P!TypeOK, protocolVars
<1>11. MemoryExact'
  BY <1>7, <1>8, <1>9, SlotFacts, SMTT(20) DEF MemoryExact
<1>12. TaskReady'
  BY <1>1 DEF TaskReady
<1>13. VotesAllowed'
  <2>1. ASSUME NEW c \in Candidates, c \in notarize[self]
        PROVE  P!ParentReady(c)' /\ c \in stored'
    <3>1. P!ParentReady(c) /\ c \in stored
      BY <1>2, <2>1, CastFacts DEF VotesAllowed
    <3> QED BY <1>1, <3>1 DEF P!ParentReady, P!SlotsAfterParent, protocolVars
  <2>2. ASSUME NEW c \in Candidates, c \in finalize[self]
        PROVE  c \in notarCerts' /\ ~Cast(Skip(SlotOf[c]))'
    <3>1. c \in notarCerts /\ SlotOf[c] \notin skip[self] /\ SlotOf[c] \in Slots
      BY <1>2, <2>2, CastFacts, SlotFacts DEF VotesAllowed
    <3>2. SlotOf[c] \notin S
      BY <1>2, <1>3, <2>2, Bootstrap
    <3> QED BY <1>1, <1>7, <3>1, <3>2 DEF protocolVars
  <2> QED BY <1>7, <2>1, <2>2 DEF VotesAllowed
<1>14. Ordered(published, notarize[self])'
  BY <1>6, VoteFacts, SMTT(20) DEF Ordered
<1> QED BY <1>10, <1>11, <1>12, <1>13, <1>14 DEF IInv

-----------------------------------------------------------------------------
(* A vote moves from the queue to the disk. *)
LEMMA PersistEffect ==
    ASSUME Types, PersistVote
    PROVE  LET vote == published[1] IN
           /\ vote \in Votes /\ 1 \in DOMAIN published
           /\ published' \in Seq(Votes) /\ Len(published) = Len(published') + 1
           /\ \A i \in 1..Len(published') : published'[i] = published[i + 1]
           /\ UNCHANGED <<notarCerts, skipCerts, finalCerts, stored, slot, task>>
           /\ \A c \in Candidates : vote = Notarize(c) =>
                 /\ notarize' = [notarize EXCEPT ![self] = @ \cup {c}]
                 /\ UNCHANGED <<skip, finalize>>
           /\ \A c \in Candidates : vote = Finalize(c) =>
                 /\ finalize' = [finalize EXCEPT ![self] = @ \cup {c}]
                 /\ UNCHANGED <<notarize, skip>>
           /\ \A s \in Slots : vote = Skip(s) =>
                 /\ skip' = [skip EXCEPT ![self] = @ \cup {s}]
                 /\ UNCHANGED <<notarize, finalize>>
<1>1. published \in Seq(Votes) /\ published # <<>>
  BY DEF Types, PersistVote
<1>2. /\ Head(published) = published[1] /\ published[1] \in Votes /\ 1 \in DOMAIN published
      /\ Tail(published) \in Seq(Votes) /\ Len(published) = Len(Tail(published)) + 1
      /\ \A i \in 1..Len(Tail(published)) : Tail(published)[i] = published[i + 1]
  BY <1>1, SMTT(20)
<1>3. published' = Tail(published)
      /\ UNCHANGED <<notarCerts, skipCerts, finalCerts, stored, slot, task>>
  BY DEF PersistVote, diskVars, memVars
<1>4. PICK vote : vote = published[1]
  OBVIOUS
<1>5. /\ notarize' = IF vote.type = "notarize"
                     THEN [notarize EXCEPT ![self] = @ \cup {vote.of}] ELSE notarize
      /\ skip' = IF vote.type = "skip"
                 THEN [skip EXCEPT ![self] = @ \cup {vote.of}] ELSE skip
      /\ finalize' = IF vote.type = "finalize"
                     THEN [finalize EXCEPT ![self] = @ \cup {vote.of}] ELSE finalize
  BY <1>2, <1>4 DEF PersistVote
<1>6. /\ \A c \in Candidates : vote = Notarize(c) => vote.type = "notarize" /\ vote.of = c
      /\ \A c \in Candidates : vote = Finalize(c) => vote.type = "finalize" /\ vote.of = c
      /\ \A s \in Slots : vote = Skip(s) => vote.type = "skip" /\ vote.of = s
  BY SMTT(20) DEF Notarize, Finalize, Skip
<1>7. ASSUME NEW c \in Candidates, vote = Notarize(c)
      PROVE  /\ notarize' = [notarize EXCEPT ![self] = @ \cup {c}]
             /\ UNCHANGED <<skip, finalize>>
  BY <1>5, <1>6, <1>7
<1>8. ASSUME NEW c \in Candidates, vote = Finalize(c)
      PROVE  /\ finalize' = [finalize EXCEPT ![self] = @ \cup {c}]
             /\ UNCHANGED <<notarize, skip>>
  BY <1>5, <1>6, <1>8
<1>9. ASSUME NEW s \in Slots, vote = Skip(s)
      PROVE  /\ skip' = [skip EXCEPT ![self] = @ \cup {s}]
             /\ UNCHANGED <<notarize, finalize>>
  BY <1>5, <1>6, <1>9
<1> QED BY <1>2, <1>3, <1>4, <1>7, <1>8, <1>9

LEMMA PersistVoteIInv ==
    ASSUME IInv, PersistVote
    PROVE  IInv'
<1>0. /\ Types /\ MemoryExact /\ TaskReady /\ VotesAllowed
      /\ Ordered(published, notarize[self])
  BY DEF IInv
<1>a. PICK vote : vote = published[1]
  OBVIOUS
<1>1. /\ vote \in Votes /\ 1 \in DOMAIN published
      /\ published' \in Seq(Votes) /\ Len(published) = Len(published') + 1
      /\ \A i \in 1..Len(published') : published'[i] = published[i + 1]
      /\ UNCHANGED <<notarCerts, skipCerts, finalCerts, stored, slot, task>>
  BY <1>0, <1>a, PersistEffect
<1>2. /\ \A c \in Candidates : vote = Notarize(c) =>
            /\ notarize' = [notarize EXCEPT ![self] = @ \cup {c}]
            /\ UNCHANGED <<skip, finalize>>
      /\ \A c \in Candidates : vote = Finalize(c) =>
            /\ finalize' = [finalize EXCEPT ![self] = @ \cup {c}]
            /\ UNCHANGED <<notarize, skip>>
      /\ \A s \in Slots : vote = Skip(s) =>
            /\ skip' = [skip EXCEPT ![self] = @ \cup {s}]
            /\ UNCHANGED <<notarize, finalize>>
  BY <1>0, <1>a, PersistEffect
<1>3. /\ notarize \in [Honest -> SUBSET Candidates] /\ skip \in [Honest -> SUBSET Slots]
      /\ finalize \in [Honest -> SUBSET Candidates] /\ self \in Honest
      /\ published \in Seq(Votes)
  BY <1>0, SlotFacts DEF Types, P!TypeOK, P!Honest, Honest
<1>4. /\ notarize' \in [Honest -> SUBSET Candidates] /\ skip' \in [Honest -> SUBSET Slots]
      /\ finalize' \in [Honest -> SUBSET Candidates]
      /\ \A d : d \in notarize'[self] <=> d \in notarize[self] \/ vote = Notarize(d)
      /\ \A d : d \in finalize'[self] <=> d \in finalize[self] \/ vote = Finalize(d)
      /\ \A d : d \in skip'[self] <=> d \in skip[self] \/ vote = Skip(d)
  <2>1. CASE \E c \in Candidates : vote = Notarize(c)
    <3>1. PICK c \in Candidates : vote = Notarize(c)
      BY <2>1
    <3>2. /\ notarize' = [notarize EXCEPT ![self] = @ \cup {c}]
          /\ skip' = skip /\ finalize' = finalize
      BY <1>2, <3>1
    <3>3. \A d : /\ vote = Notarize(d) <=> d = c
                 /\ vote # Finalize(d) /\ vote # Skip(d)
      BY <3>1, VoteFacts
    <3> QED BY <1>3, <3>2, <3>3
  <2>2. CASE \E c \in Candidates : vote = Finalize(c)
    <3>1. PICK c \in Candidates : vote = Finalize(c)
      BY <2>2
    <3>2. /\ finalize' = [finalize EXCEPT ![self] = @ \cup {c}]
          /\ notarize' = notarize /\ skip' = skip
      BY <1>2, <3>1
    <3>3. \A d : /\ vote = Finalize(d) <=> d = c
                 /\ vote # Notarize(d) /\ vote # Skip(d)
      BY <3>1, VoteFacts
    <3> QED BY <1>3, <3>2, <3>3
  <2>3. CASE \E s \in Slots : vote = Skip(s)
    <3>1. PICK s \in Slots : vote = Skip(s)
      BY <2>3
    <3>2. /\ skip' = [skip EXCEPT ![self] = @ \cup {s}]
          /\ notarize' = notarize /\ finalize' = finalize
      BY <1>2, <3>1
    <3>3. \A d : /\ vote = Skip(d) <=> d = s
                 /\ vote # Notarize(d) /\ vote # Finalize(d)
      BY <3>1, VoteFacts
    <3> QED BY <1>3, <3>2, <3>3
  <2> QED BY <1>1, <2>1, <2>2, <2>3, VoteFacts
<1>5. ASSUME NEW x
      PROVE  (\E i \in DOMAIN published : published[i] = x)
                 <=> x = vote \/ \E i \in DOMAIN published' : published'[i] = x
  <2>1. DOMAIN published = 1..Len(published) /\ DOMAIN published' = 1..Len(published')
        /\ Len(published') \in Nat
    BY <1>1, <1>3, SMTT(20)
  <2>2. ASSUME NEW i \in 1..Len(published), published[i] = x, i # 1
        PROVE  i - 1 \in 1..Len(published') /\ published'[i - 1] = x
    BY <1>1, <2>1, <2>2, SMTT(20)
  <2>3. ASSUME NEW i \in 1..Len(published'), published'[i] = x
        PROVE  i + 1 \in 1..Len(published) /\ published[i + 1] = x
    BY <1>1, <2>1, <2>3, SMTT(20)
  <2> QED BY <1>a, <1>1, <2>1, <2>2, <2>3
<1>6. ASSUME NEW d
      PROVE  /\ Cast(Notarize(d))' <=> Cast(Notarize(d))
             /\ Cast(Finalize(d))' <=> Cast(Finalize(d))
             /\ Cast(Skip(d))' <=> Cast(Skip(d))
  <2>1. /\ Cast(Notarize(d))' <=> \/ d \in notarize'[self]
                                  \/ \E i \in DOMAIN published' : published'[i] = Notarize(d)
        /\ Cast(Finalize(d))' <=> \/ d \in finalize'[self]
                                  \/ \E i \in DOMAIN published' : published'[i] = Finalize(d)
        /\ Cast(Skip(d))' <=> \/ d \in skip'[self]
                              \/ \E i \in DOMAIN published' : published'[i] = Skip(d)
    BY DEF Cast, OnDisk, Notarize, Finalize, Skip
  <2> QED BY <1>4, <1>5, <2>1, CastFacts
<1>7. \A c : P!ParentReady(c)' <=> P!ParentReady(c)
  BY <1>1 DEF P!ParentReady, P!SlotsAfterParent
<1>8. Types'
  BY <1>0, <1>1, <1>4 DEF Types, P!TypeOK, P!Honest, Honest
<1>9. MemoryExact'
  BY <1>0, <1>1, <1>6 DEF MemoryExact
<1>10. TaskReady' /\ VotesAllowed'
  BY <1>0, <1>1, <1>6, <1>7 DEF TaskReady, VotesAllowed
<1>11. Ordered(published, notarize[self])'
  <2> SUFFICES ASSUME NEW i \in 1..Len(published'), NEW c \in Candidates,
                      published'[i] = Finalize(c)
               PROVE  c \in notarize'[self] \/ \E j \in 1..(i - 1) : published'[j] = Notarize(c)
    BY DEF Ordered
  <2>1. Len(published') \in Nat /\ i + 1 \in 1..Len(published) /\ published[i + 1] = Finalize(c)
    BY <1>1, SMTT(20)
  <2>2. c \in notarize[self] \/ \E j \in 1..i : published[j] = Notarize(c)
    BY <1>0, <2>1, SMTT(20) DEF Ordered
  <2>3. CASE c \in notarize[self]
    BY <1>4, <2>3
  <2>4. ASSUME NEW j \in 1..i, published[j] = Notarize(c)
        PROVE  c \in notarize'[self] \/ \E k \in 1..(i - 1) : published'[k] = Notarize(c)
    <3>1. CASE j = 1
      BY <1>a, <1>4, <2>4, <3>1
    <3>2. CASE j # 1
      <4>1. j - 1 \in 1..(i - 1) /\ j - 1 \in 1..Len(published') /\ (j - 1) + 1 = j
        BY <2>1, <3>2, SMTT(20)
      <4>2. published'[j - 1] = Notarize(c)
        BY <1>1, <2>4, <4>1
      <4> QED BY <4>1, <4>2
    <3> QED BY <3>1, <3>2
  <2> QED BY <2>2, <2>3, <2>4
<1> QED BY <1>8, <1>9, <1>10, <1>11 DEF IInv

LEMMA EnvironmentIInv ==
    ASSUME IInv, Environment
    PROVE  IInv'
<1>0. /\ Types /\ MemoryExact /\ TaskReady /\ VotesAllowed
      /\ Ordered(published, notarize[self])
  BY DEF IInv
<1>1. UNCHANGED <<stored, slot, task, published>>
  BY DEF Environment, diskVars, memVars
<1>2. /\ notarize \in [Honest -> SUBSET Candidates] /\ skip \in [Honest -> SUBSET Slots]
      /\ finalize \in [Honest -> SUBSET Candidates] /\ self \in Honest
      /\ notarCerts \subseteq Candidates /\ skipCerts \subseteq Slots
      /\ finalCerts \subseteq Candidates
  BY <1>0, SlotFacts DEF Types, P!TypeOK, P!Honest, Honest
<1> DEFINE Grown ==
        /\ P!TypeOK'
        /\ UNCHANGED <<notarize[self], skip[self], finalize[self]>>
        /\ notarCerts \subseteq notarCerts' /\ skipCerts \subseteq skipCerts'
        /\ finalCerts \subseteq finalCerts'
<1>3. Grown
  <2> USE <1>2 DEF P!TypeOK, P!Honest, Honest, P!votes, P!certs
  <2>1. ASSUME NEW v \in Honest \ {self}, NEW c \in Candidates, P!CastNotarize(v, c)
        PROVE  Grown
    BY <2>1 DEF P!CastNotarize
  <2>2. ASSUME NEW v \in Honest \ {self}, NEW c \in Candidates, P!CastFinalize(v, c)
        PROVE  Grown
    BY <2>2 DEF P!CastFinalize
  <2>3. ASSUME NEW v \in Honest \ {self}, NEW s \in Slots, P!CastSkip(v, s)
        PROVE  Grown
    BY <2>3 DEF P!CastSkip
  <2>4. ASSUME NEW c \in Candidates, P!FormNotarCert(c) PROVE Grown
    BY <2>4 DEF P!FormNotarCert
  <2>5. ASSUME NEW c \in Candidates, P!FormFinalCert(c) PROVE Grown
    BY <2>5 DEF P!FormFinalCert
  <2>6. ASSUME NEW s \in Slots, P!FormSkipCert(s) PROVE Grown
    BY <2>6 DEF P!FormSkipCert
  <2> QED BY <2>1, <2>2, <2>3, <2>4, <2>5, <2>6 DEF Environment
<1>4. \A vote : Cast(vote)' <=> Cast(vote)
  BY <1>1, <1>3, CastKept
<1>5. \A c : P!ParentReady(c) => P!ParentReady(c)'
  BY <1>3, ReadyKept
<1>6. Types' /\ Ordered(published, notarize[self])'
  BY <1>0, <1>1, <1>3 DEF Types, Ordered
<1>7. MemoryExact'
  BY <1>0, <1>1, <1>3, <1>4 DEF MemoryExact
<1>8. TaskReady' /\ VotesAllowed'
  BY <1>0, <1>1, <1>3, <1>4, <1>5 DEF TaskReady, VotesAllowed
<1> QED BY <1>6, <1>7, <1>8 DEF IInv

LEMMA NextIInv == IInv /\ Timing /\ [Next]_vars => IInv'
<1> SUFFICES ASSUME IInv, Timing, [Next]_vars PROVE IInv'
  OBVIOUS
<1>1. ASSUME NEW s \in Slots, AnnounceWindow(s) \/ StartGeneration(s) PROVE IInv'
  BY <1>1, QuietIInv DEF AnnounceWindow, StartGeneration, memVars, diskVars
<1>2. CASE LeaderWindowObserved
  BY <1>2, QuietIInv DEF LeaderWindowObserved, memVars, diskVars
<1>3. ASSUME NEW c \in Candidates, FinalizationObserved(c) PROVE IInv'
  BY <1>3, QuietIInv DEF FinalizationObserved, diskVars
<1>4. CASE UNCHANGED vars
  BY <1>4, QuietIInv DEF vars, memVars, diskVars
<1> QED
  BY <1>1, <1>2, <1>3, <1>4, CandidateReceivedIInv, TaskStepIInv, VoteNotarizeIInv,
     NotarizationObservedIInv, AlarmIInv, RestartIInv, PersistVoteIInv, EnvironmentIInv DEF Next

LEMMA Invariance == Spec => [](IInv /\ Timing)
<1>1. Init => IInv /\ Timing
  BY InitIInv, InitTiming
<1>2. (IInv /\ Timing) /\ [Next]_vars => (IInv /\ Timing)'
  BY NextIInv, NextTiming
<1> QED BY <1>1, <1>2, PTL DEF Spec

-----------------------------------------------------------------------------
(* start_up's replay and the order in which votes are decided, saved and sent keep
   every vote in memory while it matters. *)
THEOREM MemoryAlwaysCovers == Spec => []MemoryCoversVotes
<1>1. IInv => MemoryCoversVotes
  BY DEF IInv, MemoryExact, MemoryCoversVotes
<1> QED BY <1>1, Invariance, PTL

(* try_notarize awaits store_candidate before it votes. *)
THEOREM NotarizedAlwaysStored == Spec => []NotarizedIsStored
<1>1. IInv => NotarizedIsStored
  <2> SUFFICES ASSUME IInv, NEW c \in notarize[self] PROVE c \in stored
    BY DEF NotarizedIsStored
  <2>1. c \in Candidates
    BY SlotFacts DEF IInv, Types, P!TypeOK, P!Honest, Honest
  <2> QED BY <2>1, CastFacts DEF IInv, VotesAllowed
<1> QED BY <1>1, Invariance, PTL

(* The unsigned subtractions of alarm and process_notarization_observed. *)
THEOREM TimeoutsNeverWrap == Spec => []TimeoutArithmeticSafe
<1>1. Timing => TimeoutArithmeticSafe
  BY DEF Timing
<1> QED BY <1>1, Invariance, PTL

(* Every write that reaches the disk is a vote SimplexProtocol allows. *)
LEMMA PersistRefines ==
    ASSUME IInv, PersistVote
    PROVE  P!Next \/ UNCHANGED P!vars
<1>0. /\ Types /\ MemoryExact /\ VotesAllowed /\ Ordered(published, notarize[self])
      /\ self \in P!Honest
  BY SlotFacts DEF IInv, P!Honest, Honest
<1>a. PICK vote : vote = published[1]
  OBVIOUS
<1>1. /\ vote \in Votes /\ 1 \in DOMAIN published
      /\ UNCHANGED <<notarCerts, skipCerts, finalCerts>>
      /\ \A c \in Candidates : vote = Notarize(c) =>
            /\ notarize' = [notarize EXCEPT ![self] = @ \cup {c}]
            /\ UNCHANGED <<skip, finalize>>
      /\ \A c \in Candidates : vote = Finalize(c) =>
            /\ finalize' = [finalize EXCEPT ![self] = @ \cup {c}]
            /\ UNCHANGED <<notarize, skip>>
      /\ \A s \in Slots : vote = Skip(s) =>
            /\ skip' = [skip EXCEPT ![self] = @ \cup {s}]
            /\ UNCHANGED <<notarize, finalize>>
  BY <1>0, <1>a, PersistEffect
<1>2. /\ notarize \in [P!Honest -> SUBSET Candidates] /\ skip \in [P!Honest -> SUBSET Slots]
      /\ finalize \in [P!Honest -> SUBSET Candidates]
  BY <1>0 DEF Types, P!TypeOK
<1>3. ASSUME NEW c \in Candidates, vote = Notarize(c)
      PROVE  P!Next \/ UNCHANGED P!vars
  <2>1. Cast(Notarize(c)) /\ P!ParentReady(c)
    BY <1>0, <1>a, <1>1, <1>3, CastFacts DEF VotesAllowed
  <2>2. CASE c \in notarize[self]
    <3>1. notarize' = [notarize EXCEPT ![self] = @ \cup {c}]
      BY <1>1, <1>3
    <3>2. notarize[self] \cup {c} = notarize[self]
      BY <2>2
    <3>3. notarize' = notarize
      BY <1>0, <1>2, <3>1, <3>2
    <3> QED BY <1>1, <1>3, <3>3 DEF P!vars
  <2>3. CASE c \notin notarize[self]
    <3>1. ASSUME NEW d \in notarize[self], SlotOf[d] = SlotOf[c] PROVE FALSE
      <4>1. d \in Candidates /\ Cast(Notarize(d))
        BY <1>0, <1>2, CastFacts
      <4> QED BY <1>0, <2>1, <2>3, <3>1, <4>1, SlotFacts DEF MemoryExact
    <3>2. P!CastNotarize(self, c)
      BY <1>1, <1>3, <2>1, <3>1 DEF P!CastNotarize, P!certs
    <3> QED BY <1>0, <3>2 DEF P!Next
  <2> QED BY <2>2, <2>3
<1>4. ASSUME NEW c \in Candidates, vote = Finalize(c)
      PROVE  P!Next \/ UNCHANGED P!vars
  <2>1. /\ Cast(Finalize(c)) /\ c \in notarCerts /\ ~Cast(Skip(SlotOf[c]))
        /\ SlotOf[c] \notin skip[self]
    BY <1>0, <1>a, <1>1, <1>4, CastFacts DEF VotesAllowed
  <2>2. CASE c \in finalize[self]
    <3>1. finalize' = finalize
      BY <1>0, <1>1, <1>2, <1>4, <2>2, SMTT(20)
    <3> QED BY <1>1, <1>4, <3>1 DEF P!vars
  <2>3. CASE c \notin finalize[self]
    <3>1. 1 \in 1..Len(published) /\ 1..(1 - 1) = {}
      BY <1>0, <1>1, SMTT(20) DEF Types
    <3>2. c \in notarize[self]
      BY <1>0, <1>a, <1>4, <3>1 DEF Ordered
    <3>3. P!CastFinalize(self, c)
      BY <1>1, <1>4, <2>1, <2>3, <3>2 DEF P!CastFinalize, P!certs
    <3> QED BY <1>0, <3>3 DEF P!Next
  <2> QED BY <2>2, <2>3
<1>5. ASSUME NEW s \in Slots, vote = Skip(s)
      PROVE  P!Next \/ UNCHANGED P!vars
  <2>1. Cast(Skip(s))
    BY <1>a, <1>1, <1>5, CastFacts
  <2>2. CASE s \in skip[self]
    <3>1. skip' = skip
      BY <1>0, <1>1, <1>2, <1>5, <2>2, SMTT(20)
    <3> QED BY <1>1, <1>5, <3>1 DEF P!vars
  <2>3. CASE s \notin skip[self]
    <3>1. ASSUME NEW d \in finalize[self] PROVE SlotOf[d] # s
      <4>1. d \in Candidates /\ Cast(Finalize(d))
        BY <1>0, <1>2, CastFacts
      <4> QED BY <1>0, <2>1, <4>1 DEF VotesAllowed
    <3>2. P!CastSkip(self, s)
      BY <1>1, <1>5, <2>3, <3>1 DEF P!CastSkip, P!certs
    <3> QED BY <1>0, <3>2 DEF P!Next
  <2> QED BY <2>2, <2>3
<1> QED BY <1>1, <1>3, <1>4, <1>5, VoteFacts

LEMMA NextRefines == IInv /\ [Next]_vars => [P!Next]_(P!vars)
<1> SUFFICES ASSUME IInv, [Next]_vars PROVE P!Next \/ UNCHANGED P!vars
  OBVIOUS
<1>1. CASE PersistVote
  BY <1>1, PersistRefines
<1>2. CASE Environment
  BY <1>2 DEF Environment, P!Next, P!Honest, Honest
<1>3. CASE LeaderWindowObserved \/ Alarm \/ Restart
  BY <1>3 DEF LeaderWindowObserved, Alarm, Restart, protocolVars, P!vars
<1>4. ASSUME NEW s \in Slots,
             \/ AnnounceWindow(s) \/ StartGeneration(s) \/ StoreCandidate(s)
             \/ ParentResolved(s) \/ CandidateDropped(s) \/ VoteNotarize(s)
      PROVE  UNCHANGED P!vars
  BY <1>4 DEF AnnounceWindow, StartGeneration, StoreCandidate, ParentResolved,
     CandidateDropped, VoteNotarize, protocolVars, P!vars
<1>5. ASSUME NEW c \in Candidates,
             CandidateReceived(c) \/ NotarizationObserved(c) \/ FinalizationObserved(c)
      PROVE  UNCHANGED P!vars
  BY <1>5 DEF CandidateReceived, NotarizationObserved, FinalizationObserved, protocolVars, P!vars
<1>6. CASE UNCHANGED vars
  BY <1>6 DEF vars, protocolVars, P!vars
<1> QED BY <1>1, <1>2, <1>3, <1>4, <1>5, <1>6 DEF Next

(* consensus.cpp and db.cpp implement SimplexProtocol: the theorems about it hold of
   groups whose honest validators run this code, whatever crashes. *)
THEOREM Refinement == Spec => ImplementsProtocol
<1>1. Init => P!Init
  BY DEF Init
<1>2. IInv /\ Timing => IInv
  OBVIOUS
<1> QED BY <1>1, <1>2, Invariance, NextRefines, PTL DEF Spec, ImplementsProtocol, P!Spec

-----------------------------------------------------------------------------
(* Leading a window. *)

(* Announced windows are on disk and increase. While a window is being prepared, the
   actor's window is beyond those prepared and led before, and the announcements to
   come are beyond that, so start_generation's comparison with it keeps the order. *)
Leading ==
    /\ generating \subseteq Slots
    /\ led \in Seq(Nat)
    /\ LeadsInOrder
    /\ \A i \in DOMAIN announced : WindowOf(announced[i]) < dbWindow
    /\ \A i, j \in DOMAIN announced : i < j => WindowOf(announced[i]) < WindowOf(announced[j])
    /\ \A s \in generating :
          /\ s % W = 0 /\ WindowOf(s) <= window /\ window < dbWindow
          /\ \A i \in DOMAIN announced : window < WindowOf(announced[i])
          /\ WindowOf(s) = window => \A k \in DOMAIN led : led[k] < window
    /\ \A k \in DOMAIN led :
          /\ led[k] < dbWindow
          /\ \A i \in DOMAIN announced : led[k] < WindowOf(announced[i])

LEMMA InitLeading == Init => Leading
BY SMTT(20) DEF Init, Leading, LeadsInOrder

LEMMA SameWindow ==
    ASSUME NEW s \in Nat, NEW t \in Nat, s % W = 0, t % W = 0, WindowOf(s) = WindowOf(t)
    PROVE  s = t
<1>1. W \in Nat \ {0}
  BY SlotFacts, SMTT(20)
<1> QED BY <1>1, SMTT(20) DEF WindowOf

LEMMA AnnounceLeading ==
    ASSUME Timing, Leading, NEW s \in Slots, AnnounceWindow(s)
    PROVE  Leading'
<1>1. /\ announced \in Seq(Slots) /\ announced' = Append(announced, s)
      /\ dbWindow \in Nat /\ dbWindow' = WindowOf(s) + 1 /\ WindowOf(s) >= dbWindow
      /\ generating' = generating /\ led' = led /\ window' = window /\ window \in Nat
  BY DEF AnnounceWindow, Timing, timeVars
<1>2. /\ DOMAIN announced = 1..Len(announced) /\ Len(announced) \in Nat
      /\ DOMAIN announced' = 1..(Len(announced) + 1)
      /\ announced'[Len(announced) + 1] = s
      /\ \A i \in 1..Len(announced) : announced'[i] = announced[i]
  BY <1>1, SMTT(20)
<1>3. \A t \in Slots : WindowOf(t) \in Nat
  BY SlotFacts, WindowFacts
<1>4. \A i \in 1..Len(announced) : /\ WindowOf(announced[i]) \in Nat
                                   /\ WindowOf(announced[i]) < dbWindow
  BY <1>1, <1>2, <1>3, SMTT(20) DEF Leading
<1>5. \A i \in DOMAIN announced' : WindowOf(announced'[i]) < dbWindow'
  BY <1>1, <1>2, <1>3, <1>4, SMTT(20)
<1>6. \A i, j \in DOMAIN announced' : i < j => WindowOf(announced'[i]) < WindowOf(announced'[j])
  <2> SUFFICES ASSUME NEW i \in DOMAIN announced', NEW j \in DOMAIN announced', i < j
               PROVE  WindowOf(announced'[i]) < WindowOf(announced'[j])
    OBVIOUS
  <2>1. CASE j = Len(announced) + 1
    BY <1>1, <1>2, <1>3, <1>4, <2>1, SMTT(20)
  <2>2. CASE j # Len(announced) + 1
    BY <1>2, <2>2, SMTT(20) DEF Leading
  <2> QED BY <2>1, <2>2
<1>7. ASSUME NEW n \in Nat, n < dbWindow,
             \A i \in DOMAIN announced : n < WindowOf(announced[i])
      PROVE  n < dbWindow' /\ \A i \in DOMAIN announced' : n < WindowOf(announced'[i])
  <2>1. n < WindowOf(s) /\ n < dbWindow'
    BY <1>1, <1>3, <1>7, SMTT(20)
  <2> QED BY <1>2, <1>7, <2>1, SMTT(20)
<1>8. ASSUME NEW t \in generating
      PROVE  /\ t % W = 0 /\ WindowOf(t) <= window' /\ window' < dbWindow'
             /\ \A i \in DOMAIN announced' : window' < WindowOf(announced'[i])
             /\ WindowOf(t) = window' => \A k \in DOMAIN led : led[k] < window'
  <2>1. /\ t % W = 0 /\ WindowOf(t) <= window /\ window < dbWindow
        /\ \A i \in DOMAIN announced : window < WindowOf(announced[i])
        /\ WindowOf(t) = window => \A k \in DOMAIN led : led[k] < window
    BY DEF Leading
  <2> QED BY <1>1, <1>7, <2>1
<1>9. ASSUME NEW k \in DOMAIN led
      PROVE  led[k] < dbWindow' /\ \A i \in DOMAIN announced' : led[k] < WindowOf(announced'[i])
  <2>1. /\ led[k] \in Nat /\ led[k] < dbWindow
        /\ \A i \in DOMAIN announced : led[k] < WindowOf(announced[i])
    BY SMTT(20) DEF Leading
  <2> QED BY <1>7, <2>1
<1>10. generating' \subseteq Slots /\ led' \in Seq(Nat) /\ LeadsInOrder'
  BY <1>1 DEF Leading, LeadsInOrder
<1> QED BY <1>1, <1>5, <1>6, <1>8, <1>9, <1>10 DEF Leading

LEMMA ObserveLeading ==
    ASSUME Timing, Leading, LeaderWindowObserved
    PROVE  Leading'
<1>1. PICK s : s = Head(announced)
  OBVIOUS
<1>2. /\ announced \in Seq(Slots) /\ announced # <<>> /\ announced' = Tail(announced)
      /\ generating' \subseteq generating \cup {s}
      /\ s \in generating' => s \in generating \/ s % W = 0
      /\ dbWindow' = dbWindow /\ led' = led /\ window' = WindowOf(s) /\ window \in Nat
  BY <1>1 DEF LeaderWindowObserved, Timing, diskVars
<1>3. /\ DOMAIN announced = 1..Len(announced) /\ Len(announced) \in Nat \ {0}
      /\ DOMAIN announced' = 1..(Len(announced) - 1)
      /\ s = announced[1] /\ s \in Slots
      /\ \A i \in DOMAIN announced' : /\ i + 1 \in DOMAIN announced
                                      /\ announced'[i] = announced[i + 1]
                                      /\ 1 < i + 1 /\ 1 \in DOMAIN announced
  BY <1>1, <1>2, SMTT(20)
<1>4. \A t \in Slots : WindowOf(t) \in Nat
  BY SlotFacts, WindowFacts
<1>5. \A i \in DOMAIN announced' : /\ WindowOf(announced'[i]) < dbWindow
                                   /\ announced'[i] \in Slots
                                   /\ WindowOf(s) < WindowOf(announced'[i])
  BY <1>2, <1>3, SMTT(20) DEF Leading
<1>6. \A i, j \in DOMAIN announced' : i < j => WindowOf(announced'[i]) < WindowOf(announced'[j])
  BY <1>3, SMTT(20) DEF Leading
<1>7. /\ WindowOf(s) \in Nat /\ WindowOf(s) < dbWindow
      /\ \A k \in DOMAIN led : led[k] < WindowOf(s)
      /\ generating # {} => window < WindowOf(s)
  <2>1. 1 \in DOMAIN announced
    BY <1>3, SMTT(20)
  <2> QED BY <1>3, <1>4, <2>1 DEF Leading
<1>8. ASSUME NEW t \in generating'
      PROVE  /\ t % W = 0 /\ WindowOf(t) <= window' /\ window' < dbWindow'
             /\ \A i \in DOMAIN announced' : window' < WindowOf(announced'[i])
             /\ WindowOf(t) = window' => \A k \in DOMAIN led : led[k] < window'
  <2>1. t % W = 0 /\ WindowOf(t) <= WindowOf(s)
    <3>1. CASE t \in generating
      <4>1. /\ t % W = 0 /\ WindowOf(t) <= window /\ window < WindowOf(s)
            /\ WindowOf(t) \in Nat
        BY <1>4, <1>7, <3>1 DEF Leading
      <4> QED BY <1>2, <1>7, <4>1, SMTT(20)
    <3>2. CASE t \notin generating
      <4>1. t = s /\ s % W = 0
        BY <1>2, <3>2
      <4> QED BY <1>7, <4>1, SMTT(20)
    <3> QED BY <3>1, <3>2
  <2> QED BY <1>2, <1>5, <1>7, <2>1
<1>9. ASSUME NEW k \in DOMAIN led
      PROVE  led[k] < dbWindow /\ \A i \in DOMAIN announced' : led[k] < WindowOf(announced'[i])
  BY <1>3, <1>9, SMTT(20) DEF Leading
<1>10. generating' \subseteq Slots /\ led' \in Seq(Nat) /\ LeadsInOrder'
  BY <1>2, <1>3 DEF Leading, LeadsInOrder
<1> QED BY <1>2, <1>5, <1>6, <1>8, <1>9, <1>10 DEF Leading

LEMMA StartLeading ==
    ASSUME Timing, Leading, NEW s \in Slots, StartGeneration(s)
    PROVE  Leading'
<1>1. /\ s \in generating /\ generating' = generating \ {s}
      /\ announced' = announced /\ dbWindow' = dbWindow /\ window' = window
      /\ led' = led \/ (led' = Append(led, window) /\ window = WindowOf(s))
      /\ window \in Nat
  BY DEF StartGeneration, diskVars, timeVars, Timing
<1>2. CASE led' = led
  BY <1>1, <1>2 DEF Leading, LeadsInOrder
<1>3. CASE led' = Append(led, window) /\ window = WindowOf(s)
  <2>1. /\ s % W = 0 /\ window < dbWindow
        /\ \A i \in DOMAIN announced : window < WindowOf(announced[i])
        /\ \A k \in DOMAIN led : led[k] < window
    BY <1>1, <1>3 DEF Leading
  <2>2. /\ led \in Seq(Nat) /\ led' \in Seq(Nat)
        /\ DOMAIN led = 1..Len(led) /\ Len(led) \in Nat
        /\ DOMAIN led' = 1..(Len(led) + 1)
        /\ led'[Len(led) + 1] = window
        /\ \A k \in 1..Len(led) : led'[k] = led[k]
    BY <1>1, <1>3, SMTT(20) DEF Leading
  <2>3. \A k \in DOMAIN led' : k \in DOMAIN led \/ k = Len(led) + 1
    BY <2>2, SMTT(20)
  <2>4. LeadsInOrder'
    <3> SUFFICES ASSUME NEW i \in DOMAIN led', NEW j \in DOMAIN led', i < j
                 PROVE  led'[i] < led'[j]
      BY DEF LeadsInOrder
    <3>1. i \in DOMAIN led /\ led'[i] = led[i]
      BY <2>2, SMTT(20)
    <3>2. CASE j \in DOMAIN led
      BY <2>2, <3>1, <3>2 DEF Leading, LeadsInOrder
    <3>3. CASE j = Len(led) + 1
      BY <2>1, <2>2, <3>1, <3>3
    <3> QED BY <2>3, <3>2, <3>3
  <2>5. ASSUME NEW k \in DOMAIN led'
        PROVE  led'[k] < dbWindow /\ \A i \in DOMAIN announced : led'[k] < WindowOf(announced[i])
    <3>1. CASE k \in DOMAIN led
      BY <2>2, <3>1 DEF Leading
    <3>2. CASE k = Len(led) + 1
      BY <2>1, <2>2, <3>2
    <3> QED BY <2>3, <3>1, <3>2
  <2>6. ASSUME NEW t \in generating'
        PROVE  WindowOf(t) # window
    <3>1. t \in generating /\ t # s /\ t % W = 0 /\ t \in Nat /\ s \in Nat
      BY <1>1, SlotFacts DEF Leading
    <3> QED BY <1>3, <2>1, <3>1, SameWindow
  <2>7. \A t \in generating' :
           /\ t % W = 0 /\ WindowOf(t) <= window /\ window < dbWindow
           /\ \A i \in DOMAIN announced : window < WindowOf(announced[i])
           /\ WindowOf(t) = window => \A k \in DOMAIN led' : led'[k] < window
    BY <1>1, <2>6 DEF Leading
  <2>8. /\ generating' \subseteq Slots
        /\ \A i \in DOMAIN announced : WindowOf(announced[i]) < dbWindow
        /\ \A i, j \in DOMAIN announced :
              i < j => WindowOf(announced[i]) < WindowOf(announced[j])
    BY <1>1 DEF Leading
  <2> QED BY <1>1, <2>2, <2>4, <2>5, <2>7, <2>8 DEF Leading
<1> QED BY <1>1, <1>2, <1>3

LEMMA NextLeading == Leading /\ Timing /\ [Next]_vars => Leading'
<1> SUFFICES ASSUME Leading, Timing, [Next]_vars PROVE Leading'
  OBVIOUS
<1>1. CASE UNCHANGED <<announced, generating, led, dbWindow, window>>
  BY <1>1 DEF Leading, LeadsInOrder
<1>2. CASE Restart
  <2>1. announced' = <<>> /\ generating' = {} /\ led' = led /\ dbWindow' = dbWindow
    BY <1>2 DEF Restart, diskVars
  <2>2. DOMAIN announced' = {}
    BY <2>1, SMTT(20)
  <2>3. LeadsInOrder' /\ led' \in Seq(Nat) /\ \A k \in DOMAIN led' : led'[k] < dbWindow'
    BY <2>1 DEF Leading, LeadsInOrder
  <2> QED BY <2>1, <2>2, <2>3 DEF Leading
<1>3. ASSUME PersistVote \/ Environment \/ Alarm PROVE Leading'
  BY <1>1, <1>3 DEF PersistVote, Environment, Alarm, diskVars, leadVars, timeVars
<1>4. ASSUME NEW s \in Slots,
             \/ StoreCandidate(s) \/ ParentResolved(s) \/ CandidateDropped(s) \/ VoteNotarize(s)
      PROVE  Leading'
  BY <1>1, <1>4 DEF StoreCandidate, ParentResolved, CandidateDropped, VoteNotarize,
     diskVars, leadVars, timeVars
<1>5. ASSUME NEW c \in Candidates,
             CandidateReceived(c) \/ NotarizationObserved(c) \/ FinalizationObserved(c)
      PROVE  Leading'
  BY <1>1, <1>5 DEF CandidateReceived, NotarizationObserved, FinalizationObserved,
     diskVars, leadVars, timeVars
<1>6. CASE UNCHANGED vars
  BY <1>1, <1>6 DEF vars, diskVars, leadVars, timeVars
<1> QED BY <1>2, <1>3, <1>4, <1>5, <1>6, AnnounceLeading, ObserveLeading, StartLeading DEF Next

(* However often the process dies and however long start_generation is suspended, the
   windows led come in order and none of them twice: LeaderWindowObserved is on disk
   before ConsensusImpl handles it, and an overtaken start_generation gives up. *)
THEOREM WindowsLedInOrder == Spec => []LeadsInOrder
<1>1. Init => Leading /\ Timing
  BY InitLeading, InitTiming
<1>2. (Leading /\ Timing) /\ [Next]_vars => (Leading /\ Timing)'
  BY NextLeading, NextTiming
<1>3. Leading => LeadsInOrder
  BY DEF Leading
<1> QED BY <1>1, <1>2, <1>3, PTL DEF Spec

-----------------------------------------------------------------------------
(* What SimplexProtocolProofs proves, for the votes and certificates here. *)
PP == INSTANCE SimplexProtocolProofs

LEMMA SameProtocol == ImplementsProtocol => PP!Spec
<1>1. P!Init => PP!Init
  BY DEF P!Init, PP!Init, P!Honest, PP!Honest
<1>2. P!vars = PP!vars
  BY DEF P!vars, PP!vars
<1>3. P!Next => PP!Next
  <2>1. \A v, c : P!CastNotarize(v, c) => PP!CastNotarize(v, c)
    BY DEF P!CastNotarize, PP!CastNotarize, P!ParentReady, PP!ParentReady,
           P!SlotsAfterParent, PP!SlotsAfterParent, P!certs, PP!certs
  <2>2. \A v, c : P!CastFinalize(v, c) => PP!CastFinalize(v, c)
    BY DEF P!CastFinalize, PP!CastFinalize, P!certs, PP!certs
  <2>3. \A v, s : P!CastSkip(v, s) => PP!CastSkip(v, s)
    BY DEF P!CastSkip, PP!CastSkip, P!certs, PP!certs
  <2>4. P!Quorums = PP!Quorums /\ P!Honest = PP!Honest
    BY DEF P!Quorums, PP!Quorums, P!weight_threshold, PP!weight_threshold,
           P!total_weight, PP!total_weight, P!Honest, PP!Honest
  <2>5. /\ \A c : P!FormNotarCert(c) => PP!FormNotarCert(c)
        /\ \A c : P!FormFinalCert(c) => PP!FormFinalCert(c)
        /\ \A s : P!FormSkipCert(s) => PP!FormSkipCert(s)
    BY <2>4 DEF P!FormNotarCert, PP!FormNotarCert, P!FormFinalCert, PP!FormFinalCert,
           P!FormSkipCert, PP!FormSkipCert, P!CanSign, PP!CanSign, P!votes, PP!votes
  <2> QED BY <2>1, <2>2, <2>3, <2>4, <2>5 DEF P!Next, PP!Next
<1>4. [P!Next]_(P!vars) => [PP!Next]_(PP!vars)
  BY <1>2, <1>3 DEF P!vars, PP!vars
<1> QED BY <1>1, <1>4, PTL DEF ImplementsProtocol, P!Spec, PP!Spec

LEMMA SameConstants == PP!WeightAssumption /\ PP!CandidateAssumption
<1>1. PP!WeightAssumption
  BY WeightAssumption DEF PP!WeightAssumption
<1>2. PP!CandidateAssumption
  BY ConsensusAssumption DEF PP!CandidateAssumption
<1> QED BY <1>1, <1>2

(* The group in which this validator runs the code and the others keep to the
   protocol is safe through all crashes: finalized chains never diverge, no slot
   is both finalized and skipped, and what is certified has its chain below it. *)
THEOREM GroupIsSafe ==
    Spec => [](P!Agreement /\ P!FinalExcludesSkip /\ P!NotarizedChainComplete)
<1>1. PP!Spec => []PP!Agreement
  BY PP!AgreementTheorem, SameConstants, PTL
<1>2. PP!Spec => []PP!FinalExcludesSkip
  BY PP!FinalExcludesSkipTheorem, SameConstants, PTL
<1>3. PP!Spec => []PP!NotarizedChainComplete
  BY PP!ChainCompleteTheorem, SameConstants, PTL
<1>4. PP!Agreement => P!Agreement
  BY DEF P!Agreement, PP!Agreement, P!OnChain, PP!OnChain, P!ParentClosed, PP!ParentClosed
<1>5. PP!FinalExcludesSkip => P!FinalExcludesSkip
  BY DEF P!FinalExcludesSkip, PP!FinalExcludesSkip
<1>6. PP!NotarizedChainComplete => P!NotarizedChainComplete
  BY DEF P!NotarizedChainComplete, PP!NotarizedChainComplete, P!ParentReady, PP!ParentReady,
         P!SlotsAfterParent, PP!SlotsAfterParent
<1> QED BY <1>1, <1>2, <1>3, <1>4, <1>5, <1>6, Refinement, SameProtocol, PTL

(* And its certificates are such as SimplexPool is given. *)
THEOREM PoolsGetConsistent ==
    ASSUME \A s \in Slots : 0..s \subseteq Slots
    PROVE  Spec => []PP!Pool(None)!Consistent(PP!Issued(None))
<1>1. PP!Spec => []PP!Pool(None)!Consistent(PP!Issued(None))
  BY PP!PoolPremise, SameConstants, PTL
<1> QED BY <1>1, Refinement, SameProtocol, PTL
=============================================================================
