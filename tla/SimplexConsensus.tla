-------------------------- MODULE SimplexConsensus --------------------------
(***************************************************************************)
(* One validator's ConsensusImpl (simplex/consensus.cpp) with the Db actor *)
(* in front of its votes (simplex/db.cpp), through crashes and restarts.   *)
(*                                                                         *)
(* ConsensusImpl decides what to vote in memory and publishes the vote; Db *)
(* drops a vote already cast and otherwise writes it durably; only then    *)
(* does Pool sign and send it. Writes are FIFO and a crash loses a suffix, *)
(* so notarize[self], skip[self] and finalize[self] are the votes on disk. *)
(* The other honest validators and the certificates follow                 *)
(* SimplexProtocol. Pool is seen through the events it publishes; clocks   *)
(* are left out: an armed alarm may fire at any moment.                    *)
(***************************************************************************)
EXTENDS SimplexWeights, Sequences, FiniteSets

CONSTANTS
    Slots, Candidates, SlotOf, ParentOf, Genesis,   \* as in SimplexProtocol
    self,          \* the validator modelled in detail
    SelfIdx,       \* bus.local_id.idx
    GroupSize,     \* bus.validator_set.size()
    W,             \* slots_per_leader_window
    MaxDesync,     \* max_leader_window_desync
    MaxRestarts,   \* bound on the crashes of a behaviour
    None

ASSUME ConsensusAssumption ==
    /\ Slots \subseteq Nat
    /\ Genesis \notin Candidates /\ None \notin Candidates
    /\ SlotOf \in [Candidates -> Slots]
    /\ ParentOf \in [Candidates -> Candidates \cup {Genesis}]
    /\ self \in Honest
    /\ W \in Nat \ {0} /\ GroupSize \in Nat \ {0}
    /\ SelfIdx \in 0..(GroupSize - 1)
    /\ MaxDesync \in Nat /\ MaxRestarts \in Nat

VARIABLES
    notarize, skip, finalize, notarCerts, skipCerts, finalCerts,
    stored,            \* candidates CandidateResolver has written to disk
    dbWindow,          \* first_nonannounced_window on disk
    slot,              \* ConsensusImpl::state_, by slot number
    first,             \* state_->first_non_finalized_slot_
    task,              \* where the slot's try_notarize coroutine stands
    timeoutSlot, armed,   \* timeout_slot_; whether alarm_timestamp() is set
    window,            \* current_window_
    published,         \* BroadcastVote requests on their way to disk
    announced,         \* LeaderWindowObserved events Db has let through
    generating,        \* start slots of the start_generation coroutines
    led,               \* windows of the OurLeaderWindowStarted events, of all lives
    restarts

protocolVars == <<notarize, skip, finalize, notarCerts, skipCerts, finalCerts>>
diskVars == <<stored, dbWindow>>
memVars == <<slot, first, task>>
timeVars == <<timeoutSlot, armed, window>>
leadVars == <<announced, generating, led>>
vars == <<protocolVars, diskVars, memVars, timeVars, published, leadVars, restarts>>

P == INSTANCE SimplexProtocol

Notarize(c) == [type |-> "notarize", of |-> c]
Skip(s) == [type |-> "skip", of |-> s]
Finalize(c) == [type |-> "finalize", of |-> c]
Votes == {Notarize(c) : c \in Candidates} \cup {Skip(s) : s \in Slots}
         \cup {Finalize(c) : c \in Candidates}

WindowOf(s) == s \div W
MaybeCandidate == Candidates \cup {None}
SlotState == [pending : MaybeCandidate, voted_notar : MaybeCandidate,
              notar_cert : MaybeCandidate, voted_skip : BOOLEAN, voted_final : BOOLEAN]
EmptySlot == [pending |-> None, voted_notar |-> None, notar_cert |-> None,
              voted_skip |-> FALSE, voted_final |-> FALSE]

TypeOK ==
    /\ P!TypeOK
    /\ stored \subseteq Candidates
    /\ dbWindow \in Nat
    /\ slot \in [Slots -> SlotState]
    /\ first \in Nat
    /\ task \in [Slots -> {"none", "parent", "validate", "ended"}]
    /\ timeoutSlot \in Nat /\ armed \in BOOLEAN /\ window \in Nat
    /\ published \in Seq(Votes)
    /\ announced \in Seq(Slots)
    /\ generating \subseteq Slots
    /\ led \in Seq(Nat)
    /\ restarts \in 0..MaxRestarts

Init ==
    /\ P!Init
    /\ stored = {} /\ dbWindow = 0
    /\ slot = [s \in Slots |-> EmptySlot]
    /\ first = 0
    /\ task = [s \in Slots |-> "none"]
    /\ timeoutSlot = 0 /\ armed = FALSE /\ window = 0
    /\ published = <<>> /\ announced = <<>>
    /\ generating = {}
    /\ led = <<>>
    /\ restarts = 0

-----------------------------------------------------------------------------
(* Db: votes and announced windows on their way to disk. *)

OnDisk(vote) ==
    \/ vote.type = "notarize" /\ vote.of \in notarize[self]
    \/ vote.type = "skip" /\ vote.of \in skip[self]
    \/ vote.type = "finalize" /\ vote.of \in finalize[self]

Cast(vote) == OnDisk(vote) \/ \E i \in DOMAIN published : published[i] = vote

(* BroadcastVote: a vote saved, or being saved, is dropped. *)
New(vote) == IF Cast(vote) THEN <<>> ELSE <<vote>>

(* The enumeration of a finite set of slots in their order. *)
InOrder(S) ==
    {f \in [1..Cardinality(S) -> S] :
        \A i, j \in 1..Cardinality(S) : i < j => f[i] < f[j]}
SkipVotes(f) == [i \in DOMAIN f |-> Skip(f[i])]

(* The oldest write reaches the disk; Pool then signs and sends the vote. *)
PersistVote ==
    /\ published # <<>>
    /\ LET vote == Head(published) IN
          /\ notarize' = IF vote.type = "notarize"
                         THEN [notarize EXCEPT ![self] = @ \cup {vote.of}] ELSE notarize
          /\ skip' = IF vote.type = "skip"
                     THEN [skip EXCEPT ![self] = @ \cup {vote.of}] ELSE skip
          /\ finalize' = IF vote.type = "finalize"
                         THEN [finalize EXCEPT ![self] = @ \cup {vote.of}] ELSE finalize
    /\ published' = Tail(published)
    /\ UNCHANGED <<notarCerts, skipCerts, finalCerts, diskVars, memVars, timeVars,
                   leadVars, restarts>>

Settled(s) ==
    \/ s \in skipCerts
    \/ \E c \in notarCerts : SlotOf[c] = s
    \/ \E c \in finalCerts : SlotOf[c] >= s

(* Pool has every slot below s settled and publishes LeaderWindowObserved; the
   window is on disk before ConsensusImpl is told of it. *)
AnnounceWindow(s) ==
    /\ WindowOf(s) >= dbWindow
    /\ \A t \in Slots : t < s => Settled(t)
    /\ dbWindow' = WindowOf(s) + 1
    /\ announced' = Append(announced, s)
    /\ UNCHANGED <<protocolVars, stored, memVars, timeVars, published, generating,
                   led, restarts>>

-----------------------------------------------------------------------------
(* ConsensusImpl. *)

(* state_->slot_at(s).has_value() *)
Tracked(s) == s >= first

(* Finalizes a slot it has already asked to skip. *)
FinalAfterSkip(st) ==
    /\ ~st.voted_final
    /\ st.voted_notar = st.notar_cert

(* try_vote_final, on the slot's state st. *)
CanVoteFinal(st) ==
    /\ ~st.voted_skip /\ ~st.voted_final
    /\ st.voted_notar = st.notar_cert

SetSlot(s, st) ==
    slot' = [slot EXCEPT ![s] = [st EXCEPT !.voted_final = @ \/ CanVoteFinal(st)]]

FinalVote(st) == IF CanVoteFinal(st) THEN New(Finalize(st.voted_notar)) ELSE <<>>

(* CandidateReceived, up to the first suspension of try_notarize. *)
CandidateReceived(c) ==
    LET s == SlotOf[c] IN
    /\ s < (window + MaxDesync + 1) * W
    /\ Tracked(s)
    /\ slot[s].voted_notar = None
    /\ ParentOf[c] # Genesis => SlotOf[ParentOf[c]] < s
    /\ slot[s].pending = None
    /\ slot' = [slot EXCEPT ![s].pending = c]
    /\ task' = [task EXCEPT ![s] = "parent"]
    /\ UNCHANGED <<protocolVars, diskVars, first, timeVars, published, leadVars, restarts>>

(* StoreCandidate, started by try_notarize, completes on its own. *)
StoreCandidate(s) ==
    /\ slot[s].pending \notin stored \cup {None}
    /\ stored' = stored \cup {slot[s].pending}
    /\ UNCHANGED <<protocolVars, dbWindow, memVars, timeVars, published, leadVars, restarts>>

(* WaitForParent returned without a misbehavior. *)
ParentResolved(s) ==
    /\ task[s] = "parent"
    /\ P!ParentReady(slot[s].pending)
    /\ task' = [task EXCEPT ![s] = "validate"]
    /\ UNCHANGED <<protocolVars, diskVars, slot, first, timeVars, published, leadVars,
                   restarts>>

(* A misbehavior, a failed request or a rejected candidate ends try_notarize. *)
CandidateDropped(s) ==
    /\ task[s] \in {"parent", "validate"}
    /\ task' = [task EXCEPT ![s] = "ended"]
    /\ UNCHANGED <<protocolVars, diskVars, slot, first, timeVars, published, leadVars,
                   restarts>>

(* Votes without waiting for store_candidate. *)
VoteBeforeStored(s) ==
    LET c == slot[s].pending
        st == [slot[s] EXCEPT !.voted_notar = c]
    IN
    /\ task[s] = "validate"
    /\ task' = [task EXCEPT ![s] = "ended"]
    /\ SetSlot(s, st)
    /\ published' = published \o New(Notarize(c)) \o FinalVote(st)
    /\ UNCHANGED <<protocolVars, diskVars, first, timeVars, leadVars, restarts>>

(* try_notarize after ResolveState, the pause before a block, ValidationRequest
   and the wait for store_candidate; the slot may be pruned by now. *)
VoteNotarize(s) ==
    LET c == slot[s].pending
        st == [slot[s] EXCEPT !.voted_notar = c]
    IN
    /\ task[s] = "validate"
    /\ c \in stored
    /\ task' = [task EXCEPT ![s] = "ended"]
    /\ SetSlot(s, st)
    /\ published' = published \o New(Notarize(c)) \o FinalVote(st)
    /\ UNCHANGED <<protocolVars, diskVars, first, timeVars, leadVars, restarts>>

(* Pool publishes the event once for each slot in a life of the process. *)
NotarizationObserved(c) ==
    LET s == SlotOf[c]
        st == [slot[s] EXCEPT !.notar_cert = c]
        moves == timeoutSlot <= s + 1
    IN
    /\ c \in notarCerts
    /\ slot[s].notar_cert = None
    /\ Tracked(s)
    /\ timeoutSlot' = IF ~moves THEN timeoutSlot
                      ELSE IF (s + 1) % W = 0 THEN s + 1 ELSE s + 2
    /\ armed' = (armed \/ moves)
    /\ SetSlot(s, st)
    /\ published' = published \o FinalVote(st)
    /\ UNCHANGED <<protocolVars, diskVars, first, task, window, leadVars, restarts>>

FinalizationObserved(c) ==
    /\ c \in finalCerts
    /\ Tracked(SlotOf[c])
    /\ first' = SlotOf[c] + 1
    /\ UNCHANGED <<protocolVars, diskVars, slot, task, timeVars, published, leadVars,
                   restarts>>

is_expected_collator(s) == WindowOf(s) % GroupSize = SelfIdx

(* Leaves timeout_slot_ to an alarm that is still armed. *)
WindowKeepsTimeout ==
    /\ announced # <<>>
    /\ LET s == Head(announced)
           moves == timeoutSlot <= s /\ ~armed
       IN
          /\ window' = WindowOf(s)
          /\ generating' = IF s % W = 0 /\ is_expected_collator(s)
                           THEN generating \cup {s} ELSE generating
          /\ timeoutSlot' = IF moves THEN s + 1 ELSE timeoutSlot
          /\ armed' = (armed \/ moves)
    /\ announced' = Tail(announced)
    /\ UNCHANGED <<protocolVars, diskVars, memVars, published, led, restarts>>

LeaderWindowObserved ==
    /\ announced # <<>>
    /\ LET s == Head(announced) IN
          /\ window' = WindowOf(s)
          /\ generating' = IF s % W = 0 /\ is_expected_collator(s)
                           THEN generating \cup {s} ELSE generating
          /\ timeoutSlot' = IF timeoutSlot <= s THEN s + 1 ELSE timeoutSlot
          /\ armed' = (armed \/ timeoutSlot <= s)
    /\ announced' = Tail(announced)
    /\ UNCHANGED <<protocolVars, diskVars, memVars, published, led, restarts>>

(* Goes on although a newer window may have started meanwhile. *)
StartGenerationStale(s) ==
    /\ s \in generating
    /\ generating' = generating \ {s}
    /\ led' \in {led, Append(led, WindowOf(s))}
    /\ UNCHANGED <<protocolVars, diskVars, memVars, timeVars, published, announced, restarts>>

(* start_generation after ResolveState, which may have failed. *)
StartGeneration(s) ==
    /\ s \in generating
    /\ generating' = generating \ {s}
    /\ \/ led' = IF window = WindowOf(s) THEN Append(led, window) ELSE led
       \/ led' = led
    /\ UNCHANGED <<protocolVars, diskVars, memVars, timeVars, published, announced, restarts>>

(* Skips the finalized slots too. *)
SkipFinalized(slots, lo, from, to) == {s \in Slots : from <= s /\ s < to /\ s >= lo}

(* Skip votes for the slots from..to-1 that are tracked and not finalized by us. *)
ToSkip(slots, lo, from, to) ==
    {s \in Slots : from <= s /\ s < to /\ s >= lo /\ ~slots[s].voted_final}
MarkSkipped(slots, S) ==
    [s \in Slots |-> [slots[s] EXCEPT !.voted_skip = @ \/ s \in S]]
(* BroadcastVote of the skip votes of S, slot after slot. *)
PublishSkips(S) ==
    \E f \in InOrder({s \in S : ~Cast(Skip(s))}) : published' = published \o SkipVotes(f)

(* Publishes the skip votes and does not record them. *)
AlarmForgets ==
    LET from == timeoutSlot - 1
        to == (from - (from % W)) + W
    IN
    /\ armed
    /\ armed' = FALSE
    /\ PublishSkips(ToSkip(slot, first, from, to))
    /\ timeoutSlot' = to
    /\ UNCHANGED <<protocolVars, diskVars, memVars, window, leadVars, restarts>>

Alarm ==
    LET from == timeoutSlot - 1
        to == (from - (from % W)) + W
        S == ToSkip(slot, first, from, to)
    IN
    /\ armed
    /\ armed' = FALSE
    /\ slot' = MarkSkipped(slot, S)
    /\ PublishSkips(S)
    /\ timeoutSlot' = to
    /\ UNCHANGED <<protocolVars, diskVars, first, task, window, leadVars, restarts>>

(* The replay leaves out the notarization votes. *)
BootstrapForgetsNotar ==
    [s \in Slots |->
        [pending |-> None, notar_cert |-> None, voted_notar |-> None,
         voted_skip |-> s \in skip[self],
         voted_final |-> \E c \in finalize[self] : SlotOf[c] = s]]

(* start_up's replay of our votes on disk. Votes on disk never conflict, so the
   order of the replay, and what it drops as corrupted, make no difference. *)
BootstrapSlots ==
    [s \in Slots |->
        [pending |-> None, notar_cert |-> None,
         voted_notar |-> IF \E c \in notarize[self] : SlotOf[c] = s
                         THEN CHOOSE c \in notarize[self] : SlotOf[c] = s ELSE None,
         voted_skip |-> s \in skip[self],
         voted_final |-> \E c \in finalize[self] : SlotOf[c] = s]]

(* start_up does not skip the last announced window. *)
RestartSilent ==
    /\ restarts < MaxRestarts
    /\ restarts' = restarts + 1
    /\ slot' = BootstrapSlots
    /\ published' = <<>>
    /\ first' = 0
    /\ task' = [s \in Slots |-> "none"]
    /\ timeoutSlot' = 0 /\ armed' = FALSE /\ window' = 0
    /\ announced' = <<>> /\ generating' = {}
    /\ UNCHANGED <<protocolVars, diskVars, led>>

(* The process dies, losing everything not on disk, and start_up runs: the last
   announced window is skipped, as it will not be announced again. *)
Restart ==
    LET to == dbWindow * W
        from == IF dbWindow = 0 THEN 0 ELSE to - W
        S == ToSkip(BootstrapSlots, 0, from, to)
    IN
    /\ restarts < MaxRestarts
    /\ restarts' = restarts + 1
    /\ slot' = MarkSkipped(BootstrapSlots, S)
    /\ \E f \in InOrder({s \in S : ~OnDisk(Skip(s))}) : published' = SkipVotes(f)
    /\ first' = 0
    /\ task' = [s \in Slots |-> "none"]
    /\ timeoutSlot' = 0 /\ armed' = FALSE /\ window' = 0
    /\ announced' = <<>> /\ generating' = {}
    /\ UNCHANGED <<protocolVars, diskVars, led>>

(* The rest of the group, and the certificates. *)
Environment ==
    /\ \/ \E v \in Honest \ {self}, c \in Candidates :
             P!CastNotarize(v, c) \/ P!CastFinalize(v, c)
       \/ \E v \in Honest \ {self}, s \in Slots : P!CastSkip(v, s)
       \/ \E c \in Candidates : P!FormNotarCert(c) \/ P!FormFinalCert(c)
       \/ \E s \in Slots : P!FormSkipCert(s)
    /\ UNCHANGED <<diskVars, memVars, timeVars, published, leadVars, restarts>>

Next ==
    \/ PersistVote \/ LeaderWindowObserved \/ Alarm \/ Restart \/ Environment
    \/ \E s \in Slots :
          \/ AnnounceWindow(s) \/ StartGeneration(s)
          \/ StoreCandidate(s) \/ ParentResolved(s)
          \/ CandidateDropped(s) \/ VoteNotarize(s)
    \/ \E c \in Candidates :
          CandidateReceived(c) \/ NotarizationObserved(c) \/ FinalizationObserved(c)

Spec == Init /\ [][Next]_vars

(* The process keeps running: as long as there are writes to complete, events to
   deliver or an alarm to go off, one of them happens. Nothing is assumed of the
   other validators, of the network or of the candidates. *)
FairSpec == Spec /\ WF_vars(PersistVote \/ LeaderWindowObserved \/ Alarm)

-----------------------------------------------------------------------------
(* What a validator running this code signs, through any crashes and restarts,
   is what SimplexProtocol allows an honest validator: Agreement and the rest
   of its theorems hold of groups of such validators. *)
ImplementsProtocol == P!Spec

(* A notarization vote leaves the validator only once the candidate is on its
   disk: whoever sees the certificate can ask an honest signer for the block
   (try_notarize awaits store_candidate before it votes). *)
NotarizedIsStored == notarize[self] \subseteq stored

(* A slot that can still be voted on remembers in memory every vote on disk or
   on its way there, so no later decision contradicts one of them; after a
   crash this rests on start_up's replay. *)
MemoryCoversVotes ==
    \A s \in {t \in Slots : Tracked(t)} :
        /\ Cast(Skip(s)) => slot[s].voted_skip
        /\ \A c \in Candidates : SlotOf[c] = s =>
              /\ Cast(Notarize(c)) => slot[s].voted_notar = c
              /\ Cast(Finalize(c)) => slot[s].voted_final

(* The windows for which a leader starts producing blocks come in order, none of
   them twice, through any crashes: LeaderWindowObserved is on disk before
   ConsensusImpl handles it, and a start_generation that a newer window overtook
   while it awaited its state gives up. BlockProducer CHECKs the order, and a
   second start would sign other candidates for the same slots. *)
LeadsInOrder == \A i, j \in DOMAIN led : i < j => led[i] < led[j]

(* The unsigned subtractions of alarm (timeout_slot_ - 1) and of
   process_notarization_observed (timeout_slot_ minus the start of the current
   window) never wrap around. *)
TimeoutArithmeticSafe ==
    /\ armed => timeoutSlot > 0
    /\ timeoutSlot >= window * W

(* A slot of a window that was announced does not stay silent, even if the
   process crashes before acting on it: the validator's skip vote reaches the
   disk, unless the slot, or one above it, is certified (alarm and start_up). *)
AnnouncedWindowClosed ==
    \A s \in Slots :
        WindowOf(s) + 1 = dbWindow
            ~> \/ s \in skip[self] \cup skipCerts
               \/ \E c \in notarCerts \cup finalCerts : SlotOf[c] >= s

=============================================================================
