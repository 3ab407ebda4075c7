---------------------------- MODULE SimplexPool ----------------------------
(***************************************************************************)
(* The bookkeeping of PoolImpl (simplex/pool.cpp): the certificates of one *)
(* validator, from their arrival to the disk and back after a restart, and *)
(* what the pool derives from them: the present slot now_, the base each   *)
(* slot can build on, the runs of skipped slots, the leader windows it     *)
(* announces and the answers to WaitForParent.                             *)
(*                                                                         *)
(* issued is the set of certificates that will ever exist. It is chosen    *)
(* freely among those SimplexProtocol allows (PoolPremise) and delivered   *)
(* in any order. How votes become certificates is in SimplexVotes.         *)
(***************************************************************************)
EXTENDS SimplexCertificates, Sequences

CONSTANTS
    N,             \* slots 0..N-1 have certificates; slot N is their future
    Received,      \* candidates that reach this validator
    W,             \* slots_per_leader_window
    MaxRestarts    \* bound on the crashes of a behaviour

ASSUME PoolAssumption ==
    /\ N \in Nat /\ W \in Nat \ {0} /\ MaxRestarts \in Nat
    /\ SlotOf \in [Candidates -> 0..(N - 1)]
    /\ ParentOf \in [Candidates -> Candidates \cup {Genesis}]
    /\ Received \subseteq Candidates
    /\ Genesis \notin Candidates /\ None \notin Candidates \cup {Genesis}

VARIABLES
    issued,
    disk, dbWindow,    \* certificates and first_nonannounced_window on disk
    stored,            \* certificates in the slots state_ tracks
    saving,            \* certificates handle_prospective_certificate awaits
    loading,           \* bootstrap certificates start_up has still to handle
    base,              \* available_base of each slot
    skip_intervals,    \* skip_intervals_
    now, first,        \* now_, first_nonfinalized_slot_
    lastFinal,         \* last_finalized_block_
    started,           \* is_started_
    nonannounced,      \* first_nonannounced_window_
    announced,         \* LeaderWindowObserved events on their way to disk
    answer,            \* of the WaitForParent request for each candidate
    restarts

diskVars == <<issued, disk, dbWindow>>
slotVars == <<stored, base, skip_intervals, now, first, lastFinal>>
vars == <<diskVars, slotVars, saving, loading, started, nonannounced, announced,
          answer, restarts>>

Slots == 0..(N - 1)
Certs == {Notar(c) : c \in Candidates} \cup {Skip(s) : s \in Slots}
         \cup {Final(c) : c \in Candidates}

TypeOK ==
    /\ issued \in SUBSET Certs /\ disk \subseteq issued
    /\ stored \subseteq disk /\ loading \subseteq disk /\ saving \subseteq issued
    /\ base \in [0..N -> Candidates \cup {Genesis, None}]
    /\ skip_intervals \subseteq 1..N
    /\ now \in 0..N /\ first \in 0..N
    /\ lastFinal \in Candidates \cup {Genesis}
    /\ started \in BOOLEAN
    /\ dbWindow \in Nat /\ nonannounced \in Nat
    /\ announced \in Seq([slot : 0..N, base : Candidates \cup {Genesis, None}])
    /\ answer \in [Candidates -> {"none", "waiting", "ok", "misbehavior", "error"}]
    /\ restarts \in 0..MaxRestarts

(* start_up before the bootstrap certificates, with the disk as it is. *)
FreshMemory ==
    /\ stored' = {} /\ saving' = {}
    /\ base' = [s \in 0..N |-> IF s = 0 THEN Genesis ELSE None]
    /\ skip_intervals' = {}
    /\ now' = 0 /\ first' = 0 /\ lastFinal' = Genesis
    /\ started' = FALSE
    /\ announced' = <<>>
    /\ answer' = [c \in Candidates |-> "none"]

Init ==
    /\ issued \in {S \in SUBSET Certs : Consistent(S)}
    /\ disk = {} /\ dbWindow = 0
    /\ stored = {} /\ saving = {} /\ loading = {}
    /\ base = [s \in 0..N |-> IF s = 0 THEN Genesis ELSE None]
    /\ skip_intervals = {}
    /\ now = 0 /\ first = 0 /\ lastFinal = Genesis
    /\ started = FALSE
    /\ nonannounced = 0 /\ announced = <<>>
    /\ answer = [c \in Candidates |-> "none"]
    /\ restarts = 0

-----------------------------------------------------------------------------
(* state_->slot_at(s).has_value() *)
Tracked(s) == s >= first

Skipped(S, s) == \E x \in S : x.type = "skip" /\ x.slot = s
Notarized(S, s) == \E x \in S : x.type = "notar" /\ x.slot = s

(* *skip_intervals_.lower_bound(s) *)
EndOfRun(intervals, s) ==
    CHOOSE e \in intervals : e >= s /\ \A d \in intervals : d >= s => e <= d

next_nonskipped_slot_after(S, s) ==
    IF Skipped(S, s + 1) THEN EndOfRun(skip_intervals, s + 1) ELSE s + 1

(* Takes the latest base offered, whatever its slot. *)
TakeLatestBase(bases, s, p) == IF p # None THEN [bases EXCEPT ![s] = p] ELSE bases

(* add_available_base: the base from the highest slot wins. *)
add_available_base(bases, s, p) ==
    IF p # None /\ (bases[s] = None \/ NextAfter(p) >= NextAfter(bases[s]))
    THEN [bases EXCEPT ![s] = p] ELSE bases

(* advance_present from slot n: the certificates are S, the bases bases. *)
advance_present(isStarted, S, bases, n) ==
    LET present == CHOOSE m \in n..N : /\ ~Notarized(S, m) /\ ~Skipped(S, m)
                                      /\ \A t \in n..(m - 1) : Notarized(S, t) \/ Skipped(S, t)
        announces == nonannounced <= present \div W
    IN
    IF ~isStarted THEN now' = n /\ UNCHANGED <<nonannounced, announced>>
    ELSE /\ now' = present
         /\ nonannounced' = IF announces THEN present \div W + 1 ELSE nonannounced
         /\ announced' = IF announces
                         THEN Append(announced, [slot |-> present, base |-> bases[present]])
                         ELSE announced

-----------------------------------------------------------------------------
(* maybe_resolve_request. *)

Pruned(c) == SlotOf[c] < first

(* Treats building on the last finalized block as a conflict. *)
ConflictsTooEarly(c) ==
    LET n == NextAfter(ParentOf[c]) IN
    \/ n <= first /\ first > 0
    \/ \E x \in stored : x.type # "skip" /\ x.slot = SlotOf[c] /\ x.id # c
    \/ n > first /\ \E x \in stored : x.type = "notar" /\ x.slot = n - 1 /\ x.id # ParentOf[c]

ConflictsWithCertificate(c) ==
    LET n == NextAfter(ParentOf[c]) IN
    \/ n < first
    \/ \E x \in stored : x.type # "skip" /\ x.slot = SlotOf[c] /\ x.id # c
    \/ n = first /\ lastFinal # ParentOf[c]
    \/ n > first /\ \E x \in stored : x.type = "notar" /\ x.slot = n - 1 /\ x.id # ParentOf[c]

(* One skipped slot short. *)
ParentKnownEarly(c) ==
    LET n == NextAfter(ParentOf[c]) IN
    /\ n = first \/ Notarized(stored, n - 1)
    /\ \/ n = SlotOf[c]
       \/ Skipped(stored, n) /\ EndOfRun(skip_intervals, n) + 1 >= SlotOf[c]

ParentKnown(c) ==
    LET n == NextAfter(ParentOf[c]) IN
    /\ n = first \/ Notarized(stored, n - 1)
    /\ \/ n = SlotOf[c]
       \/ Skipped(stored, n) /\ EndOfRun(skip_intervals, n) >= SlotOf[c]

Answer(c) ==
    IF Pruned(c) THEN "error"
    ELSE IF ConflictsWithCertificate(c) THEN "misbehavior"
    ELSE IF ParentKnown(c) THEN "ok" ELSE "waiting"

(* maybe_resolve_requests, in the state the handler leaves behind. *)
ResolveRequests ==
    answer' = [c \in Candidates |-> IF answer[c] = "waiting" THEN Answer(c)' ELSE answer[c]]

WaitForParent(c) ==
    /\ loading = {}
    /\ answer[c] = "none"
    /\ NextAfter(ParentOf[c]) <= SlotOf[c]
    /\ answer' = [answer EXCEPT ![c] = Answer(c)]
    /\ UNCHANGED <<diskVars, slotVars, saving, loading, started, nonannounced, announced,
                   restarts>>

-----------------------------------------------------------------------------
(* handle_saved_certificate, one action for each type of certificate. *)

NotarSaved(x) ==
    LET S == stored \cup {x}
        bases == add_available_base(base, next_nonskipped_slot_after(S, x.slot), x.id)
    IN
    /\ stored' = S
    /\ base' = bases
    /\ advance_present(started, S, bases, now)
    /\ UNCHANGED <<skip_intervals, first, lastFinal>>

(* Leaves the end of the run the skipped slot extends. *)
SkipKeepsOldEnd(x) ==
    LET S == stored \cup {x}
        next == next_nonskipped_slot_after(S, x.slot)
        bases == add_available_base(base, next, base[x.slot])
    IN
    /\ stored' = S
    /\ skip_intervals' = skip_intervals \cup (IF next = x.slot + 1 THEN {next} ELSE {})
    /\ base' = bases
    /\ advance_present(started, S, bases, now)
    /\ UNCHANGED <<first, lastFinal>>

SkipSaved(x) ==
    LET S == stored \cup {x}
        next == next_nonskipped_slot_after(S, x.slot)
        bases == add_available_base(base, next, base[x.slot])
    IN
    /\ stored' = S
    /\ skip_intervals' = (skip_intervals \ {x.slot})
                         \cup (IF next = x.slot + 1 THEN {next} ELSE {})
    /\ base' = bases
    /\ advance_present(started, S, bases, now)
    /\ UNCHANGED <<first, lastFinal>>

(* Relies on the notarization certificate to provide the base. *)
FinalWithoutBase(x) ==
    LET S == stored \cup {x} IN
    /\ lastFinal' = x.id
    /\ first' = x.slot + 1
    /\ IF now <= x.slot THEN advance_present(started, S, base, x.slot + 1)
                        ELSE UNCHANGED <<now, nonannounced, announced>>
    /\ skip_intervals' = {e \in skip_intervals : e > x.slot}
    /\ stored' = {y \in S : y.slot > x.slot}
    /\ base' = [s \in 0..N |-> IF s > x.slot THEN base[s] ELSE None]

FinalSaved(x) ==
    LET S == stored \cup {x}
        bases == IF Notarized(S, x.slot) THEN base
                 ELSE add_available_base(base, next_nonskipped_slot_after(S, x.slot), x.id)
    IN
    /\ lastFinal' = x.id
    /\ first' = x.slot + 1
    /\ IF now <= x.slot THEN advance_present(started, S, bases, x.slot + 1)
                        ELSE UNCHANGED <<now, nonannounced, announced>>
    /\ skip_intervals' = {e \in skip_intervals : e > x.slot}
    /\ stored' = {y \in S : y.slot > x.slot}
    /\ base' = [s \in 0..N |-> IF s > x.slot THEN bases[s] ELSE None]

HandleSaved(x) ==
    /\ \/ x.type = "notar" /\ NotarSaved(x)
       \/ x.type = "skip" /\ SkipSaved(x)
       \/ x.type = "final" /\ FinalSaved(x)
    /\ ResolveRequests

(* certs.needs(vote) *)
Needs(x) == \A y \in stored \cup saving : <<y.type, y.slot>> # <<x.type, x.slot>>

(* handle_certificate: a certificate received, or assembled from votes. *)
HandleCertificate(x) ==
    /\ loading = {}
    /\ Tracked(x.slot)
    /\ Needs(x)
    /\ saving' = saving \cup {x}
    /\ UNCHANGED <<diskVars, slotVars, loading, started, nonannounced, announced, answer,
                   restarts>>

(* handle_prospective_certificate after SaveCertificate: the slot may have been
   finalized in the meantime. *)
CertificateSaved(x) ==
    /\ x \in saving
    /\ saving' = saving \ {x}
    /\ disk' = disk \cup {x}
    /\ \/ /\ Tracked(x.slot)
          /\ HandleSaved(x)
       \/ /\ ~Tracked(x.slot)
          /\ UNCHANGED <<slotVars, nonannounced, announced, answer>>
    /\ UNCHANGED <<issued, dbWindow, loading, started, restarts>>

(* start_up handles the certificates on disk in the order of their hashes. *)
BootstrapCertificate(x) ==
    /\ x \in loading
    /\ loading' = loading \ {x}
    /\ \/ /\ Tracked(x.slot)
          /\ HandleSaved(x)
       \/ /\ ~Tracked(x.slot)
          /\ UNCHANGED <<slotVars, nonannounced, announced, answer>>
    /\ UNCHANGED <<diskVars, saving, started, restarts>>

(* The Start event; advance_present runs with is_started_ set. *)
Start ==
    /\ loading = {} /\ ~started
    /\ started' = TRUE
    /\ advance_present(TRUE, stored, base, now)
    /\ UNCHANGED <<diskVars, stored, base, skip_intervals, first, lastFinal, saving,
                   loading, answer, restarts>>

(* Db writes first_nonannounced_window, then ConsensusImpl sees the event. *)
WindowSaved ==
    /\ announced # <<>>
    /\ dbWindow' = Head(announced).slot \div W + 1
    /\ announced' = Tail(announced)
    /\ UNCHANGED <<issued, disk, slotVars, saving, loading, started, nonannounced, answer,
                   restarts>>

(* Forgets which windows were announced. *)
RestartReannounces ==
    /\ restarts < MaxRestarts
    /\ restarts' = restarts + 1
    /\ FreshMemory
    /\ loading' = disk
    /\ nonannounced' = 0
    /\ UNCHANGED diskVars

Restart ==
    /\ restarts < MaxRestarts
    /\ restarts' = restarts + 1
    /\ FreshMemory
    /\ loading' = disk
    /\ nonannounced' = dbWindow
    /\ UNCHANGED diskVars

Next ==
    \/ \E x \in issued :
          HandleCertificate(x) \/ CertificateSaved(x) \/ BootstrapCertificate(x)
    \/ \E c \in Received : WaitForParent(c)
    \/ Start \/ WindowSaved \/ Restart

Spec == Init /\ [][Next]_vars

-----------------------------------------------------------------------------
(* skip_intervals_ holds exactly the slots that end a run of skipped slots,
   whatever the order in which certificates arrive, slots are finalized and the
   disk is replayed: lower_bound, dereferenced unchecked in
   next_nonskipped_slot_after and maybe_resolve_request, finds the right end. *)
SkipIntervalsExact ==
    skip_intervals = {e \in 1..N : Skipped(stored, e - 1) /\ ~Skipped(stored, e)}

(* The blocks slot s can build on: certified, and everything in between skipped. *)
BasesFor(s) ==
    LET certified == {x.id : x \in {y \in stored : y.type = "notar"}} \cup {lastFinal} IN
    {p \in certified : /\ first <= NextAfter(p) /\ NextAfter(p) <= s
                       /\ \A t \in NextAfter(p)..(s - 1) : Skipped(stored, t)}

(* available_base, kept up to date one certificate at a time, is the highest
   block a slot can build on (of any slot that is not itself skipped). *)
BaseIsBest ==
    \A s \in {t \in 0..N : Tracked(t) /\ ~Skipped(stored, t)} :
        IF BasesFor(s) = {} THEN base[s] = None
        ELSE /\ base[s] \in BasesFor(s)
             /\ \A p \in BasesFor(s) : NextAfter(p) <= NextAfter(base[s])

(* A leader is told to build on a block that every validator will accept as a
   parent: it has a base (CHECK at pool.cpp:747), certified, with certificates
   for every skipped slot on disk. *)
AnnouncedBaseValid ==
    \A i \in DOMAIN announced :
        LET p == announced[i].base IN
        /\ p # None
        /\ p = Genesis \/ {Notar(p), Final(p)} \cap disk # {}
        /\ NextAfter(p) <= announced[i].slot
        /\ \A t \in NextAfter(p)..(announced[i].slot - 1) : Skip(t) \in disk

(* Windows are announced in increasing order and none twice, restarts included
   (CHECK at db.cpp:99). *)
AnnouncementsIncrease ==
    \A i \in DOMAIN announced :
        /\ dbWindow <= announced[i].slot \div W
        /\ \A j \in 1..(i - 1) : announced[j].slot \div W < announced[i].slot \div W

(* WaitForParent answers when, and only when, the certificates the pool has
   prove that the candidate may be notarized; no request is forgotten by the
   handler that should have resolved it. *)
ParentAnswerExact ==
    \A c \in Candidates :
        /\ answer[c] = "ok" => ReadyIn(disk, c)
        /\ answer[c] = "waiting" => ~ReadyIn(stored \cup {Final(d) : d \in {lastFinal} \ {Genesis}}, c)

(* A leader is reported for a candidate only if the candidate can never be
   notarized in this group or another one of its slot is. *)
MisbehaviorJustified ==
    \A c \in Candidates : answer[c] = "misbehavior" =>
        \/ ~ReadyIn(issued, c)
        \/ \E d \in Candidates \ {c} : SlotOf[d] = SlotOf[c] /\ Notar(d) \in issued

=============================================================================
