-------------------------- MODULE SimplexProtocol --------------------------
(***************************************************************************)
(* What the validators of one Simplex group promise each other.            *)
(*                                                                         *)
(* The state is what the honest validators have signed and the             *)
(* certificates assembled so far; it is the specification that             *)
(* SimplexConsensus (one validator in detail) is shown to implement.       *)
(* Byzantine validators sign whatever they like at any time, so their      *)
(* votes are not state: a certificate can be assembled as soon as the      *)
(* honest members of some quorum have cast the vote.                       *)
(*                                                                         *)
(* A candidate id commits to its slot and to its parent (id = slot and     *)
(* hash of data that contains the parent id), so both are functions of it. *)
(***************************************************************************)
EXTENDS SimplexWeights

CONSTANTS
    Slots,        \* slot numbers of the instance
    Candidates,   \* candidate ids
    SlotOf,       \* CandidateId::slot
    ParentOf,     \* Candidate::parent_id, Genesis when it is nullopt
    Genesis

ASSUME CandidateAssumption ==
    /\ Slots \subseteq Nat
    /\ Genesis \notin Candidates
    /\ SlotOf \in [Candidates -> Slots]
    /\ ParentOf \in [Candidates -> Candidates \cup {Genesis}]

VARIABLES
    notarize, skip, finalize,           \* votes of each honest validator
    notarCerts, skipCerts, finalCerts   \* certificates assembled so far

votes == <<notarize, skip, finalize>>
certs == <<notarCerts, skipCerts, finalCerts>>
vars == <<notarize, skip, finalize, notarCerts, skipCerts, finalCerts>>

TypeOK ==
    /\ notarize \in [Honest -> SUBSET Candidates]
    /\ skip \in [Honest -> SUBSET Slots]
    /\ finalize \in [Honest -> SUBSET Candidates]
    /\ notarCerts \subseteq Candidates
    /\ skipCerts \subseteq Slots
    /\ finalCerts \subseteq Candidates

Init ==
    /\ notarize = [v \in Honest |-> {}]
    /\ skip = [v \in Honest |-> {}]
    /\ finalize = [v \in Honest |-> {}]
    /\ notarCerts = {}
    /\ skipCerts = {}
    /\ finalCerts = {}

-----------------------------------------------------------------------------
(* Slots strictly between the candidate's parent and the candidate. *)
SlotsAfterParent(c) ==
    {s \in Slots : /\ s < SlotOf[c]
                   /\ ParentOf[c] = Genesis \/ SlotOf[ParentOf[c]] < s}

(* Ignores the slots between the parent and c. *)
ParentCertifiedOnly(c) ==
    ParentOf[c] # Genesis =>
        /\ SlotOf[ParentOf[c]] < SlotOf[c]
        /\ ParentOf[c] \in notarCerts \cup finalCerts

(* The parent precedes c, is certified, and every slot passed over is skipped. *)
ParentReady(c) ==
    /\ ParentOf[c] # Genesis =>
          /\ SlotOf[ParentOf[c]] < SlotOf[c]
          /\ ParentOf[c] \in notarCerts \cup finalCerts
    /\ SlotsAfterParent(c) \subseteq skipCerts

(* Votes for the parent's id. *)
CastNotarizeParent(v, c) ==
    /\ \A d \in notarize[v] : SlotOf[d] # SlotOf[c]
    /\ ParentReady(c)
    /\ notarize' = [notarize EXCEPT ![v] = @ \cup {ParentOf[c]}]
    /\ UNCHANGED <<skip, finalize, certs>>

(* Votes before the parent is known to be certified. *)
CastNotarizeEarly(v, c) ==
    /\ \A d \in notarize[v] : SlotOf[d] # SlotOf[c]
    /\ notarize' = [notarize EXCEPT ![v] = @ \cup {c}]
    /\ UNCHANGED <<skip, finalize, certs>>

(* An honest validator notarizes at most one candidate of a slot. *)
CastNotarize(v, c) ==
    /\ \A d \in notarize[v] : SlotOf[d] # SlotOf[c]
    /\ ParentReady(c)
    /\ notarize' = [notarize EXCEPT ![v] = @ \cup {c}]
    /\ UNCHANGED <<skip, finalize, certs>>

(* Refuses to skip a slot it notarized. *)
CastSkipUnvoted(v, s) ==
    /\ s \notin skip[v]
    /\ \A d \in notarize[v] \cup finalize[v] : SlotOf[d] # s
    /\ skip' = [skip EXCEPT ![v] = @ \cup {s}]
    /\ UNCHANGED <<notarize, finalize, certs>>

(* It may skip a slot whose candidate it notarized, not one it finalized. *)
CastSkip(v, s) ==
    /\ s \notin skip[v]
    /\ \A d \in finalize[v] : SlotOf[d] # s
    /\ skip' = [skip EXCEPT ![v] = @ \cup {s}]
    /\ UNCHANGED <<notarize, finalize, certs>>

(* It finalizes what it notarized, once certified and unless it skipped. *)
CastFinalize(v, c) ==
    /\ c \in notarize[v] \ finalize[v]
    /\ c \in notarCerts
    /\ SlotOf[c] \notin skip[v]
    /\ finalize' = [finalize EXCEPT ![v] = @ \cup {c}]
    /\ UNCHANGED <<notarize, skip, certs>>

(* Q can sign x when its honest members voted x; Byzantine ones always sign. *)
CanSign(Q, vote, x) == \A v \in Q \cap Honest : x \in vote[v]

FormNotarCert(c) ==
    /\ c \notin notarCerts
    /\ \E Q \in Quorums : CanSign(Q, notarize, c)
    /\ notarCerts' = notarCerts \cup {c}
    /\ UNCHANGED <<votes, skipCerts, finalCerts>>

FormSkipCert(s) ==
    /\ s \notin skipCerts
    /\ \E Q \in Quorums : CanSign(Q, skip, s)
    /\ skipCerts' = skipCerts \cup {s}
    /\ UNCHANGED <<votes, notarCerts, finalCerts>>

FormFinalCert(c) ==
    /\ c \notin finalCerts
    /\ \E Q \in Quorums : CanSign(Q, finalize, c)
    /\ finalCerts' = finalCerts \cup {c}
    /\ UNCHANGED <<votes, notarCerts, skipCerts>>

Next ==
    \/ \E v \in Honest, c \in Candidates : CastNotarize(v, c) \/ CastFinalize(v, c)
    \/ \E v \in Honest, s \in Slots : CastSkip(v, s)
    \/ \E c \in Candidates : FormNotarCert(c) \/ FormFinalCert(c)
    \/ \E s \in Slots : FormSkipCert(s)

Spec == Init /\ [][Next]_vars

-----------------------------------------------------------------------------
(* Safety. *)

(* c is d or one of its ancestors: no parent-closed set has d and not c. *)
ParentClosed(S) == \A x \in S : ParentOf[x] # Genesis => ParentOf[x] \in S
OnChain(c, d) == \A S \in SUBSET Candidates : ParentClosed(S) /\ d \in S => c \in S

(* A finalized slot is never skipped: the CHECK at pool.cpp:925 cannot fail
   whichever valid certificates a validator is given. *)
FinalExcludesSkip == \A c \in finalCerts : SlotOf[c] \notin skipCerts

(* Every candidate certified at or above a finalized one descends from it, so
   no two validators finalize different chains, and the one notarized in a
   finalized slot is the finalized one (CHECK at pool.cpp:926). *)
Agreement ==
    \A c \in finalCerts, d \in notarCerts \cup finalCerts :
        SlotOf[d] >= SlotOf[c] => OnChain(c, d)

(* A notarized candidate rests on a certified parent with only skipped slots in
   between: the chain below it is complete, which is what lets a validator that
   receives its certificate alone rebuild the chain (state-resolver.cpp). *)
NotarizedChainComplete == \A c \in notarCerts \cup finalCerts : ParentReady(c)

(* The parts of the inductive invariant. *)
OneNotarizePerSlot ==
    \A v \in Honest : \A c, d \in notarize[v] : SlotOf[c] = SlotOf[d] => c = d

FinalizeVotesJustified ==
    \A v \in Honest : \A c \in finalize[v] :
        c \in notarize[v] /\ c \in notarCerts /\ SlotOf[c] \notin skip[v]

NotarizeVotesReady == \A v \in Honest : \A c \in notarize[v] : ParentReady(c)

CertsSigned ==
    /\ \A c \in notarCerts : \E Q \in Quorums : CanSign(Q, notarize, c)
    /\ \A s \in skipCerts : \E Q \in Quorums : CanSign(Q, skip, s)
    /\ \A c \in finalCerts : \E Q \in Quorums : CanSign(Q, finalize, c)

IInv ==
    /\ TypeOK
    /\ OneNotarizePerSlot
    /\ FinalizeVotesJustified
    /\ NotarizeVotesReady
    /\ CertsSigned

-----------------------------------------------------------------------------
(* Progress. *)

Notarized(s) == \E c \in notarCerts : SlotOf[c] = s

(* The alarm: once the slots before it are settled, so that its window is
   announced, a validator skips a slot not seen notarized in time. *)
SlotTimeout(v, s) ==
    /\ \A t \in Slots : t < s => Notarized(t) \/ t \in skipCerts
    /\ ~Notarized(s)
    /\ CastSkip(v, s)

(* A certificate the honest validators can assemble on their own. *)
HonestSkipCert(s) ==
    /\ \E Q \in Quorums : Q \subseteq Honest /\ CanSign(Q, skip, s)
    /\ FormSkipCert(s)

Fairness ==
    /\ \A v \in Honest, s \in Slots : WF_vars(SlotTimeout(v, s))
    /\ \A s \in Slots : WF_vars(HonestSkipCert(s))

FairSpec == Spec /\ Fairness

(* Every slot is eventually notarized or skipped, with the Byzantine validators
   silent or not: the votes of a slot can never be split for good (an honest
   validator that refuses to skip has finalized, so the slot is notarized). *)
SlotsSettle == \A s \in Slots : <>(Notarized(s) \/ s \in skipCerts)

=============================================================================
