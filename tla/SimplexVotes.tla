---------------------------- MODULE SimplexVotes ----------------------------
(***************************************************************************)
(* From votes to certificates in PoolImpl (simplex/pool.cpp), for one      *)
(* slot: Tsentrizbirkom keeps the votes of each validator and refuses the  *)
(* ones that contradict it, the weights of the votes are summed, and a     *)
(* certificate is assembled at the threshold, or taken from a peer, and    *)
(* saved; meanwhile votes and certificates keep arriving, and the slot may *)
(* be finalized and dropped. What happens to a saved certificate is in     *)
(* SimplexPool.                                                            *)
(*                                                                         *)
(* signed is what each validator signs in the whole run: for an honest     *)
(* one, votes SimplexProtocol allows; for a Byzantine one, every vote.     *)
(***************************************************************************)
EXTENDS SimplexWeights

CONSTANTS
    Blocks,   \* ids of the candidates of the slot
    None

VARIABLES
    signed,
    votes,      \* SlotState::votes, a Tsentrizbirkom for each validator
    weight,     \* notarize_weight, skip_weight and finalize_weight
    saving,     \* certificates handle_prospective_certificate awaits
    stored,     \* certificates in SlotState::certs
    reported,   \* validators a MisbehaviorReport was published for
    pruned      \* the slot was finalized and dropped

vars == <<signed, votes, weight, saving, stored, reported, pruned>>

Types == {"notarize", "skip", "finalize"}
Vote(t, b) == [type |-> t, id |-> b]
Votes == {Vote(t, b) : t \in {"notarize", "finalize"}, b \in Blocks} \cup {Vote("skip", None)}
ASSUME VotesAssumption ==
    /\ None \notin Blocks /\ None \notin Votes
    /\ None \notin {"signature", "certificate"}

Certificates == [vote : Votes, signers : SUBSET Validators]

(* Proven: a vote with the signature, or the certificate, it was taken from. *)
NoVote == [vote |-> None, proof |-> None]
Proven(vote, proof) == [vote |-> vote, proof |-> proof]

Provens == {Proven(vote, p) : vote \in Votes, p \in {"signature", "certificate"}}
Ballots == [Types -> {NoVote} \cup Provens]

Signers(vote) == {v \in Validators : vote \in signed[v]}

(* The votes an honest validator may cast in a slot. *)
HonestVotes ==
    LET ballots == {{}} \cup {{Vote("notarize", b)} : b \in Blocks} IN
    ballots \cup {B \cup {Vote("skip", None)} : B \in ballots}
    \cup {{Vote("notarize", b), Vote("finalize", b)} : b \in Blocks}

TypeOK ==
    /\ signed \in [Validators -> SUBSET Votes]
    /\ votes \in [Validators -> Ballots]
    /\ weight \in [Votes -> Nat]
    /\ saving \subseteq Certificates /\ stored \subseteq Certificates
    /\ reported \subseteq Validators
    /\ pruned \in BOOLEAN

Init ==
    /\ signed \in [Validators -> SUBSET Votes]
    /\ \A v \in Honest : signed[v] \in HonestVotes
    /\ \A v \in Byzantine : signed[v] = Votes
    /\ \A v \in Honest, b \in Blocks : Vote("finalize", b) \in signed[v] =>
          Signers(Vote("notarize", b)) \in Quorums
    /\ votes = [v \in Validators |-> [t \in Types |-> NoVote]]
    /\ weight = [vote \in Votes |-> 0]
    /\ saving = {} /\ stored = {}
    /\ reported = {}
    /\ pruned = FALSE

-----------------------------------------------------------------------------
(* Takes a skip vote to contradict a notarization vote. *)
ContradictsNotarize(ballot) ==
    NoVote \notin {ballot["skip"], ballot["notarize"]}

(* Tsentrizbirkom::check_invariants *)
Contradicts(ballot) ==
    \/ /\ NoVote \notin {ballot["notarize"], ballot["finalize"]}
       /\ ballot["notarize"].vote.id # ballot["finalize"].vote.id
    \/ NoVote \notin {ballot["finalize"], ballot["skip"]}

(* Tsentrizbirkom::add_vote: the ballot it leaves, and whether the vote was
   applied or exposed the validator. *)
add_vote(ballot, vote, proof) ==
    LET t == vote.type
        new == [ballot EXCEPT ![t] = Proven(vote, proof)]
    IN
    IF ballot[t] # NoVote
    THEN [ballot |-> ballot, applied |-> FALSE, misbehavior |-> ballot[t].vote # vote]
    ELSE IF Contradicts(new)
    THEN [ballot |-> ballot, applied |-> FALSE, misbehavior |-> TRUE]
    ELSE [ballot |-> new, applied |-> TRUE, misbehavior |-> FALSE]

(* certs.needs(vote): neither stored nor being saved *)
Needs(vote) == \A x \in saving \cup stored : x.vote.type # vote.type

(* Collects the signatures of every vote of the type. *)
create_cert_of_type(ballots, vote) ==
    [vote |-> vote, signers |-> {v \in Validators : ballots[v][vote.type] # NoVote}]

(* create_cert: every signature the slot has for the vote. *)
create_cert(ballots, vote) ==
    [vote |-> vote,
     signers |-> {v \in Validators : ballots[v][vote.type].vote = vote}]

(* Waits for more than the threshold. *)
HandleVoteAbove(v, vote) ==
    LET result == add_vote(votes[v], vote, "signature") IN
    /\ ~pruned
    /\ vote \in signed[v]
    /\ votes[v][vote.type] = NoVote
    /\ votes' = [votes EXCEPT ![v] = result.ballot]
    /\ reported' = IF result.misbehavior THEN reported \cup {v} ELSE reported
    /\ weight' = IF result.applied
                 THEN [weight EXCEPT ![vote] = @ + WeightOf[{v}]] ELSE weight
    /\ saving' = IF result.applied /\ Needs(vote) /\ weight'[vote] > weight_threshold
                 THEN saving \cup {create_cert(votes', vote)} ELSE saving
    /\ UNCHANGED <<signed, stored, pruned>>

(* handle_vote and handle_typed_vote, for our own vote or one that arrives;
   an arriving vote of a type the validator has already cast is ignored
   (wants), as is our own vote when a certificate brought it first. *)
HandleVote(v, vote) ==
    LET result == add_vote(votes[v], vote, "signature") IN
    /\ ~pruned
    /\ vote \in signed[v]
    /\ votes[v][vote.type] = NoVote
    /\ votes' = [votes EXCEPT ![v] = result.ballot]
    /\ reported' = IF result.misbehavior THEN reported \cup {v} ELSE reported
    /\ weight' = IF result.applied
                 THEN [weight EXCEPT ![vote] = @ + WeightOf[{v}]] ELSE weight
    /\ saving' = IF result.applied /\ Needs(vote) /\ weight'[vote] >= weight_threshold
                 THEN saving \cup {create_cert(votes', vote)} ELSE saving
    /\ UNCHANGED <<signed, stored, pruned>>

(* Records the signers' votes before the certificate is saved. *)
HandleCertificateEarly(vote, Q) ==
    /\ ~pruned
    /\ Q \in Quorums /\ Q \subseteq Signers(vote)
    /\ Needs(vote)
    /\ votes' = [v \in Validators |->
                    IF v \in Q THEN add_vote(votes[v], vote, "certificate").ballot ELSE votes[v]]
    /\ saving' = saving \cup {[vote |-> vote, signers |-> Q]}
    /\ UNCHANGED <<signed, weight, stored, reported, pruned>>

(* A certificate of a peer, whose signatures and weight from_tl has verified. *)
HandleCertificate(vote, Q) ==
    /\ ~pruned
    /\ Q \in Quorums /\ Q \subseteq Signers(vote)
    /\ Needs(vote)
    /\ saving' = saving \cup {[vote |-> vote, signers |-> Q]}
    /\ UNCHANGED <<signed, votes, weight, stored, reported, pruned>>

(* handle_prospective_certificate after SaveCertificate: the signers' votes are
   recorded with the certificate as their proof, and it is stored. *)
CertificateSaved(x) ==
    LET result(v) == add_vote(votes[v], x.vote, "certificate") IN
    /\ x \in saving
    /\ saving' = saving \ {x}
    /\ \/ pruned /\ UNCHANGED <<votes, stored, reported, pruned>>
       \/ /\ ~pruned
          /\ votes' = [v \in Validators |->
                          IF v \in x.signers THEN result(v).ballot ELSE votes[v]]
          /\ reported' = reported \cup {v \in x.signers : result(v).misbehavior}
          /\ stored' = stored \cup {x}
          /\ pruned' = (x.vote.type = "finalize")
    /\ UNCHANGED <<signed, weight>>

(* A later slot is finalized. *)
Prune ==
    /\ ~pruned
    /\ pruned' = TRUE
    /\ UNCHANGED <<signed, votes, weight, saving, stored, reported>>

Next ==
    \/ \E v \in Validators, vote \in Votes : HandleVote(v, vote)
    \/ \E vote \in Votes, Q \in Quorums : HandleCertificate(vote, Q)
    \/ \E x \in saving : CertificateSaved(x)
    \/ Prune

Spec == Init /\ [][Next]_vars

-----------------------------------------------------------------------------
(* A certificate the pool saves and broadcasts, its own or a peer's, carries
   signatures worth the threshold, all of them cast: every other validator's
   from_tl accepts it. *)
CertificatesVerify ==
    \A x \in saving \cup stored :
        /\ WeightOf[x.signers] >= weight_threshold
        /\ x.signers \subseteq Signers(x.vote)

(* A quorum of votes never sits in the pool without a certificate, being saved
   or stored: no crossing of the threshold is missed because votes also come
   in through certificates, which add no weight. *)
QuorumIsCertified ==
    ~pruned => \A vote \in Votes :
        LET voters == {v \in Validators : votes[v][vote.type].vote = vote} IN
        WeightOf[voters] >= weight_threshold => ~Needs(vote)

(* A vote known through a certificate only is never needed as a signed vote:
   its certificate is stored, so as_signed_vote's CHECK (pool.cpp:33) holds in
   create_cert and in the standstill broadcast. *)
CertifiedVoteHasCertificate ==
    ~pruned => \A v \in Validators, t \in Types :
        votes[v][t].proof = "certificate" => \E x \in stored : x.vote = votes[v][t].vote

(* No order of arrival makes the pool report a validator that follows the
   protocol, nor abort over its own votes (LOG_CHECK at pool.cpp:661). *)
HonestNotReported == reported \subseteq Byzantine

=============================================================================
