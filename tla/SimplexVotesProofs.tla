------------------------- MODULE SimplexVotesProofs -------------------------
(***************************************************************************)
(* Proofs about SimplexVotes for every group of validators, every weight   *)
(* and every set of candidates.                                            *)
(***************************************************************************)
EXTENDS SimplexVotes, TLAPS

USE ZenonT(20)

(* The validators whose vote the pool has, and those who sent it themselves. *)
Voters(vote) == {v \in Validators : votes[v][vote.type].vote = vote}
Senders(vote) == {v \in Voters(vote) : votes[v][vote.type].proof = "signature"}

(* The ballots hold votes of the right type that were really signed. *)
BallotsSigned ==
    \A v \in Validators, t \in Types :
        votes[v][t] # NoVote => /\ votes[v][t].vote.type = t
                                /\ votes[v][t].vote \in signed[v]

HonestSigned == \A v \in Honest : signed[v] \in HonestVotes

(* The weight counted for a vote is that of the validators who sent it, and stays
   under the threshold as long as the certificate is needed. *)
WeightExact == \A vote \in Votes : weight[vote] = WeightOf[Senders(vote)]
NeedsLight == ~pruned => \A vote \in Votes : Needs(vote) => weight[vote] < weight_threshold

IInv ==
    /\ TypeOK /\ BallotsSigned /\ HonestSigned /\ WeightExact /\ NeedsLight
    /\ CertificatesVerify /\ CertifiedVoteHasCertificate /\ HonestNotReported

-----------------------------------------------------------------------------
LEMMA VoteFacts ==
    /\ \A vote \in Votes : vote.type \in Types /\ vote # None
    /\ NoVote \notin Provens /\ NoVote.vote = None
    /\ NoVote.proof \notin {"signature", "certificate"}
    /\ \A x \in Provens : x.vote \in Votes /\ x.proof \in {"signature", "certificate"}
    /\ \A vote \in Votes : \A p : Proven(vote, p).vote = vote /\ Proven(vote, p).proof = p
<1>1. \A vote \in Votes : vote.type \in Types /\ vote # None
  BY VotesAssumption, SMT DEF Votes, Vote, Types
<1>2. \A vote, p : Proven(vote, p).vote = vote /\ Proven(vote, p).proof = p
  BY DEF Proven
<1>3. NoVote.vote = None /\ NoVote.proof = None
  BY DEF NoVote
<1>4. \A x \in Provens : x.vote \in Votes /\ x.proof \in {"signature", "certificate"}
  BY <1>2, SMT DEF Provens
<1> QED BY <1>1, <1>2, <1>3, <1>4, VotesAssumption

LEMMA WeightFacts ==
    /\ weight_threshold \in Nat /\ weight_threshold > 0
    /\ \A A \in SUBSET Validators : WeightOf[A] \in Nat
    /\ WeightOf[{}] = 0
    /\ \A A, B \in SUBSET Validators : A \subseteq B => WeightOf[A] <= WeightOf[B]
    /\ \A A \in SUBSET Validators : \A v \in Validators \ A :
          WeightOf[A \cup {v}] = WeightOf[A] + WeightOf[{v}]
<1>1. /\ \A A \in SUBSET Validators : WeightOf[A] \in Nat
      /\ WeightOf[{}] = 0
      /\ \A A, B \in SUBSET Validators :
            WeightOf[A \cup B] + WeightOf[A \cap B] = WeightOf[A] + WeightOf[B]
  BY WeightAssumption
<1>2. total_weight \in Nat
  BY <1>1 DEF total_weight
<1>3. weight_threshold \in Nat /\ weight_threshold > 0
  BY <1>2, SMT DEF weight_threshold
<1>4. ASSUME NEW A \in SUBSET Validators, NEW B \in SUBSET Validators, A \subseteq B
      PROVE  WeightOf[A] <= WeightOf[B]
  <2>1. /\ B \ A \in SUBSET Validators
        /\ A \cup (B \ A) = B /\ A \cap (B \ A) = {}
    BY <1>4
  <2>2. WeightOf[B] + WeightOf[{}] = WeightOf[A] + WeightOf[B \ A]
    BY <1>1, <2>1
  <2> QED BY <1>1, <2>1, <2>2, SMT
<1>5. ASSUME NEW A \in SUBSET Validators, NEW v \in Validators \ A
      PROVE  WeightOf[A \cup {v}] = WeightOf[A] + WeightOf[{v}]
  <2>1. /\ {v} \in SUBSET Validators /\ A \cup {v} \in SUBSET Validators
        /\ A \cap {v} = {}
    OBVIOUS
  <2>2. WeightOf[A \cup {v}] + WeightOf[{}] = WeightOf[A] + WeightOf[{v}]
    BY <1>1, <2>1
  <2> QED BY <1>1, <2>1, <2>2, SMT
<1> QED BY <1>1, <1>3, <1>4, <1>5

(* What add_vote leaves. *)
LEMMA AddVote ==
    ASSUME NEW ballot \in Ballots, NEW vote \in Votes, NEW p \in {"signature", "certificate"}
    PROVE  LET r == add_vote(ballot, vote, p) IN
           /\ r.ballot \in Ballots /\ r.applied \in BOOLEAN /\ r.misbehavior \in BOOLEAN
           /\ r.applied => /\ ballot[vote.type] = NoVote
                           /\ r.ballot = [ballot EXCEPT ![vote.type] = Proven(vote, p)]
           /\ ~r.applied => r.ballot = ballot
<1>1. vote.type \in Types /\ Proven(vote, p) \in Provens
  BY VoteFacts, SMT DEF Provens
<1>2. (ballot[vote.type].vote # vote) \in BOOLEAN
  OBVIOUS
<1> QED BY <1>1, <1>2 DEF add_vote, Ballots

(* Honest validators never contradict themselves in a slot. *)
LEMMA HonestBallot ==
    ASSUME NEW B \in HonestVotes, NEW x \in B, NEW y \in B
    PROVE  /\ x.type = y.type => x = y
           /\ x.type = "notarize" /\ y.type = "finalize" => x.id = y.id
           /\ ~(x.type = "finalize" /\ y.type = "skip")
BY SMT DEF HonestVotes, Vote

LEMMA HonestAccepted ==
    ASSUME TypeOK, BallotsSigned, HonestSigned,
           NEW v \in Honest, NEW vote \in signed[v], NEW p \in {"signature", "certificate"}
    PROVE  ~add_vote(votes[v], vote, p).misbehavior
<1> DEFINE ballot == votes[v]
           new == [ballot EXCEPT ![vote.type] = Proven(vote, p)]
<1>1. v \in Validators /\ vote \in Votes /\ signed[v] \in HonestVotes
  BY DEF TypeOK, Honest, HonestSigned
<1>2. ballot \in Ballots /\ vote.type \in Types
  BY <1>1, VoteFacts DEF TypeOK
<1>3. ballot[vote.type] # NoVote => ballot[vote.type].vote = vote
  BY <1>1, <1>2, HonestBallot DEF BallotsSigned
<1>4. \A t \in Types : new[t] # NoVote => new[t].vote.type = t /\ new[t].vote \in signed[v]
  BY <1>1, <1>2, VoteFacts, SMT DEF BallotsSigned, Ballots
<1>5. ~Contradicts(new)
  <2>1. {"notarize", "skip", "finalize"} \subseteq Types
    BY DEF Types
  <2> HIDE DEF new
  <2> QED BY <1>1, <1>4, <2>1, HonestBallot, SMT DEF Contradicts
<1> QED BY <1>3, <1>5 DEF add_vote

LEMMA InitIInv == Init => IInv
<1> SUFFICES ASSUME Init PROVE IInv
  OBVIOUS
<1>1. \A v \in Validators, t \in Types : votes[v][t] = NoVote
  BY DEF Init
<1>2. \A vote \in Votes : Senders(vote) = {}
  BY <1>1, VoteFacts, SMT DEF Senders, Voters
<1>3. TypeOK
  <2>1. [v \in Validators |-> [t \in Types |-> NoVote]] \in [Validators -> Ballots]
    BY DEF Ballots
  <2> QED BY <2>1 DEF Init, TypeOK
<1>4. WeightExact /\ NeedsLight
  BY <1>2, WeightFacts DEF Init, WeightExact, NeedsLight
<1>5. BallotsSigned /\ HonestSigned /\ CertificatesVerify /\ CertifiedVoteHasCertificate
      /\ HonestNotReported
  BY <1>1, VoteFacts DEF Init, BallotsSigned, HonestSigned, CertificatesVerify,
     CertifiedVoteHasCertificate, HonestNotReported, NoVote
<1> QED BY <1>3, <1>4, <1>5 DEF IInv

-----------------------------------------------------------------------------
LEMMA HandleVoteIInv ==
    ASSUME IInv, NEW v \in Validators, NEW vote \in Votes, HandleVote(v, vote)
    PROVE  IInv'
<1> DEFINE r == add_vote(votes[v], vote, "signature")
<1>0. /\ TypeOK /\ BallotsSigned /\ HonestSigned /\ WeightExact /\ NeedsLight
      /\ CertificatesVerify /\ CertifiedVoteHasCertificate /\ HonestNotReported
  BY DEF IInv
<1>1. /\ votes \in [Validators -> Ballots] /\ vote.type \in Types
      /\ weight \in [Votes -> Nat]
  BY <1>0, VoteFacts DEF TypeOK
<1>2. /\ r.ballot \in Ballots /\ r.applied \in BOOLEAN /\ r.misbehavior \in BOOLEAN
      /\ r.applied => /\ votes[v][vote.type] = NoVote
                      /\ r.ballot = [votes[v] EXCEPT ![vote.type] = Proven(vote, "signature")]
      /\ ~r.applied => r.ballot = votes[v]
  BY <1>1, AddVote
<1>3. /\ ~pruned /\ vote \in signed[v] /\ votes[v][vote.type] = NoVote
      /\ votes' = [votes EXCEPT ![v] = r.ballot]
      /\ reported' = IF r.misbehavior THEN reported \cup {v} ELSE reported
      /\ weight' = IF r.applied
                   THEN [weight EXCEPT ![vote] = @ + WeightOf[{v}]] ELSE weight
      /\ saving' = IF r.applied /\ Needs(vote) /\ weight'[vote] >= weight_threshold
                   THEN saving \cup {create_cert(votes', vote)} ELSE saving
      /\ signed' = signed /\ stored' = stored /\ pruned' = pruned
  BY DEF HandleVote
<1>4. v \in Honest => ~r.misbehavior
  BY <1>0, <1>3, HonestAccepted
<1> HIDE DEF r
<1>5. votes' \in [Validators -> Ballots] /\ weight' \in [Votes -> Nat]
  <2>1. WeightOf[{v}] \in Nat
    BY WeightFacts
  <2> QED BY <1>1, <1>2, <1>3, <2>1, SMT
<1>6. \A w \in Validators, t \in Types :
         \/ votes'[w][t] = votes[w][t]
         \/ /\ r.applied /\ w = v /\ t = vote.type
            /\ votes'[w][t] = Proven(vote, "signature")
  BY <1>1, <1>2, <1>3 DEF Ballots
<1>7. BallotsSigned'
  BY <1>0, <1>3, <1>6, VoteFacts, SMT DEF BallotsSigned
<1>8. HonestSigned'
  BY <1>0, <1>3 DEF HonestSigned
<1>9. ASSUME r.applied
      PROVE  /\ v \notin Senders(vote) /\ Senders(vote)' = Senders(vote) \cup {v}
             /\ \A x \in Votes \ {vote} : Senders(x)' = Senders(x)
  <2>1. /\ votes'[v][vote.type] = Proven(vote, "signature") /\ votes[v][vote.type] = NoVote
        /\ \A w \in Validators, t \in Types :
              ~(w = v /\ t = vote.type) => votes'[w][t] = votes[w][t]
    BY <1>1, <1>2, <1>3, <1>9 DEF Ballots
  <2>2. \A x \in Votes : x.type \in Types
    BY VoteFacts
  <2> QED BY <1>1, <2>1, <2>2, VoteFacts, SMT DEF Senders, Voters
<1>10. ASSUME ~r.applied PROVE \A x \in Votes : Senders(x)' = Senders(x)
  <2>1. votes' = votes
    BY <1>1, <1>2, <1>3, <1>10
  <2> QED BY <2>1 DEF Senders, Voters
<1>11. WeightExact'
  <2>1. CASE r.applied
    <3>1. Senders(vote) \in SUBSET Validators
      BY DEF Senders, Voters
    <3>2. WeightOf[Senders(vote)'] = weight[vote] + WeightOf[{v}]
      BY <1>0, <1>9, <2>1, <3>1, WeightFacts DEF WeightExact
    <3> QED BY <1>0, <1>1, <1>3, <1>9, <2>1, <3>2 DEF WeightExact
  <2>2. CASE ~r.applied
    BY <1>0, <1>3, <1>10, <2>2 DEF WeightExact
  <2> QED BY <1>2, <2>1, <2>2
<1>12. ASSUME r.applied, Needs(vote), weight'[vote] >= weight_threshold
       PROVE  LET x == create_cert(votes', vote) IN
              /\ x.vote = vote /\ x.signers \subseteq Signers(vote)
              /\ x \in Certificates /\ WeightOf[x.signers] >= weight_threshold
  <2> DEFINE x == create_cert(votes', vote)
  <2>1. x.vote = vote /\ x.signers = Voters(vote)' /\ x \in Certificates
    BY DEF create_cert, Voters, Certificates
  <2>2. x.signers \subseteq Signers(vote)
    <3>1. ASSUME NEW w \in Voters(vote)' PROVE vote \in signed[w]
      <4>1. /\ w \in Validators /\ votes'[w][vote.type].vote = vote
            /\ votes'[w][vote.type] # NoVote
        BY <3>1, VoteFacts DEF Voters
      <4> QED BY <1>1, <1>3, <1>7, <4>1, SMT DEF BallotsSigned
    <3> QED BY <2>1, <3>1 DEF Voters, Signers
  <2>3. /\ Senders(vote)' \in SUBSET Validators /\ Voters(vote)' \in SUBSET Validators
        /\ Senders(vote)' \subseteq Voters(vote)'
    BY DEF Senders, Voters
  <2>4. /\ WeightOf[Senders(vote)'] >= weight_threshold
        /\ WeightOf[Senders(vote)'] <= WeightOf[Voters(vote)']
    BY <1>11, <1>12, <2>3, WeightFacts DEF WeightExact
  <2>5. WeightOf[x.signers] >= weight_threshold
    BY <2>1, <2>3, <2>4, WeightFacts, SMT
  <2> QED BY <2>1, <2>2, <2>5
<1>13. saving \subseteq saving' /\ \A x \in Votes : Needs(x)' => Needs(x)
  BY <1>3 DEF Needs
<1>14. CertificatesVerify'
  BY <1>0, <1>3, <1>12 DEF CertificatesVerify, Signers
<1>15. NeedsLight'
  <2> SUFFICES ASSUME NEW x \in Votes, Needs(x)' PROVE weight'[x] < weight_threshold
    BY DEF NeedsLight
  <2>1. Needs(x) /\ weight[x] < weight_threshold
    BY <1>0, <1>3, <1>13 DEF NeedsLight
  <2>2. CASE r.applied /\ x = vote
    <3>1. ~(weight'[vote] >= weight_threshold)
      <4>1. SUFFICES ASSUME weight'[vote] >= weight_threshold PROVE FALSE
        OBVIOUS
      <4>2. create_cert(votes', vote) \in saving' /\ create_cert(votes', vote).vote = vote
        BY <1>3, <1>12, <2>1, <2>2, <4>1
      <4> QED BY <2>2, <4>2 DEF Needs
    <3> QED BY <1>5, <2>2, <3>1, WeightFacts, SMT
  <2>3. CASE ~(r.applied /\ x = vote)
    BY <1>1, <1>3, <2>1, <2>3
  <2> QED BY <2>2, <2>3
<1>16. CertifiedVoteHasCertificate'
  BY <1>0, <1>3, <1>6, VoteFacts, SMT DEF CertifiedVoteHasCertificate
<1>17. HonestNotReported'
  BY <1>0, <1>3, <1>4 DEF HonestNotReported, Honest
<1>18. TypeOK'
  BY <1>0, <1>3, <1>5, <1>12 DEF TypeOK
<1> QED BY <1>7, <1>8, <1>11, <1>14, <1>15, <1>16, <1>17, <1>18 DEF IInv

LEMMA HandleCertificateIInv ==
    ASSUME IInv, NEW vote \in Votes, NEW Q \in Quorums, HandleCertificate(vote, Q)
    PROVE  IInv'
<1> DEFINE x == [vote |-> vote, signers |-> Q]
<1>0. /\ TypeOK /\ BallotsSigned /\ HonestSigned /\ WeightExact /\ NeedsLight
      /\ CertificatesVerify /\ CertifiedVoteHasCertificate /\ HonestNotReported
  BY DEF IInv
<1>1. /\ saving' = saving \cup {x} /\ Q \subseteq Signers(vote)
      /\ UNCHANGED <<signed, votes, weight, stored, reported, pruned>>
  BY DEF HandleCertificate
<1>2. /\ Q \in SUBSET Validators /\ WeightOf[Q] >= weight_threshold
      /\ x \in Certificates /\ x.vote = vote /\ x.signers = Q
  BY DEF Quorums, Certificates
<1> HIDE DEF x
<1>3. TypeOK'
  BY <1>0, <1>1, <1>2 DEF TypeOK
<1>4. CertificatesVerify'
  BY <1>0, <1>1, <1>2 DEF CertificatesVerify, Signers
<1>5. WeightExact' /\ NeedsLight'
  BY <1>0, <1>1 DEF WeightExact, NeedsLight, Needs, Senders, Voters
<1>6. BallotsSigned' /\ HonestSigned' /\ CertifiedVoteHasCertificate' /\ HonestNotReported'
  BY <1>0, <1>1 DEF BallotsSigned, HonestSigned, CertifiedVoteHasCertificate, HonestNotReported
<1> QED BY <1>3, <1>4, <1>5, <1>6 DEF IInv

LEMMA CertificateSavedIInv ==
    ASSUME IInv, NEW x \in saving, CertificateSaved(x)
    PROVE  IInv'
<1> DEFINE r(v) == add_vote(votes[v], x.vote, "certificate")
<1>0. /\ TypeOK /\ BallotsSigned /\ HonestSigned /\ WeightExact /\ NeedsLight
      /\ CertificatesVerify /\ CertifiedVoteHasCertificate /\ HonestNotReported
  BY DEF IInv
<1>1. /\ x \in Certificates /\ x.vote \in Votes /\ x.signers \subseteq Validators
      /\ x.vote.type \in Types /\ x.signers \subseteq Signers(x.vote)
  BY <1>0, VoteFacts DEF TypeOK, Certificates, CertificatesVerify
<1>2. saving' = saving \ {x} /\ signed' = signed /\ weight' = weight
  BY DEF CertificateSaved
<1>3. CASE pruned /\ UNCHANGED <<votes, stored, reported, pruned>>
  BY <1>0, <1>2, <1>3 DEF IInv, TypeOK, BallotsSigned, HonestSigned, WeightExact, NeedsLight,
     CertificatesVerify, CertifiedVoteHasCertificate, HonestNotReported, Senders, Voters, Signers
<1>4. CASE ~pruned /\ ~(pruned /\ UNCHANGED <<votes, stored, reported, pruned>>)
  <2>1. /\ votes' = [v \in Validators |->
                        IF v \in x.signers THEN r(v).ballot ELSE votes[v]]
        /\ reported' = reported \cup {v \in x.signers : r(v).misbehavior}
        /\ stored' = stored \cup {x}
        /\ pruned' = (x.vote.type = "finalize")
    BY <1>4 DEF CertificateSaved
  <2>2. \A v \in Validators :
           /\ votes[v] \in Ballots /\ r(v).ballot \in Ballots
           /\ \/ /\ votes[v][x.vote.type] = NoVote
                 /\ r(v).ballot = [votes[v] EXCEPT ![x.vote.type]
                                                = Proven(x.vote, "certificate")]
              \/ r(v).ballot = votes[v]
    BY <1>0, <1>1, AddVote DEF TypeOK
  <2>3. \A v \in Honest : v \in x.signers => ~r(v).misbehavior
    BY <1>0, <1>1, HonestAccepted DEF Signers
  <2> HIDE DEF r
  <2>4. votes' \in [Validators -> Ballots]
    BY <2>1, <2>2
  <2>5. \A v \in Validators, t \in Types :
           \/ votes'[v][t] = votes[v][t]
           \/ /\ v \in x.signers /\ t = x.vote.type /\ votes[v][t] = NoVote
              /\ votes'[v][t] = Proven(x.vote, "certificate")
    BY <1>1, <2>1, <2>2 DEF Ballots
  <2>6. TypeOK'
    BY <1>0, <1>1, <1>2, <2>1, <2>4 DEF TypeOK
  <2>7. BallotsSigned'
    BY <1>0, <1>1, <1>2, <2>5, VoteFacts, SMT DEF BallotsSigned, Signers
  <2>8. HonestSigned'
    BY <1>0, <1>2 DEF HonestSigned
  <2>9. WeightExact'
    <3>1. ASSUME NEW y \in Votes PROVE Senders(y)' = Senders(y)
      <4>1. y.type \in Types
        BY VoteFacts
      <4>2. /\ NoVote.proof # "signature"
            /\ Proven(x.vote, "certificate").proof # "signature"
        BY <1>1, VoteFacts
      <4>3. \A v \in Validators :
               /\ votes'[v][y.type].proof = "signature" => votes'[v][y.type] = votes[v][y.type]
               /\ votes[v][y.type].proof = "signature" => votes'[v][y.type] = votes[v][y.type]
        BY <2>5, <4>1, <4>2
      <4> QED BY <4>3 DEF Senders, Voters
    <3> QED BY <1>0, <1>2, <3>1 DEF WeightExact
  <2>10. NeedsLight'
    <3>1. \A y \in Votes : Needs(y)' => Needs(y)
      BY <1>2, <2>1 DEF Needs
    <3> QED BY <1>0, <1>2, <1>4, <3>1 DEF NeedsLight
  <2>11. CertificatesVerify'
    BY <1>0, <1>2, <2>1 DEF CertificatesVerify, Signers
  <2>12. CertifiedVoteHasCertificate'
    BY <1>0, <1>1, <1>4, <2>1, <2>5, VoteFacts, SMT DEF CertifiedVoteHasCertificate
  <2>13. HonestNotReported'
    BY <1>0, <1>1, <2>1, <2>3 DEF HonestNotReported, Honest
  <2> QED BY <2>6, <2>7, <2>8, <2>9, <2>10, <2>11, <2>12, <2>13 DEF IInv
<1> QED BY <1>3, <1>4 DEF CertificateSaved

LEMMA NextIInv == IInv /\ [Next]_vars => IInv'
<1> SUFFICES ASSUME IInv, [Next]_vars PROVE IInv'
  OBVIOUS
<1>1. CASE Prune
  <2>1. UNCHANGED <<signed, votes, weight, saving, stored, reported>> /\ pruned' = TRUE
    BY <1>1 DEF Prune
  <2>2. (TypeOK /\ BallotsSigned /\ HonestSigned /\ HonestNotReported)'
    BY <2>1 DEF IInv, TypeOK, BallotsSigned, HonestSigned, HonestNotReported
  <2>3. (WeightExact /\ NeedsLight /\ CertificatesVerify /\ CertifiedVoteHasCertificate)'
    BY <2>1 DEF IInv, WeightExact, NeedsLight, CertificatesVerify,
                CertifiedVoteHasCertificate, Senders, Voters, Signers
  <2> QED BY <2>2, <2>3 DEF IInv
<1>2. CASE UNCHANGED vars
  <2>1. (TypeOK /\ BallotsSigned /\ HonestSigned /\ HonestNotReported)'
    BY <1>2 DEF vars, IInv, TypeOK, BallotsSigned, HonestSigned, HonestNotReported
  <2>2. (WeightExact /\ NeedsLight)'
    BY <1>2 DEF vars, IInv, WeightExact, NeedsLight, Needs, Senders, Voters
  <2>3. (CertificatesVerify /\ CertifiedVoteHasCertificate)'
    BY <1>2 DEF vars, IInv, CertificatesVerify, CertifiedVoteHasCertificate, Signers
  <2> QED BY <2>1, <2>2, <2>3 DEF IInv
<1> QED BY <1>1, <1>2, HandleVoteIInv, HandleCertificateIInv, CertificateSavedIInv DEF Next

LEMMA Invariance == Spec => []IInv
BY InitIInv, NextIInv, PTL DEF Spec

-----------------------------------------------------------------------------
(* Every certificate that handle_typed_vote assembles, or handle_certificate takes,
   would be accepted by every other validator. *)
THEOREM CertificatesAlwaysVerify == Spec => []CertificatesVerify
<1>1. IInv => CertificatesVerify
  BY DEF IInv
<1> QED BY <1>1, Invariance, PTL

(* as_signed_vote's CHECK (pool.cpp:33) cannot fail. *)
THEOREM CertifiedVotesHaveCertificates == Spec => []CertifiedVoteHasCertificate
<1>1. IInv => CertifiedVoteHasCertificate
  BY DEF IInv
<1> QED BY <1>1, Invariance, PTL

(* Tsentrizbirkom reports no validator that follows the protocol. *)
THEOREM HonestNeverReported == Spec => []HonestNotReported
<1>1. IInv => HonestNotReported
  BY DEF IInv
<1> QED BY <1>1, Invariance, PTL

(* No crossing of the threshold is missed: as long as no certificate of a type is
   there, every vote of the type came with its signature and was counted. *)
THEOREM QuorumsAreCertified == Spec => []QuorumIsCertified
<1>1. IInv => QuorumIsCertified
  <2> SUFFICES ASSUME IInv, ~pruned, NEW vote \in Votes, Needs(vote)
               PROVE  ~(WeightOf[Voters(vote)] >= weight_threshold)
    BY DEF QuorumIsCertified, Voters
  <2>1. vote.type \in Types /\ vote # None /\ votes \in [Validators -> Ballots]
    BY VoteFacts DEF IInv, TypeOK
  <2>2. ASSUME NEW v \in Voters(vote) PROVE votes[v][vote.type].proof = "signature"
    <3>1. v \in Validators /\ votes[v][vote.type].vote = vote
      BY DEF Voters
    <3>2. votes[v][vote.type] \in Provens
      BY <2>1, <3>1, VoteFacts, SMT DEF Ballots
    <3>3. votes[v][vote.type].proof # "certificate"
      <4>1. ~ \E x \in stored : x.vote = vote
        BY DEF Needs
      <4> QED BY <2>1, <3>1, <4>1, SMT DEF IInv, CertifiedVoteHasCertificate
    <3> QED BY <3>2, <3>3, VoteFacts
  <2>3. Voters(vote) = Senders(vote)
    BY <2>2 DEF Senders
  <2>4. weight[vote] = WeightOf[Voters(vote)] /\ weight[vote] < weight_threshold
    BY <2>3 DEF IInv, WeightExact, NeedsLight
  <2> QED BY <2>4, WeightFacts, SMT DEF Voters
<1> QED BY <1>1, Invariance, PTL

LEMMA HonestInBoth ==
    ASSUME NEW Q \in SUBSET Validators, NEW R \in SUBSET Validators,
           WeightOf[Q] >= weight_threshold, WeightOf[R] >= weight_threshold
    PROVE  \E v \in Honest : v \in Q /\ v \in R
<1>1. /\ Q \cap R \in SUBSET Validators /\ Q \cup R \in SUBSET Validators
      /\ Byzantine \in SUBSET Validators /\ Validators \in SUBSET Validators
      /\ WeightOf[Q \cup R] + WeightOf[Q \cap R] = WeightOf[Q] + WeightOf[R]
      /\ 3 * WeightOf[Byzantine] < WeightOf[Validators]
  BY WeightAssumption
<1>2. PICK q, r, i, u, b, n \in Nat :
         /\ q = WeightOf[Q] /\ r = WeightOf[R] /\ i = WeightOf[Q \cap R]
         /\ u = WeightOf[Q \cup R] /\ b = WeightOf[Byzantine] /\ n = WeightOf[Validators]
  BY <1>1, WeightFacts
<1>3. u + i = q + r /\ 3 * b < n /\ u <= n
  BY <1>1, <1>2, WeightFacts
<1>4. q >= (n * 2) \div 3 + 1 /\ r >= (n * 2) \div 3 + 1
  BY <1>2 DEF weight_threshold, total_weight
<1>5. ~(i <= b)
  BY <1>3, <1>4, SMT
<1>6. ~(Q \cap R \subseteq Byzantine)
  BY <1>1, <1>2, <1>5, WeightFacts
<1> QED BY <1>1, <1>6 DEF Honest

(* Two certificates of the slot never contradict each other. *)
SlotCertsAgree ==
    \A x, y \in saving \cup stored :
        /\ x.vote.type = y.vote.type => x.vote = y.vote
        /\ x.vote.type = "notarize" /\ y.vote.type = "finalize" => x.vote.id = y.vote.id
        /\ ~(x.vote.type = "finalize" /\ y.vote.type = "skip")

(* Whether they are assembled here or come from peers, the certificates that reach
   handle_typed_saved_certificate pass its CHECKs (pool.cpp:925, 926), and of each
   type only one vote of the slot is ever certified. *)
THEOREM CertificatesAgree == Spec => []SlotCertsAgree
<1>1. IInv => SlotCertsAgree
  <2> SUFFICES ASSUME IInv, NEW x \in saving \cup stored, NEW y \in saving \cup stored
               PROVE  /\ x.vote.type = y.vote.type => x.vote = y.vote
                      /\ x.vote.type = "notarize" /\ y.vote.type = "finalize" =>
                            x.vote.id = y.vote.id
                      /\ ~(x.vote.type = "finalize" /\ y.vote.type = "skip")
    BY DEF SlotCertsAgree
  <2>1. /\ WeightOf[x.signers] >= weight_threshold /\ x.signers \subseteq Signers(x.vote)
        /\ WeightOf[y.signers] >= weight_threshold /\ y.signers \subseteq Signers(y.vote)
    BY DEF IInv, CertificatesVerify
  <2>2. x.signers \in SUBSET Validators /\ y.signers \in SUBSET Validators
    BY <2>1 DEF Signers
  <2>3. PICK v \in Honest : v \in x.signers /\ v \in y.signers
    BY <2>1, <2>2, HonestInBoth
  <2>4. x.vote \in signed[v] /\ y.vote \in signed[v] /\ signed[v] \in HonestVotes
    BY <2>1, <2>3 DEF Signers, IInv, HonestSigned
  <2> QED BY <2>4, HonestBallot
<1> QED BY <1>1, Invariance, PTL

(* The books of Tsentrizbirkom keep their type: a ballot has a vote of each type
   at most, a weight is a natural number. *)
THEOREM Typing == Spec => []TypeOK
<1>1. IInv => TypeOK
  BY DEF IInv
<1> QED BY <1>1, Invariance, PTL
=============================================================================
