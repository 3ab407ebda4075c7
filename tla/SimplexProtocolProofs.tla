----------------------- MODULE SimplexProtocolProofs -----------------------
(***************************************************************************)
(* Safety of SimplexProtocol for every validator set, weight assignment,   *)
(* candidate tree and number of slots.                                     *)
(***************************************************************************)
EXTENDS SimplexProtocol, WellFoundedInduction, TLAPS

USE ZenonT(20)

(* Two sets that reach weight_threshold_ (pool.cpp:324, certificate.cpp:39)
   share an honest validator. *)
LEMMA QuorumIntersection ==
    ASSUME NEW Q1 \in Quorums, NEW Q2 \in Quorums
    PROVE  \E v \in Honest : v \in Q1 /\ v \in Q2
<1> DEFINE T == WeightOf[Validators]
           I == Q1 \cap Q2
           U == Q1 \cup Q2
<1>1. /\ Q1 \in SUBSET Validators /\ Q2 \in SUBSET Validators
      /\ I \in SUBSET Validators /\ U \in SUBSET Validators
      /\ Byzantine \in SUBSET Validators /\ {} \in SUBSET Validators
      /\ Validators \in SUBSET Validators
  BY WeightAssumption DEF Quorums
<1>2. /\ WeightOf[Q1] \in Nat /\ WeightOf[Q2] \in Nat /\ WeightOf[I] \in Nat
      /\ WeightOf[U] \in Nat /\ WeightOf[Byzantine] \in Nat /\ T \in Nat
  BY <1>1, WeightAssumption
<1>3. WeightOf[U] + WeightOf[I] = WeightOf[Q1] + WeightOf[Q2]
  BY <1>1, WeightAssumption
<1>4. ASSUME NEW A \in SUBSET Validators, NEW B \in SUBSET Validators, A \subseteq B
      PROVE  WeightOf[A] <= WeightOf[B]
  <2> DEFINE R == B \ A
  <2>1. R \in SUBSET Validators /\ A \cup R = B /\ A \cap R = {}
    BY <1>4
  <2>2. WeightOf[A \cup R] + WeightOf[A \cap R] = WeightOf[A] + WeightOf[R]
    BY <2>1, WeightAssumption
  <2>3. WeightOf[A] \in Nat /\ WeightOf[B] \in Nat /\ WeightOf[R] \in Nat
    BY <2>1, WeightAssumption
  <2>4. WeightOf[A \cup R] = WeightOf[B] /\ WeightOf[A \cap R] = 0
    BY <2>1, WeightAssumption
  <2> HIDE DEF R
  <2> QED BY <2>2, <2>3, <2>4, SMT
<1>5. WeightOf[U] <= T
  BY <1>1, <1>4
<1>6. WeightOf[Q1] >= (T * 2) \div 3 + 1 /\ WeightOf[Q2] >= (T * 2) \div 3 + 1
  BY DEF Quorums, weight_threshold, total_weight
<1>7. 3 * WeightOf[Byzantine] < T
  BY WeightAssumption
<1>8. ~(WeightOf[I] <= WeightOf[Byzantine])
  <2> HIDE DEF T, I, U
  <2>1. 3 * ((T * 2) \div 3 + 1) > T * 2
    BY <1>2, SMT
  <2>2. (T * 2) \div 3 \in Nat
    BY <1>2, SMT
  <2> QED BY <1>2, <1>3, <1>5, <1>6, <1>7, <2>1, <2>2, SMT
<1>9. ~(I \subseteq Byzantine)
  BY <1>1, <1>4, <1>8
<1> QED BY <1>1, <1>9 DEF Honest

(* The type invariant: votes and certificates only ever name candidates and
   slots of the instance. *)
THEOREM Typing == Spec => []TypeOK
<1>1. Init => TypeOK
  BY DEF Init, TypeOK
<1>2. TypeOK /\ [Next]_vars => TypeOK'
  <2> SUFFICES ASSUME TypeOK, [Next]_vars PROVE TypeOK'
    OBVIOUS
  <2> USE DEF TypeOK, votes, certs
  <2>1. ASSUME NEW v \in Honest, NEW c \in Candidates, CastNotarize(v, c)
        PROVE  TypeOK'
    BY <2>1 DEF CastNotarize
  <2>2. ASSUME NEW v \in Honest, NEW c \in Candidates, CastFinalize(v, c)
        PROVE  TypeOK'
    BY <2>2 DEF CastFinalize
  <2>3. ASSUME NEW v \in Honest, NEW s \in Slots, CastSkip(v, s)
        PROVE  TypeOK'
    BY <2>3 DEF CastSkip
  <2>4. ASSUME NEW c \in Candidates, FormNotarCert(c)
        PROVE  TypeOK'
    BY <2>4 DEF FormNotarCert
  <2>5. ASSUME NEW c \in Candidates, FormFinalCert(c)
        PROVE  TypeOK'
    BY <2>5 DEF FormFinalCert
  <2>6. ASSUME NEW s \in Slots, FormSkipCert(s)
        PROVE  TypeOK'
    BY <2>6 DEF FormSkipCert
  <2>7. CASE UNCHANGED vars
    BY <2>7 DEF vars
  <2> QED BY <2>1, <2>2, <2>3, <2>4, <2>5, <2>6, <2>7 DEF Next
<1> QED BY <1>1, <1>2, PTL DEF Spec

(* Votes and certificates are never withdrawn. *)
LEMMA Monotone ==
    ASSUME TypeOK, [Next]_vars
    PROVE  /\ \A v \in Honest : /\ notarize[v] \subseteq notarize'[v]
                                /\ skip[v] \subseteq skip'[v]
                                /\ finalize[v] \subseteq finalize'[v]
           /\ notarCerts \subseteq notarCerts'
           /\ skipCerts \subseteq skipCerts'
           /\ finalCerts \subseteq finalCerts'
<1> USE DEF TypeOK, votes, certs
<1>1. CASE \E v \in Honest, c \in Candidates : CastNotarize(v, c)
  BY <1>1 DEF CastNotarize
<1>2. CASE \E v \in Honest, c \in Candidates : CastFinalize(v, c)
  BY <1>2 DEF CastFinalize
<1>3. CASE \E v \in Honest, s \in Slots : CastSkip(v, s)
  BY <1>3 DEF CastSkip
<1>4. CASE \E c \in Candidates : FormNotarCert(c)
  BY <1>4 DEF FormNotarCert
<1>5. CASE \E c \in Candidates : FormFinalCert(c)
  BY <1>5 DEF FormFinalCert
<1>6. CASE \E s \in Slots : FormSkipCert(s)
  BY <1>6 DEF FormSkipCert
<1>7. CASE UNCHANGED vars
  BY <1>7 DEF vars
<1> QED BY <1>1, <1>2, <1>3, <1>4, <1>5, <1>6, <1>7 DEF Next

(* A candidate whose parent is ready stays ready (the certificates that
   maybe_resolve_request consults, pool.cpp:762, never disappear). *)
LEMMA ReadyStable ==
    ASSUME TypeOK, [Next]_vars, NEW c \in Candidates, ParentReady(c)
    PROVE  ParentReady(c)'
BY Monotone DEF ParentReady, SlotsAfterParent

(* The inductive invariant: honest validators notarize one ready candidate per
   slot, finalize only what they notarized and saw certified in a slot they did
   not skip, and every certificate is backed by a quorum. *)
THEOREM Invariance == Spec => []IInv
<1>1. Init => IInv
  BY DEF Init, IInv, TypeOK, OneNotarizePerSlot, FinalizeVotesJustified,
         NotarizeVotesReady, CertsSigned
<1>2. IInv /\ TypeOK' /\ [Next]_vars => IInv'
  <2> SUFFICES ASSUME IInv, TypeOK', [Next]_vars PROVE IInv'
    OBVIOUS
  <2>0. TypeOK
    BY DEF IInv
  <2>1. OneNotarizePerSlot'
    <3>1. ASSUME NEW v \in Honest, NEW c \in Candidates, CastNotarize(v, c)
          PROVE  OneNotarizePerSlot'
      BY <3>1 DEF CastNotarize, IInv, TypeOK, OneNotarizePerSlot
    <3>2. CASE UNCHANGED notarize
      BY <3>2 DEF IInv, OneNotarizePerSlot
    <3> QED BY <3>1, <3>2 DEF Next, vars, CastFinalize, CastSkip, FormNotarCert,
                              FormFinalCert, FormSkipCert, votes
  <2>2. FinalizeVotesJustified'
    <3>1. ASSUME NEW v \in Honest, NEW c \in Candidates, CastFinalize(v, c)
          PROVE  FinalizeVotesJustified'
      BY <3>1 DEF CastFinalize, IInv, TypeOK, FinalizeVotesJustified, certs
    <3>2. ASSUME NEW v \in Honest, NEW s \in Slots, CastSkip(v, s)
          PROVE  FinalizeVotesJustified'
      BY <3>2 DEF CastSkip, IInv, TypeOK, FinalizeVotesJustified, certs
    <3>3. CASE UNCHANGED <<skip, finalize>>
      BY <3>3, <2>0, Monotone DEF IInv, FinalizeVotesJustified
    <3> QED BY <3>1, <3>2, <3>3 DEF Next, vars, CastNotarize, FormNotarCert,
                                    FormFinalCert, FormSkipCert, votes
  <2>3. NotarizeVotesReady'
    <3>1. ASSUME NEW v \in Honest, NEW c \in Candidates, CastNotarize(v, c)
          PROVE  NotarizeVotesReady'
      <4>1. ParentReady(c)'
        BY <3>1, <2>0, ReadyStable DEF CastNotarize
      <4>2. \A w \in Honest : notarize'[w] \subseteq notarize[w] \cup {c}
        BY <3>1 DEF CastNotarize, IInv, TypeOK
      <4> QED BY <4>1, <4>2, <2>0, ReadyStable DEF IInv, TypeOK, NotarizeVotesReady
    <3>2. CASE UNCHANGED notarize
      BY <3>2, <2>0, ReadyStable DEF IInv, TypeOK, NotarizeVotesReady
    <3> QED BY <3>1, <3>2 DEF Next, vars, CastFinalize, CastSkip, FormNotarCert,
                              FormFinalCert, FormSkipCert, votes
  <2>4. CertsSigned'
    <3>1. /\ \A Q \in Quorums, c \in Candidates :
                CanSign(Q, notarize, c) => CanSign(Q, notarize, c)'
          /\ \A Q \in Quorums, s \in Slots :
                CanSign(Q, skip, s) => CanSign(Q, skip, s)'
          /\ \A Q \in Quorums, c \in Candidates :
                CanSign(Q, finalize, c) => CanSign(Q, finalize, c)'
      BY <2>0, Monotone DEF CanSign
    <3>2. ASSUME NEW c \in Candidates, FormNotarCert(c)
          PROVE  CertsSigned'
      BY <3>1, <3>2 DEF FormNotarCert, IInv, TypeOK, CertsSigned
    <3>3. ASSUME NEW c \in Candidates, FormFinalCert(c)
          PROVE  CertsSigned'
      BY <3>1, <3>3 DEF FormFinalCert, IInv, TypeOK, CertsSigned
    <3>4. ASSUME NEW s \in Slots, FormSkipCert(s)
          PROVE  CertsSigned'
      BY <3>1, <3>4 DEF FormSkipCert, IInv, TypeOK, CertsSigned
    <3>5. CASE UNCHANGED <<notarCerts, skipCerts, finalCerts>>
      BY <3>1, <3>5 DEF IInv, TypeOK, CertsSigned
    <3> QED BY <3>2, <3>3, <3>4, <3>5 DEF Next, vars, CastNotarize, CastFinalize,
                                          CastSkip, certs
  <2> QED BY <2>1, <2>2, <2>3, <2>4 DEF IInv
<1> QED BY <1>1, <1>2, Typing, PTL DEF Spec

(* Facts about a single state that satisfies the invariant. *)
LEMMA FinalSlot ==
    ASSUME IInv, NEW c \in finalCerts
    PROVE  /\ c \in notarCerts
           /\ SlotOf[c] \notin skipCerts
           /\ \A d \in notarCerts : SlotOf[d] = SlotOf[c] => d = c
<1> USE DEF IInv
<1>0. c \in Candidates
  BY DEF TypeOK
<1>1. PICK Q \in Quorums : CanSign(Q, finalize, c)
  BY DEF CertsSigned
<1>2. c \in notarCerts
  <2>1. PICK v \in Honest : v \in Q
    BY QuorumIntersection
  <2> QED BY <1>1, <2>1 DEF CanSign, FinalizeVotesJustified
<1>3. ASSUME SlotOf[c] \in skipCerts PROVE FALSE
  <2>1. PICK R \in Quorums : CanSign(R, skip, SlotOf[c])
    BY <1>3 DEF CertsSigned
  <2>2. PICK v \in Honest : v \in Q /\ v \in R
    BY QuorumIntersection
  <2> QED BY <1>1, <2>1, <2>2 DEF CanSign, FinalizeVotesJustified
<1>4. ASSUME NEW d \in notarCerts, SlotOf[d] = SlotOf[c] PROVE d = c
  <2>1. PICK R \in Quorums : CanSign(R, notarize, d)
    BY <1>4 DEF CertsSigned
  <2>2. PICK v \in Honest : v \in Q /\ v \in R
    BY QuorumIntersection
  <2> QED BY <1>1, <1>4, <2>1, <2>2
             DEF CanSign, FinalizeVotesJustified, OneNotarizePerSlot
<1> QED BY <1>2, <1>3, <1>4

LEMMA CertifiedReady ==
    ASSUME IInv
    PROVE  NotarizedChainComplete
<1> SUFFICES ASSUME NEW c \in notarCerts PROVE ParentReady(c)
  BY FinalSlot DEF NotarizedChainComplete
<1>1. PICK Q \in Quorums : CanSign(Q, notarize, c)
  BY DEF IInv, CertsSigned
<1>2. PICK v \in Honest : v \in Q
  BY QuorumIntersection
<1> QED BY <1>1, <1>2 DEF CanSign, IInv, NotarizeVotesReady

(* One step of the descent: the parent of a candidate certified above a
   finalized one is certified, and not below the finalized one. *)
LEMMA Descent ==
    ASSUME IInv, NEW c \in finalCerts, NEW d \in notarCerts, SlotOf[d] > SlotOf[c]
    PROVE  /\ ParentOf[d] \in notarCerts
           /\ SlotOf[ParentOf[d]] >= SlotOf[c]
           /\ SlotOf[ParentOf[d]] < SlotOf[d]
<1>1. c \in Candidates /\ d \in Candidates
  BY DEF IInv, TypeOK
<1>2. SlotOf[c] \in Slots /\ SlotOf[c] \in Nat /\ SlotOf[d] \in Nat
  BY <1>1, CandidateAssumption
<1>3. ParentReady(d)
  BY CertifiedReady DEF NotarizedChainComplete
<1>4. SlotOf[c] \notin SlotsAfterParent(d)
  BY <1>3, FinalSlot DEF ParentReady
<1>5. ParentOf[d] # Genesis /\ ~(SlotOf[ParentOf[d]] < SlotOf[c])
  BY <1>2, <1>4 DEF SlotsAfterParent
<1>6. ParentOf[d] \in Candidates
  BY <1>1, <1>5, CandidateAssumption
<1>7. SlotOf[ParentOf[d]] \in Nat
  BY <1>6, CandidateAssumption
<1> QED BY <1>2, <1>3, <1>5, <1>7, FinalSlot, SMT DEF ParentReady

(* Agreement in one state: descend from d; the least slot of a certified
   member of a parent-closed set at or above c's slot is c's own. *)
LEMMA AgreementHolds ==
    ASSUME IInv
    PROVE  Agreement
<1> SUFFICES ASSUME NEW c \in finalCerts, NEW d \in notarCerts \cup finalCerts,
                    SlotOf[d] >= SlotOf[c],
                    NEW S \in SUBSET Candidates, ParentClosed(S), d \in S
             PROVE  c \in S
  BY DEF Agreement, OnChain
<1>0. d \in notarCerts
  BY FinalSlot
<1>1. /\ notarCerts \subseteq Candidates /\ c \in Candidates
      /\ \A x \in Candidates : SlotOf[x] \in Nat
  BY CandidateAssumption DEF IInv, TypeOK
<1> DEFINE T == {n \in Nat : \E x \in notarCerts \cap S : /\ n = SlotOf[x]
                                                         /\ n >= SlotOf[c]}
<1>2. T \subseteq Nat /\ T # {}
  BY <1>0, <1>1
<1>3. PICK n \in T : \A m \in T : ~(m < n)
  <2>1. \E n \in T : \A m \in T : ~(<<m, n>> \in OpToRel(<, Nat))
    BY <1>2, NatLessThanWellFounded, WFMin
  <2> QED BY <2>1 DEF OpToRel
<1>4. PICK x \in notarCerts \cap S : n = SlotOf[x] /\ n >= SlotOf[c]
  BY <1>3
<1>5. CASE SlotOf[x] = SlotOf[c]
  BY <1>4, <1>5, FinalSlot
<1>6. CASE SlotOf[x] > SlotOf[c]
  <2>1. /\ ParentOf[x] \in notarCerts
        /\ SlotOf[ParentOf[x]] >= SlotOf[c]
        /\ SlotOf[ParentOf[x]] < SlotOf[x]
    BY <1>6, Descent
  <2>2. ParentOf[x] \in S
    BY <1>1, <2>1, CandidateAssumption DEF ParentClosed
  <2>3. SlotOf[ParentOf[x]] \in T
    BY <1>1, <2>1, <2>2
  <2> QED BY <1>3, <1>4, <2>1, <2>3
<1> QED BY <1>1, <1>4, <1>5, <1>6, SMT

(* Finalized chains never diverge, whatever the Byzantine third signs: the
   property the whole of simplex/ exists for. *)
THEOREM AgreementTheorem == Spec => []Agreement
BY Invariance, AgreementHolds, PTL

(* No valid certificates can make the CHECK at pool.cpp:925 fail. *)
THEOREM FinalExcludesSkipTheorem == Spec => []FinalExcludesSkip
<1>1. IInv => FinalExcludesSkip
  BY FinalSlot DEF FinalExcludesSkip
<1> QED BY <1>1, Invariance, PTL

(* Every certified candidate rests on a certified parent with only skipped
   slots in between. *)
THEOREM ChainCompleteTheorem == Spec => []NotarizedChainComplete
BY Invariance, CertifiedReady, PTL

-----------------------------------------------------------------------------
(* The pool's view of the certificates; None is the id in a skip certificate. *)
Pool(None) == INSTANCE SimplexCertificates

Issued(None) ==
    {Pool(None)!Notar(c) : c \in notarCerts} \cup {Pool(None)!Skip(s) : s \in skipCerts}
    \cup {Pool(None)!Final(c) : c \in finalCerts}

(* What SimplexPool takes for granted holds whatever the Byzantine third signs:
   the pools of honest validators are only given certificates that fit together
   (so the CHECKs at pool.cpp:925 and 926 hold). *)
THEOREM PoolPremise ==
    ASSUME NEW CONSTANT None, \A s \in Slots : 0..s \subseteq Slots
    PROVE  Spec => []Pool(None)!Consistent(Issued(None))
<1>1. IInv => Pool(None)!Consistent(Issued(None))
  <2> SUFFICES ASSUME IInv PROVE Pool(None)!Consistent(Issued(None))
    OBVIOUS
  <2>1. /\ \A c : Pool(None)!Notar(c) \in Issued(None) <=> c \in notarCerts
        /\ \A c : Pool(None)!Final(c) \in Issued(None) <=> c \in finalCerts
        /\ \A s : Pool(None)!Skip(s) \in Issued(None) <=> s \in skipCerts
    BY DEF Issued, Pool!Notar, Pool!Final, Pool!Skip
  <2>2. ASSUME NEW c \in notarCerts, NEW d \in notarCerts, SlotOf[c] = SlotOf[d] PROVE c = d
    <3>1. PICK Q \in Quorums : CanSign(Q, notarize, c)
      BY DEF IInv, CertsSigned
    <3>2. PICK R \in Quorums : CanSign(R, notarize, d)
      BY DEF IInv, CertsSigned
    <3>3. PICK v \in Honest : v \in Q /\ v \in R
      BY QuorumIntersection
    <3>4. c \in notarize[v] /\ d \in notarize[v]
      BY <3>1, <3>2, <3>3 DEF CanSign
    <3> QED BY <2>2, <3>4 DEF IInv, OneNotarizePerSlot
  <2>3. \A c \in finalCerts : c \in notarCerts /\ SlotOf[c] \notin skipCerts
    BY FinalSlot
  <2>4. ASSUME NEW c \in notarCerts PROVE Pool(None)!ReadyIn(Issued(None), c)
    <3>1. ParentReady(c)
      BY CertifiedReady DEF NotarizedChainComplete
    <3>2. /\ SlotOf[c] \in Slots /\ SlotOf[c] \in Nat
          /\ ParentOf[c] # Genesis => SlotOf[ParentOf[c]] \in Nat
      BY CandidateAssumption DEF IInv, TypeOK
    <3>3. PICK n \in Nat :
             /\ n = Pool(None)!NextAfter(ParentOf[c]) /\ n <= SlotOf[c]
             /\ ParentOf[c] = Genesis \/ n = SlotOf[ParentOf[c]] + 1
      <4>1. CASE ParentOf[c] = Genesis
        <5>1. Pool(None)!NextAfter(ParentOf[c]) = 0
          BY <4>1 DEF Pool!NextAfter
        <5> QED BY <3>2, <4>1, <5>1, SMT
      <4>2. CASE ParentOf[c] # Genesis
        <5>1. Pool(None)!NextAfter(ParentOf[c]) = SlotOf[ParentOf[c]] + 1
          BY <4>2 DEF Pool!NextAfter
        <5>2. SlotOf[ParentOf[c]] < SlotOf[c]
          BY <3>1, <4>2 DEF ParentReady
        <5> QED BY <3>2, <4>2, <5>1, <5>2, SMT
      <4> QED BY <4>1, <4>2
    <3>4. ParentOf[c] = Genesis \/
          {Pool(None)!Notar(ParentOf[c]), Pool(None)!Final(ParentOf[c])} \cap Issued(None) # {}
      BY <2>1, <3>1 DEF ParentReady
    <3>5. \A s \in Pool(None)!NextAfter(ParentOf[c])..(SlotOf[c] - 1) : s \in skipCerts
      <4> SUFFICES ASSUME NEW s \in Pool(None)!NextAfter(ParentOf[c])..(SlotOf[c] - 1)
                   PROVE  s \in SlotsAfterParent(c)
        BY <3>1 DEF ParentReady
      <4>1. /\ s \in 0..SlotOf[c] /\ s < SlotOf[c]
            /\ ParentOf[c] = Genesis \/ SlotOf[ParentOf[c]] < s
        <5>1. s \in n..(SlotOf[c] - 1)
          BY <3>3
        <5> QED BY <3>2, <3>3, <5>1, SMT
      <4>2. s \in Slots
        BY <3>2, <4>1
      <4> QED BY <4>1, <4>2 DEF SlotsAfterParent
    <3> QED BY <2>1, <3>3, <3>4, <3>5 DEF Pool!ReadyIn
  <2> QED BY <2>1, <2>2, <2>3, <2>4 DEF Pool!Consistent
<1> QED BY <1>1, Invariance, PTL
=============================================================================
