-------------------------- MODULE StandstillProofs --------------------------
(***************************************************************************)
(* The standstill task never aborts the process, for every number of       *)
(* validators, slots and quorums and however messages are lost. The pool's *)
(* first slot is a function of its last final certificate, so as long as   *)
(* that is the one the task started with, no slot has gone that the task   *)
(* still looks up.                                                         *)
(***************************************************************************)
EXTENDS Standstill, WellFoundedInduction, TLAPS

USE ZenonT(20)

BeginOf(last) == IF last = None THEN 0 ELSE last + 1

GoodPool(P) ==
    /\ DOMAIN P = {"heard", "certs", "last", "begin", "now"}
    /\ P = [x \in DOMAIN P |-> P[x]]
    /\ P.last \in Slots \cup {None}
    /\ P.begin = BeginOf(P.last)

Tasks == [at : {"idle", "final", "slots", "aborted"}, copy : Slots \cup {None},
          begin : Nat, i : Nat, queue : Seq(Messages)]

(* The task is at a slot it may look up if nothing new became final. *)
GoodTask(T) ==
    /\ T \in Tasks
    /\ T.at # "aborted"
    /\ T.at = "idle" => T.queue = <<>>
    /\ T.at = "slots" => T.begin = BeginOf(T.copy) /\ T.begin <= T.i

IInv ==
    /\ pool = [n \in Nodes |-> pool[n]] /\ task = [n \in Nodes |-> task[n]]
    /\ \A n \in Nodes : GoodPool(pool[n]) /\ GoodTask(task[n])

-----------------------------------------------------------------------------
LEMMA Constants ==
    /\ MaxSlot \in Nat /\ None \notin Nat /\ Slots \subseteq Nat /\ None \notin Slots
    /\ \A l \in Slots \cup {None} : BeginOf(l) \in Nat
BY StandstillAssumption, SMT DEF Slots, BeginOf

LEMMA VoteTyped ==
    ASSUME NEW s \in Slots, NEW k \in Kinds, NEW n \in Nodes
    PROVE  /\ Vote(s, k) \in Votes
           /\ CertMessage(Vote(s, k)) \in Messages /\ VoteMessage(n, Vote(s, k)) \in Messages
BY DEF Vote, Votes, CertMessage, VoteMessage, Messages

(* What a pool does with a certificate or a vote keeps it good. *)
LEMMA SavedGood ==
    ASSUME NEW P, GoodPool(P), NEW v \in Votes
    PROVE  GoodPool(handle_saved_certificate(P, v))
<1>1. v.slot \in Slots /\ v.slot # None
  BY Constants DEF Votes
<1>2. CASE v.kind # "final"
  <2>1. PICK c, m : handle_saved_certificate(P, v) = [P EXCEPT !.certs = c, !.now = m]
    BY <1>2 DEF handle_saved_certificate
  <2> QED BY <2>1 DEF GoodPool
<1>3. CASE v.kind = "final"
  <2>1. PICK h, c, m : handle_saved_certificate(P, v)
              = [heard |-> h, certs |-> c, last |-> v.slot, begin |-> v.slot + 1, now |-> m]
    BY <1>3 DEF handle_saved_certificate
  <2> QED BY <1>1, <2>1, SMT DEF GoodPool, BeginOf
<1> QED BY <1>2, <1>3

LEMMA CertificateGood ==
    ASSUME NEW P, GoodPool(P), NEW v \in Votes
    PROVE  GoodPool(handle_certificate(P, v))
BY SavedGood DEF handle_certificate

LEMMA VoteGood ==
    ASSUME NEW P, GoodPool(P), NEW n, NEW v \in Votes
    PROVE  GoodPool(handle_vote(P, n, v))
<1>1. PICK Q : Q = [P EXCEPT !.heard = @ \cup {<<n, v>>}]
  OBVIOUS
<1>2. GoodPool(Q)
  BY <1>1 DEF GoodPool
<1>3. handle_vote(P, n, v) \in {P, Q, handle_certificate(Q, v)}
  BY <1>1 DEF handle_vote
<1> QED BY <1>2, <1>3, CertificateGood

LEMMA MessageGood ==
    ASSUME NEW P, GoodPool(P), NEW m \in Messages
    PROVE  GoodPool(IncomingProtocolMessage(P, m))
<1>1. m.vote \in Votes
  BY DEF Messages
<1> QED BY <1>1, CertificateGood, VoteGood DEF IncomingProtocolMessage

LEMMA BroadcastGood ==
    ASSUME IInv, NEW n \in Nodes, NEW m \in Messages, NEW P, GoodPool(P),
           NEW R, NEW C, Broadcast(n, m, P, R, C)
    PROVE  pool' = [p \in Nodes |-> pool'[p]] /\ \A p \in Nodes : GoodPool(pool'[p])
<1>1. PICK told : told = [p \in Nodes |->
             IF p = n THEN P
             ELSE IF p \in R THEN IncomingProtocolMessage(pool[p], m) ELSE pool[p]]
  OBVIOUS
<1>2. \A p \in Nodes : GoodPool(told[p])
  BY <1>1, MessageGood DEF IInv
<1>3. \E new : pool' = [p \in Nodes |-> IF new /\ p \in C
                                         THEN handle_certificate(told[p], m.vote) ELSE told[p]]
  BY <1>1 DEF Broadcast
<1>4. m.vote \in Votes
  BY DEF Messages
<1> QED BY <1>2, <1>3, <1>4, CertificateGood

-----------------------------------------------------------------------------
LEMMA SerializeTyped ==
    ASSUME NEW n \in Nodes, NEW P, NEW i \in Slots
    PROVE  serialize_to(n, P, i) \in Seq(Messages)
<1> DEFINE Cert(k) == IF Vote(i, k) \in P.certs THEN <<CertMessage(Vote(i, k))>> ELSE <<>>
<1> DEFINE Own(k) == IF <<n, Vote(i, k)>> \in P.heard /\ Vote(i, k) \notin P.certs
                     THEN <<VoteMessage(n, Vote(i, k))>> ELSE <<>>
<1>1. \A k \in Kinds : Cert(k) \in Seq(Messages) /\ Own(k) \in Seq(Messages)
  BY VoteTyped, SMT
<1>2. /\ Certificates(P, i) = Cert("notar") \o Cert("skip") \o Cert("final")
      /\ OwnVotes(n, P, i) = Own("notar") \o Own("skip") \o Own("final")
  BY DEF Certificates, OwnVotes
<1> HIDE DEF Cert, Own
<1>3. Certificates(P, i) \in Seq(Messages) /\ OwnVotes(n, P, i) \in Seq(Messages)
  BY <1>1, <1>2, SMT DEF Kinds
<1> QED BY <1>3, SMT DEF serialize_to

LEMMA IdleGood == GoodTask(Idle)
BY Constants, SMT DEF GoodTask, Tasks, Idle

LEMMA LeastExists ==
    ASSUME NEW S \in SUBSET Nat, S # {}
    PROVE  \E j \in S : \A k \in S : j <= k
<1>1. PICK j \in S : \A k \in S : <<k, j>> \notin OpToRel(<, Nat)
  BY NatLessThanWellFounded, WFMin
<1>2. \A k \in S : ~(k < j)
  BY <1>1 DEF OpToRel
<1> QED BY <1>2, SMT

(* A slot at or above the pool's first one is looked up safely. *)
LEMMA LookUpGood ==
    ASSUME NEW n \in Nodes, NEW P, GoodPool(P), NEW T \in Tasks, P.last = T.copy,
           NEW i \in Nat, P.begin <= i
    PROVE  GoodTask(LookUp(n, P, T, i))
<1> DEFINE due == {j \in Slots : j >= i /\ j \in Tracked(P) /\ serialize_to(n, P, j) # <<>>}
<1> DEFINE next == CHOOSE j \in due : \A k \in due : j <= k
<1>1. P.begin \in Nat /\ P.begin = BeginOf(T.copy) /\ T.copy \in Slots \cup {None}
  BY Constants DEF GoodPool
<1>2. CASE due = {}
  <2>1. LookUp(n, P, T, i) = Idle
    BY <1>1, <1>2, SMT DEF LookUp
  <2> QED BY <2>1, IdleGood
<1>3. CASE \E j \in due : \A k \in due : j <= k
  <2>1. next \in Slots /\ next >= i
    BY <1>3
  <2>2. PICK j : j = next
    OBVIOUS
  <2>3. LookUp(n, P, T, i) = [at |-> "slots", copy |-> T.copy, begin |-> P.begin, i |-> j,
                              queue |-> serialize_to(n, P, j)]
    BY <1>1, <1>3, <2>2, SMT DEF LookUp
  <2> HIDE DEF next, due
  <2>4. serialize_to(n, P, j) \in Seq(Messages) /\ j \in Nat
    BY <2>1, <2>2, SerializeTyped, Constants
  <2>5. LookUp(n, P, T, i) \in Tasks
    BY <1>1, <2>3, <2>4, SMT DEF Tasks
  <2> QED BY <1>1, <2>1, <2>2, <2>3, <2>4, <2>5, SMT DEF GoodTask
<1>4. due # {} => \E j \in due : \A k \in due : j <= k
  <2>1. due \subseteq Nat
    BY Constants
  <2> HIDE DEF due
  <2> QED BY <2>1, LeastExists
<1> QED BY <1>2, <1>3, <1>4

LEMMA ContinueGood ==
    ASSUME NEW n \in Nodes, NEW P, GoodPool(P), NEW T \in Tasks,
           NEW i \in Nat, P.last = T.copy => P.begin <= i
    PROVE  GoodTask(Continue(n, P, T, i))
BY IdleGood, LookUpGood DEF Continue

LEMMA StartGood ==
    ASSUME IInv, NEW n \in Nodes, StartRound(n)
    PROVE  IInv'
<1>1. PICK P : P = pool[n]
  OBVIOUS
<1>2. PICK T : T = [Idle EXCEPT !.copy = P.last]
  OBVIOUS
<1>3. GoodPool(P) /\ P.begin \in Nat /\ T \in Tasks /\ T.copy = P.last
  <2>1. GoodPool(P)
    BY <1>1 DEF IInv
  <2>2. P.last \in Slots \cup {None} /\ P.begin \in Nat
    BY <2>1, Constants DEF GoodPool
  <2>3. Idle \in Tasks
    BY IdleGood DEF GoodTask
  <2> QED BY <1>2, <2>1, <2>2, <2>3 DEF Tasks
<1>4. PICK U : /\ task' = [task EXCEPT ![n] = U]
               /\ U = IF P.last = None THEN Continue(n, P, T, P.begin)
                      ELSE [T EXCEPT !.at = "final",
                                     !.queue = <<CertMessage(Vote(P.last, "final"))>>]
  BY <1>1, <1>2 DEF StartRound
<1>5. GoodTask(U)
  <2>1. CASE P.last = None
    BY <1>3, <1>4, <2>1, ContinueGood, SMT
  <2>2. CASE P.last # None
    <3>1. PICK m : m = CertMessage(Vote(P.last, "final"))
      OBVIOUS
    <3>2. m \in Messages
      BY <1>3, <2>2, <3>1, VoteTyped DEF GoodPool, Kinds
    <3>3. U = [T EXCEPT !.at = "final", !.queue = <<m>>]
      BY <1>4, <2>2, <3>1
    <3>4. <<m>> \in Seq(Messages)
      BY <3>2, SMT
    <3> QED BY <1>3, <3>3, <3>4 DEF GoodTask, Tasks
  <2> QED BY <2>1, <2>2
<1> QED BY <1>4, <1>5 DEF IInv, StartRound

LEMMA SendGood ==
    ASSUME IInv, NEW n \in Nodes, NEW R, NEW C, Send(n, R, C)
    PROVE  IInv'
<1>1. PICK P, T : P = pool[n] /\ T = task[n]
  OBVIOUS
<1>2. /\ GoodPool(P) /\ GoodTask(T) /\ T \in Tasks /\ P.begin \in Nat
      /\ P.begin = BeginOf(P.last)
  BY <1>1, Constants DEF IInv, GoodTask, GoodPool
<1>3. T.queue \in Seq(Messages) /\ T.queue # <<>> /\ T.i \in Nat /\ T.begin \in Nat
  BY <1>1, <1>2 DEF Tasks, Send
<1>4. Head(T.queue) \in Messages /\ Tail(T.queue) \in Seq(Messages)
  BY <1>3, SMT
<1>5. pool' = [p \in Nodes |-> pool'[p]] /\ \A p \in Nodes : GoodPool(pool'[p])
  BY <1>1, <1>2, <1>4, BroadcastGood DEF Send
<1>6. PICK U : /\ task' = [task EXCEPT ![n] = U]
               /\ U = IF Tail(T.queue) # <<>> THEN [T EXCEPT !.queue = Tail(@)]
                      ELSE IF T.at = "final" THEN Continue(n, P, T, P.begin)
                      ELSE IF T.begin # P.begin /\ P.last = T.copy
                           THEN [Idle EXCEPT !.at = "aborted"]
                           ELSE Continue(n, P, T, T.i + 1)
  BY <1>1 DEF Send
<1>7. GoodTask(U)
  <2>1. CASE Tail(T.queue) # <<>>
    <3>1. PICK q \in Seq(Messages) : U = [T EXCEPT !.queue = q]
      BY <1>4, <1>6, <2>1
    <3>2. T.at # "idle"
      BY <1>2, <1>3 DEF GoodTask
    <3> QED BY <1>2, <3>1, <3>2 DEF GoodTask, Tasks
  <2>2. CASE Tail(T.queue) = <<>> /\ T.at = "final"
    BY <1>2, <1>6, <2>2, ContinueGood, SMT
  <2>3. CASE Tail(T.queue) = <<>> /\ T.at # "final"
    <3>1. T.at = "slots"
      BY <1>1, <1>2, <1>3, <2>3 DEF GoodTask, Tasks, IInv
    <3>2. P.last = T.copy => T.begin = P.begin /\ P.begin <= T.i + 1
      BY <1>2, <1>3, <3>1, SMT DEF GoodTask
    <3>3. U = Continue(n, P, T, T.i + 1)
      BY <1>6, <2>3, <3>2
    <3> QED BY <1>2, <1>3, <3>2, <3>3, ContinueGood, SMT
  <2> QED BY <2>1, <2>2, <2>3
<1>8. task' = [p \in Nodes |-> task'[p]] /\ \A p \in Nodes : GoodTask(task'[p])
  BY <1>6, <1>7 DEF IInv
<1> QED BY <1>5, <1>8 DEF IInv


LEMMA NextGood == IInv /\ [Next]_vars => IInv'
<1> SUFFICES ASSUME IInv, [Next]_vars PROVE IInv'
  OBVIOUS
<1>1. ASSUME NEW n \in Nodes, NEW v \in Votes, NEW R, NEW C, BroadcastVote(n, v, R, C)
      PROVE  IInv'
  <2>1. GoodPool(handle_vote(pool[n], n, v))
    BY VoteGood DEF IInv
  <2>2. VoteMessage(n, v) \in Messages
    BY DEF VoteMessage, Messages
  <2>3. pool' = [p \in Nodes |-> pool'[p]] /\ \A p \in Nodes : GoodPool(pool'[p])
    BY <1>1, <2>1, <2>2, BroadcastGood DEF BroadcastVote
  <2>4. task' = task
    BY <1>1 DEF BroadcastVote
  <2> QED BY <2>3, <2>4 DEF IInv
<1>2. ASSUME NEW n \in Nodes, Round(n) PROVE IInv'
  BY <1>2, StartGood, SendGood DEF Round
<1>3. CASE Stabilize
  BY <1>3 DEF IInv, Stabilize
<1>4. CASE UNCHANGED vars
  BY <1>4 DEF IInv, vars
<1> QED BY <1>1, <1>2, <1>3, <1>4 DEF Next

(***************************************************************************)
(* PoolImpl::standstill_resolution_task never looks up a slot that is gone *)
(* and never fails its CHECK(begin == begin_new || last_final_cert_ !=     *)
(* last_final_cert_copy), for every number of validators, every system of  *)
(* quorums and every loss of messages.                                     *)
(***************************************************************************)
THEOREM TaskAlwaysRuns == Spec => []TaskNeverAborts
<1>1. Init => IInv
  <2> SUFFICES ASSUME Init PROVE IInv
    OBVIOUS
  <2>1. \A n \in Nodes : GoodTask(task[n])
    BY IdleGood DEF Init
  <2>2. \A n \in Nodes : GoodPool(pool[n])
    BY Constants DEF Init, GoodPool, BeginOf
  <2> QED BY <2>1, <2>2 DEF IInv, Init
<1>2. IInv => TaskNeverAborts
  BY DEF IInv, GoodTask, TaskNeverAborts
<1> QED BY <1>1, <1>2, NextGood, PTL DEF Spec


=============================================================================
