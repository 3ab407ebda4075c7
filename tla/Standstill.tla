----------------------------- MODULE Standstill -----------------------------
(***************************************************************************)
(* The pools of several validators and what they tell each other           *)
(* (pool.cpp): votes and certificates are broadcast once, when they        *)
(* appear, and any of these messages may be lost. When no slot has been    *)
(* finalized for standstill_timeout, the task standstill_resolution_task   *)
(* broadcasts the pool's last final certificate and then, slot by slot,    *)
(* its certificates and the votes of its own that are in none, while the   *)
(* pool goes on receiving. Messages of a slot too far ahead are dropped    *)
(* unless they are certificates.                                           *)
(*                                                                         *)
(* A slot has one candidate here, no validator is faulty, and saving a     *)
(* certificate takes no time; SimplexPool has the rest of the pool.        *)
(***************************************************************************)
EXTENDS Naturals, Sequences

CONSTANTS
    Nodes,
    Systems,    \* choices of the sets whose weight reaches weight_threshold_
    MaxSlot,    \* bound on slots
    Agenda,     \* bound on voting: the votes that a validator may cast
    W,          \* slots_per_leader_window
    Desync,     \* max_leader_window_desync
    None

Slots == 0..MaxSlot
Kinds == {"notar", "skip", "final"}
Votes == [slot : Slots, kind : Kinds]

ASSUME StandstillAssumption ==
    /\ Systems \subseteq SUBSET SUBSET Nodes
    /\ MaxSlot \in Nat /\ W \in Nat \ {0} /\ Desync \in Nat
    /\ Agenda \in [Nodes -> SUBSET Votes]
    /\ None \notin Nat

VARIABLES
    quorums,    \* the sets of validators that are a quorum
    own,        \* the votes that a validator has cast
    pool,       \* its PoolImpl
    task,       \* its standstill_resolution_task
    stable      \* the network no longer loses messages

vars == <<quorums, own, pool, task, stable>>

VoteMessage(n, v) == [type |-> "vote", from |-> n, vote |-> v]
CertMessage(v) == [type |-> "certificate", from |-> None, vote |-> v]
Messages == [type : {"vote"}, from : Nodes, vote : Votes]
            \cup [type : {"certificate"}, from : {None}, vote : Votes]

(* certs is without the slots that are final; last is the slot of last_final_cert_,
   begin the first slot of ConsensusState. *)
Pools == [heard : SUBSET (Nodes \X Votes), certs : SUBSET Votes,
          last : Slots \cup {None}, begin : Nat, now : Nat]

Idle == [at |-> "idle", copy |-> None, begin |-> 0, i |-> 0, queue |-> <<>>]

TypeOK ==
    /\ quorums \in Systems
    /\ own \in [Nodes -> SUBSET Votes]
    /\ pool \in [Nodes -> Pools]
    /\ \A n \in Nodes :
          /\ task[n].at \in {"idle", "final", "slots", "aborted"}
          /\ task[n].copy \in Slots \cup {None}
          /\ task[n].queue \in Seq(Messages)
    /\ stable \in BOOLEAN

Init ==
    /\ quorums \in Systems
    /\ own = [n \in Nodes |-> {}]
    /\ pool = [n \in Nodes |->
                 [heard |-> {}, certs |-> {}, last |-> None, begin |-> 0, now |-> 0]]
    /\ task = [n \in Nodes |-> Idle]
    /\ stable = FALSE

-----------------------------------------------------------------------------
(* What a message does to a pool P. *)

(* now_ moves past the slots that are notarized or skipped. *)
advance_present(certs, now) ==
    CHOOSE m \in now..(MaxSlot + 1) :
        /\ \A s \in now..(m - 1) : \E k \in {"notar", "skip"} : [slot |-> s, kind |-> k] \in certs
        /\ m <= MaxSlot => \A k \in {"notar", "skip"} : [slot |-> m, kind |-> k] \notin certs

(* A certificate is stored; a final one ends the slots up to its own. *)
handle_saved_certificate(P, v) ==
    LET certs == P.certs \cup {v}
        After(S) == {u \in S : u.slot > v.slot}
    IN  IF v.kind # "final"
        THEN [P EXCEPT !.certs = certs, !.now = advance_present(certs, P.now)]
        ELSE [heard |-> {h \in P.heard : h[2].slot > v.slot},
              certs |-> After(certs),
              last  |-> v.slot,
              begin |-> v.slot + 1,
              now   |-> IF P.now <= v.slot THEN advance_present(After(certs), v.slot + 1)
                                           ELSE P.now]

handle_certificate(P, v) ==
    IF v.slot < P.begin \/ v \in P.certs THEN P ELSE handle_saved_certificate(P, v)

(* A vote counts once, and makes the certificate when it completes a quorum. *)
handle_vote(P, n, v) ==
    LET Q == [P EXCEPT !.heard = @ \cup {<<n, v>>}]
    IN  IF v.slot < P.begin \/ <<n, v>> \in P.heard THEN P
        ELSE IF \E q \in quorums : \A m \in q : <<m, v>> \in Q.heard
        THEN handle_certificate(Q, v)
        ELSE Q

first_too_new_slot(P) == ((P.now \div W) + Desync + 1) * W

(* handle(IncomingProtocolMessage) *)
IncomingProtocolMessage(P, m) ==
    IF m.type = "certificate" THEN handle_certificate(P, m.vote)
    ELSE IF m.vote.slot >= first_too_new_slot(P) THEN P
    ELSE handle_vote(P, m.from, m.vote)

(* The pool has the certificate, or the slot is over for it. *)
Has(P, v) == v \in P.certs \/ v.slot < P.begin

(* n broadcasts m, which R receive. A pool that gets a certificate from it, be it
   the one that sends its own vote, broadcasts that in turn, which C receive. What
   is not received at once is lost. *)
Broadcast(n, m, P, R, C) ==
    LET told == [p \in Nodes |-> IF p = n THEN P
                                 ELSE IF p \in R THEN IncomingProtocolMessage(pool[p], m)
                                 ELSE pool[p]]
        new == \E p \in Nodes : Has(told[p], m.vote) /\ ~Has(pool[p], m.vote)
    IN  /\ stable => R = Nodes \ {n} /\ C = Nodes
        /\ pool' = [p \in Nodes |-> IF new /\ p \in C THEN handle_certificate(told[p], m.vote)
                                                      ELSE told[p]]

-----------------------------------------------------------------------------
Vote(slot, kind) == [slot |-> slot, kind |-> kind]

(* External to the pool: ConsensusImpl votes, in the window of now_ or, to make a
   slot final, once its candidate is notarized; never both to skip and finalize.
   The pool counts the vote and broadcasts it. *)
BroadcastVote(n, v, R, C) ==
    /\ v \in Agenda[n] \ own[n]
    /\ v.slot >= pool[n].begin
    /\ IF v.kind = "final"
       THEN Vote(v.slot, "notar") \in pool[n].certs /\ Vote(v.slot, "skip") \notin own[n]
       ELSE v.slot < (pool[n].now \div W + 1) * W
    /\ v.kind = "skip" => Vote(v.slot, "final") \notin own[n]
    /\ own' = [own EXCEPT ![n] = @ \cup {v}]
    /\ Broadcast(n, VoteMessage(n, v), handle_vote(pool[n], n, v), R, C)
    /\ UNCHANGED <<quorums, task, stable>>

-----------------------------------------------------------------------------
(* CertificateBundle::serialize_to: the certificates of slot i. *)
Certificates(P, i) ==
    LET Cert(k) == IF Vote(i, k) \in P.certs THEN <<CertMessage(Vote(i, k))>> ELSE <<>>
    IN  Cert("notar") \o Cert("skip") \o Cert("final")

(* Tsentrizbirkom::serialize_to: the votes of its own without a certificate. *)
OwnVotes(n, P, i) ==
    LET Own(k) == IF <<n, Vote(i, k)>> \in P.heard /\ Vote(i, k) \notin P.certs
                  THEN <<VoteMessage(n, Vote(i, k))>> ELSE <<>>
    IN  Own("notar") \o Own("skip") \o Own("final")

(* Only the certificates. *)
CertificatesOnly(n, P, i) == Certificates(P, i)

(* What there is to tell of slot i. *)
serialize_to(n, P, i) == Certificates(P, i) \o OwnVotes(n, P, i)

(* The tracked interval ends after the last slot with anything in it. *)
Tracked(P) ==
    P.begin..MaxSlot \cap {s \in Slots : \E t \in s..MaxSlot :
        \/ \E v \in P.certs : v.slot = t
        \/ \E h \in P.heard : h[2].slot = t}

(* The loop looks up slot i, which must be tracked, and goes on to the next slot
   with something to send or to its end. *)
LookUp(n, P, T, i) ==
    LET due == {j \in Slots : j >= i /\ j \in Tracked(P) /\ serialize_to(n, P, j) # <<>>}
        next == CHOOSE j \in due : \A k \in due : j <= k
    IN  IF i < P.begin THEN [Idle EXCEPT !.at = "aborted"]
        ELSE IF due = {} THEN Idle
        ELSE [at |-> "slots", copy |-> T.copy, begin |-> P.begin, i |-> next,
              queue |-> serialize_to(n, P, next)]

(* Goes on although a new slot has become final. *)
ContinueAnyway(n, P, T, i) == LookUp(n, P, T, i)

(* The loop stops when a new slot has become final. *)
Continue(n, P, T, i) == IF P.last = T.copy THEN LookUp(n, P, T, i) ELSE Idle

(* Starts with the slots. *)
StartsWithSlots(n) ==
    /\ task[n].at = "idle"
    /\ task' = [task EXCEPT ![n] =
           Continue(n, pool[n], [Idle EXCEPT !.copy = pool[n].last], pool[n].begin)]
    /\ UNCHANGED <<quorums, own, pool, stable>>

(* alarm, and standstill_resolution_task wakes up. An alarm while it is at work
   only makes it start over. *)
StartRound(n) ==
    /\ task[n].at = "idle"
    /\ LET P == pool[n]
           T == [Idle EXCEPT !.copy = P.last]
       IN  task' = [task EXCEPT ![n] =
               IF P.last = None THEN Continue(n, P, T, P.begin)
               ELSE [T EXCEPT !.at = "final", !.queue = <<CertMessage(Vote(P.last, "final"))>>]]
    /\ UNCHANGED <<quorums, own, pool, stable>>

(* send, when the quota allows it, and what follows up to the next send:
   CHECK(begin == begin_new || last_final_cert_ != last_final_cert_copy). *)
Send(n, R, C) ==
    /\ task[n].queue # <<>>
    /\ Broadcast(n, Head(task[n].queue), pool[n], R, C)
    /\ LET T == task[n]
           P == pool[n]
       IN  task' = [task EXCEPT ![n] =
               CASE Tail(T.queue) # <<>> -> [T EXCEPT !.queue = Tail(@)]
                 [] OTHER ->
                    IF T.at = "final" THEN Continue(n, P, T, P.begin)
                    ELSE IF T.begin # P.begin /\ P.last = T.copy
                         THEN [Idle EXCEPT !.at = "aborted"]
                         ELSE Continue(n, P, T, T.i + 1)]
    /\ UNCHANGED <<quorums, own, stable>>

(* The network gets well. *)
Stabilize ==
    /\ ~stable /\ stable' = TRUE
    /\ UNCHANGED <<quorums, own, pool, task>>

Round(n) == StartRound(n) \/ \E R \in SUBSET (Nodes \ {n}), C \in SUBSET Nodes : Send(n, R, C)

Next ==
    \/ \E n \in Nodes :
          \/ \E v \in Votes, R \in SUBSET (Nodes \ {n}), C \in SUBSET Nodes :
                BroadcastVote(n, v, R, C)
          \/ Round(n)
    \/ Stabilize

Spec == Init /\ [][Next]_vars

(* The alarm is put off only by a new final slot, the task runs on, and the
   network is good from some point on. *)
FairSpec ==
    /\ Spec
    /\ \A n \in Nodes : WF_vars(StartRound(n) \/ Send(n, Nodes \ {n}, Nodes))
    /\ WF_vars(Stabilize)

-----------------------------------------------------------------------------
(* The task only looks up slots that the pool still tracks, and CHECK(begin ==
   begin_new || ...) never fails, whatever becomes final while it waits for its
   quota. *)
TaskNeverAborts == \A n \in Nodes : task[n].at # "aborted"

(* A certificate that one pool has gets to all, although its broadcasts were lost
   and others are slots behind: again and again there is nothing left to tell. *)
CertificatesSpread ==
    []<>(\A v \in Votes : (\E n \in Nodes : Has(pool[n], v)) => \A p \in Nodes : Has(pool[p], v))

(* Votes of a quorum for the same make their certificate everywhere, although they
   were lost or came when the slot was too far ahead. *)
QuorumSettles ==
    []<>(\A v \in Votes : (\E q \in quorums : \A n \in q : v \in own[n])
                             => \A p \in Nodes : Has(pool[p], v))

=============================================================================
