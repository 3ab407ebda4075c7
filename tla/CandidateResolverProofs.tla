---------------------- MODULE CandidateResolverProofs ----------------------
(***************************************************************************)
(* Proofs about CandidateResolver for every group, any number of requests  *)
(* and any number of crashes.                                              *)
(***************************************************************************)
EXTENDS CandidateResolver, TLAPS

USE ZenonT(20)

Types ==
    /\ candidate \in [Nodes -> BOOLEAN] /\ notar \in [Nodes -> BOOLEAN]
    /\ inDb \in [Nodes -> BOOLEAN]
    /\ store \in [Nodes -> {"idle", "contents", "index", "stored"}]
    /\ req \in [Nodes -> [Requests -> {"idle", "waiting", "answered"}]]
    /\ task \in [Nodes -> {"none", "scheduled", "asking", "cooldown"}]
    /\ ask \in [Nodes -> Asked \cup {None}]
    /\ contents \in [Nodes -> BOOLEAN] /\ index \in [Nodes -> BOOLEAN]
    /\ certSaved \in [Nodes -> BOOLEAN]
    /\ voted \subseteq Nodes

(* The two writes, the answer of StoreCandidate and the vote come in this order. *)
WrittenInOrder ==
    \A n \in Nodes :
        /\ index[n] => contents[n]
        /\ store[n] \in {"index", "stored"} => contents[n]
        /\ store[n] = "stored" => index[n]
        /\ store[n] # "idle" => candidate[n]
        /\ n \in voted => index[n]

(* Only a task that is asking has a request out. *)
AskHasTask == \A n \in Nodes : ask[n] # None => task[n] = "asking"

IInv ==
    /\ Types /\ WrittenInOrder /\ AskHasTask
    /\ IndexedIsReadable /\ VotedCanServe /\ AwaitersHaveTask

LEMMA InitIInv == Init => IInv
BY SMT DEF Init, IInv, Types, WrittenInOrder, AskHasTask, IndexedIsReadable, VotedCanServe,
       AwaitersHaveTask, resolve_awaiters

LEMMA NextTypes ==
    ASSUME Types, [Next]_vars PROVE Types'
<1>1. CASE UNCHANGED vars
  BY <1>1 DEF Types, vars, memVars, diskVars
<1>2. ASSUME NEW n \in Nodes, NEW r \in Requests, ResolveCandidate(n, r) PROVE Types'
  BY <1>2 DEF ResolveCandidate, Types, diskVars
<1>3. ASSUME NEW n \in Nodes,
             StoreCandidate(n) \/ WriteContents(n) \/ WriteIndex(n) \/ Vote(n)
      PROVE  Types'
  <2>1. CASE StoreCandidate(n)
    BY <2>1 DEF StoreCandidate, Types, diskVars, maybe_resume_resolve_awaiters
  <2>2. CASE WriteContents(n)
    BY <2>2 DEF WriteContents, Types
  <2>3. CASE WriteIndex(n)
    BY <2>3 DEF WriteIndex, Types
  <2>4. CASE Vote(n)
    BY <2>4 DEF Vote, Types, memVars
  <2> QED BY <1>3, <2>1, <2>2, <2>3, <2>4
<1>4. ASSUME NEW n \in Nodes, NotarizationObserved(n) PROVE Types'
  BY <1>4 DEF NotarizationObserved, Types, maybe_resume_resolve_awaiters
<1>5. ASSUME NEW n \in Nodes, NEW p \in Nodes, Attempt(n, p) PROVE Types'
  BY <1>5 DEF Attempt, Found, Types, Asked, diskVars
<1>6. ASSUME NEW n \in Nodes, NEW p \in Nodes, Answer(n, p), ask[n] \in Asked PROVE Types'
  BY <1>6 DEF Answer, Types, Asked, diskVars
<1>7. ASSUME NEW n \in Nodes, NEW p \in Nodes, Receive(n, p), ask[n] \in Asked PROVE Types'
  BY <1>7, SMT DEF Receive, Types, Asked, diskVars, maybe_resume_resolve_awaiters
<1>8. ASSUME NEW n \in Nodes, Finish(n) \/ AskFails(n) PROVE Types'
  <2>1. CASE Finish(n)
    BY <2>1 DEF Finish, Types, diskVars, maybe_resume_resolve_awaiters
  <2>2. CASE AskFails(n)
    BY <2>2, SMT DEF AskFails, Types, diskVars, maybe_resume_resolve_awaiters
  <2> QED BY <1>8, <2>1, <2>2
<1>9. ASSUME NEW n \in Nodes, Restart(n) PROVE Types'
  BY <1>9 DEF Restart, Types, diskVars
<1>10. ASSUME NEW n \in Nodes, NEW p \in Nodes, Answer(n, p) \/ Receive(n, p)
       PROVE  ask[n] \in Asked
  BY <1>10 DEF Answer, Receive, Types
<1> QED
  BY <1>1, <1>2, <1>3, <1>4, <1>5, <1>6, <1>7, <1>8, <1>9, <1>10 DEF Next

(* Within a life of n nothing is forgotten. *)
LEMMA NextWritten ==
    ASSUME Types, WrittenInOrder, IndexedIsReadable, VotedCanServe, [Next]_vars
    PROVE  (WrittenInOrder /\ IndexedIsReadable /\ VotedCanServe)'
<1> USE DEF Types, WrittenInOrder, IndexedIsReadable, VotedCanServe
<1>1. CASE UNCHANGED vars
  BY <1>1 DEF vars, memVars, diskVars
<1>2. ASSUME NEW n \in Nodes, NEW r \in Requests, ResolveCandidate(n, r)
      PROVE  (WrittenInOrder /\ IndexedIsReadable /\ VotedCanServe)'
  BY <1>2 DEF ResolveCandidate, diskVars
<1>3. ASSUME NEW n \in Nodes,
             StoreCandidate(n) \/ WriteContents(n) \/ WriteIndex(n) \/ Vote(n)
      PROVE  (WrittenInOrder /\ IndexedIsReadable /\ VotedCanServe)'
  BY <1>3, SMT DEF StoreCandidate, WriteContents, WriteIndex, Vote, diskVars, memVars
<1>4. ASSUME NEW n \in Nodes, NotarizationObserved(n)
      PROVE  (WrittenInOrder /\ IndexedIsReadable /\ VotedCanServe)'
  BY <1>4 DEF NotarizationObserved
<1>5. ASSUME NEW n \in Nodes, NEW p \in Nodes, Attempt(n, p) \/ Answer(n, p)
      PROVE  (WrittenInOrder /\ IndexedIsReadable /\ VotedCanServe)'
  <2>1. CASE Attempt(n, p)
    <3>1. /\ \A m \in Nodes : candidate[m] => candidate'[m]
          /\ UNCHANGED <<inDb, store, diskVars>>
      BY <2>1, SMT DEF Attempt, Found
    <3> QED BY <3>1 DEF diskVars
  <2>2. CASE Answer(n, p)
    <3>1. /\ \A m \in Nodes : candidate[m] => candidate'[m]
          /\ UNCHANGED <<inDb, store, diskVars>>
      BY <2>2, SMT DEF Answer
    <3> QED BY <3>1 DEF diskVars
  <2> QED BY <1>5, <2>1, <2>2
<1>6. ASSUME NEW n \in Nodes, NEW p \in Nodes, Receive(n, p)
      PROVE  (WrittenInOrder /\ IndexedIsReadable /\ VotedCanServe)'
  <2>1. /\ \A m \in Nodes : candidate[m] => candidate'[m]
        /\ UNCHANGED <<inDb, store, diskVars>>
    BY <1>6, SMT DEF Receive
  <2> QED BY <2>1 DEF diskVars
<1>7. ASSUME NEW n \in Nodes, Finish(n) \/ AskFails(n)
      PROVE  (WrittenInOrder /\ IndexedIsReadable /\ VotedCanServe)'
  <2>1. CASE Finish(n)
    <3>1. /\ \A m \in Nodes : candidate[m] => candidate'[m]
          /\ UNCHANGED <<inDb, store, diskVars>>
      BY <2>1 DEF Finish
    <3> QED BY <3>1 DEF diskVars
  <2>2. CASE AskFails(n)
    <3>1. UNCHANGED <<candidate, inDb, store, diskVars>>
      BY <2>2 DEF AskFails
    <3> QED BY <3>1 DEF diskVars
  <2> QED BY <1>7, <2>1, <2>2
<1>8. ASSUME NEW n \in Nodes, Restart(n)
      PROVE  (WrittenInOrder /\ IndexedIsReadable /\ VotedCanServe)'
  BY <1>8, SMT DEF Restart, diskVars
<1> QED BY <1>1, <1>2, <1>3, <1>4, <1>5, <1>6, <1>7, <1>8 DEF Next

(* The awaiters of n after maybe_resume_resolve_awaiters. *)
LEMMA Resumed ==
    ASSUME Types, NEW n \in Nodes, NEW complete \in BOOLEAN,
           maybe_resume_resolve_awaiters(n, complete)
    PROVE  /\ complete => resolve_awaiters(n)' = {}
           /\ ~complete => resolve_awaiters(n)' = resolve_awaiters(n)
           /\ \A m \in Nodes \ {n} : resolve_awaiters(m)' = resolve_awaiters(m)
BY DEF Types, maybe_resume_resolve_awaiters, resolve_awaiters

LEMMA NextAsk ==
    ASSUME Types, AskHasTask, AwaitersHaveTask, [Next]_vars
    PROVE  AskHasTask'
<1> USE DEF Types, AskHasTask
<1>1. CASE UNCHANGED vars
  BY <1>1 DEF vars, memVars
<1>2. ASSUME NEW n \in Nodes, NEW r \in Requests, ResolveCandidate(n, r) PROVE AskHasTask'
  BY <1>2 DEF ResolveCandidate, AwaitersHaveTask
<1>3. ASSUME NEW n \in Nodes,
             \/ StoreCandidate(n) \/ WriteContents(n) \/ WriteIndex(n) \/ Vote(n)
             \/ NotarizationObserved(n)
      PROVE  AskHasTask'
  BY <1>3 DEF StoreCandidate, WriteContents, WriteIndex, Vote, NotarizationObserved, memVars
<1>4. ASSUME NEW n \in Nodes, NEW p \in Nodes, Attempt(n, p) PROVE AskHasTask'
  BY <1>4 DEF Attempt
<1>5. ASSUME NEW n \in Nodes, NEW p \in Nodes, Answer(n, p) PROVE AskHasTask'
  BY <1>5 DEF Answer
<1>6. ASSUME NEW n \in Nodes, NEW p \in Nodes, Receive(n, p) PROVE AskHasTask'
  BY <1>6 DEF Receive
<1>7. ASSUME NEW n \in Nodes, Finish(n) \/ AskFails(n) \/ Restart(n) PROVE AskHasTask'
  BY <1>7 DEF Finish, AskFails, Restart
<1> QED BY <1>1, <1>2, <1>3, <1>4, <1>5, <1>6, <1>7 DEF Next

LEMMA NextAwaiters ==
    ASSUME Types, AskHasTask, AwaitersHaveTask, [Next]_vars
    PROVE  AwaitersHaveTask'
<1> USE DEF Types
<1>1. CASE UNCHANGED vars
  BY <1>1 DEF vars, memVars, AwaitersHaveTask, resolve_awaiters, is_complete
<1>2. ASSUME NEW n \in Nodes, NEW r \in Requests, ResolveCandidate(n, r)
      PROVE  AwaitersHaveTask'
  <2>1. \A m \in Nodes \ {n} : /\ resolve_awaiters(m)' = resolve_awaiters(m)
                               /\ task'[m] = task[m]
    BY <1>2 DEF ResolveCandidate, resolve_awaiters
  <2>2. CASE is_complete(n)
    BY <1>2, <2>1, <2>2, SMT DEF ResolveCandidate, resolve_awaiters, is_complete, AwaitersHaveTask
  <2>3. CASE ~is_complete(n)
    <3>1. resolve_awaiters(n)' # {} /\ task'[n] # "none"
      BY <1>2, <2>3 DEF ResolveCandidate, resolve_awaiters, AwaitersHaveTask
    <3> QED
      BY <1>2, <2>1, <3>1 DEF ResolveCandidate, is_complete, AwaitersHaveTask
  <2> QED BY <2>2, <2>3
<1>3. ASSUME NEW n \in Nodes, StoreCandidate(n) PROVE AwaitersHaveTask'
  BY <1>3, Resumed, SMT DEF StoreCandidate, is_complete, AwaitersHaveTask
<1>4. ASSUME NEW n \in Nodes, WriteContents(n) \/ WriteIndex(n) \/ Vote(n)
      PROVE  AwaitersHaveTask'
  BY <1>4, SMT DEF WriteContents, WriteIndex, Vote, memVars, AwaitersHaveTask, resolve_awaiters,
              is_complete
<1>5. ASSUME NEW n \in Nodes, NotarizationObserved(n) PROVE AwaitersHaveTask'
  BY <1>5, Resumed, SMT DEF NotarizationObserved, is_complete, AwaitersHaveTask
<1>6. ASSUME NEW n \in Nodes, NEW p \in Nodes, Attempt(n, p) PROVE AwaitersHaveTask'
  BY <1>6, SMT DEF Attempt, Found, is_complete, AwaitersHaveTask, resolve_awaiters
<1>7. ASSUME NEW n \in Nodes, NEW p \in Nodes, Answer(n, p) PROVE AwaitersHaveTask'
  BY <1>7, SMT DEF Answer, is_complete, AwaitersHaveTask, resolve_awaiters
<1>8. ASSUME NEW n \in Nodes, NEW p \in Nodes, Receive(n, p) PROVE AwaitersHaveTask'
  <2> DEFINE c == candidate[n] \/ ask[n].reply.candidate
             m == notar[n] \/ ask[n].reply.notar
  <2>1. c \in BOOLEAN /\ m \in BOOLEAN /\ (candidate[n] => c) /\ (notar[n] => m)
        /\ task[n] # "none"
    BY <1>8 DEF Receive, Asked, AskHasTask
  <2>2. /\ candidate'[n] = c /\ notar'[n] = m
        /\ task'[n] = IF c /\ m THEN "none" ELSE "cooldown"
        /\ maybe_resume_resolve_awaiters(n, c /\ m)
        /\ \A q \in Nodes \ {n} : /\ candidate'[q] = candidate[q] /\ notar'[q] = notar[q]
                                  /\ task'[q] = task[q]
    BY <1>8 DEF Receive
  <2> HIDE DEF c, m
  <2>3. /\ (c /\ m) => resolve_awaiters(n)' = {}
        /\ ~(c /\ m) => resolve_awaiters(n)' = resolve_awaiters(n)
        /\ \A q \in Nodes \ {n} : resolve_awaiters(q)' = resolve_awaiters(q)
    BY <2>1, <2>2, Resumed
  <2> QED BY <2>1, <2>2, <2>3, SMT DEF is_complete, AwaitersHaveTask
<1>9. ASSUME NEW n \in Nodes, Finish(n) PROVE AwaitersHaveTask'
  BY <1>9, Resumed DEF Finish, is_complete, AwaitersHaveTask
<1>10. ASSUME NEW n \in Nodes, AskFails(n) PROVE AwaitersHaveTask'
  <2>1. is_complete(n) \in BOOLEAN /\ task[n] # "none"
    BY <1>10 DEF AskFails, is_complete, AskHasTask
  <2>2. /\ is_complete(n) => resolve_awaiters(n)' = {}
        /\ ~is_complete(n) => resolve_awaiters(n)' = resolve_awaiters(n)
        /\ \A m \in Nodes \ {n} : resolve_awaiters(m)' = resolve_awaiters(m)
    BY <1>10, <2>1, Resumed DEF AskFails
  <2> QED BY <1>10, <2>1, <2>2 DEF AskFails, is_complete, AwaitersHaveTask
<1>11. ASSUME NEW n \in Nodes, Restart(n) PROVE AwaitersHaveTask'
  BY <1>11 DEF Restart, is_complete, AwaitersHaveTask, resolve_awaiters
<1> QED
  BY <1>1, <1>2, <1>3, <1>4, <1>5, <1>6, <1>7, <1>8, <1>9, <1>10, <1>11 DEF Next

LEMMA Invariance == Spec => []IInv
<1>1. IInv /\ [Next]_vars => IInv'
  BY NextTypes, NextWritten, NextAsk, NextAwaiters DEF IInv
<1> QED BY InitIInv, <1>1, PTL DEF Spec

(* resolve_awaiters and resolve_candidate_task agree at every step: whatever completes
   the entry, no awaiter is left without a task and no task works for nobody. *)
THEOREM AwaitersAlwaysHaveTask == Spec => []AwaitersHaveTask
<1>1. IInv => AwaitersHaveTask
  BY DEF IInv
<1> QED BY Invariance, <1>1, PTL

(* Wherever store_candidate is cut short by a crash, the value that
   try_load_candidate_data_from_db unwraps is there. *)
THEOREM IndexedAlwaysReadable == Spec => []IndexedIsReadable
<1>1. IInv => IndexedIsReadable
  BY DEF IInv
<1> QED BY Invariance, <1>1, PTL

(* Whoever voted for a candidate can serve it, now and after any crash: the vote waits
   for StoreCandidate, which waits for both writes. *)
THEOREM VotersCanServe == Spec => []VotedCanServe
<1>1. IInv => VotedCanServe
  BY DEF IInv
<1> QED BY Invariance, <1>1, PTL

=============================================================================
