-------------------------- MODULE CandidateResolver --------------------------
(***************************************************************************)
(* CandidateResolverImpl (simplex/candidate-resolver.cpp) of the honest    *)
(* validators of a group, for one candidate: state_ is a map by candidate  *)
(* id and nothing relates its entries. A validator stores the candidate    *)
(* before it votes for it; one that lacks the candidate or its             *)
(* notarization certificate asks a random peer, again and again.           *)
(*                                                                         *)
(* Requests and answers may be lost, a peer may refuse (rate limit) or     *)
(* have nothing to say, and a validator may crash between any two steps.   *)
(* A Byzantine peer can do no more than that: an answer that does not      *)
(* match the request or does not verify is dropped. The group has more     *)
(* than one validator.                                                     *)
(***************************************************************************)
EXTENDS Naturals

CONSTANTS
    Nodes,       \* the honest validators
    Resolvers,   \* those whose StateResolver asks for the candidate
    Requests,    \* the requests it may make in one life of the process
    Quorums,     \* the honest members of the quorums of the group
    MaxCrashes,  \* bound on the crashes of a behaviour
    None

ASSUME ResolverAssumption ==
    /\ Resolvers \subseteq Nodes
    /\ Quorums \subseteq SUBSET Nodes /\ {} \notin Quorums
    /\ MaxCrashes \in Nat

VARIABLES
    candidate, notar,  \* candidate_and_cert: what is in memory
    inDb,              \* candidate_in_db: indexed in the snapshot of start_up
    store,             \* how far StoreCandidate has come in this life
    req,               \* requests; those "waiting" are resolve_awaiters
    task,              \* where resolve_candidate_task stands
    ask,               \* the request on its way to a peer, and the answer
    contents, index,   \* the two keys of the candidate on disk
    certSaved,         \* the certificate Pool has on disk
    voted,             \* validators whose notarization vote is on disk
    crashes

memVars == <<candidate, notar, inDb, store, req, task, ask>>
diskVars == <<contents, index, certSaved, voted>>
vars == <<memVars, diskVars, crashes>>

Asked == [peer : Nodes, candidate : BOOLEAN, notar : BOOLEAN,
          reply : [candidate : BOOLEAN, notar : BOOLEAN] \cup {None}]

TypeOK ==
    /\ candidate \in [Nodes -> BOOLEAN] /\ notar \in [Nodes -> BOOLEAN]
    /\ inDb \in [Nodes -> BOOLEAN]
    /\ store \in [Nodes -> {"idle", "contents", "index", "stored"}]
    /\ req \in [Nodes -> [Requests -> {"idle", "waiting", "answered"}]]
    /\ task \in [Nodes -> {"none", "scheduled", "asking", "cooldown"}]
    /\ ask \in [Nodes -> Asked \cup {None}]
    /\ contents \in [Nodes -> BOOLEAN] /\ index \in [Nodes -> BOOLEAN]
    /\ certSaved \in [Nodes -> BOOLEAN]
    /\ voted \subseteq Nodes
    /\ crashes \in 0..MaxCrashes

Init ==
    /\ candidate = [n \in Nodes |-> FALSE] /\ notar = [n \in Nodes |-> FALSE]
    /\ inDb = [n \in Nodes |-> FALSE]
    /\ store = [n \in Nodes |-> "idle"]
    /\ req = [n \in Nodes |-> [r \in Requests |-> "idle"]]
    /\ task = [n \in Nodes |-> "none"]
    /\ ask = [n \in Nodes |-> None]
    /\ contents = [n \in Nodes |-> FALSE] /\ index = [n \in Nodes |-> FALSE]
    /\ certSaved = [n \in Nodes |-> FALSE]
    /\ voted = {}
    /\ crashes = 0

-----------------------------------------------------------------------------
is_complete(n) == candidate[n] /\ notar[n]
resolve_awaiters(n) == {r \in Requests : req[n][r] = "waiting"}

(* Answers the awaiters of n when what it has is complete. *)
maybe_resume_resolve_awaiters(n, complete) ==
    req' = [req EXCEPT ![n] = [r \in Requests |->
        IF complete /\ req[n][r] = "waiting" THEN "answered" ELSE req[n][r]]]

(* Starts the task only for a request that is the very first. *)
ResolveOnce(n, r) ==
    /\ req[n][r] = "idle"
    /\ req' = [req EXCEPT ![n][r] = IF is_complete(n) THEN "answered" ELSE "waiting"]
    /\ task' = [task EXCEPT ![n] =
                   IF ~is_complete(n) /\ \A q \in Requests \ {r} : req[n][q] = "waiting"
                   THEN "scheduled" ELSE @]
    /\ UNCHANGED <<candidate, notar, inDb, store, ask, diskVars, crashes>>

(* process(ResolveCandidate): only the first awaiter starts the task. *)
ResolveCandidate(n, r) ==
    /\ req[n][r] = "idle"
    /\ req' = [req EXCEPT ![n][r] = IF is_complete(n) THEN "answered" ELSE "waiting"]
    /\ task' = [task EXCEPT ![n] =
                   IF ~is_complete(n) /\ resolve_awaiters(n) = {} THEN "scheduled" ELSE @]
    /\ UNCHANGED <<candidate, notar, inDb, store, ask, diskVars, crashes>>

(* process(StoreCandidate), published once in a life of the process, by
   try_notarize; the first write is on its way when it suspends. *)
StoreCandidate(n) ==
    /\ store[n] = "idle"
    /\ candidate' = [candidate EXCEPT ![n] = TRUE]
    /\ maybe_resume_resolve_awaiters(n, notar[n])
    /\ store' = [store EXCEPT ![n] = "contents"]
    /\ UNCHANGED <<notar, inDb, task, ask, diskVars, crashes>>

(* Writes the index of the candidates before the candidate itself. *)
IndexFirst(n) ==
    /\ store[n] = "contents"
    /\ index' = [index EXCEPT ![n] = TRUE]
    /\ store' = [store EXCEPT ![n] = "index"]
    /\ UNCHANGED <<candidate, notar, inDb, req, task, ask, contents, certSaved, voted, crashes>>

(* store_candidate: the candidate is on disk. *)
WriteContents(n) ==
    /\ store[n] = "contents"
    /\ contents' = [contents EXCEPT ![n] = TRUE]
    /\ store' = [store EXCEPT ![n] = "index"]
    /\ UNCHANGED <<candidate, notar, inDb, req, task, ask, index, certSaved, voted, crashes>>

(* Answers StoreCandidate without waiting for the index. *)
IndexNotAwaited(n) ==
    /\ store[n] = "index"
    /\ store' = [store EXCEPT ![n] = "stored"]
    /\ UNCHANGED <<candidate, notar, inDb, req, task, ask, diskVars, crashes>>

(* store_candidate: the index is on disk, and StoreCandidate is answered. *)
WriteIndex(n) ==
    /\ store[n] = "index"
    /\ index' = [index EXCEPT ![n] = TRUE]
    /\ store' = [store EXCEPT ![n] = "stored"]
    /\ UNCHANGED <<candidate, notar, inDb, req, task, ask, contents, certSaved, voted, crashes>>

(* External: try_notarize votes once StoreCandidate is answered. *)
Vote(n) ==
    /\ store[n] = "stored"
    /\ n \notin voted
    /\ voted' = voted \cup {n}
    /\ UNCHANGED <<memVars, contents, index, certSaved, crashes>>

Certified == \E Q \in Quorums : Q \subseteq voted

(* handle(NotarizationObserved): Pool has the certificate on disk. *)
NotarizationObserved(n) ==
    /\ Certified
    /\ ~certSaved[n]
    /\ certSaved' = [certSaved EXCEPT ![n] = TRUE]
    /\ notar' = [notar EXCEPT ![n] = TRUE]
    /\ maybe_resume_resolve_awaiters(n, candidate[n])
    /\ UNCHANGED <<candidate, inDb, store, task, ask, contents, index, voted, crashes>>

-----------------------------------------------------------------------------
(* resolve_candidate_task and its loop. *)

(* What the task finds: when it starts it looks into the database. *)
Found(n) == candidate[n] \/ (task[n] = "scheduled" /\ inDb[n])

(* The task goes round its loop: it asks peer p for what is missing. *)
Attempt(n, p) ==
    /\ task[n] \in {"scheduled", "cooldown"}
    /\ ~(Found(n) /\ notar[n])
    /\ candidate' = [candidate EXCEPT ![n] = Found(n)]
    /\ task' = [task EXCEPT ![n] = "asking"]
    /\ ask' = [ask EXCEPT ![n] = [peer |-> p, candidate |-> ~Found(n),
                                  notar |-> ~notar[n], reply |-> None]]
    /\ UNCHANGED <<notar, inDb, store, req, diskVars, crashes>>

(* The task finds everything there and ends. *)
Finish(n) ==
    /\ task[n] \in {"scheduled", "cooldown"}
    /\ Found(n) /\ notar[n]
    /\ candidate' = [candidate EXCEPT ![n] = TRUE]
    /\ task' = [task EXCEPT ![n] = "none"]
    /\ maybe_resume_resolve_awaiters(n, TRUE)
    /\ UNCHANGED <<notar, inDb, store, ask, diskVars, crashes>>

(* process(IncomingOverlayRequest) at p, which may have to load the candidate. *)
Answer(n, p) ==
    /\ ask[n] # None
    /\ ask[n].peer = p /\ ask[n].reply = None
    /\ LET has == candidate[p] \/ (ask[n].candidate /\ inDb[p]) IN
          /\ candidate' = [candidate EXCEPT ![p] = has]
          /\ ask' = [ask EXCEPT ![n].reply = [candidate |-> ask[n].candidate /\ has,
                                              notar |-> ask[n].notar /\ notar[p]]]
    /\ UNCHANGED <<notar, inDb, store, req, task, diskVars, crashes>>

(* Ends the task with the answer, complete or not, and tells the awaiters
   nothing of an incomplete one. *)
ReceiveGivesUp(n, p) ==
    /\ ask[n] # None
    /\ ask[n].peer = p /\ ask[n].reply # None
    /\ LET c == candidate[n] \/ ask[n].reply.candidate
           m == notar[n] \/ ask[n].reply.notar
       IN /\ candidate' = [candidate EXCEPT ![n] = c]
          /\ notar' = [notar EXCEPT ![n] = m]
          /\ task' = [task EXCEPT ![n] = "none"]
          /\ maybe_resume_resolve_awaiters(n, c /\ m)
    /\ ask' = [ask EXCEPT ![n] = None]
    /\ UNCHANGED <<inDb, store, diskVars, crashes>>

(* The answer is merged: the task ends, or waits before it tries again. *)
Receive(n, p) ==
    /\ ask[n] # None
    /\ ask[n].peer = p /\ ask[n].reply # None
    /\ LET c == candidate[n] \/ ask[n].reply.candidate
           m == notar[n] \/ ask[n].reply.notar
       IN /\ candidate' = [candidate EXCEPT ![n] = c]
          /\ notar' = [notar EXCEPT ![n] = m]
          /\ task' = [task EXCEPT ![n] = IF c /\ m THEN "none" ELSE "cooldown"]
          /\ maybe_resume_resolve_awaiters(n, c /\ m)
    /\ ask' = [ask EXCEPT ![n] = None]
    /\ UNCHANGED <<inDb, store, diskVars, crashes>>

(* The request fails: lost, refused, answered too late or with garbage. *)
AskFails(n) ==
    /\ ask[n] # None
    /\ task' = [task EXCEPT ![n] = IF is_complete(n) THEN "none" ELSE "cooldown"]
    /\ maybe_resume_resolve_awaiters(n, is_complete(n))
    /\ ask' = [ask EXCEPT ![n] = None]
    /\ UNCHANGED <<candidate, notar, inDb, store, diskVars, crashes>>

(* A crash, then start_up's load_from_db. *)
Restart(n) ==
    /\ crashes < MaxCrashes
    /\ crashes' = crashes + 1
    /\ candidate' = [candidate EXCEPT ![n] = FALSE]
    /\ notar' = [notar EXCEPT ![n] = certSaved[n]]
    /\ inDb' = [inDb EXCEPT ![n] = index[n]]
    /\ store' = [store EXCEPT ![n] = "idle"]
    /\ req' = [req EXCEPT ![n] = [r \in Requests |-> "idle"]]
    /\ task' = [task EXCEPT ![n] = "none"]
    /\ ask' = [ask EXCEPT ![n] = None]
    /\ UNCHANGED diskVars

Next ==
    \E n \in Nodes :
        \/ n \in Resolvers /\ \E r \in Requests : ResolveCandidate(n, r)
        \/ StoreCandidate(n) \/ WriteContents(n) \/ WriteIndex(n) \/ Vote(n)
        \/ NotarizationObserved(n)
        \/ \E p \in Nodes \ {n} : Attempt(n, p) \/ Answer(n, p) \/ Receive(n, p)
        \/ Finish(n) \/ AskFails(n) \/ Restart(n)

Spec == Init /\ [][Next]_vars

(* The task keeps running and requests time out. A random peer is every peer
   again and again, and of the requests to a peer some are answered in time. *)
FairSpec ==
    /\ Spec
    /\ \A n \in Resolvers :
          /\ WF_vars(Finish(n) \/ AskFails(n))
          /\ \A p \in Nodes \ {n} :
                /\ SF_vars(Attempt(n, p))
                /\ SF_vars(Answer(n, p))
                /\ SF_vars(Receive(n, p))

-----------------------------------------------------------------------------
(* Whoever waits for a candidate has a task working for it, and a task that has
   not found everything has somebody waiting: no awaiter is left behind by a
   task that just ended and no second task is started for the same candidate,
   whichever of StoreCandidate, NotarizationObserved, a peer's answer or a
   peer's own request completes the entry (resolve_awaiters.size() == 1). *)
AwaitersHaveTask ==
    \A n \in Nodes :
        /\ resolve_awaiters(n) # {} => task[n] # "none"
        /\ task[n] # "none" /\ ~is_complete(n) => resolve_awaiters(n) # {}

(* The index promises a candidate that is there: try_load_candidate_data_from_db
   takes .value() of what the database returns, after a crash between the two
   writes of store_candidate as well. *)
IndexedIsReadable == \A n \in Nodes : inDb[n] => contents[n]

(* A validator that voted for the candidate can hand it to whoever asks, now and
   after any crash: the vote waits for both writes. *)
VotedCanServe == \A n \in voted : candidate[n] \/ inDb[n]

(* Once the candidate is notarized, and an honest validator has the certificate,
   every request to resolve it is answered, unless the process dies first. *)
NotarizedIsResolved ==
    \A n \in Resolvers, r \in Requests :
        req[n][r] = "waiting" /\ (\E q \in Nodes : certSaved[q])
            ~> req[n][r] # "waiting"

=============================================================================
