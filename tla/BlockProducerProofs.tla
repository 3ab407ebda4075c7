------------------------ MODULE BlockProducerProofs ------------------------
(***************************************************************************)
(* The invariants of BlockProducer, for all windows, window sizes and      *)
(* heights. IInv says where each coroutine stands: its slot, what it has   *)
(* signed and published, what its next candidate builds upon, and why a    *)
(* collation that is still running was allowed.                            *)
(***************************************************************************)
EXTENDS BlockProducer, TLAPS

USE ZenonT(20)

Running(w) == pc[w] \in {"begin", "wait", "sign"}

(* The coroutines in the mailbox are those that have not started. *)
Mailbox ==
    /\ \A i \in 1..Len(scheduled) : pc[scheduled[i]] = "scheduled"
    /\ \A i, j \in 1..Len(scheduled) : scheduled[i] = scheduled[j] => i = j

(* A coroutine has the slots of its own window, whatever its `window`. *)
Place(w) ==
    /\ slot[w] \in w..(w + W)
    /\ pc[w] \in {"none", "scheduled"} =>
          slot[w] = w /\ window[w] = None /\ generation[w] = None
    /\ Running(w) => slot[w] < w + W /\ window[w] # None

(* Nothing above the slot, and in it only what awaits its signature. *)
Signatures(w) ==
    /\ \A c \in signed : c.slot \in SlotsOf(w) =>
          /\ c.slot <= slot[w]
          /\ c.slot = slot[w] => pc[w] \in {"sign", "done", "failed"} /\ c = pending[w]
    /\ \A c \in published : c.slot \in SlotsOf(w) => c.slot < slot[w]
    /\ pc[w] = "sign" =>
          pending[w] \in signed /\ pending[w].slot = slot[w] /\ pending[w].state = state[w]

(* What the next candidate is on top of. *)
Tip(w) ==
    pc[w] \in {"begin", "wait"} =>
        IF slot[w] = w
        THEN parent[w] = base[w].parent /\ state[w] = base[w].state
        ELSE \E d \in published :
                d.slot = slot[w] - 1 /\ parent[w] = d.slot /\ state[w] = d.state

Fits(c, w) ==
    IF c.slot = w
    THEN /\ c.parent = base[w].parent /\ c.prev = base[w].state.block
         /\ c.parent = None => c.full
    ELSE \E d \in published :
            d.slot = c.slot - 1 /\ c.parent = d.slot /\ c.prev = d.state.block

Within(n) == n <= IF masterchain THEN consensusFinal + 1 ELSE mcFinal + MaxAhead

(* A collation in progress is of the block on top and was due. *)
Collating(w) ==
    /\ Running(w) /\ generation[w] # None =>
          /\ generation[w] = state[w].block
          /\ parent[w] # None => Within(state[w].seqno + 1) /\ ~state[w].split
          /\ pc[w] = "sign" => parent[w] # None
    /\ pc[w] = "wait" /\ parent[w] = None => generation[w] # None

(* Candidates of ours that are built upon have been published. *)
Known ==
    /\ \A c \in signed : c.parent \in Nat => \E d \in published : d.slot = c.parent
    /\ \A w \in Windows : base[w].parent \in Nat =>
          \E d \in published : d.slot = base[w].parent /\ d.state = base[w].state

Chain(w) ==
    /\ \A c \in published : c.slot \in SlotsOf(w) => Fits(c, w)
    /\ pc[w] = "sign" => Fits(pending[w], w)

Full ==
    \A c \in signed : c.full /\ c.parent # None =>
        /\ Within(c.state.seqno)
        /\ \A d \in signed : d.slot = c.parent => ~d.state.split

(* The actor's window is the last that has started, or its slots have all been
   published by the coroutine that closed it. *)
LastStarted(l) == pc[l] # "none" /\ \A v \in Windows : v > l => pc[v] = "none"

Actor ==
    /\ current # None => LastStarted(current)
    /\ current = None /\ (\E w \in Windows : pc[w] # "none") =>
          \E l, v \in Windows : LastStarted(l) /\ window[v] = l /\ slot[v] = v + W
    /\ \A w \in Windows : window[w] # None => window[w] >= w /\ pc[window[w]] # "none"

IInv ==
    /\ TypeOK /\ Mailbox /\ Known /\ SignsOncePerSlot /\ Full /\ Actor /\ CutShort
    /\ \A w \in Windows :
          Place(w) /\ Signatures(w) /\ Tip(w) /\ Collating(w) /\ Chain(w)

-----------------------------------------------------------------------------
LEMMA Constants ==
    /\ Windows \subseteq Nat /\ Slots \subseteq Nat
    /\ W \in Nat /\ W > 0 /\ MaxAhead \in Nat /\ MaxSeqno \in Nat /\ MaxSeqno > 0
    /\ None \notin Nat /\ Other \notin Nat /\ None # Other
    /\ None \notin Makers /\ None \notin Windows
    /\ \A w \in Windows : SlotsOf(w) \subseteq Slots
    /\ \A c \in Slots : \E w \in Windows : c \in SlotsOf(w)
<1>1. \A w \in Windows : SlotsOf(w) \subseteq Nat
  BY ProducerAssumption, SMTT(20) DEF SlotsOf
<1> QED BY <1>1, ProducerAssumption, SMTT(20) DEF Slots, Makers

(* A slot is of one window. *)
LEMMA SlotOfOneWindow ==
    ASSUME NEW v \in Windows, NEW w \in Windows, NEW s \in SlotsOf(v), s \in SlotsOf(w)
    PROVE  v = w
<1>1. v \in Nat /\ w \in Nat /\ W \in Nat /\ (v < w => v + W <= w) /\ (w < v => w + W <= v)
  BY ProducerAssumption
<1> QED BY <1>1, SMTT(20) DEF SlotsOf

LEMMA Initial == Init => IInv
<1> SUFFICES ASSUME Init PROVE IInv
  OBVIOUS
<1> USE Constants
<1>1. Genesis \in States
  BY SMTT(20) DEF Genesis, States, Makers
<1>2. TypeOK
  BY <1>1, SMTT(20) DEF Init, TypeOK
<1>3. Mailbox /\ Known /\ SignsOncePerSlot /\ Full /\ Actor /\ CutShort
  BY SMTT(20) DEF Init, Mailbox, Known, SignsOncePerSlot, Full, Actor, CutShort
<1>4. ASSUME NEW w \in Windows
      PROVE  Place(w) /\ Signatures(w) /\ Tip(w) /\ Collating(w) /\ Chain(w)
  BY SMTT(20) DEF Init, Place, Signatures, Tip, Collating, Chain, Running
<1> QED BY <1>2, <1>3, <1>4 DEF IInv

(* The state of the coroutines other than w is what it was. *)
Others(w) ==
    \A v \in Windows : v # w =>
        /\ pc'[v] = pc[v] /\ base'[v] = base[v] /\ window'[v] = window[v]
        /\ slot'[v] = slot[v] /\ parent'[v] = parent[v] /\ state'[v] = state[v]
        /\ generation'[v] = generation[v] /\ pending'[v] = pending[v]

(* A candidate c is signed for the slot of w, and state' is what it leads to. *)
LEMMA SignStep ==
    ASSUME IInv, NEW w \in Windows, pc[w] = "wait",
           NEW t \in States, NEW g \in {generation[w], None},
           NEW c \in Candidates, c.slot = slot[w], c.parent = parent[w],
           c.prev = state[w].block, c.state = t,
           c.parent = None => c.full,
           g # None => t = state[w] /\ parent[w] # None,
           c.full => generation[w] # None /\ t.seqno = state[w].seqno + 1,
           Sign(w, c),
           state' = [state EXCEPT ![w] = t],
           generation' = [generation EXCEPT ![w] = g],
           UNCHANGED <<masterchain, current, scheduled, base, window, slot, parent,
                       finalVars, published>>
    PROVE  IInv'
<1> USE Constants
<1>0. /\ TypeOK /\ Mailbox /\ Known /\ SignsOncePerSlot /\ Full /\ Actor /\ CutShort
      /\ \A v \in Windows :
            Place(v) /\ Signatures(v) /\ Tip(v) /\ Collating(v) /\ Chain(v)
  BY DEF IInv
<1>1. /\ pc' = [pc EXCEPT ![w] = "sign"] /\ pending' = [pending EXCEPT ![w] = c]
      /\ signed' = signed \cup {c}
      /\ masterchain' = masterchain /\ current' = current /\ scheduled' = scheduled
      /\ base' = base /\ window' = window /\ slot' = slot /\ parent' = parent
      /\ consensusFinal' = consensusFinal /\ mcFinal' = mcFinal /\ published' = published
  BY DEF Sign, finalVars
<1>2. TypeOK'
  BY <1>0, <1>1 DEF TypeOK
<1>3. /\ Others(w)
      /\ pc'[w] = "sign" /\ pending'[w] = c /\ state'[w] = t /\ generation'[w] = g
      /\ \A v \in Windows : pc'[v] = "none" <=> pc[v] = "none"
  BY <1>0, <1>1 DEF TypeOK, Others
<1>4. Mailbox'
  BY <1>0, <1>1, <1>3, SMTT(20) DEF Mailbox, TypeOK
<1>5. slot[w] \in SlotsOf(w) /\ slot[w] \in Nat /\ slot[w] < w + W
  BY <1>0, SMTT(20) DEF TypeOK, Place, Running, SlotsOf
<1>6. \A d \in signed : d.slot # slot[w]
  BY <1>0, <1>5 DEF Signatures
<1>7. SignsOncePerSlot'
  BY <1>0, <1>1, <1>6, SMTT(20) DEF SignsOncePerSlot
<1>8. parent[w] \in Nat => \E d \in published : d.slot = parent[w] /\ d.state = state[w]
  BY <1>0, SMTT(20) DEF Tip, Known
<1>9. Known'
  BY <1>0, <1>1, <1>8, SMTT(20) DEF Known
<1>10. Full'
  <2>1. ASSUME NEW d \in signed, d.full, d.parent # None
        PROVE  /\ Within(d.state.seqno)'
               /\ \A e \in signed' : e.slot = d.parent => ~e.state.split
    <3>1. Within(d.state.seqno)'
      BY <1>0, <1>1, <2>1, SMTT(20) DEF Full, Within
    <3>2. d.parent # slot[w]
      BY <1>0, <1>5, <1>6 DEF Known, TypeOK
    <3> QED BY <1>0, <1>1, <2>1, <3>1, <3>2 DEF Full
  <2>2. ASSUME c.full, c.parent # None
        PROVE  /\ Within(c.state.seqno)'
               /\ \A e \in signed' : e.slot = c.parent => ~e.state.split
    <3>1. generation[w] # None /\ Within(state[w].seqno + 1) /\ ~state[w].split
      BY <1>0, <2>2 DEF Collating, Running
    <3>2. Within(c.state.seqno)'
      BY <1>1, <2>2, <3>1, SMTT(20) DEF Within
    <3>3. ASSUME NEW e \in signed', e.slot = c.parent PROVE ~e.state.split
      <4>1. e \in signed
        <5>1. c.parent \in Nat
          BY <1>0, <1>1, <3>3 DEF TypeOK, Candidates
        <5>2. PICK d \in published : d.slot = parent[w]
          BY <1>8, <5>1
        <5> QED BY <1>0, <1>1, <1>6, <3>3, <5>2 DEF TypeOK
      <4>2. PICK d \in published : d.slot = parent[w] /\ d.state = state[w]
        BY <1>0, <1>8, <3>3, <4>1 DEF TypeOK, Candidates
      <4>3. d = e
        BY <1>0, <3>3, <4>1, <4>2 DEF SignsOncePerSlot, TypeOK
      <4> QED BY <3>1, <4>2, <4>3
    <3> QED BY <3>2, <3>3
  <2> QED BY <1>1, <2>1, <2>2 DEF Full
<1>11. Actor' /\ CutShort'
  <2>1. \A l \in Windows : LastStarted(l)' <=> LastStarted(l)
    BY <1>3 DEF LastStarted
  <2>2. Actor'
    BY <1>0, <1>1, <1>3, <2>1, SMTT(20) DEF Actor, TypeOK
  <2>3. \A v \in Windows : \A q \in {"done", "failed"} : pc'[v] = q => pc[v] = q
    BY <1>3 DEF Others
  <2> QED BY <1>0, <1>1, <1>3, <2>2, <2>3, SMTT(20) DEF CutShort
<1>12. ASSUME NEW v \in Windows
       PROVE  (Place(v) /\ Signatures(v) /\ Tip(v) /\ Collating(v) /\ Chain(v))'
  <2>1. CASE v = w
    <3>1. Place(v)' /\ Tip(v)'
      BY <1>0, <1>1, <1>3, <1>5, <2>1, SMTT(20) DEF Place, Running, Tip
    <3>2. Signatures(v)'
      BY <1>0, <1>1, <1>3, <1>5, <1>6, <2>1, SMTT(20) DEF Signatures
    <3>3. Collating(v)'
      BY <1>0, <1>1, <1>3, <2>1, SMTT(20) DEF Collating, Running, Within
    <3>4. Fits(c, w)
      BY <1>0, <1>5, SMTT(20) DEF Fits, Tip, Place
    <3>5. Chain(v)'
      BY <1>0, <1>1, <1>3, <2>1, <3>4, SMTT(20) DEF Chain, Fits
    <3> QED BY <3>1, <3>2, <3>3, <3>5
  <2>2. CASE v # w
    <3>1. slot[w] \notin SlotsOf(v)
      BY <1>5, <2>2, SlotOfOneWindow
    <3>2. Place(v)' /\ Tip(v)' /\ Collating(v)'
      BY <1>0, <1>1, <1>3, <2>2, SMTT(20) DEF Others, Place, Running, Tip, Collating, Within
    <3>3. Signatures(v)'
      BY <1>0, <1>1, <1>3, <2>2, <3>1, SMTT(20) DEF Others, Signatures
    <3>4. Chain(v)'
      BY <1>0, <1>1, <1>3, <2>2, SMTT(20) DEF Others, Chain, Fits
    <3> QED BY <3>2, <3>3, <3>4
  <2> QED BY <2>1, <2>2
<1> QED BY <1>2, <1>4, <1>7, <1>9, <1>10, <1>11, <1>12 DEF IInv

(* The coroutine of w ends early: it is not, or not any more, in its window, or the
   signature it waits for fails. *)
LEMMA LeaveStep ==
    ASSUME IInv, NEW w \in Windows, Running(w), NEW p \in {"done", "failed"},
           pc' = [pc EXCEPT ![w] = p],
           p = "done" => ~InWindow(w),
           NEW g \in {generation[w], None},
           generation' = [generation EXCEPT ![w] = g],
           UNCHANGED <<masterchain, current, scheduled, base, window, slot, parent, state,
                       pending, finalVars, signed, published>>
    PROVE  IInv'
<1> USE Constants
<1>0. /\ TypeOK /\ Mailbox /\ Known /\ SignsOncePerSlot /\ Full /\ Actor /\ CutShort
      /\ \A v \in Windows :
            Place(v) /\ Signatures(v) /\ Tip(v) /\ Collating(v) /\ Chain(v)
  BY DEF IInv
<1>1. /\ pc' = [pc EXCEPT ![w] = p]
      /\ masterchain' = masterchain /\ current' = current /\ scheduled' = scheduled
      /\ base' = base /\ window' = window /\ slot' = slot /\ parent' = parent
      /\ state' = state /\ pending' = pending /\ signed' = signed
      /\ consensusFinal' = consensusFinal /\ mcFinal' = mcFinal /\ published' = published
  BY DEF finalVars
<1>2. TypeOK'
  BY <1>0, <1>1, SMTT(20) DEF TypeOK
<1>3. /\ Others(w) /\ pc'[w] = p /\ pc[w] \notin {"none", "scheduled"}
      /\ \A v \in Windows : pc'[v] = "none" <=> pc[v] = "none"
  BY <1>0, <1>1 DEF TypeOK, Others, Running
<1>4. Mailbox'
  BY <1>0, <1>1, <1>3, SMTT(20) DEF Mailbox, TypeOK
<1>5. Known' /\ SignsOncePerSlot' /\ Full'
  BY <1>0, <1>1, SMTT(20) DEF Known, SignsOncePerSlot, Full, Within
<1>6. \A l \in Windows : LastStarted(l)' <=> LastStarted(l)
  BY <1>3 DEF LastStarted
<1>7. Actor'
  BY <1>0, <1>1, <1>3, <1>6, SMTT(20) DEF Actor, TypeOK
<1>8. slot[w] < w + W
  BY <1>0 DEF Place
<1>9. ASSUME p = "done"
      PROVE  \E v \in Windows : v # w /\ ((v > w /\ pc[v] # "none") \/ window[v] = w)
  <2>1. window[w] \in Windows /\ window[w] >= w /\ pc[window[w]] # "none"
    BY <1>0, SMTT(20) DEF Place, Actor, TypeOK
  <2>2. PICK l \in Windows : LastStarted(l) /\ (current = l \/
           \E v \in Windows : window[v] = l /\ slot[v] = v + W)
    BY <1>0, <1>3 DEF Actor, TypeOK
  <2>3. l >= window[w]
    BY <2>1, <2>2, SMTT(20) DEF LastStarted
  <2>4. CASE l = w
    <3>1. current # l
      BY <1>9, <2>1, <2>3, <2>4, SMTT(20) DEF InWindow
    <3> QED BY <1>8, <2>2, <2>4, <3>1, SMTT(20)
  <2>5. CASE l # w
    BY <2>1, <2>2, <2>3, <2>5, SMTT(20) DEF LastStarted
  <2> QED BY <2>4, <2>5
<1>10. CutShort'
  <2>1. ASSUME NEW u \in Windows, pc'[u] = "done", slot'[u] < u + W
        PROVE  \E v \in Windows : v # u /\ ((v > u /\ pc'[v] # "none") \/ window'[v] = u)
    <3>1. CASE u = w
      BY <1>1, <1>3, <1>9, <2>1, <3>1
    <3>2. CASE u # w
      BY <1>0, <1>1, <1>3, <2>1, <3>2, SMTT(20) DEF CutShort, Others
    <3> QED BY <3>1, <3>2
  <2>2. ASSUME NEW u \in Windows, pc'[u] = "failed", slot'[u] < u + W
        PROVE  \A c \in published' : c.slot # slot'[u]
    <3>1. CASE u = w
      <4>1. slot[w] \in SlotsOf(w) /\ slot[w] \in Nat
        BY <1>0, <1>8, SMTT(20) DEF Place, SlotsOf, TypeOK
      <4>2. \A c \in published : c.slot \in SlotsOf(w) => c.slot < slot[w]
        BY <1>0 DEF Signatures
      <4> QED BY <1>1, <3>1, <4>1, <4>2, SMTT(20)
    <3>2. CASE u # w
      <4>1. pc[u] = "failed" /\ slot[u] < u + W
        BY <1>1, <1>3, <2>2, <3>2 DEF Others
      <4> QED BY <1>0, <1>1, <4>1 DEF CutShort
    <3> QED BY <3>1, <3>2
  <2> QED BY <2>1, <2>2 DEF CutShort
<1>11. ASSUME NEW v \in Windows
       PROVE  (Place(v) /\ Signatures(v) /\ Tip(v) /\ Collating(v) /\ Chain(v))'
  <2>1. CASE v = w
    <3>1. Place(v)' /\ Tip(v)' /\ Collating(v)'
      BY <1>0, <1>1, <1>3, <2>1 DEF Place, Running, Tip, Collating
    <3>2. Signatures(v)'
      BY <1>0, <1>1, <1>3, <2>1, SMTT(20) DEF Signatures
    <3>3. Chain(v)'
      BY <1>0, <1>1, <1>3, <2>1, SMTT(20) DEF Chain, Fits
    <3> QED BY <3>1, <3>2, <3>3
  <2>2. CASE v # w
    <3>1. Place(v)' /\ Tip(v)' /\ Collating(v)'
      BY <1>0, <1>1, <1>3, <2>2, SMTT(20) DEF Others, Place, Running, Tip, Collating, Within
    <3>2. Signatures(v)'
      BY <1>0, <1>1, <1>3, <2>2, SMTT(20) DEF Others, Signatures
    <3>3. Chain(v)'
      BY <1>0, <1>1, <1>3, <2>2, SMTT(20) DEF Others, Chain, Fits
    <3> QED BY <3>1, <3>2, <3>3
  <2> QED BY <2>1, <2>2
<1> QED BY <1>2, <1>4, <1>5, <1>7, <1>10, <1>11 DEF IInv

(* The coroutine of w moves between the top of the loop and the wait for the
   collation; a collation may start or fail. *)
LEMMA LoopStep ==
    ASSUME IInv, NEW w \in Windows, pc[w] \in {"begin", "wait"},
           NEW p \in {"begin", "wait"}, pc' = [pc EXCEPT ![w] = p],
           NEW g \in {generation[w], None, state[w].block},
           generation' = [generation EXCEPT ![w] = g],
           g # None /\ generation[w] = None =>
               (g = state[w].block
                /\ (parent[w] # None => Within(state[w].seqno + 1) /\ ~state[w].split)),
           generation[w] # None => g \in {generation[w], None},
           p = "wait" /\ parent[w] = None => g # None,
           UNCHANGED <<masterchain, current, scheduled, base, window, slot, parent, state,
                       pending, finalVars, signed, published>>
    PROVE  IInv'
<1> USE Constants
<1>0. /\ TypeOK /\ Mailbox /\ Known /\ SignsOncePerSlot /\ Full /\ Actor /\ CutShort
      /\ \A v \in Windows :
            Place(v) /\ Signatures(v) /\ Tip(v) /\ Collating(v) /\ Chain(v)
  BY DEF IInv
<1>1. /\ masterchain' = masterchain /\ current' = current /\ scheduled' = scheduled
      /\ base' = base /\ window' = window /\ slot' = slot /\ parent' = parent
      /\ state' = state /\ pending' = pending /\ signed' = signed
      /\ consensusFinal' = consensusFinal /\ mcFinal' = mcFinal /\ published' = published
  BY DEF finalVars
<1>2. TypeOK'
  <2>1. g \in Makers \cup {None}
    BY <1>0, SMTT(20) DEF TypeOK, States
  <2> QED BY <1>0, <1>1, <2>1 DEF TypeOK
<1>3. /\ Others(w) /\ pc'[w] = p /\ generation'[w] = g
      /\ \A v \in Windows : pc'[v] = "none" <=> pc[v] = "none"
  BY <1>0, <1>1 DEF TypeOK, Others
<1>4. Mailbox'
  BY <1>0, <1>1, <1>3, SMTT(20) DEF Mailbox, TypeOK
<1>5. Known' /\ SignsOncePerSlot' /\ Full'
  BY <1>0, <1>1, SMTT(20) DEF Known, SignsOncePerSlot, Full, Within
<1>6. \A l \in Windows : LastStarted(l)' <=> LastStarted(l)
  BY <1>3 DEF LastStarted
<1>7. Actor'
  BY <1>0, <1>1, <1>3, <1>6, SMTT(20) DEF Actor, TypeOK
<1>8. CutShort'
  <2>1. \A v \in Windows : \A q \in {"done", "failed"} : pc'[v] = q => pc[v] = q
    BY <1>3 DEF Others
  <2> QED BY <1>0, <1>1, <1>3, <2>1, SMTT(20) DEF CutShort
<1>9. ASSUME NEW v \in Windows
      PROVE  (Place(v) /\ Signatures(v) /\ Tip(v) /\ Collating(v) /\ Chain(v))'
  <2>1. CASE v = w
    <3>1. Place(v)' /\ Tip(v)'
      BY <1>0, <1>1, <1>3, <2>1, SMTT(20) DEF Place, Running, Tip
    <3>2. Collating(v)'
      BY <1>0, <1>1, <1>3, <2>1, SMTT(20) DEF Collating, Running, Within
    <3>3. Signatures(v)'
      BY <1>0, <1>1, <1>3, <2>1, SMTT(20) DEF Signatures
    <3>4. Chain(v)'
      BY <1>0, <1>1, <1>3, <2>1, SMTT(20) DEF Chain, Fits
    <3> QED BY <3>1, <3>2, <3>3, <3>4
  <2>2. CASE v # w
    <3>1. Place(v)' /\ Tip(v)' /\ Collating(v)'
      BY <1>0, <1>1, <1>3, <2>2, SMTT(20) DEF Others, Place, Running, Tip, Collating, Within
    <3>2. Signatures(v)'
      BY <1>0, <1>1, <1>3, <2>2, SMTT(20) DEF Others, Signatures
    <3>3. Chain(v)'
      BY <1>0, <1>1, <1>3, <2>2, SMTT(20) DEF Others, Chain, Fits
    <3> QED BY <3>1, <3>2, <3>3
  <2> QED BY <2>1, <2>2
<1> QED BY <1>2, <1>4, <1>5, <1>7, <1>8, <1>9 DEF IInv


(* The candidate is published, and the loop goes on with the next slot or ends. *)
LEMMA PublishStep ==
    ASSUME IInv, NEW w \in Windows, pc[w] = "sign", InWindow(w), Published(w)
    PROVE  IInv'
<1> USE Constants
<1>0. /\ TypeOK /\ Mailbox /\ Known /\ SignsOncePerSlot /\ Full /\ Actor /\ CutShort
      /\ \A v \in Windows :
            Place(v) /\ Signatures(v) /\ Tip(v) /\ Collating(v) /\ Chain(v)
  BY DEF IInv
<1>1. /\ published' = published \cup {pending[w]}
      /\ parent' = [parent EXCEPT ![w] = slot[w]]
      /\ slot' = [slot EXCEPT ![w] = slot[w] + 1]
      /\ pc' = [pc EXCEPT ![w] = IF slot[w] + 1 < w + W THEN "begin" ELSE "done"]
      /\ current' = IF slot[w] + 1 < w + W THEN current ELSE None
      /\ masterchain' = masterchain /\ scheduled' = scheduled
      /\ base' = base /\ window' = window /\ generation' = generation
      /\ state' = state /\ pending' = pending /\ signed' = signed
      /\ consensusFinal' = consensusFinal /\ mcFinal' = mcFinal
  BY DEF Published, AfterSignature, finalVars
<1>5. /\ slot[w] \in SlotsOf(w) /\ slot[w] \in Slots /\ slot[w] \in Nat /\ slot[w] < w + W
      /\ w \in Nat /\ slot[w] >= w
  BY <1>0, SMTT(20) DEF TypeOK, Place, Running, SlotsOf
<1>6. pending[w] \in signed /\ pending[w].slot = slot[w] /\ pending[w].state = state[w]
      /\ Fits(pending[w], w)
  BY <1>0 DEF Signatures, Chain
<1>2. TypeOK'
  <2>1. slot[w] \in Makers /\ slot[w] + 1 \in Nat
    BY <1>5, SMTT(20) DEF Makers
  <2> QED BY <1>0, <1>1, <1>6, <2>1 DEF TypeOK
<1>3. /\ Others(w) /\ slot'[w] = slot[w] + 1 /\ parent'[w] = slot[w]
      /\ pc'[w] = IF slot[w] + 1 < w + W THEN "begin" ELSE "done"
      /\ \A v \in Windows : pc'[v] = "none" <=> pc[v] = "none"
  BY <1>0, <1>1 DEF TypeOK, Others
<1>4. Mailbox'
  BY <1>0, <1>1, <1>3, SMTT(20) DEF Mailbox, TypeOK
<1>7. Known' /\ SignsOncePerSlot' /\ Full'
  BY <1>0, <1>1 DEF Known, SignsOncePerSlot, Full, Within
<1>8. \A l \in Windows : LastStarted(l)' <=> LastStarted(l)
  BY <1>3 DEF LastStarted
<1>9. Actor'
  <2>1. PICK k \in Windows : k = current /\ LastStarted(k) /\ window[w] = k
    BY <1>0 DEF InWindow, Place, Running, Actor, TypeOK
  <2>2. LastStarted(k)' /\ window'[w] = k
    BY <1>1, <1>8, <2>1
  <2>3. current' # None => current' = k
    BY <1>1, <2>1
  <2>4. current' = None => slot'[w] = w + W
    BY <1>1, <1>3, <1>5, <2>1, SMTT(20)
  <2>5. \A v \in Windows : window'[v] # None => window'[v] >= v /\ pc'[window'[v]] # "none"
    BY <1>0, <1>1, <1>3 DEF Actor, TypeOK
  <2>6. current' # None => LastStarted(current)'
    BY <2>2, <2>3 DEF LastStarted
  <2> QED BY <2>2, <2>4, <2>5, <2>6 DEF Actor
<1>10. CutShort'
  <2>1. ASSUME NEW u \in Windows, pc'[u] = "done", slot'[u] < u + W
        PROVE  \E v \in Windows : v # u /\ ((v > u /\ pc'[v] # "none") \/ window'[v] = u)
    <3>1. u # w
      BY <1>3, <1>5, <2>1
    <3> QED BY <1>0, <1>1, <1>3, <2>1, <3>1, SMTT(20) DEF CutShort, Others
  <2>2. ASSUME NEW u \in Windows, pc'[u] = "failed", slot'[u] < u + W
        PROVE  \A c \in published' : c.slot # slot'[u]
    <3>1. u # w
      BY <1>3, <2>2
    <3>2. pc[u] = "failed" /\ slot'[u] = slot[u] /\ slot[u] < u + W
      BY <1>3, <2>2, <3>1 DEF Others
    <3>3. slot[u] \in SlotsOf(u)
      BY <1>0, <3>2, SMTT(20) DEF Place, SlotsOf, TypeOK
    <3>4. slot[w] # slot[u]
      BY <1>5, <3>1, <3>3, SlotOfOneWindow
    <3> QED BY <1>0, <1>1, <1>6, <3>2, <3>4 DEF CutShort
  <2> QED BY <2>1, <2>2 DEF CutShort
<1>11. ASSUME NEW v \in Windows
       PROVE  (Place(v) /\ Signatures(v) /\ Tip(v) /\ Collating(v) /\ Chain(v))'
  <2>1. CASE v = w
    <3>1. Place(v)'
      BY <1>0, <1>1, <1>3, <1>5, <2>1, SMTT(20) DEF Place, Running
    <3>2. Tip(v)'
      BY <1>1, <1>3, <1>5, <1>6, <2>1, SMTT(20) DEF Tip
    <3>3. Collating(v)'
      <4>1. slot[w] # None
        BY <1>5
      <4> QED BY <1>0, <1>1, <1>3, <2>1, <4>1 DEF Collating, Running, Within
    <3>4. Signatures(v)'
      <4>1. \A c \in signed : c.slot \in SlotsOf(w) => c.slot <= slot[w] /\ c.slot \in Nat
        BY <1>0 DEF Signatures, SlotsOf
      <4>2. \A c \in published : c.slot \in SlotsOf(w) => c.slot < slot[w] /\ c.slot \in Nat
        BY <1>0 DEF Signatures, SlotsOf
      <4>3. pc'[w] # "sign"
        BY <1>3
      <4> QED BY <1>1, <1>3, <1>5, <1>6, <2>1, <4>1, <4>2, <4>3, SMTT(20) DEF Signatures
    <3>5. Chain(v)'
      BY <1>0, <1>1, <1>3, <1>6, <2>1, SMTT(20) DEF Chain, Fits
    <3> QED BY <3>1, <3>2, <3>3, <3>4, <3>5
  <2>2. CASE v # w
    <3>1. slot[w] \notin SlotsOf(v)
      BY <1>5, <2>2, SlotOfOneWindow
    <3>2. Place(v)' /\ Tip(v)' /\ Collating(v)'
      BY <1>0, <1>1, <1>3, <2>2, SMTT(20) DEF Others, Place, Running, Tip, Collating, Within
    <3>3. Signatures(v)'
      BY <1>0, <1>1, <1>3, <1>6, <2>2, <3>1, SMTT(20) DEF Others, Signatures
    <3>4. Chain(v)'
      BY <1>0, <1>1, <1>3, <1>6, <2>2, <3>1, SMTT(20) DEF Others, Chain, Fits
    <3> QED BY <3>2, <3>3, <3>4
  <2> QED BY <2>1, <2>2
<1> QED BY <1>2, <1>4, <1>7, <1>9, <1>10, <1>11 DEF IInv

(* A window starts. *)
LEMMA WindowStep ==
    ASSUME IInv, NEW w \in Windows, NEW b \in Bases(w), OurLeaderWindowStarted(w, b)
    PROVE  IInv'
<1> USE Constants
<1>0. /\ TypeOK /\ Mailbox /\ Known /\ SignsOncePerSlot /\ Full /\ Actor /\ CutShort
      /\ \A v \in Windows :
            Place(v) /\ Signatures(v) /\ Tip(v) /\ Collating(v) /\ Chain(v)
  BY DEF IInv
<1>1. /\ pc[w] = "none" /\ \A v \in Windows : v > w => pc[v] = "none"
      /\ current' = w /\ scheduled' = Append(scheduled, w)
      /\ pc' = [pc EXCEPT ![w] = "scheduled"] /\ base' = [base EXCEPT ![w] = b]
      /\ masterchain' = masterchain /\ window' = window /\ slot' = slot
      /\ parent' = parent /\ generation' = generation
      /\ state' = state /\ pending' = pending /\ signed' = signed
      /\ consensusFinal' = consensusFinal /\ mcFinal' = mcFinal /\ published' = published
  BY DEF OurLeaderWindowStarted, finalVars
<1>2. TypeOK'
  <2>1. b \in [parent : Makers \cup {None}, state : States]
    <3>1. CASE b = [parent |-> None, state |-> Genesis]
      BY <3>1, SMTT(20) DEF Genesis, States, Makers
    <3>2. ASSUME NEW p \in BOOLEAN,
                 b = [parent |-> Other, state |-> [block |-> Other, seqno |-> 1, split |-> p]]
          PROVE  b \in [parent : Makers \cup {None}, state : States]
      <4>1. 1 \in 0..MaxSeqno
        BY SMTT(20)
      <4> QED BY <3>2, <4>1 DEF States, Makers
    <3>3. ASSUME NEW c \in published, b = [parent |-> c.slot, state |-> c.state]
          PROVE  b \in [parent : Makers \cup {None}, state : States]
      <4>1. c.slot \in Slots /\ c.state \in States
        BY <1>0, SMTT(20) DEF TypeOK, Candidates
      <4> QED BY <3>3, <4>1 DEF Makers
    <3> QED BY <3>1, <3>2, <3>3 DEF Bases
  <2> QED BY <1>0, <1>1, <2>1, SMTT(20) DEF TypeOK
<1>3. /\ Others(w) /\ pc'[w] = "scheduled" /\ base'[w] = b
      /\ \A v \in Windows : pc[v] # "none" => pc'[v] # "none"
  BY <1>0, <1>1 DEF TypeOK, Others
<1>4. Mailbox'
  <2>1. scheduled \in Seq(Windows) /\ Len(scheduled) \in Nat
    BY <1>0, SMTT(20) DEF TypeOK
  <2>2. \A i \in 1..Len(scheduled) : scheduled[i] \in Windows /\ scheduled[i] # w
    BY <1>0, <1>1, <2>1, SMTT(20) DEF Mailbox
  <2>3. /\ Len(scheduled') = Len(scheduled) + 1
        /\ \A i \in 1..Len(scheduled) : scheduled'[i] = scheduled[i]
        /\ scheduled'[Len(scheduled) + 1] = w
    BY <1>1, <2>1, SMTT(20)
  <2>4. \A i \in 1..Len(scheduled') : i \in 1..Len(scheduled) \/ i = Len(scheduled) + 1
    BY <2>1, <2>3, SMTT(20)
  <2>5. \A i \in 1..Len(scheduled') : pc'[scheduled'[i]] = "scheduled"
    <3> TAKE i \in 1..Len(scheduled')
    <3>1. CASE i \in 1..Len(scheduled)
      <4>1. scheduled'[i] = scheduled[i] /\ scheduled[i] \in Windows \ {w}
        BY <2>2, <2>3, <3>1
      <4>2. pc[scheduled[i]] = "scheduled"
        BY <1>0, <3>1 DEF Mailbox
      <4>3. pc'[scheduled[i]] = pc[scheduled[i]]
        BY <1>3, <4>1 DEF Others
      <4> QED BY <4>1, <4>2, <4>3
    <3>2. CASE i = Len(scheduled) + 1
      BY <1>3, <2>3, <3>2
    <3> QED BY <2>4, <3>1, <3>2
  <2>6. \A i, j \in 1..Len(scheduled') : scheduled'[i] = scheduled'[j] => i = j
    BY <1>0, <2>2, <2>3, <2>4 DEF Mailbox
  <2> QED BY <2>5, <2>6 DEF Mailbox
<1>5. Known' /\ SignsOncePerSlot' /\ Full'
  <2>1. b.parent \in Nat => \E d \in published : d.slot = b.parent /\ d.state = b.state
    BY <1>0, SMTT(20) DEF Bases
  <2>2. Known'
    BY <1>0, <1>1, <1>3, <2>1, SMTT(20) DEF Known, Others
  <2> QED BY <1>0, <1>1, <2>2 DEF SignsOncePerSlot, Full, Within
<1>6. Actor'
  <2>1. LastStarted(w)'
    BY <1>1, <1>3, SMTT(20) DEF LastStarted, Others
  <2>2. current' # None
    BY <1>1
  <2>3. \A v \in Windows : window'[v] # None => window'[v] >= v /\ pc'[window'[v]] # "none"
    BY <1>0, <1>1, <1>3 DEF Actor, TypeOK
  <2> QED BY <1>1, <2>1, <2>2, <2>3 DEF Actor, LastStarted
<1>7. CutShort'
  <2>1. \A v \in Windows : \A q \in {"done", "failed"} : pc'[v] = q => pc[v] = q
    BY <1>3 DEF Others
  <2> QED BY <1>0, <1>1, <1>3, <2>1 DEF CutShort
<1>8. ASSUME NEW v \in Windows
      PROVE  (Place(v) /\ Signatures(v) /\ Tip(v) /\ Collating(v) /\ Chain(v))'
  <2>1. CASE v = w
    <3>1. slot[w] = w /\ w \in Nat
      BY <1>0, <1>1 DEF Place
    <3>2. \A c \in published : c.slot \notin SlotsOf(w)
      <4>1. Signatures(w)
        BY <1>0
      <4>2. \A c \in published : c.slot \in SlotsOf(w) => c.slot < w
        BY <3>1, <4>1 DEF Signatures
      <4>3. \A s \in SlotsOf(w) : ~(s < w)
        BY <3>1, SMTT(20) DEF SlotsOf
      <4> QED BY <4>2, <4>3
    <3>3. Place(v)' /\ Tip(v)' /\ Collating(v)'
      BY <1>0, <1>1, <1>3, <2>1 DEF Place, Running, Tip, Collating
    <3>4. Signatures(v)'
      BY <1>0, <1>1, <1>3, <2>1 DEF Signatures
    <3>5. Chain(v)'
      BY <1>1, <1>3, <2>1, <3>2 DEF Chain
    <3> QED BY <3>3, <3>4, <3>5
  <2>2. CASE v # w
    <3>1. Place(v)' /\ Tip(v)' /\ Collating(v)'
      BY <1>0, <1>1, <1>3, <2>2, SMTT(20) DEF Others, Place, Running, Tip, Collating, Within
    <3>2. Signatures(v)'
      BY <1>0, <1>1, <1>3, <2>2 DEF Others, Signatures
    <3>3. Chain(v)'
      BY <1>0, <1>1, <1>3, <2>2, SMTT(20) DEF Others, Chain, Fits
    <3> QED BY <3>1, <3>2, <3>3
  <2> QED BY <2>1, <2>2
<1> QED BY <1>2, <1>4, <1>5, <1>6, <1>7, <1>8 DEF IInv


(* A coroutine starts. *)
LEMMA StartStep ==
    ASSUME IInv, generate_candidates
    PROVE  IInv'
<1> USE Constants
<1>0. /\ TypeOK /\ Mailbox /\ Known /\ SignsOncePerSlot /\ Full /\ Actor /\ CutShort
      /\ \A v \in Windows :
            Place(v) /\ Signatures(v) /\ Tip(v) /\ Collating(v) /\ Chain(v)
  BY DEF IInv
<1>a. scheduled \in Seq(Windows) /\ scheduled # <<>>
  BY <1>0 DEF TypeOK, generate_candidates
<1>b. PICK w \in Windows : w = Head(scheduled) /\ w = scheduled[1]
  <2>1. Len(scheduled) \in Nat /\ Len(scheduled) # 0
    BY <1>a, SMTT(20)
  <2>2. 1 \in 1..Len(scheduled)
    BY <2>1, SMTT(20)
  <2>3. Head(scheduled) = scheduled[1] /\ scheduled[1] \in Windows
    BY <1>a, <2>2, SMTT(20)
  <2> QED BY <2>3
<1>1. /\ pc' = [pc EXCEPT ![w] = IF current = None THEN "done" ELSE "begin"]
      /\ window' = [window EXCEPT ![w] = current]
      /\ state' = [state EXCEPT ![w] = base[w].state]
      /\ parent' = [parent EXCEPT ![w] = base[w].parent]
      /\ scheduled' = Tail(scheduled)
      /\ masterchain' = masterchain /\ current' = current /\ base' = base /\ slot' = slot
      /\ generation' = generation /\ pending' = pending /\ signed' = signed
      /\ consensusFinal' = consensusFinal /\ mcFinal' = mcFinal /\ published' = published
  BY <1>b DEF generate_candidates, finalVars
<1>2. TypeOK'
  <2>1. scheduled' \in Seq(Windows)
    BY <1>a, <1>1, SMTT(20)
  <2>2. base[w].state \in States /\ base[w].parent \in Makers \cup {None}
    BY <1>0 DEF TypeOK
  <2> QED BY <1>0, <1>1, <2>1, <2>2 DEF TypeOK
<1>3. pc[w] = "scheduled" /\ slot[w] = w /\ w \in Nat /\ window[w] = None
      /\ generation[w] = None
  BY <1>0, <1>a, <1>b, SMTT(20) DEF Mailbox, Place
<1>4. /\ Others(w) /\ window'[w] = current /\ state'[w] = base[w].state
      /\ parent'[w] = base[w].parent
      /\ pc'[w] = IF current = None THEN "done" ELSE "begin"
      /\ \A v \in Windows : pc'[v] = "none" <=> pc[v] = "none"
  BY <1>0, <1>1, <1>3 DEF TypeOK, Others
<1>5. Mailbox'
  <2>1. /\ Len(scheduled') = Len(scheduled) - 1 /\ Len(scheduled) \in Nat \ {0}
        /\ \A i \in 1..Len(scheduled') : scheduled'[i] = scheduled[i + 1]
    BY <1>a, <1>1, SMTT(20)
  <2>2. \A i \in 1..Len(scheduled') : i + 1 \in 1..Len(scheduled) /\ i + 1 # 1
    BY <2>1, SMTT(20)
  <2>3. \A i \in 1..Len(scheduled') : scheduled'[i] \in Windows \ {w}
    BY <1>0, <1>a, <1>b, <2>1, <2>2, SMTT(20) DEF Mailbox
  <2>4. \A i \in 1..Len(scheduled') : pc[scheduled'[i]] = "scheduled"
    BY <1>0, <2>1, <2>2, SMTT(20) DEF Mailbox
  <2>5. \A i \in 1..Len(scheduled') : pc'[scheduled'[i]] = "scheduled"
    BY <1>4, <2>3, <2>4 DEF Others
  <2>6. ASSUME NEW i \in 1..Len(scheduled'), NEW j \in 1..Len(scheduled'),
               scheduled'[i] = scheduled'[j]
        PROVE  i = j
    <3>1. i + 1 = j + 1
      BY <1>0, <2>1, <2>2, <2>6 DEF Mailbox
    <3> QED BY <2>1, <3>1, SMTT(20)
  <2> QED BY <2>5, <2>6 DEF Mailbox
<1>6. Known' /\ SignsOncePerSlot' /\ Full'
  BY <1>0, <1>1 DEF Known, SignsOncePerSlot, Full, Within
<1>7. \A l \in Windows : LastStarted(l)' <=> LastStarted(l)
  BY <1>4 DEF LastStarted
<1>8. current # None => current \in Windows /\ LastStarted(current) /\ current >= w
  BY <1>0, <1>3, SMTT(20) DEF TypeOK, Actor, LastStarted
<1>9. Actor'
  <2>1. current' # None => LastStarted(current)'
    <3>1. ASSUME current # None PROVE LastStarted(current)'
      <4>1. PICK k \in Windows : k = current /\ LastStarted(k)
        BY <1>8, <3>1
      <4>2. LastStarted(k)' /\ current' = k
        BY <1>1, <1>7, <4>1
      <4> QED BY <4>2 DEF LastStarted
    <3> QED BY <1>1, <3>1
  <2>2. \A v \in Windows : window'[v] # None => window'[v] >= v /\ pc'[window'[v]] # "none"
    <3> TAKE v \in Windows
    <3>1. CASE v = w
      BY <1>4, <1>8, <3>1 DEF LastStarted
    <3>2. CASE v # w
      <4>1. window'[v] = window[v] /\ window[v] \in Windows \cup {None}
        BY <1>0, <1>4, <3>2 DEF Others, TypeOK
      <4>2. window[v] # None => window[v] >= v /\ pc[window[v]] # "none"
        BY <1>0 DEF Actor
      <4> QED BY <1>4, <4>1, <4>2
    <3> QED BY <3>1, <3>2
  <2>3. ASSUME current = None
        PROVE  \E l, v \in Windows : LastStarted(l)' /\ window'[v] = l /\ slot'[v] = v + W
    <3>1. PICK l \in Windows, v \in Windows :
             LastStarted(l) /\ window[v] = l /\ slot[v] = v + W
      BY <1>0, <1>3, <2>3 DEF Actor
    <3>2. v # w
      BY <1>3, <3>1
    <3> QED BY <1>1, <1>4, <1>7, <3>1, <3>2 DEF Others
  <2> QED BY <1>1, <2>1, <2>2, <2>3 DEF Actor
<1>10. CutShort'
  <2>1. ASSUME NEW u \in Windows, pc'[u] = "done", slot'[u] < u + W
        PROVE  \E v \in Windows : v # u /\ ((v > u /\ pc'[v] # "none") \/ window'[v] = u)
    <3>1. CASE u = w
      <4>1. current = None
        BY <1>4, <2>1, <3>1
      <4>2. PICK l \in Windows, v \in Windows :
               LastStarted(l) /\ window[v] = l /\ slot[v] = v + W
        BY <1>0, <1>3, <4>1 DEF Actor
      <4>3. v # w /\ l >= w
        BY <1>3, <4>2, SMTT(20) DEF LastStarted
      <4>4. CASE l = w
        BY <1>4, <3>1, <4>2, <4>3, <4>4 DEF Others
      <4>5. CASE l > w
        BY <1>4, <3>1, <4>2, <4>5 DEF LastStarted
      <4> QED BY <1>3, <4>3, <4>4, <4>5, SMTT(20)
    <3>2. CASE u # w
      <4>1. pc[u] = "done" /\ slot[u] < u + W
        BY <1>1, <1>4, <2>1, <3>2 DEF Others
      <4>2. PICK v \in Windows : v # u /\ ((v > u /\ pc[v] # "none") \/ window[v] = u)
        BY <1>0, <4>1 DEF CutShort
      <4>3. window[v] = u => window'[v] = u
        BY <1>3, <1>4 DEF Others
      <4> QED BY <1>4, <4>2, <4>3
    <3> QED BY <3>1, <3>2
  <2>2. ASSUME NEW u \in Windows, pc'[u] = "failed", slot'[u] < u + W
        PROVE  \A c \in published' : c.slot # slot'[u]
    <3>1. u # w
      BY <1>4, <2>2
    <3>2. pc[u] = "failed" /\ slot'[u] = slot[u] /\ slot[u] < u + W
      BY <1>1, <1>4, <2>2, <3>1 DEF Others
    <3> QED BY <1>0, <1>1, <3>2 DEF CutShort
  <2> QED BY <2>1, <2>2 DEF CutShort
<1>11. ASSUME NEW v \in Windows
       PROVE  (Place(v) /\ Signatures(v) /\ Tip(v) /\ Collating(v) /\ Chain(v))'
  <2>1. CASE v = w
    <3>1. Place(v)'
      BY <1>0, <1>1, <1>3, <1>4, <2>1, SMTT(20) DEF Place, Running
    <3>2. Tip(v)' /\ Collating(v)'
      BY <1>1, <1>3, <1>4, <2>1, SMTT(20) DEF Tip, Collating, Running
    <3>3. ASSUME NEW c \in signed, c.slot \in SlotsOf(w) PROVE FALSE
      <4>1. c.slot \in Nat /\ c.slot >= w
        BY <1>3, <3>3, SMTT(20) DEF SlotsOf
      <4>2. c.slot <= slot[w] /\ c.slot # slot[w]
        BY <1>0, <1>3, <3>3 DEF Signatures
      <4> QED BY <1>3, <4>1, <4>2, SMTT(20)
    <3>4. Signatures(v)' /\ Chain(v)'
      BY <1>0, <1>1, <1>4, <2>1, <3>3 DEF Signatures, Chain, TypeOK
    <3> QED BY <3>1, <3>2, <3>4
  <2>2. CASE v # w
    <3>1. Place(v)' /\ Tip(v)' /\ Collating(v)'
      BY <1>0, <1>1, <1>4, <2>2, SMTT(20) DEF Others, Place, Running, Tip, Collating, Within
    <3>2. Signatures(v)'
      BY <1>0, <1>1, <1>4, <2>2, SMTT(20) DEF Others, Signatures
    <3>3. Chain(v)'
      BY <1>0, <1>1, <1>4, <2>2, SMTT(20) DEF Others, Chain, Fits
    <3> QED BY <3>1, <3>2, <3>3
  <2> QED BY <2>1, <2>2
<1> QED BY <1>2, <1>5, <1>6, <1>9, <1>10, <1>11 DEF IInv

LEMMA Grows ==
    \A a, b, k, n \in Nat : b >= a /\ n <= a + k => n <= b + k
BY SMTT(20)

(* Blocks become final, which only allows more. *)
LEMMA FinalStep ==
    ASSUME IInv, consensusFinal' \in Nat, mcFinal' \in Nat,
           consensusFinal' >= consensusFinal, mcFinal' >= mcFinal,
           UNCHANGED <<masterchain, current, scheduled, coVars, signed, published>>
    PROVE  IInv'
<1> USE Constants
<1>0. /\ TypeOK /\ Mailbox /\ Known /\ SignsOncePerSlot /\ Full /\ Actor /\ CutShort
      /\ \A v \in Windows :
            Place(v) /\ Signatures(v) /\ Tip(v) /\ Collating(v) /\ Chain(v)
  BY DEF IInv
<1>1. /\ masterchain' = masterchain /\ current' = current /\ scheduled' = scheduled
      /\ pc' = pc /\ base' = base /\ window' = window /\ slot' = slot /\ parent' = parent
      /\ state' = state /\ generation' = generation /\ pending' = pending
      /\ signed' = signed /\ published' = published
  BY DEF coVars
<1>2. TypeOK'
  BY <1>0, <1>1 DEF TypeOK
<1>3. \A n \in Nat : Within(n) => Within(n)'
  <2> TAKE n \in Nat
  <2>0. consensusFinal \in Nat /\ mcFinal \in Nat
    BY <1>0 DEF TypeOK
  <2>1. CASE masterchain
    <3>1. masterchain'
      BY <1>1, <2>1
    <3>2. (Within(n) <=> n <= consensusFinal + 1) /\ (Within(n)' <=> n <= consensusFinal' + 1)
      BY <2>1, <3>1 DEF Within
    <3>3. n <= consensusFinal + 1 => n <= consensusFinal' + 1
      BY <2>0, Grows
    <3> QED BY <3>2, <3>3
  <2>2. CASE ~masterchain
    <3>1. ~masterchain'
      BY <1>1, <2>2, SMTT(20)
    <3>2. (Within(n) <=> n <= mcFinal + MaxAhead) /\ (Within(n)' <=> n <= mcFinal' + MaxAhead)
      BY <2>2, <3>1 DEF Within
    <3>3. n <= mcFinal + MaxAhead => n <= mcFinal' + MaxAhead
      BY <2>0, Grows
    <3> QED BY <3>2, <3>3
  <2> QED BY <2>1, <2>2
<1>4. Mailbox' /\ Known' /\ SignsOncePerSlot' /\ CutShort'
  BY <1>0, <1>1 DEF Mailbox, Known, SignsOncePerSlot, CutShort
<1>5. Actor'
  BY <1>0, <1>1 DEF Actor, LastStarted
<1>6. Full'
  <2>1. \A c \in signed : c.state.seqno \in Nat
    BY <1>0, SMTT(20) DEF TypeOK, Candidates, States
  <2> QED BY <1>0, <1>1, <1>3, <2>1 DEF Full
<1>7. ASSUME NEW v \in Windows
      PROVE  (Place(v) /\ Signatures(v) /\ Tip(v) /\ Collating(v) /\ Chain(v))'
  <2>1. state[v].seqno + 1 \in Nat
    BY <1>0, SMTT(20) DEF TypeOK, States
  <2>2. Collating(v)'
    BY <1>0, <1>1, <1>3, <2>1 DEF Collating, Running
  <2>3. Place(v)' /\ Signatures(v)' /\ Tip(v)'
    BY <1>0, <1>1 DEF Place, Running, Signatures, Tip
  <2>4. Chain(v)'
    BY <1>0, <1>1, SMTT(20) DEF Chain, Fits
  <2> QED BY <2>2, <2>3, <2>4
<1> QED BY <1>2, <1>4, <1>5, <1>6, <1>7 DEF IInv


LEMMA Invariance == Spec => []IInv
<1>1. IInv /\ [Next]_vars => IInv'
  <2> SUFFICES ASSUME IInv, [Next]_vars PROVE IInv'
    OBVIOUS
  <2> USE Constants
  <2>0. TypeOK /\ \A v \in Windows : Place(v) /\ Collating(v)
    BY DEF IInv
  <2>1. ASSUME NEW w \in Windows, NEW b \in Bases(w), OurLeaderWindowStarted(w, b)
        PROVE  IInv'
    BY <2>1, WindowStep
  <2>2. CASE generate_candidates
    BY <2>2, StartStep
  <2>3. ASSUME NEW w \in Windows, Begin(w) PROVE IInv'
    <3>1. pc[w] = "begin" /\ Running(w)
      BY <2>3 DEF Begin, Resumes, Running
    <3>2. CASE ~InWindow(w)
      <4>1. generation' = [generation EXCEPT ![w] = generation[w]]
        BY <2>0, <2>3, <3>2 DEF Begin, TypeOK
      <4> QED BY <2>3, <3>1, <3>2, <4>1, LeaveStep DEF Begin, Leave
    <3>3. CASE InWindow(w)
      <4>1. PICK g \in {generation[w], state[w].block} :
               /\ generation' = [generation EXCEPT ![w] = g]
               /\ generation[w] # None => g = generation[w]
               /\ g # None /\ generation[w] = None =>
                     (g = state[w].block /\ (~should_generate_empty_block(w) \/ is_first_block(w)))
               /\ is_first_block(w) => g # None
        <5>1. state[w].block # None
          BY <2>0, SMTT(20) DEF TypeOK, States
        <5>2. CASE generation[w] = None /\ (~should_generate_empty_block(w) \/ is_first_block(w))
          BY <2>3, <3>3, <5>1, <5>2 DEF Begin
        <5>3. CASE ~(generation[w] = None /\ (~should_generate_empty_block(w) \/ is_first_block(w)))
          BY <2>3, <3>3, <5>3 DEF Begin
        <5> QED BY <5>2, <5>3
      <4>2. ~should_generate_empty_block(w) =>
               Within(state[w].seqno + 1) /\ ~state[w].split
        <5>1. state[w].seqno \in Nat /\ consensusFinal \in Nat /\ mcFinal \in Nat
          BY <2>0, SMTT(20) DEF TypeOK, States
        <5>2. CASE masterchain
          BY <5>1, <5>2, SMTT(20) DEF should_generate_empty_block, Within
        <5>3. CASE ~masterchain
          BY <5>1, <5>3, SMTT(20) DEF should_generate_empty_block, Within
        <5> QED BY <5>2, <5>3
      <4>3. pc' = [pc EXCEPT ![w] = "wait"]
            /\ UNCHANGED <<masterchain, current, scheduled, base, window, slot, parent, state,
                           pending, finalVars, signed, published>>
        BY <2>3, <3>3 DEF Begin
      <4> QED BY <3>1, <4>1, <4>2, <4>3, LoopStep DEF is_first_block
    <3> QED BY <3>2, <3>3
  <2>4. ASSUME NEW w \in Windows, NEW f \in BOOLEAN, Collated(w, f) PROVE IInv'
    <3>1. /\ pc[w] = "wait" /\ Running(w) /\ generation[w] # None
          /\ state[w].seqno < MaxSeqno
          /\ generation' = [generation EXCEPT ![w] = None]
          /\ UNCHANGED <<masterchain, current, scheduled, base, window, slot, parent,
                         finalVars, published>>
      BY <2>4 DEF Collated, Resumes, Running
    <3>2. CASE ~InWindow(w)
      BY <2>4, <3>1, <3>2, LeaveStep DEF Collated, Leave
    <3>3. CASE InWindow(w)
      <4>0. slot[w] \in Slots /\ parent[w] \in Makers \cup {None} /\ generation[w] \in Makers
            /\ state[w].seqno \in 0..MaxSeqno /\ generation[w] = state[w].block
        BY <2>0, <3>1, SMTT(20) DEF TypeOK, Place, Collating, States, SlotsOf, Slots
      <4>1. PICK t : t = [block |-> slot[w], seqno |-> state[w].seqno + 1, split |-> f]
        OBVIOUS
      <4>2. t \in States /\ t.seqno = state[w].seqno + 1
        BY <3>1, <4>0, <4>1, SMTT(20) DEF States, Makers
      <4>3. PICK c : c = [slot |-> slot[w], parent |-> parent[w], full |-> TRUE,
                          prev |-> generation[w], state |-> t]
        OBVIOUS
      <4>4. /\ c \in Candidates /\ c.slot = slot[w] /\ c.parent = parent[w]
            /\ c.prev = state[w].block /\ c.state = t /\ c.full
        BY <4>0, <4>2, <4>3 DEF Candidates
      <4>5. state' = [state EXCEPT ![w] = t] /\ Sign(w, c)
        BY <2>4, <3>3, <4>1, <4>3 DEF Collated
      <4> QED BY <3>1, <4>2, <4>4, <4>5, SignStep
    <3> QED BY <3>2, <3>3
  <2>5. ASSUME NEW w \in Windows, NEW late \in BOOLEAN, NoBlock(w, late) PROVE IInv'
    <3>1. /\ pc[w] = "wait" /\ Running(w)
          /\ generation[w] # None => parent[w] # None
          /\ UNCHANGED <<masterchain, current, scheduled, base, window, slot, parent, state,
                         finalVars, published>>
      BY <2>5 DEF NoBlock, Resumes, Running, is_first_block
    <3>2. PICK g \in {generation[w], None} : generation' = [generation EXCEPT ![w] = g]
      BY <2>5 DEF NoBlock
    <3>3. CASE ~InWindow(w)
      BY <2>5, <3>1, <3>2, <3>3, LeaveStep DEF NoBlock, Leave
    <3>4. CASE InWindow(w)
      <4>a. slot[w] \in Slots
        <5>1. slot[w] \in w..(w + W) /\ slot[w] < w + W
          BY <2>0, <3>1 DEF Place
        <5>2. slot[w] \in SlotsOf(w)
          BY <5>1, ProducerAssumption, SMTT(20) DEF SlotsOf
        <5> QED BY <5>2 DEF Slots
      <4>b. /\ parent[w] \in Makers \cup {None} /\ state[w] \in States
            /\ state[w].block \in Makers
        BY <2>0 DEF TypeOK, States
      <4>c. parent[w] # None
        BY <2>0, <3>1 DEF Collating
      <4>0. /\ slot[w] \in Slots /\ parent[w] \in Makers \cup {None} /\ state[w] \in States
            /\ state[w].block \in Makers /\ parent[w] # None
        BY <4>a, <4>b, <4>c
      <4>1. PICK c : c = EmptyCandidate(w)
        OBVIOUS
      <4>2. /\ c \in Candidates /\ c.slot = slot[w] /\ c.parent = parent[w]
            /\ c.prev = state[w].block /\ c.state = state[w] /\ ~c.full
        BY <4>0, <4>1 DEF Candidates, EmptyCandidate
      <4>3. state' = [state EXCEPT ![w] = state[w]] /\ Sign(w, c)
        BY <2>0, <2>5, <3>1, <3>4, <4>1 DEF NoBlock, TypeOK
      <4> QED BY <3>1, <3>2, <4>0, <4>2, <4>3, SignStep
    <3> QED BY <3>3, <3>4
  <2>6. ASSUME NEW w \in Windows, NEW late \in BOOLEAN, Retry(w, late) PROVE IInv'
    <3>1. /\ pc[w] = "wait" /\ Running(w) /\ generation[w] # None
          /\ UNCHANGED <<masterchain, current, scheduled, base, window, slot, parent, state,
                         pending, finalVars, signed, published>>
      BY <2>6 DEF Retry, Resumes, Running
    <3>2. PICK g \in {generation[w], None} : generation' = [generation EXCEPT ![w] = g]
      BY <2>6 DEF Retry
    <3>3. CASE ~InWindow(w)
      BY <2>6, <3>1, <3>2, <3>3, LeaveStep DEF Retry, Leave
    <3>4. CASE InWindow(w)
      <4>1. pc' = [pc EXCEPT ![w] = "begin"]
        BY <2>6, <3>4 DEF Retry
      <4> QED BY <3>1, <3>2, <4>1, LoopStep
    <3> QED BY <3>3, <3>4
  <2>7. ASSUME NEW w \in Windows, Published(w) PROVE IInv'
    <3>1. pc[w] = "sign" /\ Running(w)
      BY <2>7 DEF Published, AfterSignature, Resumes, Running
    <3>2. CASE InWindow(w)
      BY <2>7, <3>1, <3>2, PublishStep
    <3>3. CASE ~InWindow(w)
      <4>1. /\ Leave(w)
            /\ UNCHANGED <<masterchain, current, scheduled, base, window, slot, parent, state,
                           pending, finalVars, signed, published>>
        BY <2>7, <3>3 DEF Published, AfterSignature
      <4>2. generation' = [generation EXCEPT ![w] = generation[w]]
        BY <2>0, <2>7 DEF Published, AfterSignature, TypeOK
      <4> QED BY <3>1, <3>3, <4>1, <4>2, LeaveStep DEF Leave
    <3> QED BY <3>2, <3>3
  <2>11. ASSUME NEW w \in Windows, SignatureFailed(w) PROVE IInv'
    <3>1. /\ Running(w) /\ pc' = [pc EXCEPT ![w] = "failed"]
          /\ UNCHANGED <<masterchain, current, scheduled, base, window, slot, parent, state,
                         pending, finalVars, signed, published>>
      BY <2>11 DEF SignatureFailed, Resumes, Running
    <3>2. generation' = [generation EXCEPT ![w] = generation[w]]
      BY <2>0, <2>11 DEF SignatureFailed, TypeOK
    <3> QED BY <3>1, <3>2, LeaveStep
  <2>8. ASSUME NEW n \in 1..MaxSeqno, FinalizeBlock(n) PROVE IInv'
    <3>1. consensusFinal' = n /\ mcFinal' = mcFinal /\ n \in Nat /\ mcFinal \in Nat
          /\ consensusFinal \in Nat /\ n > consensusFinal
      BY <2>0, <2>8, SMTT(20) DEF FinalizeBlock, TypeOK
    <3> QED BY <2>8, <3>1, FinalStep, SMTT(20) DEF FinalizeBlock
  <2>9. ASSUME NEW n \in 1..MaxSeqno, BlockFinalizedInMasterchain(n) PROVE IInv'
    <3>1. /\ mcFinal' = n /\ n \in Nat /\ mcFinal \in Nat /\ n > mcFinal
          /\ consensusFinal \in Nat
          /\ consensusFinal' = IF n < consensusFinal THEN consensusFinal ELSE n
      BY <2>0, <2>9, SMTT(20) DEF BlockFinalizedInMasterchain, TypeOK, Max
    <3> QED BY <2>9, <3>1, FinalStep, SMTT(20) DEF BlockFinalizedInMasterchain
  <2>10. CASE UNCHANGED vars
    <3>1. consensusFinal' = consensusFinal /\ mcFinal' = mcFinal
      BY <2>10 DEF vars, finalVars
    <3>2. consensusFinal \in Nat /\ mcFinal \in Nat
      BY <2>0 DEF TypeOK
    <3> QED BY <2>10, <3>1, <3>2, FinalStep, SMTT(20) DEF vars
  <2> QED BY <2>1, <2>2, <2>3, <2>4, <2>5, <2>6, <2>7, <2>8, <2>9, <2>10, <2>11 DEF Next
<1> QED BY <1>1, Initial, PTL DEF Spec

-----------------------------------------------------------------------------
(* The producer never signs two candidates for a slot, however collation,
   signatures and windows overlap. *)
THEOREM NeverSignsTwice == Spec => []SignsOncePerSlot
<1>1. IInv => SignsOncePerSlot
  BY DEF IInv
<1> QED BY <1>1, Invariance, PTL

(* What a window publishes is a chain from its base without gaps, every block
   collated on the one below it. *)
THEOREM WindowsAreChains == Spec => []WindowIsChain
<1>1. IInv => WindowIsChain
  BY DEF IInv, Chain, Fits, WindowIsChain
<1> QED BY <1>1, Invariance, PTL

(* A full candidate keeps the distance to what is final that was looked up before
   its collation started. *)
THEOREM FullCandidatesWithinFinal == Spec => []FullWithinFinal
<1>1. IInv => FullWithinFinal
  BY DEF IInv, Full, Within, FullWithinFinal
<1> QED BY <1>1, Invariance, PTL

(* A window is cut short only by a failed signature, whose candidate is not published,
   by a later window, or by a coroutine that took it for its own. *)
THEOREM ProductionCutShort == Spec => []CutShort
<1>1. IInv => CutShort
  BY DEF IInv
<1> QED BY <1>1, Invariance, PTL

(* The state of the generation coroutines keeps its type; no candidate is of a
   slot outside the windows. *)
THEOREM Typing == Spec => []TypeOK
<1>1. IInv => TypeOK
  BY DEF IInv
<1> QED BY <1>1, Invariance, PTL
=============================================================================
