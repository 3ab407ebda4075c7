------------------------- MODULE SimplexPoolProofs -------------------------
(***************************************************************************)
(* The bookkeeping of PoolImpl is right for every number of slots, every   *)
(* set of candidates and certificates that SimplexProtocol allows, every   *)
(* window length and any number of crashes.                                *)
(*                                                                         *)
(* A certificate changes one slot and what follows from it for the first   *)
(* slot after it that is not skipped. So the lemmas say what that slot is  *)
(* (RunEnd, NextSlot) and what the ends of the runs and the best bases     *)
(* become with one certificate more (SkipRuns, NotarBest, SkipBest,        *)
(* FinalBest); they are about sets of certificates, not about states. The  *)
(* inductive invariant IInv adds to the properties that a certificate is   *)
(* handled once, that slots below now are decided (so the present slot has *)
(* a base, HasBase) and that nonannounced is beyond all announcements.     *)
(***************************************************************************)
EXTENDS SimplexPool, TLAPS

USE ZenonT(20)

ParentIds == Candidates \cup {Genesis}

(* I holds the ends of the runs of skipped slots of S. *)
Runs(S, I) == I = {e \in 1..N : Skipped(S, e - 1) /\ ~Skipped(S, e)}

(* What can be built on in slot s: BasesFor for any certificates S, with the
   first slot f after the last finalized block l. *)
Bases(S, f, l, s) ==
    {p \in ParentIds :
        /\ p = l \/ \E x \in S : x.type = "notar" /\ x.id = p
        /\ f <= NextAfter(p) /\ NextAfter(p) <= s
        /\ \A t \in NextAfter(p)..(s - 1) : Skipped(S, t)}

(* b is the best of B, or None. *)
BestOf(b, B) == IF B = {} THEN b = None
                ELSE b \in B /\ \A p \in B : NextAfter(p) <= NextAfter(b)

(* bs has the best base of every slot that is not skipped. *)
Best(S, f, l, bs) ==
    \A s \in 0..N : s >= f /\ ~Skipped(S, s) => BestOf(bs[s], Bases(S, f, l, s))

(* n is the first slot after s that is not skipped. *)
FirstAfter(S, s, n) ==
    /\ n \in (s + 1)..N /\ ~Skipped(S, n)
    /\ \A t \in (s + 1)..(n - 1) : Skipped(S, t)

(* Going up or down from any slot, the slots of D end. *)
Ends(D) ==
    \A s \in 0..N : /\ \E e \in s..N : e \notin D /\ \A t \in s..(e - 1) : t \in D
                    /\ \E k \in 0..s : (k = 0 \/ k - 1 \notin D) /\ \A t \in k..(s - 1) : t \in D

SkippedIn(S) == {t \in 0..N : Skipped(S, t)}
DecidedIn(S) == {t \in 0..N : Notarized(S, t) \/ Skipped(S, t)}
RunsEnd(S) == Ends(SkippedIn(S)) /\ Ends(DecidedIn(S))

-----------------------------------------------------------------------------
LEMMA Constants ==
    /\ N \in Nat /\ W \in Nat /\ W > 0 /\ Slots \subseteq Nat
    /\ \A s \in Slots : s \in 0..N /\ s + 1 \in 0..N /\ s < N
    /\ \A c \in Candidates : SlotOf[c] \in Slots /\ ParentOf[c] \in ParentIds
    /\ \A p \in ParentIds : NextAfter(p) \in 0..N /\ p # None
    /\ \A c \in Candidates : c # Genesis /\ c # None /\ NextAfter(c) = SlotOf[c] + 1
    /\ NextAfter(Genesis) = 0
BY PoolAssumption, SMTT(20) DEF Slots, ParentIds, NextAfter

(* The certificate of a type, slot and candidate. *)
LEMMA CertShape ==
    ASSUME NEW x \in Certs
    PROVE  /\ x.slot \in Slots
           /\ \/ x.type = "notar" /\ x.id \in Candidates /\ x.slot = SlotOf[x.id] /\ x = Notar(x.id)
              \/ x.type = "skip" /\ x = Skip(x.slot)
              \/ x.type = "final" /\ x.id \in Candidates /\ x.slot = SlotOf[x.id] /\ x = Final(x.id)
<1>1. CASE \E c \in Candidates : x = Notar(c)
  BY <1>1, Constants, SMTT(20) DEF Notar
<1>2. CASE \E s \in Slots : x = Skip(s)
  BY <1>2, SMTT(20) DEF Skip
<1>3. CASE \E c \in Candidates : x = Final(c)
  BY <1>3, Constants, SMTT(20) DEF Final
<1> QED BY <1>1, <1>2, <1>3 DEF Certs

(* The slots that are skipped. *)
LEMMA SkippedSlots ==
    ASSUME NEW S \in SUBSET Certs, NEW t
    PROVE  /\ Skipped(S, t) => t \in Slots /\ Skip(t) \in S
           /\ Skip(t) \in S => Skipped(S, t)
           /\ Notarized(S, t) => t \in Slots
<1>1. Skipped(S, t) => t \in Slots /\ Skip(t) \in S
  BY CertShape DEF Skipped
<1>2. Skip(t) \in S => Skipped(S, t)
  BY DEF Skipped, Skip
<1>3. Notarized(S, t) => t \in Slots
  BY CertShape DEF Notarized
<1> QED BY <1>1, <1>2, <1>3

(* A run of slots ends, whatever slots are added to it one by one, or removed from below. *)
LEMMA EndsMore ==
    ASSUME NEW D, Ends(D), NEW x \in Nat, x + 1 \in 0..N
    PROVE  Ends(D \cup {x})
<1> SUFFICES ASSUME NEW s \in 0..N
             PROVE  /\ \E e \in s..N : e \notin D \cup {x} /\ \A t \in s..(e - 1) : t \in D \cup {x}
                    /\ \E k \in 0..s : /\ k = 0 \/ k - 1 \notin D \cup {x}
                                       /\ \A t \in k..(s - 1) : t \in D \cup {x}
  BY DEF Ends
<1>1. \E e \in s..N : e \notin D \cup {x} /\ \A t \in s..(e - 1) : t \in D \cup {x}
  <2>1. PICK e \in s..N : e \notin D /\ \A t \in s..(e - 1) : t \in D
    BY DEF Ends
  <2>2. PICK d \in (x + 1)..N : d \notin D /\ \A t \in (x + 1)..(d - 1) : t \in D
    BY DEF Ends
  <2>3. CASE e = x
    <3>1. d \in s..N /\ d \notin D \cup {x}
      BY <2>2, <2>3, Constants, SMTT(20)
    <3>2. \A t \in s..(d - 1) : t = x \/ t \in s..(e - 1) \/ t \in (x + 1)..(d - 1)
      BY <2>3, Constants, SMTT(20)
    <3> QED BY <2>1, <2>2, <3>1, <3>2
  <2> QED BY <2>1, <2>3
<1>2. \E k \in 0..s : /\ k = 0 \/ k - 1 \notin D \cup {x}
                      /\ \A t \in k..(s - 1) : t \in D \cup {x}
  <2>1. PICK k \in 0..s : (k = 0 \/ k - 1 \notin D) /\ \A t \in k..(s - 1) : t \in D
    BY DEF Ends
  <2>2. PICK j \in 0..x : (j = 0 \/ j - 1 \notin D) /\ \A t \in j..(x - 1) : t \in D
    <3>1. x \in 0..N
      BY Constants, SMTT(20)
    <3> QED BY <3>1 DEF Ends
  <2>3. CASE k = x + 1
    <3>1. j \in 0..s /\ j - 1 # x
      BY <2>3, Constants, SMTT(20)
    <3>2. \A t \in j..(s - 1) : t = x \/ t \in j..(x - 1) \/ t \in k..(s - 1)
      BY <2>3, Constants, SMTT(20)
    <3> QED BY <2>1, <2>2, <3>1, <3>2
  <2>4. CASE k # x + 1
    <3>1. k = 0 \/ k - 1 # x
      BY <2>4, SMTT(20)
    <3> QED BY <2>1, <3>1
  <2> QED BY <2>3, <2>4
<1> QED BY <1>1, <1>2

LEMMA EndsAbove ==
    ASSUME NEW D, Ends(D), NEW x \in Nat
    PROVE  Ends({t \in D : t > x})
<1> DEFINE E == {t \in D : t > x}
<1> SUFFICES ASSUME NEW s \in 0..N
             PROVE  /\ \E e \in s..N : e \notin E /\ \A t \in s..(e - 1) : t \in E
                    /\ \E k \in 0..s : (k = 0 \/ k - 1 \notin E) /\ \A t \in k..(s - 1) : t \in E
  BY DEF Ends
<1>1. \E e \in s..N : e \notin E /\ \A t \in s..(e - 1) : t \in E
  <2>1. PICK e \in s..N : e \notin D /\ \A t \in s..(e - 1) : t \in D
    BY DEF Ends
  <2>2. CASE s <= x
    <3>1. s \in s..N /\ s \notin E /\ \A t \in s..(s - 1) : t \in E
      BY <2>2, Constants, SMTT(20)
    <3> QED BY <3>1
  <2>3. CASE ~(s <= x)
    <3>1. \A t \in s..(e - 1) : t > x
      BY <2>3, Constants, SMTT(20)
    <3> QED BY <2>1, <3>1
  <2> QED BY <2>2, <2>3
<1>2. \E k \in 0..s : (k = 0 \/ k - 1 \notin E) /\ \A t \in k..(s - 1) : t \in E
  <2>1. PICK k \in 0..s : (k = 0 \/ k - 1 \notin D) /\ \A t \in k..(s - 1) : t \in D
    BY DEF Ends
  <2>2. CASE s <= x + 1
    <3>1. s \in 0..s /\ (s = 0 \/ ~(s - 1 > x)) /\ \A t \in s..(s - 1) : t \in E
      BY <2>2, Constants, SMTT(20)
    <3> QED BY <3>1
  <2>3. CASE ~(s <= x + 1) /\ k > x
    <3>1. \A t \in k..(s - 1) : t > x
      BY <2>3, Constants, SMTT(20)
    <3> QED BY <2>1, <3>1
  <2>4. CASE ~(s <= x + 1) /\ ~(k > x)
    <3>1. x + 1 \in 0..s /\ x + 1 - 1 \notin E /\ \A t \in (x + 1)..(s - 1) : t > x /\ t \in k..(s - 1)
      BY <2>4, Constants, SMTT(20)
    <3> QED BY <2>1, <3>1, SMTT(20)
  <2> QED BY <2>2, <2>3, <2>4
<1> QED BY <1>1, <1>2

(* lower_bound finds the end of a run. *)
LEMMA RunEnd ==
    ASSUME NEW S \in SUBSET Certs, RunsEnd(S), NEW I, Runs(S, I), NEW s \in Nat, Skipped(S, s)
    PROVE  FirstAfter(S, s, EndOfRun(I, s))
<1>1. s \in 0..N
  BY SkippedSlots, Constants
<1>2. PICK m \in s..N : m \notin SkippedIn(S) /\ \A t \in s..(m - 1) : t \in SkippedIn(S)
  BY <1>1 DEF RunsEnd, Ends
<1>3. m # s /\ ~Skipped(S, m) /\ \A t \in s..(m - 1) : Skipped(S, t)
  BY <1>1, <1>2, Constants, SMTT(20) DEF SkippedIn
<1>4. m \in I
  BY <1>1, <1>3, Constants, SMTT(20) DEF Runs
<1>5. \A e \in I : e >= s => e >= m
  <2> SUFFICES ASSUME NEW e \in I, e >= s, ~(e >= m) PROVE FALSE
    OBVIOUS
  <2>1. e \in s..(m - 1) /\ ~Skipped(S, e)
    BY <1>1, Constants, SMTT(20) DEF Runs
  <2> QED BY <1>3, <2>1
<1>6. m >= s /\ \A d \in I : d >= s => m <= d
  BY <1>1, <1>5, Constants, SMTT(20) DEF Runs
<1>7. PICK e : e = EndOfRun(I, s)
  OBVIOUS
<1>8. e \in I /\ e >= s /\ e <= m
  BY <1>4, <1>6, <1>7 DEF EndOfRun
<1>9. e = m
  BY <1>5, <1>8, Constants, SMTT(20) DEF Runs
<1> QED BY <1>1, <1>3, <1>7, <1>9, Constants, SMTT(20) DEF FirstAfter

LEMMA NextSlot ==
    ASSUME stored \in SUBSET Certs, Runs(stored, skip_intervals), RunsEnd(stored),
           NEW x \in Certs
    PROVE  FirstAfter(stored, x.slot,
                      next_nonskipped_slot_after(stored \cup {x}, x.slot))
<1> DEFINE s == x.slot
<1>0. s \in Nat /\ s + 1 \in 0..N
  BY CertShape, Constants
<1>1. Skipped(stored \cup {x}, s + 1) <=> Skipped(stored, s + 1)
  BY <1>0, SMTT(20) DEF Skipped
<1>2. CASE ~Skipped(stored, s + 1)
  <2>1. next_nonskipped_slot_after(stored \cup {x}, s) = s + 1
    BY <1>1, <1>2 DEF next_nonskipped_slot_after
  <2>2. FirstAfter(stored, s, s + 1)
    BY <1>0, <1>2, SMTT(20) DEF FirstAfter
  <2> QED BY <2>1, <2>2
<1>3. CASE Skipped(stored, s + 1)
  <2>1. FirstAfter(stored, s + 1, EndOfRun(skip_intervals, s + 1))
    BY <1>0, <1>3, RunEnd, SMTT(20)
  <2>2. PICK e : e = EndOfRun(skip_intervals, s + 1)
    OBVIOUS
  <2>3. next_nonskipped_slot_after(stored \cup {x}, s) = e
    BY <1>1, <1>3, <2>2 DEF next_nonskipped_slot_after
  <2>4. FirstAfter(stored, s, e)
    BY <1>0, <1>3, <2>1, <2>2, Constants, SMTT(20) DEF FirstAfter
  <2> QED BY <2>3, <2>4
<1> QED BY <1>2, <1>3

(* The slot advance_present stops at. *)
LEMMA Present ==
    ASSUME NEW S \in SUBSET Certs, RunsEnd(S), NEW n \in 0..N,
           NEW p, p = CHOOSE m \in n..N :
                         /\ ~Notarized(S, m) /\ ~Skipped(S, m)
                         /\ \A t \in n..(m - 1) : Notarized(S, t) \/ Skipped(S, t)
    PROVE  /\ p \in n..N /\ ~Skipped(S, p)
           /\ \A t \in n..(p - 1) : Notarized(S, t) \/ Skipped(S, t)
<1>1. PICK m \in n..N : m \notin DecidedIn(S) /\ \A t \in n..(m - 1) : t \in DecidedIn(S)
  BY DEF RunsEnd, Ends
<1>2. /\ ~Notarized(S, m) /\ ~Skipped(S, m)
      /\ \A t \in n..(m - 1) : Notarized(S, t) \/ Skipped(S, t)
  BY <1>1, Constants, SMTT(20) DEF DecidedIn
<1> QED BY <1>2

-----------------------------------------------------------------------------
(* What one certificate more does to the runs and to the bases. *)

LEMMA OneMore ==
    ASSUME NEW S, NEW x
    PROVE  \A t : /\ Skipped(S \cup {x}, t) <=> Skipped(S, t) \/ (x.type = "skip" /\ x.slot = t)
                  /\ Notarized(S \cup {x}, t) <=> Notarized(S, t) \/ (x.type = "notar" /\ x.slot = t)
BY DEF Skipped, Notarized

LEMMA RunsEndMore ==
    ASSUME NEW S \in SUBSET Certs, RunsEnd(S), NEW x \in Certs
    PROVE  RunsEnd(S \cup {x})
<1>1. PICK s : s = x.slot
  OBVIOUS
<1>2. s \in Nat /\ s + 1 \in 0..N /\ s \in 0..N
  <2>1. s \in Slots
    BY <1>1, CertShape
  <2> QED BY <2>1, Constants
<1>3. /\ SkippedIn(S \cup {x}) = SkippedIn(S) \/ SkippedIn(S \cup {x}) = SkippedIn(S) \cup {s}
      /\ DecidedIn(S \cup {x}) = DecidedIn(S) \/ DecidedIn(S \cup {x}) = DecidedIn(S) \cup {s}
  BY <1>1, <1>2, OneMore DEF SkippedIn, DecidedIn
<1>4. Ends(SkippedIn(S) \cup {s}) /\ Ends(DecidedIn(S) \cup {s})
  BY <1>2, EndsMore DEF RunsEnd
<1> QED BY <1>3, <1>4 DEF RunsEnd

LEMMA SkipRuns ==
    ASSUME NEW S \in SUBSET Certs, NEW I, Runs(S, I), NEW x \in Certs, x.type = "skip",
           NEW n, FirstAfter(S, x.slot, n)
    PROVE  Runs(S \cup {x}, (I \ {x.slot}) \cup (IF n = x.slot + 1 THEN {n} ELSE {}))
<1>1. PICK s : s = x.slot
  OBVIOUS
<1>2. s \in Nat /\ s + 1 \in 1..N
  <2>1. s \in Slots
    BY <1>1, CertShape
  <2> QED BY <2>1, Constants, SMTT(20)
<1>3. \A t : Skipped(S \cup {x}, t) <=> Skipped(S, t) \/ t = s
  BY <1>1, OneMore
<1>4. n = s + 1 <=> ~Skipped(S, s + 1)
  BY <1>1, <1>2, SMTT(20) DEF FirstAfter
<1>5. \A e \in 1..N : (Skipped(S \cup {x}, e - 1) /\ ~Skipped(S \cup {x}, e))
                      <=> \/ Skipped(S, e - 1) /\ ~Skipped(S, e) /\ e # s
                          \/ e = s + 1 /\ ~Skipped(S, s + 1)
  BY <1>2, <1>3, SMTT(20)
<1>6. CASE n = s + 1
  <2>1. (I \ {s}) \cup {n} = {e \in 1..N : Skipped(S \cup {x}, e - 1) /\ ~Skipped(S \cup {x}, e)}
    BY <1>2, <1>4, <1>5, <1>6 DEF Runs
  <2> QED BY <1>1, <1>6, <2>1 DEF Runs
<1>7. CASE n # s + 1
  <2>1. (I \ {s}) \cup {} = {e \in 1..N : Skipped(S \cup {x}, e - 1) /\ ~Skipped(S \cup {x}, e)}
    BY <1>2, <1>4, <1>5, <1>7 DEF Runs
  <2> QED BY <1>1, <1>7, <2>1 DEF Runs
<1> QED BY <1>6, <1>7

(* Other certificates leave the skipped slots as they are. *)
LEMMA SameRuns ==
    ASSUME NEW S, NEW I, Runs(S, I), NEW x, x.type # "skip"
    PROVE  Runs(S \cup {x}, I)
<1>1. \A t : Skipped(S \cup {x}, t) <=> Skipped(S, t)
  BY OneMore
<1> QED BY <1>1 DEF Runs

(* A base that may be better. *)
LEMMA BetterBase ==
    ASSUME NEW b, NEW B \in SUBSET ParentIds, BestOf(b, B), NEW p \in ParentIds,
           NEW c, c = IF b = None \/ NextAfter(p) >= NextAfter(b) THEN p ELSE b
    PROVE  BestOf(c, B \cup {p})
<1>1. CASE B = {}
  <2>1. c = p /\ B \cup {p} = {p}
    BY <1>1 DEF BestOf
  <2>2. NextAfter(p) <= NextAfter(p)
    BY Constants, SMTT(20)
  <2> QED BY <2>1, <2>2 DEF BestOf
<1>2. CASE B # {}
  <2>1. b \in B /\ b # None /\ \A q \in B : NextAfter(q) <= NextAfter(b)
    BY <1>2, Constants DEF BestOf
  <2>2. \A q \in B \cup {p} : NextAfter(q) \in Nat
    BY Constants, SMTT(20)
  <2>3. c \in B \cup {p} /\ \A q \in B \cup {p} : NextAfter(q) <= NextAfter(c)
    BY <2>1, <2>2, SMTT(20)
  <2> QED BY <2>3 DEF BestOf
<1> QED BY <1>1, <1>2

(* Of two sets of bases the better of both best ones. *)
LEMMA BetterOfTwo ==
    ASSUME NEW b, NEW B \in SUBSET ParentIds, BestOf(b, B),
           NEW p, NEW P \in SUBSET ParentIds, BestOf(p, P),
           NEW c, c = IF p # None /\ (b = None \/ NextAfter(p) >= NextAfter(b)) THEN p ELSE b
    PROVE  BestOf(c, B \cup P)
<1>1. CASE P = {}
  <2>1. p = None /\ B \cup P = B
    BY <1>1 DEF BestOf
  <2> QED BY <2>1
<1>2. CASE P # {}
  <2>1. p \in P /\ p # None /\ \A q \in P : NextAfter(q) <= NextAfter(p)
    BY <1>2, Constants DEF BestOf
  <2>2. BestOf(c, B \cup {p})
    BY <2>1, BetterBase
  <2>3. c \in B \cup {p} /\ \A q \in B \cup {p} : NextAfter(q) <= NextAfter(c)
    BY <2>2 DEF BestOf
  <2>4. \A q \in B \cup P : NextAfter(q) \in Nat
    BY Constants, SMTT(20)
  <2>5. c \in B \cup P /\ \A q \in B \cup P : NextAfter(q) <= NextAfter(c)
    BY <2>1, <2>3, <2>4, SMTT(20)
  <2> QED BY <2>5 DEF BestOf
<1> QED BY <1>1, <1>2

(* The changes of the bases of the slots that are not skipped. *)
LEMMA NotarBest ==
    ASSUME NEW S \in SUBSET Certs, NEW f \in 0..N, NEW l \in ParentIds,
           NEW bs \in [0..N -> ParentIds \cup {None}], Best(S, f, l, bs),
           NEW x \in Certs, x.type = "notar", x.slot >= f,
           NEW n, FirstAfter(S, x.slot, n)
    PROVE  Best(S \cup {x}, f, l, add_available_base(bs, n, x.id))
<1>1. PICK p, s, T, cs : /\ p = x.id /\ s = x.slot /\ T = S \cup {x}
                         /\ cs = add_available_base(bs, n, p)
  OBVIOUS
<1>2. /\ p \in Candidates /\ p \in ParentIds /\ p # None /\ s \in Nat /\ s < N
      /\ NextAfter(p) = s + 1
  BY <1>1, CertShape, Constants DEF ParentIds
<1>3. n \in (s + 1)..N /\ n \in 0..N /\ ~Skipped(S, n)
      /\ \A t \in (s + 1)..(n - 1) : Skipped(S, t)
  BY <1>1, <1>2, Constants, SMTT(20) DEF FirstAfter
<1>4. \A t : Skipped(T, t) <=> Skipped(S, t)
  BY <1>1, OneMore
<1>5. \A q : (\E y \in T : y.type = "notar" /\ y.id = q)
             <=> (\E y \in S : y.type = "notar" /\ y.id = q) \/ q = p
  BY <1>1
<1>6. ASSUME NEW m \in 0..N, m >= f, ~Skipped(T, m)
      PROVE  BestOf(cs[m], Bases(T, f, l, m))
  <2>1. BestOf(bs[m], Bases(S, f, l, m)) /\ Bases(S, f, l, m) \in SUBSET ParentIds
    BY <1>4, <1>6 DEF Best, Bases
  <2>2. CASE m = n
    <3>1. Bases(T, f, l, m) = Bases(S, f, l, m) \cup {p}
      <4>1. ASSUME NEW q \in ParentIds, q \in Bases(T, f, l, m)
            PROVE  q \in Bases(S, f, l, m) \cup {p}
        BY <1>4, <1>5, <4>1 DEF Bases
      <4>2. ASSUME NEW q \in ParentIds, q \in Bases(S, f, l, m)
            PROVE  q \in Bases(T, f, l, m)
        BY <1>4, <1>5, <4>2 DEF Bases
      <4>3. f <= NextAfter(p) /\ NextAfter(p) <= m
        BY <1>1, <1>2, <1>3, <2>2, Constants, SMTT(20)
      <4>4. \A t \in NextAfter(p)..(m - 1) : Skipped(T, t)
        BY <1>2, <1>3, <1>4, <2>2
      <4>5. p \in Bases(T, f, l, m)
        BY <1>2, <1>5, <4>3, <4>4 DEF Bases
      <4>6. Bases(T, f, l, m) \subseteq ParentIds
        BY DEF Bases
      <4> QED BY <1>2, <2>1, <4>1, <4>2, <4>5, <4>6
    <3>2. cs[m] = IF bs[m] = None \/ NextAfter(p) >= NextAfter(bs[m]) THEN p ELSE bs[m]
      BY <1>1, <1>2, <1>3, <2>2 DEF add_available_base
    <3>3. BestOf(cs[m], Bases(S, f, l, m) \cup {p})
      <4>1. PICK b, B, c : b = bs[m] /\ B = Bases(S, f, l, m) /\ c = cs[m]
        OBVIOUS
      <4>2. BestOf(c, B \cup {p})
        BY <1>2, <2>1, <3>2, <4>1, BetterBase
      <4> QED BY <4>1, <4>2
    <3> QED BY <3>1, <3>3
  <2>3. CASE m # n
    <3>1. ~(NextAfter(p) <= m /\ \A t \in NextAfter(p)..(m - 1) : Skipped(S, t))
      BY <1>2, <1>3, <1>4, <1>6, <2>3, Constants, SMTT(20)
    <3>2. Bases(T, f, l, m) = Bases(S, f, l, m)
      BY <1>4, <1>5, <3>1 DEF Bases
    <3>3. cs[m] = bs[m]
      BY <1>1, <1>3, <2>3 DEF add_available_base
    <3> QED BY <2>1, <3>2, <3>3
  <2> QED BY <2>2, <2>3
<1> QED BY <1>1, <1>6 DEF Best

LEMMA SkipBest ==
    ASSUME NEW S \in SUBSET Certs, NEW f \in 0..N, NEW l \in ParentIds,
           NEW bs \in [0..N -> ParentIds \cup {None}], Best(S, f, l, bs),
           NEW x \in Certs, x.type = "skip", x.slot >= f, ~Skipped(S, x.slot),
           NEW n, FirstAfter(S, x.slot, n)
    PROVE  Best(S \cup {x}, f, l, add_available_base(bs, n, bs[x.slot]))
<1>1. PICK s, T, cs : /\ s = x.slot /\ T = S \cup {x}
                      /\ cs = add_available_base(bs, n, bs[s])
  OBVIOUS
<1>2. s \in Nat /\ s < N /\ s \in 0..N
  BY <1>1, CertShape, Constants
<1>3. n \in (s + 1)..N /\ n \in 0..N /\ ~Skipped(S, n)
      /\ \A t \in (s + 1)..(n - 1) : Skipped(S, t)
  BY <1>1, <1>2, Constants, SMTT(20) DEF FirstAfter
<1>4. \A t : Skipped(T, t) <=> Skipped(S, t) \/ t = s
  BY <1>1, OneMore
<1>5. \A q : (\E y \in T : y.type = "notar" /\ y.id = q)
             <=> (\E y \in S : y.type = "notar" /\ y.id = q)
  BY <1>1
<1>6. ASSUME NEW m \in 0..N, m >= f, ~Skipped(T, m)
      PROVE  BestOf(cs[m], Bases(T, f, l, m))
  <2>1. BestOf(bs[m], Bases(S, f, l, m)) /\ Bases(S, f, l, m) \in SUBSET ParentIds /\ m # s
    BY <1>4, <1>6 DEF Best, Bases
  <2>2. CASE m = n
    <3>1. BestOf(bs[s], Bases(S, f, l, s)) /\ Bases(S, f, l, s) \in SUBSET ParentIds
      BY <1>1, <1>2 DEF Best, Bases
    <3>2. Bases(T, f, l, m) = Bases(S, f, l, m) \cup Bases(S, f, l, s)
      <4>1. ASSUME NEW q \in ParentIds, q \in Bases(T, f, l, m)
            PROVE  q \in Bases(S, f, l, m) \cup Bases(S, f, l, s)
        BY <1>2, <1>3, <1>4, <1>5, <2>2, <4>1, Constants, SMTT(20) DEF Bases
      <4>2. ASSUME NEW q \in ParentIds, q \in Bases(S, f, l, m) \cup Bases(S, f, l, s)
            PROVE  q \in Bases(T, f, l, m)
        BY <1>2, <1>3, <1>4, <1>5, <2>2, <4>2, Constants, SMTT(20) DEF Bases
      <4>3. Bases(T, f, l, m) \subseteq ParentIds
        BY DEF Bases
      <4> QED BY <2>1, <3>1, <4>1, <4>2, <4>3
    <3>3. cs[m] = IF bs[s] # None /\ (bs[m] = None \/ NextAfter(bs[s]) >= NextAfter(bs[m]))
                  THEN bs[s] ELSE bs[m]
      BY <1>1, <1>2, <1>3, <2>2 DEF add_available_base
    <3>4. BestOf(cs[m], Bases(S, f, l, m) \cup Bases(S, f, l, s))
      <4>1. PICK b, B, q, Q, c : /\ b = bs[m] /\ B = Bases(S, f, l, m) /\ c = cs[m]
                                 /\ q = bs[s] /\ Q = Bases(S, f, l, s)
        OBVIOUS
      <4>2. BestOf(c, B \cup Q)
        BY <2>1, <3>1, <3>3, <4>1, BetterOfTwo
      <4> QED BY <4>1, <4>2
    <3> QED BY <3>2, <3>4
  <2>3. CASE m # n
    <3>1. \A q \in ParentIds : NextAfter(q) <= m =>
              ((\A t \in NextAfter(q)..(m - 1) : Skipped(T, t))
               <=> (\A t \in NextAfter(q)..(m - 1) : Skipped(S, t)))
      BY <1>2, <1>3, <1>4, <1>6, <2>1, <2>3, Constants, SMTT(20)
    <3>2. Bases(T, f, l, m) = Bases(S, f, l, m)
      BY <1>5, <3>1, SMTT(20) DEF Bases
    <3>3. cs[m] = bs[m]
      BY <1>1, <1>3, <2>3 DEF add_available_base
    <3> QED BY <2>1, <3>2, <3>3
  <2> QED BY <2>2, <2>3
<1> QED BY <1>1, <1>6 DEF Best

(* The certificates after slot s. *)
Above(S, s) == {y \in S : y.slot > s}

LEMMA FinalRuns ==
    ASSUME NEW S \in SUBSET Certs, NEW I, Runs(S, I), NEW x \in Certs, x.type = "final",
           ~Skipped(S, x.slot)
    PROVE  Runs(Above(S \cup {x}, x.slot), {e \in I : e > x.slot})
<1>1. PICK s, T : s = x.slot /\ T = Above(S \cup {x}, s)
  OBVIOUS
<1>2. s \in Nat
  BY <1>1, CertShape, Constants
<1>3. \A t : Skipped(T, t) <=> Skipped(S, t) /\ t > s
  BY <1>1 DEF Above, Skipped
<1>4. \A e \in 1..N : Skipped(T, e - 1) /\ ~Skipped(T, e)
                      <=> Skipped(S, e - 1) /\ ~Skipped(S, e) /\ e > s
  <2> SUFFICES ASSUME NEW e \in 1..N
               PROVE  Skipped(T, e - 1) /\ ~Skipped(T, e)
                      <=> Skipped(S, e - 1) /\ ~Skipped(S, e) /\ e > s
    OBVIOUS
  <2>1. e - 1 > s => e > s
    BY <1>2, SMTT(20)
  <2>2. e > s /\ ~(e - 1 > s) => e - 1 = s
    BY <1>2, SMTT(20)
  <2>3. ~Skipped(S, s)
    BY <1>1
  <2> QED BY <1>3, <2>1, <2>2, <2>3
<1>5. {e \in I : e > s} = {e \in 1..N : Skipped(T, e - 1) /\ ~Skipped(T, e)}
  BY <1>4 DEF Runs
<1> QED BY <1>1, <1>5 DEF Runs

LEMMA FinalUnique ==
    ASSUME NEW J \in SUBSET Certs, Consistent(J), NEW x \in J, x.type = "final"
    PROVE  /\ x.id \in Candidates /\ SlotOf[x.id] = x.slot
           /\ Skip(x.slot) \notin J /\ Notar(x.id) \in J
           /\ \A y \in J : y.type # "skip" /\ y.slot = x.slot => y.id = x.id
<1>1. x.id \in Candidates /\ SlotOf[x.id] = x.slot /\ x = Final(x.id)
  BY CertShape
<1>2. Skip(x.slot) \notin J /\ Notar(x.id) \in J
  BY <1>1 DEF Consistent
<1>3. ASSUME NEW y \in J, y.type # "skip", y.slot = x.slot
      PROVE  y.id = x.id
  <2>1. y.id \in Candidates /\ SlotOf[y.id] = y.slot /\ (y = Notar(y.id) \/ y = Final(y.id))
    BY <1>3, CertShape
  <2>2. Notar(y.id) \in J
    BY <2>1 DEF Consistent
  <2>3. {Notar(y.id), Final(x.id)} \subseteq J
    BY <1>1, <2>2
  <2> QED BY <1>1, <1>3, <2>1, <2>3 DEF Consistent
<1> QED BY <1>1, <1>2, <1>3

(* S are certificates of a group, J all of its certificates, bs the best bases. *)
Books(J, S, f, l, bs) ==
    /\ J \in SUBSET Certs /\ Consistent(J) /\ S \in SUBSET J
    /\ f \in 0..N /\ l \in ParentIds /\ NextAfter(l) = f
    /\ bs \in [0..N -> ParentIds \cup {None}] /\ Best(S, f, l, bs)

(* The bases after the slot of the final certificate x. *)
BasesAbove(S, bs, x, n, ds) ==
    LET cs == IF Notarized(S \cup {x}, x.slot) THEN bs ELSE add_available_base(bs, n, x.id)
    IN  \A m \in 0..N : m > x.slot => ds[m] = cs[m]

LEMMA FinalBest ==
    ASSUME NEW J, NEW S, NEW f, NEW l, NEW bs, Books(J, S, f, l, bs),
           NEW x \in J, x.type = "final", x.slot >= f,
           NEW n, FirstAfter(S, x.slot, n),
           NEW ds, BasesAbove(S, bs, x, n, ds)
    PROVE  Best(Above(S \cup {x}, x.slot), x.slot + 1, x.id, ds)
<1>0. /\ J \in SUBSET Certs /\ Consistent(J) /\ S \in SUBSET J
      /\ f \in 0..N /\ l \in ParentIds /\ NextAfter(l) = f
      /\ bs \in [0..N -> ParentIds \cup {None}] /\ Best(S, f, l, bs)
  BY DEF Books
<1> USE <1>0
<1>a. PICK cs : cs = IF Notarized(S \cup {x}, x.slot) THEN bs
                     ELSE add_available_base(bs, n, x.id)
  OBVIOUS
<1>b. \A m \in 0..N : m > x.slot => ds[m] = cs[m]
  BY <1>a DEF BasesAbove
<1>1. PICK p, s, T : p = x.id /\ s = x.slot /\ T = Above(S \cup {x}, s)
  OBVIOUS
<1>2. /\ p \in Candidates /\ p \in ParentIds /\ p # None /\ s \in Nat /\ s < N
      /\ NextAfter(p) = s + 1 /\ ~Skipped(S, s)
  <2>1. /\ p \in Candidates /\ SlotOf[p] = s /\ Skip(s) \notin J /\ s \in Slots
    BY <1>1, FinalUnique, CertShape
  <2>2. ~Skipped(S, s)
    BY <2>1, SkippedSlots
  <2>3. p \in ParentIds
    BY <2>1 DEF ParentIds
  <2> QED BY <2>1, <2>2, <2>3, Constants
<1>3. n \in (s + 1)..N /\ n \in 0..N /\ ~Skipped(S, n)
      /\ \A t \in (s + 1)..(n - 1) : Skipped(S, t)
  BY <1>1, <1>2, Constants, SMTT(20) DEF FirstAfter
<1>4. \A t : Skipped(T, t) <=> Skipped(S, t) /\ t > s
  BY <1>1 DEF Above, Skipped
<1>5. ASSUME NEW y \in S, y.type = "notar"
      PROVE  /\ y.id \in ParentIds /\ NextAfter(y.id) = y.slot + 1 /\ y.slot \in Nat
             /\ y.slot = s => y.id = p
             /\ y.slot > s => y \in T
  <2>1. y.id \in Candidates /\ SlotOf[y.id] = y.slot /\ y.slot \in Slots
    BY <1>5, CertShape
  <2>2. y.id \in ParentIds /\ NextAfter(y.id) = y.slot + 1 /\ y.slot \in Nat
    BY <2>1, Constants DEF ParentIds
  <2>3. y.slot = s => y.id = p
    BY <1>1, <1>5, FinalUnique
  <2>4. y.slot > s => y \in T
    BY <1>1 DEF Above
  <2> QED BY <2>2, <2>3, <2>4
<1>6. ASSUME NEW y \in T, y.type = "notar" PROVE y \in S
  BY <1>1, <1>6 DEF Above
<1>7. ASSUME NEW m \in 0..N, m >= s + 1, ~Skipped(T, m)
      PROVE  BestOf(cs[m], Bases(T, s + 1, p, m))
  <2> DEFINE B == Bases(S, f, l, m)
  <2> DEFINE D == Bases(T, s + 1, p, m)
  <2>1. ~Skipped(S, m) /\ m >= f
    <3>1. m > s /\ s >= f
      BY <1>1, <1>2, <1>7, SMTT(20)
    <3>2. m >= f
      BY <1>2, <3>1, SMTT(20)
    <3>3. ~Skipped(S, m)
      BY <1>4, <1>7, <3>1
    <3> QED BY <3>2, <3>3
  <2>2. BestOf(bs[m], B) /\ B \in SUBSET ParentIds
    BY <2>1 DEF Best, Bases
  <2>3. ASSUME NEW q \in B PROVE NextAfter(q) >= s + 1
    <3>1. /\ q \in ParentIds /\ NextAfter(q) \in Nat
          /\ \A t \in NextAfter(q)..(m - 1) : Skipped(S, t)
      BY <2>3, Constants, SMTT(20) DEF Bases
    <3> QED BY <1>2, <1>7, <3>1, SMTT(20)
  <2>4. ASSUME NEW q \in B PROVE q \in D
    <3>1. /\ q \in ParentIds /\ NextAfter(q) \in Nat /\ NextAfter(q) <= m
          /\ NextAfter(q) >= s + 1
          /\ \A t \in NextAfter(q)..(m - 1) : Skipped(S, t)
      BY <2>3, <2>4, Constants, SMTT(20) DEF Bases
    <3>2. \A t \in NextAfter(q)..(m - 1) : Skipped(T, t)
      BY <1>2, <1>4, <3>1, SMTT(20)
    <3>3. q # l
      BY <1>1, <1>2, <3>1, SMTT(20)
    <3>4. PICK y \in S : y.type = "notar" /\ y.id = q
      BY <2>4, <3>3 DEF Bases
    <3>5. q = p \/ y \in T
      BY <1>2, <1>5, <3>1, <3>4, SMTT(20)
    <3> QED BY <3>1, <3>2, <3>4, <3>5 DEF Bases
  <2>5. ASSUME NEW q \in D, q # p PROVE q \in B
    <3>1. /\ q \in ParentIds /\ NextAfter(q) \in Nat /\ NextAfter(q) <= m
          /\ NextAfter(q) >= s + 1
          /\ \A t \in NextAfter(q)..(m - 1) : Skipped(T, t)
      BY <1>2, <2>5, Constants, SMTT(20) DEF Bases
    <3>2. PICK y \in S : y.type = "notar" /\ y.id = q
      BY <1>6, <2>5 DEF Bases
    <3>3. f <= NextAfter(q)
      BY <1>1, <1>2, <3>1, SMTT(20)
    <3> QED BY <1>4, <3>1, <3>2, <3>3 DEF Bases
  <2>6. p \in D <=> m = n
    <3>1. p \in D <=> \A t \in (s + 1)..(m - 1) : Skipped(S, t)
      BY <1>2, <1>4, <1>7, SMTT(20) DEF Bases
    <3>2. (\A t \in (s + 1)..(m - 1) : Skipped(S, t)) <=> m = n
      BY <1>2, <1>3, <1>7, <2>1, SMTT(20)
    <3> QED BY <3>1, <3>2
  <2>7. D \in SUBSET ParentIds
    BY DEF Bases
  <2>8. CASE Notarized(S \cup {x}, s)
    <3>1. PICK y \in S : y.type = "notar" /\ y.slot = s
      BY <2>8 DEF Notarized
    <3>2. y.id = p
      BY <1>5, <3>1
    <3>3. p \in D => p \in B
      <4>1. f <= NextAfter(p)
        BY <1>1, <1>2, SMTT(20)
      <4> QED BY <1>2, <1>4, <3>1, <3>2, <4>1 DEF Bases
    <3>4. D = B
      BY <2>4, <2>5, <3>3
    <3>5. cs[m] = bs[m]
      BY <1>1, <1>a, <2>8
    <3> QED BY <2>2, <3>4, <3>5
  <2>9. CASE ~Notarized(S \cup {x}, s) /\ m = n
    <3>1. D = B \cup {p}
      BY <2>4, <2>5, <2>6, <2>9
    <3>2. cs[m] = IF bs[m] = None \/ NextAfter(p) >= NextAfter(bs[m]) THEN p ELSE bs[m]
      BY <1>1, <1>2, <1>3, <1>a, <2>9 DEF add_available_base
    <3>3. PICK b, E, c : b = bs[m] /\ E = B /\ c = cs[m]
      OBVIOUS
    <3>4. BestOf(c, E \cup {p})
      BY <1>2, <2>2, <3>2, <3>3, BetterBase
    <3> QED BY <3>1, <3>3, <3>4
  <2>10. CASE ~Notarized(S \cup {x}, s) /\ m # n
    <3>1. D = B
      BY <2>4, <2>5, <2>6, <2>10
    <3>2. cs[m] = bs[m]
      BY <1>1, <1>3, <1>a, <2>10 DEF add_available_base
    <3> QED BY <2>2, <3>1, <3>2
  <2> QED BY <2>8, <2>9, <2>10
<1>8. ASSUME NEW m \in 0..N, m >= s + 1
      PROVE  ds[m] = cs[m]
  BY <1>1, <1>2, <1>8, <1>b, SMTT(20)
<1> QED BY <1>1, <1>7, <1>8 DEF Best

-----------------------------------------------------------------------------
(* The slot advance_present stops at has a base: the certified block after which
   everything is skipped. This is the CHECK at pool.cpp:747. *)
LEMMA HasBase ==
    ASSUME NEW S \in SUBSET Certs, RunsEnd(S),
           NEW f \in 0..N, NEW l \in ParentIds, NextAfter(l) = f,
           NEW p \in f..N, \A t \in f..(p - 1) : Notarized(S, t) \/ Skipped(S, t)
    PROVE  Bases(S, f, l, p) # {}
<1>1. f \in Nat /\ p \in Nat /\ p \in 0..N
  BY Constants, SMTT(20)
<1>2. PICK k \in 0..p : /\ k = 0 \/ ~Skipped(S, k - 1)
                        /\ \A t \in k..(p - 1) : Skipped(S, t)
  <2>1. PICK k \in 0..p : /\ k = 0 \/ k - 1 \notin SkippedIn(S)
                          /\ \A t \in k..(p - 1) : t \in SkippedIn(S)
    BY <1>1 DEF RunsEnd, Ends
  <2>2. k = 0 \/ k - 1 \in 0..N
    BY <1>1, Constants, SMTT(20)
  <2> QED BY <2>1, <2>2 DEF SkippedIn
<1>3. CASE k <= f
  <2>1. \A t \in f..(p - 1) : Skipped(S, t)
    BY <1>1, <1>2, <1>3, SMTT(20)
  <2> QED BY <1>1, <2>1, Constants, SMTT(20) DEF Bases
<1>4. CASE ~(k <= f)
  <2>1. k - 1 \in f..(p - 1) /\ k # 0
    BY <1>1, <1>2, <1>4, SMTT(20)
  <2>2. ~Skipped(S, k - 1)
    BY <1>2, <2>1
  <2>3. PICK y \in S : y.type = "notar" /\ y.slot = k - 1
    BY <2>1, <2>2 DEF Notarized
  <2>4. y.id \in Candidates /\ SlotOf[y.id] = k - 1
    BY <2>3, CertShape
  <2>5. y.id \in ParentIds /\ NextAfter(y.id) = k
    BY <1>1, <1>2, <2>4, Constants, SMTT(20) DEF ParentIds
  <2>6. f <= k /\ k <= p
    BY <1>1, <1>2, <1>4, SMTT(20)
  <2> QED BY <1>2, <2>3, <2>5, <2>6 DEF Bases
<1> QED BY <1>3, <1>4

LEMMA Windows == \A s \in Nat : s \div W \in Nat
BY Constants, SMTT(20)

(* What the announcements keep: nonannounced is beyond all of them. *)
AnnouncedInv ==
    /\ AnnouncedBaseValid /\ AnnouncementsIncrease
    /\ \A i \in DOMAIN announced : announced[i].slot \div W < nonannounced
    /\ dbWindow <= nonannounced

AnnouncedTypes ==
    /\ dbWindow \in Nat /\ nonannounced \in Nat
    /\ announced \in Seq([slot : 0..N, base : Candidates \cup {Genesis, None}])

LEMMA AnnouncedWindows ==
    ASSUME AnnouncedTypes
    PROVE  \A i \in DOMAIN announced : announced[i].slot \div W \in Nat
<1>1. PICK R : R = [slot : 0..N, base : Candidates \cup {Genesis, None}]
  OBVIOUS
<1>2. announced \in Seq(R)
  BY <1>1 DEF AnnouncedTypes
<1>3. \A i \in DOMAIN announced : announced[i] \in R
  BY <1>2, SMTT(20)
<1>4. \A i \in DOMAIN announced : announced[i].slot \in Nat
  BY <1>1, <1>3, Constants, SMTT(20)
<1> QED BY <1>4, Windows

(* More certificates on disk keep the announcements valid. *)
LEMMA AnnouncedStays ==
    ASSUME AnnouncedInv, AnnouncedTypes, disk \subseteq disk',
           UNCHANGED <<announced, nonannounced, dbWindow>>
    PROVE  AnnouncedInv' /\ AnnouncedTypes'
<1>1. AnnouncedBaseValid'
  <2> SUFFICES ASSUME NEW i \in DOMAIN announced
               PROVE  LET p == announced[i].base IN
                      /\ p # None
                      /\ p = Genesis \/ {Notar(p), Final(p)} \cap disk' # {}
                      /\ NextAfter(p) <= announced[i].slot
                      /\ \A t \in NextAfter(p)..(announced[i].slot - 1) : Skip(t) \in disk'
    BY DEF AnnouncedBaseValid, Notar, Final, Skip, NextAfter
  <2> QED BY DEF AnnouncedInv, AnnouncedBaseValid
<1>2. AnnouncementsIncrease'
  BY DEF AnnouncedInv, AnnouncementsIncrease
<1> QED BY <1>1, <1>2 DEF AnnouncedInv, AnnouncedTypes

(* advance_present, for certificates T and bases cs that agree with S and bs from
   slot n on. *)
LEMMA Advance ==
    ASSUME AnnouncedInv, AnnouncedTypes, disk \subseteq disk', UNCHANGED dbWindow,
           NEW S \in SUBSET Certs, NEW T \in SUBSET Certs, T \subseteq disk',
           RunsEnd(S), RunsEnd(T),
           NEW f \in 0..N, NEW l \in ParentIds, NextAfter(l) = f,
           l # Genesis => Final(l) \in disk',
           NEW bs, NEW cs, Best(T, f, l, cs),
           NEW n \in f..N, \A t \in f..(n - 1) : Notarized(T, t) \/ Skipped(T, t),
           \A m \in n..N : /\ Notarized(S, m) <=> Notarized(T, m)
                           /\ Skipped(S, m) <=> Skipped(T, m)
                           /\ bs[m] = cs[m],
           NEW st, advance_present(st, S, bs, n)
    PROVE  /\ now' \in f..N
           /\ \A t \in f..(now' - 1) : Notarized(T, t) \/ Skipped(T, t)
           /\ AnnouncedInv' /\ AnnouncedTypes'
<1>1. CASE ~st
  <2>1. now' = n /\ UNCHANGED <<nonannounced, announced>>
    BY <1>1 DEF advance_present
  <2>2. AnnouncedInv' /\ AnnouncedTypes'
    BY <2>1, AnnouncedStays
  <2> QED BY <2>1, <2>2
<1>2. CASE st
  <2>1. PICK p, w, b : /\ p = CHOOSE m \in n..N :
                                 /\ ~Notarized(S, m) /\ ~Skipped(S, m)
                                 /\ \A t \in n..(m - 1) : Notarized(S, t) \/ Skipped(S, t)
                       /\ w = p \div W /\ b = bs[p]
    OBVIOUS
  <2>2. /\ now' = p
        /\ nonannounced' = IF nonannounced <= w THEN w + 1 ELSE nonannounced
        /\ announced' = IF nonannounced <= w THEN Append(announced, [slot |-> p, base |-> b])
                        ELSE announced
    BY <1>2, <2>1 DEF advance_present
  <2>3. n \in 0..N /\ f \in Nat /\ n \in Nat /\ n >= f /\ n <= N
    BY Constants, SMTT(20)
  <2>4. p \in n..N /\ ~Skipped(S, p) /\ \A t \in n..(p - 1) : Notarized(S, t) \/ Skipped(S, t)
    BY <2>1, <2>3, Present
  <2>5. p \in 0..N /\ p \in f..N /\ p \in Nat /\ w \in Nat
    BY <2>1, <2>3, <2>4, Constants, Windows, SMTT(20)
  <2>6. \A t \in f..(p - 1) : Notarized(T, t) \/ Skipped(T, t)
    <3> SUFFICES ASSUME NEW t \in f..(p - 1) PROVE Notarized(T, t) \/ Skipped(T, t)
      OBVIOUS
    <3>1. t \in f..(n - 1) \/ (t \in n..(p - 1) /\ t \in n..N)
      BY <2>3, <2>5, Constants, SMTT(20)
    <3> QED BY <2>4, <3>1
  <2>7. b \in Bases(T, f, l, p)
    <3>1. ~Skipped(T, p) /\ b = cs[p]
      BY <2>1, <2>4
    <3>2. Bases(T, f, l, p) # {}
      BY <2>5, <2>6, HasBase
    <3>3. BestOf(cs[p], Bases(T, f, l, p))
      BY <2>3, <2>5, <3>1, SMTT(20) DEF Best
    <3> QED BY <3>1, <3>2, <3>3 DEF BestOf
  <2>8. CASE ~(nonannounced <= w)
    <3>1. UNCHANGED <<nonannounced, announced>>
      BY <2>2, <2>8
    <3>2. AnnouncedInv' /\ AnnouncedTypes'
      BY <3>1, AnnouncedStays
    <3> QED BY <2>2, <2>5, <2>6, <3>2
  <2>9. CASE nonannounced <= w
    <3>1. PICK r, k : r = [slot |-> p, base |-> b] /\ k = Len(announced)
      OBVIOUS
    <3>2. announced' = Append(announced, r) /\ nonannounced' = w + 1
      BY <2>2, <2>9, <3>1
    <3>3. b \in ParentIds /\ b # None /\ b \in Candidates \cup {Genesis, None}
      BY <2>7, Constants DEF Bases, ParentIds
    <3>4. r \in [slot : 0..N, base : Candidates \cup {Genesis, None}]
      BY <2>5, <3>1, <3>3
    <3>5. AnnouncedTypes'
      BY <2>5, <3>2, <3>4, SMTT(20) DEF AnnouncedTypes
    <3>6. /\ k \in Nat /\ DOMAIN announced = 1..k /\ DOMAIN announced' = 1..(k + 1)
          /\ announced'[k + 1] = r /\ \A i \in 1..k : announced'[i] = announced[i]
      BY <3>1, <3>2, <3>4, SMTT(20) DEF AnnouncedTypes
    <3>7. AnnouncedBaseValid'
      <4> SUFFICES ASSUME NEW i \in 1..(k + 1), NEW q, q = announced'[i].base
                   PROVE  /\ q # None
                          /\ q = Genesis \/ {Notar(q), Final(q)} \cap disk' # {}
                          /\ NextAfter(q) <= announced'[i].slot
                          /\ \A t \in NextAfter(q)..(announced'[i].slot - 1) : Skip(t) \in disk'
        BY <3>6 DEF AnnouncedBaseValid, Notar, Final, Skip, NextAfter
      <4>1. CASE i = k + 1
        <5>1. q = b /\ announced'[i].slot = p
          BY <3>1, <3>6, <4>1, SMTT(20)
        <5>2. q = Genesis \/ {Notar(q), Final(q)} \cap disk' # {}
          <6>1. CASE b = l
            BY <5>1, <6>1
          <6>2. CASE b # l
            <7>1. PICK y \in T : y.type = "notar" /\ y.id = b
              BY <2>7, <6>2 DEF Bases
            <7>2. y = Notar(b)
              BY <7>1, CertShape
            <7> QED BY <5>1, <7>2
          <6> QED BY <6>1, <6>2
        <5>3. NextAfter(b) <= p /\ \A t \in NextAfter(b)..(p - 1) : Skip(t) \in disk'
          BY <2>7, SkippedSlots DEF Bases
        <5> QED BY <3>3, <5>1, <5>2, <5>3
      <4>2. CASE i # k + 1
        <5>1. i \in DOMAIN announced /\ announced'[i] = announced[i]
          BY <3>6, <4>2, SMTT(20)
        <5> QED BY <5>1 DEF AnnouncedInv, AnnouncedBaseValid
      <4> QED BY <4>1, <4>2
    <3>8. \A i \in 1..k : announced[i].slot \div W \in Nat
      BY <3>6, AnnouncedWindows
    <3>9. r.slot \div W = w
      BY <2>1, <3>1
    <3>10. \A i \in 1..k : announced[i].slot \div W < w
      <4> SUFFICES ASSUME NEW i \in 1..k, NEW v, v = announced[i].slot \div W
                   PROVE  v < w
        OBVIOUS
      <4>1. v \in Nat /\ v < nonannounced /\ nonannounced \in Nat
        BY <3>6, <3>8 DEF AnnouncedInv, AnnouncedTypes
      <4> QED BY <2>5, <2>9, <4>1, SMTT(20)
    <3>11. AnnouncementsIncrease'
      <4> SUFFICES ASSUME NEW i \in 1..(k + 1)
                   PROVE  /\ dbWindow <= announced'[i].slot \div W
                          /\ \A j \in 1..(i - 1) : announced'[j].slot \div W
                                                   < announced'[i].slot \div W
        BY <3>6 DEF AnnouncementsIncrease
      <4>1. CASE i = k + 1
        <5>1. dbWindow <= w
          BY <2>5, <2>9, SMTT(20) DEF AnnouncedInv, AnnouncedTypes
        <5>2. announced'[i].slot \div W = w
          BY <3>6, <3>9, <4>1
        <5>3. \A j \in 1..(i - 1) : j \in 1..k /\ announced'[j] = announced[j]
          BY <3>6, <4>1, SMTT(20)
        <5> QED BY <3>10, <5>1, <5>2, <5>3
      <4>2. CASE i # k + 1
        <5>1. i \in DOMAIN announced /\ announced'[i] = announced[i]
              /\ \A j \in 1..(i - 1) : announced'[j] = announced[j]
          BY <3>6, <4>2, SMTT(20)
        <5> QED BY <5>1 DEF AnnouncedInv, AnnouncementsIncrease
      <4> QED BY <4>1, <4>2
    <3>12. \A i \in DOMAIN announced' : announced'[i].slot \div W < nonannounced'
      <4> SUFFICES ASSUME NEW i \in 1..(k + 1)
                   PROVE  announced'[i].slot \div W < w + 1
        BY <3>2, <3>6
      <4>1. CASE i = k + 1
        <5>1. announced'[i].slot \div W = w
          BY <3>6, <3>9, <4>1
        <5> QED BY <2>5, <5>1, SMTT(20)
      <4>2. CASE i # k + 1
        <5>1. i \in 1..k /\ announced'[i] = announced[i]
          BY <3>6, <4>2, SMTT(20)
        <5>2. PICK v : v = announced[i].slot \div W
          OBVIOUS
        <5>3. v \in Nat /\ v < w
          BY <3>8, <3>10, <5>1, <5>2
        <5> QED BY <2>5, <5>1, <5>2, <5>3, SMTT(20)
      <4> QED BY <4>1, <4>2
    <3>13. dbWindow' <= nonannounced'
      BY <2>5, <2>9, <3>2, SMTT(20) DEF AnnouncedInv, AnnouncedTypes
    <3>14. AnnouncedInv'
      BY <3>7, <3>11, <3>12, <3>13 DEF AnnouncedInv
    <3> QED BY <2>2, <2>5, <2>6, <3>5, <3>14
  <2> QED BY <2>8, <2>9
<1> QED BY <1>1, <1>2

(* The window of the first announcement is written to disk. *)
LEMMA WindowWritten ==
    ASSUME AnnouncedInv, AnnouncedTypes, WindowSaved
    PROVE  AnnouncedInv' /\ AnnouncedTypes'
<1>1. PICK R : R = [slot : 0..N, base : Candidates \cup {Genesis, None}]
  OBVIOUS
<1>2. announced \in Seq(R) /\ announced # <<>>
  BY <1>1 DEF AnnouncedTypes, WindowSaved
<1>3. PICK k, w : k = Len(announced) /\ w = announced[1].slot \div W
  OBVIOUS
<1>4. /\ k \in Nat /\ k > 0 /\ DOMAIN announced = 1..k
      /\ announced' \in Seq(R) /\ DOMAIN announced' = 1..(k - 1)
      /\ \A i \in 1..(k - 1) : announced'[i] = announced[i + 1]
      /\ Head(announced) = announced[1]
  BY <1>2, <1>3, SMTT(20) DEF WindowSaved
<1>5. \A i \in 1..k : announced[i].slot \div W \in Nat
  BY <1>4, AnnouncedWindows
<1>6. w \in Nat /\ dbWindow' = w + 1 /\ UNCHANGED <<disk, nonannounced>>
  BY <1>3, <1>4, <1>5, SMTT(20) DEF WindowSaved
<1>7. AnnouncedTypes'
  BY <1>1, <1>4, <1>6, SMTT(20) DEF AnnouncedTypes
<1>8. \A i \in 1..(k - 1) : i + 1 \in 1..k
  BY <1>4, SMTT(20)
<1>9. AnnouncedBaseValid'
  <2> SUFFICES ASSUME NEW i \in 1..(k - 1), NEW q, q = announced'[i].base
               PROVE  /\ q # None
                      /\ q = Genesis \/ {Notar(q), Final(q)} \cap disk' # {}
                      /\ NextAfter(q) <= announced'[i].slot
                      /\ \A t \in NextAfter(q)..(announced'[i].slot - 1) : Skip(t) \in disk'
    BY <1>4 DEF AnnouncedBaseValid, Notar, Final, Skip, NextAfter
  <2>1. PICK j \in DOMAIN announced : announced'[i] = announced[j]
    BY <1>4, <1>8
  <2> QED BY <1>6, <2>1 DEF AnnouncedInv, AnnouncedBaseValid
<1>10. AnnouncementsIncrease'
  <2> SUFFICES ASSUME NEW i \in 1..(k - 1)
               PROVE  /\ w + 1 <= announced'[i].slot \div W
                      /\ \A j \in 1..(i - 1) : announced'[j].slot \div W
                                               < announced'[i].slot \div W
    BY <1>4, <1>6 DEF AnnouncementsIncrease
  <2>1. \A j \in 1..i : announced[j].slot \div W < announced[i + 1].slot \div W
    BY <1>4, <1>8, SMTT(20) DEF AnnouncedInv, AnnouncementsIncrease
  <2>2. PICK v : v = announced[i + 1].slot \div W
    OBVIOUS
  <2>3. v \in Nat /\ w < v
    BY <1>3, <1>4, <1>5, <1>8, <2>1, <2>2, SMTT(20)
  <2>4. w + 1 <= v
    BY <1>6, <2>3, SMTT(20)
  <2>5. ASSUME NEW j \in 1..(i - 1)
        PROVE  announced'[j].slot \div W < v
    <3>1. j \in 1..(k - 1) /\ announced'[j] = announced[j + 1] /\ j + 1 \in 1..i
      BY <1>4, SMTT(20)
    <3> QED BY <2>1, <2>2, <3>1
  <2> QED BY <1>4, <2>2, <2>4, <2>5
<1>11. \A i \in DOMAIN announced' : announced'[i].slot \div W < nonannounced'
  BY <1>4, <1>6, <1>8 DEF AnnouncedInv
<1>12. dbWindow' <= nonannounced'
  <2>1. w < nonannounced
    BY <1>3, <1>4, SMTT(20) DEF AnnouncedInv
  <2> QED BY <1>6, <2>1, SMTT(20) DEF AnnouncedTypes
<1> QED BY <1>7, <1>9, <1>10, <1>11, <1>12 DEF AnnouncedInv

-----------------------------------------------------------------------------
(* The certificates: handled ones are not stored, so none is handled twice. *)
CertsInv ==
    /\ issued \in SUBSET Certs /\ Consistent(issued)
    /\ disk \subseteq issued /\ stored \subseteq disk
    /\ loading \subseteq disk /\ saving \subseteq issued
    /\ (saving \cup loading) \cap stored = {}
    /\ saving = {} \/ loading = {}

(* What the pool derives from the certificates stored. *)
SlotsInv ==
    /\ base \in [0..N -> ParentIds \cup {None}]
    /\ first \in 0..N /\ lastFinal \in ParentIds /\ NextAfter(lastFinal) = first
    /\ lastFinal # Genesis => Final(lastFinal) \in disk
    /\ \A y \in stored : y.type # "final" /\ y.slot >= first
    /\ Runs(stored, skip_intervals) /\ RunsEnd(stored)
    /\ Best(stored, first, lastFinal, base)
    /\ now \in first..N
    /\ \A t \in first..(now - 1) : Notarized(stored, t) \/ Skipped(stored, t)

LEMMA AddType ==
    ASSUME NEW bs \in [0..N -> ParentIds \cup {None}], NEW n \in 0..N,
           NEW p \in ParentIds \cup {None}
    PROVE  add_available_base(bs, n, p) \in [0..N -> ParentIds \cup {None}]
BY DEF add_available_base

LEMMA NotarStep ==
    ASSUME CertsInv, SlotsInv, AnnouncedInv, AnnouncedTypes,
           NEW x \in issued, x.type = "notar", Tracked(x.slot),
           disk' = disk \cup {x}, UNCHANGED dbWindow, NotarSaved(x)
    PROVE  SlotsInv' /\ AnnouncedInv' /\ AnnouncedTypes' /\ stored' \subseteq stored \cup {x}
<1>1. PICK S, n, bs : /\ S = stored \cup {x} /\ n = next_nonskipped_slot_after(S, x.slot)
                      /\ bs = add_available_base(base, n, x.id)
  OBVIOUS
<1>2. /\ stored' = S /\ base' = bs /\ UNCHANGED <<skip_intervals, first, lastFinal>>
      /\ advance_present(started, S, bs, now)
  BY <1>1 DEF NotarSaved
<1>3. stored \in SUBSET Certs /\ x \in Certs /\ S \in SUBSET Certs /\ S \subseteq disk'
  BY <1>1 DEF CertsInv
<1>4. x.slot \in Slots /\ x.id \in Candidates
  BY <1>3, CertShape
<1>5. x.slot \in Nat /\ x.id \in ParentIds
  BY <1>4, Constants DEF ParentIds
<1>6. FirstAfter(stored, x.slot, n)
  BY <1>1, <1>3, NextSlot DEF SlotsInv
<1>7. n \in 0..N
  BY <1>5, <1>6, Constants, SMTT(20) DEF FirstAfter
<1>8. bs \in [0..N -> ParentIds \cup {None}]
  BY <1>1, <1>5, <1>7, AddType DEF SlotsInv
<1>9. Runs(S, skip_intervals)
  BY <1>1, SameRuns DEF SlotsInv
<1>10. Best(S, first, lastFinal, bs)
  BY <1>1, <1>3, <1>6, NotarBest DEF SlotsInv, Tracked
<1>11. \A t \in first..(now - 1) : Notarized(S, t) \/ Skipped(S, t)
  BY <1>1, OneMore DEF SlotsInv
<1>12. RunsEnd(S) /\ (lastFinal # Genesis => Final(lastFinal) \in disk')
  BY <1>1, <1>3, RunsEndMore DEF SlotsInv
<1>13. /\ now' \in first..N
       /\ \A t \in first..(now' - 1) : Notarized(S, t) \/ Skipped(S, t)
       /\ AnnouncedInv' /\ AnnouncedTypes'
  <2>1. PICK f, l, n1, st : f = first /\ l = lastFinal /\ n1 = now /\ st = started
    OBVIOUS
  <2> QED BY <1>2, <1>3, <1>10, <1>11, <1>12, <2>1, Advance DEF SlotsInv
<1>14. \A y \in S : y.type # "final" /\ y.slot >= first
  BY <1>1 DEF SlotsInv, Tracked
<1>15. SlotsInv'
  <2>1. (lastFinal # Genesis => Final(lastFinal) \in disk)'
    BY <1>2, <1>12 DEF Final
  <2>2. (NextAfter(lastFinal) = first)' /\ (first \in 0..N /\ lastFinal \in ParentIds)'
    BY <1>2 DEF SlotsInv, NextAfter, ParentIds
  <2>3. /\ Runs(stored', skip_intervals') /\ RunsEnd(stored')
        /\ Best(stored', first', lastFinal', base')
    BY <1>2, <1>9, <1>10, <1>12
  <2>4. base' \in [0..N -> ParentIds \cup {None}] /\ now' \in first'..N
        /\ \A y \in stored' : y.type # "final" /\ y.slot >= first'
    BY <1>2, <1>8, <1>13, <1>14
  <2>5. \A t \in first'..(now' - 1) : Notarized(stored', t) \/ Skipped(stored', t)
    BY <1>2, <1>13
  <2> QED BY <2>1, <2>2, <2>3, <2>4, <2>5 DEF SlotsInv
<1> QED BY <1>1, <1>2, <1>13, <1>15

LEMMA SkipStep ==
    ASSUME CertsInv, SlotsInv, AnnouncedInv, AnnouncedTypes,
           NEW x \in issued, x.type = "skip", Tracked(x.slot), x \notin stored,
           disk' = disk \cup {x}, UNCHANGED dbWindow, SkipSaved(x)
    PROVE  SlotsInv' /\ AnnouncedInv' /\ AnnouncedTypes' /\ stored' \subseteq stored \cup {x}
<1>1. PICK S, n, bs, I :
          /\ S = stored \cup {x} /\ n = next_nonskipped_slot_after(S, x.slot)
          /\ bs = add_available_base(base, n, base[x.slot])
          /\ I = (skip_intervals \ {x.slot}) \cup (IF n = x.slot + 1 THEN {n} ELSE {})
  OBVIOUS
<1>2. /\ stored' = S /\ base' = bs /\ skip_intervals' = I /\ UNCHANGED <<first, lastFinal>>
      /\ advance_present(started, S, bs, now)
  BY <1>1 DEF SkipSaved
<1>3. stored \in SUBSET Certs /\ x \in Certs /\ S \in SUBSET Certs /\ S \subseteq disk'
  BY <1>1 DEF CertsInv
<1>4. x.slot \in Slots /\ x = Skip(x.slot)
  BY <1>3, CertShape
<1>5. x.slot \in Nat /\ x.slot \in 0..N
  BY <1>4, Constants
<1>6. FirstAfter(stored, x.slot, n) /\ ~Skipped(stored, x.slot)
  BY <1>1, <1>3, <1>4, NextSlot, SkippedSlots DEF SlotsInv
<1>7. n \in 0..N
  BY <1>5, <1>6, Constants, SMTT(20) DEF FirstAfter
<1>8. bs \in [0..N -> ParentIds \cup {None}]
  BY <1>1, <1>5, <1>7, AddType DEF SlotsInv
<1>9. Runs(S, I)
  <2>1. PICK R, K : R = stored /\ K = skip_intervals
    OBVIOUS
  <2>2. R \in SUBSET Certs /\ Runs(R, K) /\ FirstAfter(R, x.slot, n)
    BY <1>3, <1>6, <2>1 DEF SlotsInv
  <2>3. Runs(R \cup {x}, (K \ {x.slot}) \cup (IF n = x.slot + 1 THEN {n} ELSE {}))
    BY <1>3, <2>2, SkipRuns
  <2> QED BY <1>1, <2>1, <2>3
<1>10. Best(S, first, lastFinal, bs)
  BY <1>1, <1>3, <1>6, SkipBest DEF SlotsInv, Tracked
<1>11. \A t \in first..(now - 1) : Notarized(S, t) \/ Skipped(S, t)
  BY <1>1, OneMore DEF SlotsInv
<1>12. RunsEnd(S) /\ (lastFinal # Genesis => Final(lastFinal) \in disk')
  BY <1>1, <1>3, RunsEndMore DEF SlotsInv
<1>13. /\ now' \in first..N
       /\ \A t \in first..(now' - 1) : Notarized(S, t) \/ Skipped(S, t)
       /\ AnnouncedInv' /\ AnnouncedTypes'
  <2>1. PICK f, l, n1, st : f = first /\ l = lastFinal /\ n1 = now /\ st = started
    OBVIOUS
  <2> QED BY <1>2, <1>3, <1>10, <1>11, <1>12, <2>1, Advance DEF SlotsInv
<1>14. \A y \in S : y.type # "final" /\ y.slot >= first
  BY <1>1 DEF SlotsInv, Tracked
<1>15. SlotsInv'
  <2>1. (lastFinal # Genesis => Final(lastFinal) \in disk)'
    BY <1>2, <1>12 DEF Final
  <2>2. (NextAfter(lastFinal) = first)' /\ (first \in 0..N /\ lastFinal \in ParentIds)'
    BY <1>2 DEF SlotsInv, NextAfter, ParentIds
  <2>3. /\ Runs(stored', skip_intervals') /\ RunsEnd(stored')
        /\ Best(stored', first', lastFinal', base')
    BY <1>2, <1>9, <1>10, <1>12
  <2>4. base' \in [0..N -> ParentIds \cup {None}] /\ now' \in first'..N
        /\ \A y \in stored' : y.type # "final" /\ y.slot >= first'
    BY <1>2, <1>8, <1>13, <1>14
  <2>5. \A t \in first'..(now' - 1) : Notarized(stored', t) \/ Skipped(stored', t)
    BY <1>2, <1>13
  <2> QED BY <2>1, <2>2, <2>3, <2>4, <2>5 DEF SlotsInv
<1> QED BY <1>1, <1>2, <1>13, <1>15

LEMMA FinalStep ==
    ASSUME CertsInv, SlotsInv, AnnouncedInv, AnnouncedTypes,
           NEW x \in issued, x.type = "final", Tracked(x.slot),
           disk' = disk \cup {x}, UNCHANGED dbWindow, FinalSaved(x)
    PROVE  SlotsInv' /\ AnnouncedInv' /\ AnnouncedTypes' /\ stored' \subseteq stored \cup {x}
<1>a. PICK S, p, s : S = stored \cup {x} /\ p = x.id /\ s = x.slot
  OBVIOUS
<1>b. PICK T, I, n : /\ T = Above(S, s) /\ I = {e \in skip_intervals : e > s}
                     /\ n = next_nonskipped_slot_after(S, s)
  OBVIOUS
<1>c. PICK cs : cs = IF Notarized(S, s) THEN base ELSE add_available_base(base, n, p)
  OBVIOUS
<1>d. PICK bs : bs = [m \in 0..N |-> IF m > s THEN cs[m] ELSE None]
  OBVIOUS
<1>1. /\ S = stored \cup {x} /\ p = x.id /\ s = x.slot
      /\ T = Above(S, s) /\ I = {e \in skip_intervals : e > s}
      /\ n = next_nonskipped_slot_after(S, s)
      /\ cs = IF Notarized(S, s) THEN base ELSE add_available_base(base, n, p)
      /\ bs = [m \in 0..N |-> IF m > s THEN cs[m] ELSE None]
  BY <1>a, <1>b, <1>c, <1>d
<1>2. /\ stored' = T /\ base' = bs /\ skip_intervals' = I /\ lastFinal' = p /\ first' = s + 1
      /\ IF now <= s THEN advance_present(started, S, cs, s + 1)
         ELSE UNCHANGED <<now, nonannounced, announced>>
  BY <1>1 DEF FinalSaved, Above
<1>3. /\ stored \in SUBSET Certs /\ x \in Certs /\ S \in SUBSET Certs /\ T \in SUBSET Certs
      /\ T \subseteq S /\ T \subseteq disk' /\ issued \in SUBSET Certs /\ Consistent(issued)
      /\ stored \subseteq issued
  BY <1>1 DEF CertsInv, Above
<1>4. /\ s \in Slots /\ p \in Candidates /\ SlotOf[p] = s /\ x = Final(p)
      /\ Skip(s) \notin issued
  BY <1>1, <1>3, CertShape, FinalUnique
<1>5. s \in Nat /\ s + 1 \in 0..N /\ p \in ParentIds /\ NextAfter(p) = s + 1
  BY <1>4, Constants DEF ParentIds
<1>6. FirstAfter(stored, s, n) /\ ~Skipped(stored, s)
  <2>1. FirstAfter(stored, s, n)
    BY <1>a, <1>b, <1>3, NextSlot DEF SlotsInv
  <2>2. ~Skipped(stored, s)
    BY <1>3, <1>4, SkippedSlots
  <2> QED BY <2>1, <2>2
<1>7. n \in 0..N
  BY <1>5, <1>6, Constants, SMTT(20) DEF FirstAfter
<1>8. cs \in [0..N -> ParentIds \cup {None}]
  BY <1>1, <1>5, <1>7, AddType DEF SlotsInv
<1>9. bs \in [0..N -> ParentIds \cup {None}]
  BY <1>1, <1>8
<1>10. Runs(T, I)
  <2>1. PICK R, K : R = stored /\ K = skip_intervals
    OBVIOUS
  <2>2. R \in SUBSET Certs /\ Runs(R, K) /\ ~Skipped(R, s)
    BY <1>3, <1>6, <2>1 DEF SlotsInv
  <2>3. Runs(Above(R \cup {x}, s), {e \in K : e > s})
    BY <1>a, <1>3, <2>2, FinalRuns, SMTT(20)
  <2> QED BY <1>a, <1>b, <2>1, <2>3
<1>11. Best(T, s + 1, p, bs)
  <2>1. PICK J, R, f, l, cur :
            J = issued /\ R = stored /\ f = first /\ l = lastFinal /\ cur = base
    OBVIOUS
  <2>2. /\ Books(J, R, f, l, cur) /\ x \in J /\ x.slot >= f
        /\ FirstAfter(R, x.slot, n)
    BY <1>a, <1>3, <1>6, <2>1 DEF SlotsInv, Tracked, Books
  <2>3. BasesAbove(R, cur, x, n, bs)
    BY <1>a, <1>c, <1>d, <2>1 DEF BasesAbove
  <2>4. Best(Above(R \cup {x}, x.slot), x.slot + 1, x.id, bs)
    BY <2>2, <2>3, FinalBest
  <2> QED BY <1>a, <1>b, <2>1, <2>4
<1>12. \A t : t > s => /\ Notarized(T, t) <=> Notarized(S, t)
                       /\ Skipped(T, t) <=> Skipped(S, t)
  BY <1>1 DEF Above, Notarized, Skipped
<1>13. Final(p) \in disk' /\ RunsEnd(S) /\ RunsEnd(T)
  <2>1. RunsEnd(S)
    BY <1>1, <1>3, RunsEndMore DEF SlotsInv
  <2>2. SkippedIn(T) = {t \in SkippedIn(S) : t > s} /\ DecidedIn(T) = {t \in DecidedIn(S) : t > s}
    BY <1>1 DEF SkippedIn, DecidedIn, Above, Skipped, Notarized
  <2>3. RunsEnd(T)
    BY <1>5, <2>1, <2>2, EndsAbove DEF RunsEnd
  <2> QED BY <1>4, <2>1, <2>3
<1>14. /\ now' \in (s + 1)..N
       /\ \A t \in (s + 1)..(now' - 1) : Notarized(T, t) \/ Skipped(T, t)
       /\ AnnouncedInv' /\ AnnouncedTypes'
  <2>1. CASE now <= s
    <3>1. advance_present(started, S, cs, s + 1)
      BY <1>2, <2>1
    <3>2. \A m \in (s + 1)..N : /\ Notarized(S, m) <=> Notarized(T, m)
                                /\ Skipped(S, m) <=> Skipped(T, m)
                                /\ cs[m] = bs[m]
      <4>1. \A m \in (s + 1)..N : m > s /\ m \in 0..N
        BY <1>5, Constants, SMTT(20)
      <4>2. \A m \in (s + 1)..N : cs[m] = bs[m]
        BY <1>d, <4>1
      <4> QED BY <1>12, <4>1, <4>2
    <3>3. PICK f, st : f = s + 1 /\ st = started
      OBVIOUS
    <3>4. f \in f..N /\ \A t \in f..(f - 1) : Notarized(T, t) \/ Skipped(T, t)
      BY <1>5, <3>3, Constants, SMTT(20)
    <3> QED BY <1>3, <1>5, <1>11, <1>13, <3>1, <3>2, <3>3, <3>4, Advance, SMTT(20)
  <2>2. CASE ~(now <= s)
    <3>1. UNCHANGED <<now, nonannounced, announced>>
      BY <1>2, <2>2
    <3>2. now \in first..N /\ first \in Nat
      BY Constants, SMTT(20) DEF SlotsInv
    <3>3. now' \in (s + 1)..N
      BY <1>5, <2>2, <3>1, <3>2, Constants, SMTT(20)
    <3>4. ASSUME NEW t \in (s + 1)..(now' - 1) PROVE Notarized(T, t) \/ Skipped(T, t)
      <4>1. t \in first..(now - 1) /\ t > s
        BY <1>1, <1>5, <3>1, <3>2, Constants, SMTT(20) DEF Tracked
      <4>2. Notarized(S, t) \/ Skipped(S, t)
        BY <1>1, <4>1, OneMore DEF SlotsInv
      <4> QED BY <1>12, <4>1, <4>2
    <3>5. AnnouncedInv' /\ AnnouncedTypes'
      BY <3>1, AnnouncedStays
    <3> QED BY <3>3, <3>4, <3>5
  <2> QED BY <2>1, <2>2
<1>15. \A y \in T : y.type # "final" /\ y.slot >= s + 1
  <2> SUFFICES ASSUME NEW y \in T PROVE y.type # "final" /\ y.slot >= s + 1
    OBVIOUS
  <2>1. y \in S /\ y.slot > s
    BY <1>1 DEF Above
  <2>2. y # x
    BY <1>1, <1>5, <2>1, SMTT(20)
  <2>3. y \in stored /\ y.slot \in Nat
    BY <1>1, <1>3, <2>1, <2>2, CertShape, Constants
  <2> QED BY <1>5, <2>1, <2>3, SMTT(20) DEF SlotsInv
<1>16. SlotsInv'
  <2>1. (lastFinal # Genesis => Final(lastFinal) \in disk)'
    BY <1>2, <1>13 DEF Final
  <2>2. (NextAfter(lastFinal) = first)' /\ (first \in 0..N /\ lastFinal \in ParentIds)'
    BY <1>2, <1>5 DEF NextAfter, ParentIds
  <2>3. /\ Runs(stored', skip_intervals') /\ RunsEnd(stored')
        /\ Best(stored', first', lastFinal', base')
    BY <1>2, <1>10, <1>11, <1>13
  <2>4. base' \in [0..N -> ParentIds \cup {None}] /\ now' \in first'..N
        /\ \A y \in stored' : y.type # "final" /\ y.slot >= first'
    BY <1>2, <1>9, <1>14, <1>15
  <2>5. \A t \in first'..(now' - 1) : Notarized(stored', t) \/ Skipped(stored', t)
    BY <1>2, <1>14
  <2> QED BY <2>1, <2>2, <2>3, <2>4, <2>5 DEF SlotsInv
<1> QED BY <1>1, <1>2, <1>3, <1>14, <1>16

-----------------------------------------------------------------------------
(* maybe_resolve_request. *)

(* a is an answer the certificates justify for candidate c. *)
RightAnswer(c, a) ==
    /\ a \in {"none", "waiting", "ok", "misbehavior", "error"}
    /\ a # "none" => NextAfter(ParentOf[c]) <= SlotOf[c]
    /\ a = "ok" => ReadyIn(disk, c)
    /\ a = "waiting" => ~ReadyIn(stored \cup {Final(d) : d \in {lastFinal} \ {Genesis}}, c)
    /\ a = "misbehavior" =>
          \/ ~ReadyIn(issued, c)
          \/ \E d \in Candidates \ {c} : SlotOf[d] = SlotOf[c] /\ Notar(d) \in issued

LEMMA MisbehaviorRight ==
    ASSUME CertsInv, SlotsInv, NEW c \in Candidates, NextAfter(ParentOf[c]) <= SlotOf[c],
           ~Pruned(c), ConflictsWithCertificate(c), ReadyIn(issued, c)
    PROVE  \E d \in Candidates \ {c} : SlotOf[d] = SlotOf[c] /\ Notar(d) \in issued
<1>1. PICK p, n, s, f : p = ParentOf[c] /\ n = NextAfter(p) /\ s = SlotOf[c] /\ f = first
  OBVIOUS
<1>2. /\ p \in ParentIds /\ n \in Nat /\ s \in Nat /\ f \in Nat /\ n <= s /\ f <= s
      /\ p # Genesis => p \in Candidates /\ n = SlotOf[p] + 1 /\ SlotOf[p] \in Nat
      /\ p = Genesis => n = 0
  <2>1. p \in ParentIds /\ n \in 0..N /\ s \in Slots /\ f \in 0..N
    BY <1>1, Constants DEF SlotsInv
  <2>2. n \in Nat /\ s \in Nat /\ f \in Nat
    BY <2>1, Constants, SMTT(20)
  <2>3. n <= s /\ f <= s
    BY <1>1, <2>2, SMTT(20) DEF Pruned
  <2>4. p # Genesis => p \in Candidates /\ n = SlotOf[p] + 1 /\ SlotOf[p] \in Nat
    BY <1>1, <2>1, Constants DEF ParentIds
  <2>5. p = Genesis => n = 0
    BY <1>1, Constants
  <2> QED BY <2>1, <2>2, <2>3, <2>4, <2>5
<1>3. f > 0 => /\ lastFinal \in Candidates /\ f = SlotOf[lastFinal] + 1
               /\ SlotOf[lastFinal] \in Nat /\ Final(lastFinal) \in issued
  <2> SUFFICES ASSUME f > 0
               PROVE  /\ lastFinal \in Candidates /\ f = SlotOf[lastFinal] + 1
                      /\ SlotOf[lastFinal] \in Nat /\ Final(lastFinal) \in issued
    OBVIOUS
  <2>0. f # 0
    BY <1>2, SMTT(20)
  <2>1. NextAfter(lastFinal) = f /\ lastFinal # Genesis
    BY <1>1, <2>0, Constants DEF SlotsInv
  <2>2. lastFinal \in Candidates
    BY <2>1 DEF SlotsInv, ParentIds
  <2>3. Final(lastFinal) \in issued
    BY <2>1 DEF SlotsInv, CertsInv
  <2>4. SlotOf[lastFinal] \in Nat /\ f = SlotOf[lastFinal] + 1
    BY <2>1, <2>2, Constants
  <2> QED BY <2>2, <2>3, <2>4
<1>4. p # Genesis => Notar(p) \in issued
  <2> SUFFICES ASSUME p # Genesis PROVE Notar(p) \in issued
    OBVIOUS
  <2>1. Notar(p) \in issued \/ Final(p) \in issued
    BY <1>1 DEF ReadyIn
  <2> QED BY <1>2, <2>1 DEF CertsInv, Consistent
<1>5. CASE n < f
  <2>1. f - 1 \in n..(s - 1) /\ f > 0 /\ f - 1 = SlotOf[lastFinal]
    BY <1>2, <1>3, <1>5, SMTT(20)
  <2>2. Skip(f - 1) \in issued
    BY <1>1, <2>1 DEF ReadyIn
  <2> QED BY <1>3, <2>1, <2>2 DEF CertsInv, Consistent
<1>6. CASE \E x \in stored : x.type # "skip" /\ x.slot = s /\ x.id # c
  <2>1. PICK x \in stored : x.type # "skip" /\ x.slot = s /\ x.id # c
    BY <1>6
  <2>2. x \in Certs /\ x \in issued /\ x.type # "final"
    BY DEF CertsInv, SlotsInv
  <2>3. x.id \in Candidates /\ SlotOf[x.id] = s /\ x = Notar(x.id)
    BY <2>1, <2>2, CertShape
  <2> QED BY <1>1, <2>1, <2>2, <2>3
<1>7. CASE n = f /\ lastFinal # p
  <2>1. p # Genesis
    <3> SUFFICES ASSUME p = Genesis PROVE FALSE
      OBVIOUS
    <3>1. NextAfter(lastFinal) = 0 /\ lastFinal \in Candidates
      BY <1>1, <1>2, <1>7 DEF SlotsInv, ParentIds
    <3>2. NextAfter(lastFinal) = SlotOf[lastFinal] + 1 /\ SlotOf[lastFinal] \in Nat
      BY <3>1, Constants
    <3> QED BY <3>1, <3>2, SMTT(20)
  <2>2. f > 0
    BY <1>2, <1>7, <2>1, SMTT(20)
  <2>3. SlotOf[lastFinal] = SlotOf[p]
    BY <1>2, <1>3, <1>7, <2>1, <2>2, SMTT(20)
  <2>4. {Notar(p), Final(lastFinal)} \subseteq issued /\ p \in Candidates
    BY <1>2, <1>3, <1>4, <2>1, <2>2
  <2> QED BY <1>3, <1>7, <2>2, <2>3, <2>4 DEF CertsInv, Consistent
<1>8. CASE n > f /\ \E x \in stored : x.type = "notar" /\ x.slot = n - 1 /\ x.id # p
  <2>1. PICK x \in stored : x.type = "notar" /\ x.slot = n - 1 /\ x.id # p
    BY <1>8
  <2>2. x \in Certs /\ x \in issued
    BY DEF CertsInv
  <2>3. x.id \in Candidates /\ SlotOf[x.id] = n - 1 /\ x = Notar(x.id)
    BY <2>1, <2>2, CertShape
  <2>4. p # Genesis
    BY <1>2, <1>8, SMTT(20)
  <2>5. SlotOf[p] = n - 1 /\ p \in Candidates
    BY <1>2, <2>4, SMTT(20)
  <2>6. {Notar(x.id), Notar(p)} \subseteq issued
    BY <1>4, <2>2, <2>3, <2>4
  <2> QED BY <2>1, <2>3, <2>5, <2>6 DEF CertsInv, Consistent
<1> QED BY <1>1, <1>5, <1>6, <1>7, <1>8 DEF ConflictsWithCertificate

(* The slots between the parent and the candidate are skipped. *)
LEMMA GapSkipped ==
    ASSUME CertsInv, SlotsInv, NEW n \in Nat, NEW s \in Nat, n <= s
    PROVE  (n = s \/ (Skipped(stored, n) /\ EndOfRun(skip_intervals, n) >= s))
           <=> \A t \in n..(s - 1) : Skip(t) \in stored
<1>1. PICK S, I, e : S = stored /\ I = skip_intervals /\ e = EndOfRun(I, n)
  OBVIOUS
<1>2. S \in SUBSET Certs /\ Runs(S, I) /\ RunsEnd(S)
  BY <1>1 DEF CertsInv, SlotsInv
<1>3. \A t : Skip(t) \in S <=> Skipped(S, t)
  BY <1>2, SkippedSlots
<1>4. CASE n = s
  BY <1>4, SMTT(20)
<1>5. CASE n # s /\ ~Skipped(S, n)
  <2>1. n \in n..(s - 1)
    BY <1>5, SMTT(20)
  <2> QED BY <1>1, <1>3, <1>5, <2>1
<1>6. CASE n # s /\ Skipped(S, n)
  <2>1. FirstAfter(S, n, e)
    BY <1>1, <1>2, <1>6, RunEnd
  <2>2. e \in Nat /\ e > n /\ ~Skipped(S, e) /\ \A t \in (n + 1)..(e - 1) : Skipped(S, t)
    BY <2>1, Constants, SMTT(20) DEF FirstAfter
  <2>3. e >= s => \A t \in n..(s - 1) : Skipped(S, t)
    <3> SUFFICES ASSUME e >= s, NEW t \in n..(s - 1) PROVE Skipped(S, t)
      OBVIOUS
    <3>1. t = n \/ t \in (n + 1)..(e - 1)
      BY <2>2, SMTT(20)
    <3> QED BY <1>6, <2>2, <3>1
  <2>4. (\A t \in n..(s - 1) : Skipped(S, t)) => e >= s
    <3> SUFFICES ASSUME ~(e >= s) PROVE \E t \in n..(s - 1) : ~Skipped(S, t)
      OBVIOUS
    <3>1. e \in n..(s - 1)
      BY <2>2, SMTT(20)
    <3> QED BY <2>2, <3>1
  <2> QED BY <1>1, <1>3, <1>6, <2>3, <2>4
<1> QED BY <1>1, <1>4, <1>5, <1>6

LEMMA KnownRight ==
    ASSUME CertsInv, SlotsInv, NEW c \in Candidates, NextAfter(ParentOf[c]) <= SlotOf[c],
           ~Pruned(c), ~ConflictsWithCertificate(c)
    PROVE  /\ ParentKnown(c) => ReadyIn(disk, c)
           /\ ReadyIn(stored \cup {Final(d) : d \in {lastFinal} \ {Genesis}}, c) => ParentKnown(c)
<1>1. PICK p, n, s, f : p = ParentOf[c] /\ n = NextAfter(p) /\ s = SlotOf[c] /\ f = first
  OBVIOUS
<1>2. PICK S, F : S = stored /\ F = {Final(d) : d \in {lastFinal} \ {Genesis}}
  OBVIOUS
<1>3. p \in ParentIds /\ n \in Nat /\ s \in Nat /\ f \in Nat /\ n <= s /\ S \in SUBSET Certs
  <2>1. p \in ParentIds /\ n \in 0..N /\ s \in Slots /\ f \in 0..N
    BY <1>1, Constants DEF SlotsInv
  <2>2. S \in SUBSET Certs
    BY <1>2 DEF CertsInv
  <2> QED BY <1>1, <2>1, <2>2, Constants, SMTT(20)
<1>4. /\ p # Genesis => p \in Candidates /\ n = SlotOf[p] + 1 /\ SlotOf[p] \in Nat
      /\ p = Genesis => n = 0
  BY <1>1, <1>3, Constants DEF ParentIds
<1>5. n >= f
  BY <1>1, <1>3, SMTT(20) DEF ConflictsWithCertificate
<1>6. (n = s \/ (Skipped(S, n) /\ EndOfRun(skip_intervals, n) >= s))
      <=> \A t \in n..(s - 1) : Skip(t) \in S
  BY <1>2, <1>3, GapSkipped
<1>7. ParentKnown(c) <=> /\ n = f \/ Notarized(S, n - 1)
                         /\ \A t \in n..(s - 1) : Skip(t) \in S
  BY <1>1, <1>2, <1>6 DEF ParentKnown
<1>8. ASSUME n = f \/ Notarized(S, n - 1), p # Genesis
      PROVE  {Notar(p), Final(p)} \cap disk # {}
  <2>1. CASE n = f
    <3>1. lastFinal = p
      BY <1>1, <2>1 DEF ConflictsWithCertificate
    <3> QED BY <1>8, <3>1 DEF SlotsInv
  <2>2. CASE n # f
    <3>1. PICK x \in S : x.type = "notar" /\ x.slot = n - 1
      BY <1>8, <2>2 DEF Notarized
    <3>2. n > f
      BY <1>3, <1>5, <2>2, SMTT(20)
    <3>3. x.id = p
      BY <1>1, <1>2, <3>1, <3>2 DEF ConflictsWithCertificate
    <3>4. x = Notar(p)
      BY <1>3, <3>1, <3>3, CertShape
    <3> QED BY <1>2, <3>4 DEF CertsInv
  <2> QED BY <2>1, <2>2
<1>9. ParentKnown(c) => ReadyIn(disk, c)
  <2> SUFFICES ASSUME ParentKnown(c) PROVE ReadyIn(disk, c)
    OBVIOUS
  <2>1. \A t \in n..(s - 1) : Skip(t) \in disk
    BY <1>2, <1>7 DEF CertsInv
  <2>2. p = Genesis \/ {Notar(p), Final(p)} \cap disk # {}
    BY <1>7, <1>8
  <2> QED BY <1>1, <1>3, <2>1, <2>2 DEF ReadyIn
<1>10. ReadyIn(S \cup F, c) => ParentKnown(c)
  <2> SUFFICES ASSUME ReadyIn(S \cup F, c) PROVE ParentKnown(c)
    OBVIOUS
  <2>1. \A y \in F : y.type = "final" /\ y.id = lastFinal
    BY <1>2, SMTT(20) DEF Final
  <2>2. \A t : Skip(t).type = "skip"
    BY DEF Skip
  <2>3. \A t \in n..(s - 1) : Skip(t) \in S
    BY <1>1, <2>1, <2>2 DEF ReadyIn
  <2>4. CASE p = Genesis
    <3>1. n = f
      BY <1>3, <1>4, <1>5, <2>4, SMTT(20)
    <3> QED BY <1>7, <2>3, <3>1
  <2>5. CASE p # Genesis /\ Notar(p) \in S \cup F
    <3>1. Notar(p).type = "notar" /\ Notar(p).slot = SlotOf[p]
      BY DEF Notar
    <3>2. Notar(p) \in S /\ SlotOf[p] = n - 1
      BY <1>4, <2>1, <2>5, <3>1, SMTT(20)
    <3>3. Notarized(S, n - 1)
      BY <3>1, <3>2 DEF Notarized
    <3> QED BY <1>7, <2>3, <3>3
  <2>6. CASE p # Genesis /\ Final(p) \in S \cup F
    <3>1. Final(p).type = "final" /\ Final(p).id = p
      BY DEF Final
    <3>2. Final(p) \in F
      BY <1>2, <2>6, <3>1 DEF SlotsInv
    <3>3. lastFinal = p
      BY <2>1, <3>1, <3>2
    <3>4. n = f
      BY <1>1, <3>3 DEF SlotsInv
    <3> QED BY <1>7, <2>3, <3>4
  <2> QED BY <1>1, <2>4, <2>5, <2>6 DEF ReadyIn
<1> QED BY <1>2, <1>9, <1>10

AnswersInv ==
    /\ answer \in [Candidates -> {"none", "waiting", "ok", "misbehavior", "error"}]
    /\ \A c \in Candidates : RightAnswer(c, answer[c])

LEMMA AnswerRight ==
    CertsInv /\ SlotsInv =>
        \A c \in Candidates : NextAfter(ParentOf[c]) <= SlotOf[c] => RightAnswer(c, Answer(c))
<1> SUFFICES ASSUME CertsInv, SlotsInv, NEW c \in Candidates,
                    NextAfter(ParentOf[c]) <= SlotOf[c]
             PROVE  RightAnswer(c, Answer(c))
  OBVIOUS
<1>1. CASE Pruned(c)
  BY <1>1 DEF RightAnswer, Answer
<1>2. CASE ~Pruned(c) /\ ConflictsWithCertificate(c)
  <2>1. Answer(c) = "misbehavior"
    BY <1>2 DEF Answer
  <2> QED BY <1>2, <2>1, MisbehaviorRight DEF RightAnswer
<1>3. CASE ~Pruned(c) /\ ~ConflictsWithCertificate(c) /\ ParentKnown(c)
  <2>1. Answer(c) = "ok"
    BY <1>3 DEF Answer
  <2> QED BY <1>3, <2>1, KnownRight DEF RightAnswer
<1>4. CASE ~Pruned(c) /\ ~ConflictsWithCertificate(c) /\ ~ParentKnown(c)
  <2>1. Answer(c) = "waiting"
    BY <1>4 DEF Answer
  <2> QED BY <1>4, <2>1, KnownRight DEF RightAnswer
<1> QED BY <1>1, <1>2, <1>3, <1>4

LEMMA AnswerRightNext ==
    (CertsInv /\ SlotsInv)' =>
        (\A c \in Candidates : NextAfter(ParentOf[c]) <= SlotOf[c] => RightAnswer(c, Answer(c)))'
BY AnswerRight, PTL

(* A request answered stays answered rightly. *)
LEMMA AnswerStays ==
    ASSUME NEW c \in Candidates, NEW a, RightAnswer(c, a), disk \subseteq disk',
           UNCHANGED issued, a # "waiting" \/ UNCHANGED <<stored, lastFinal>>
    PROVE  RightAnswer(c, a)'
<1>1. ReadyIn(disk, c) => ReadyIn(disk', c)
  BY DEF ReadyIn
<1>2. (a = "ok" => ReadyIn(disk, c))'
  BY <1>1 DEF RightAnswer, ReadyIn, Notar, Final, Skip, NextAfter
<1>3. (a = "waiting" => ~ReadyIn(stored \cup {Final(d) : d \in {lastFinal} \ {Genesis}}, c))'
  BY DEF RightAnswer
<1>4. (a = "misbehavior" =>
          \/ ~ReadyIn(issued, c)
          \/ \E d \in Candidates \ {c} : SlotOf[d] = SlotOf[c] /\ Notar(d) \in issued)'
  BY DEF RightAnswer
<1>5. (a # "none" => NextAfter(ParentOf[c]) <= SlotOf[c])'
      /\ a \in {"none", "waiting", "ok", "misbehavior", "error"}
  BY DEF RightAnswer
<1> QED BY <1>2, <1>3, <1>4, <1>5 DEF RightAnswer

LEMMA AnswersStay ==
    ASSUME AnswersInv, disk \subseteq disk', UNCHANGED <<issued, stored, lastFinal, answer>>
    PROVE  AnswersInv'
<1>1. ASSUME NEW c \in Candidates PROVE RightAnswer(c, answer[c])'
  <2>1. PICK a : a = answer[c]
    OBVIOUS
  <2>2. RightAnswer(c, a)
    BY <2>1 DEF AnswersInv
  <2>3. RightAnswer(c, a)'
    BY <2>2, AnswerStays
  <2>4. answer'[c] = a
    BY <2>1
  <2> QED BY <2>3, <2>4
<1> QED BY <1>1 DEF AnswersInv

LEMMA RequestsResolved ==
    ASSUME AnswersInv, CertsInv', SlotsInv', disk \subseteq disk', UNCHANGED issued,
           ResolveRequests
    PROVE  AnswersInv'
<1>1. ASSUME NEW c \in Candidates PROVE RightAnswer(c, answer[c])'
  <2>1. PICK a : a = answer[c]
    OBVIOUS
  <2>2. RightAnswer(c, a)
    BY <2>1 DEF AnswersInv
  <2>3. CASE a = "waiting"
    <3>1. NextAfter(ParentOf[c]) <= SlotOf[c]
      BY <2>2, <2>3 DEF RightAnswer
    <3>2. RightAnswer(c, Answer(c))'
      BY <3>1, AnswerRightNext
    <3>3. answer'[c] = Answer(c)'
      BY <2>1, <2>3 DEF ResolveRequests
    <3> QED BY <3>2, <3>3
  <2>4. CASE a # "waiting"
    <3>1. answer'[c] = a
      BY <2>1, <2>4 DEF ResolveRequests
    <3>2. RightAnswer(c, a)'
      BY <2>2, <2>4, AnswerStays
    <3> QED BY <3>1, <3>2
  <2> QED BY <2>3, <2>4
<1>2. \A c \in Candidates : answer'[c] \in {"none", "waiting", "ok", "misbehavior", "error"}
  BY <1>1 DEF RightAnswer
<1>3. answer' \in [Candidates -> {"none", "waiting", "ok", "misbehavior", "error"}]
  BY <1>2 DEF ResolveRequests
<1> QED BY <1>1, <1>3 DEF AnswersInv

-----------------------------------------------------------------------------
IInv ==
    /\ CertsInv /\ SlotsInv /\ AnnouncedInv /\ AnnouncedTypes /\ AnswersInv
    /\ started \in BOOLEAN /\ restarts \in 0..MaxRestarts

(* What start_up has before the certificates of the disk. *)
LEMMA FreshSlots ==
    ASSUME NEW bs, bs = [s \in 0..N |-> IF s = 0 THEN Genesis ELSE None]
    PROVE  /\ bs \in [0..N -> ParentIds \cup {None}]
           /\ Runs({}, {}) /\ RunsEnd({}) /\ Best({}, 0, Genesis, bs)
<1>1. \A t : ~Skipped({}, t) /\ ~Notarized({}, t)
  BY DEF Skipped, Notarized
<1>2. bs \in [0..N -> ParentIds \cup {None}] /\ Runs({}, {})
  BY <1>1 DEF ParentIds, Runs
<1>e. RunsEnd({})
  <2>1. SkippedIn({}) = {} /\ DecidedIn({}) = {}
    BY <1>1 DEF SkippedIn, DecidedIn
  <2>2. \A s \in 0..N : s \in s..N /\ s \in 0..s /\ \A t \in s..(s - 1) : t \in {}
    BY Constants, SMTT(20)
  <2>3. Ends({})
    BY <2>2 DEF Ends
  <2> QED BY <2>1, <2>3 DEF RunsEnd
<1>3. ASSUME NEW s \in 0..N PROVE BestOf(bs[s], Bases({}, 0, Genesis, s))
  <2>1. CASE s = 0
    <3>1. Bases({}, 0, Genesis, s) = {Genesis}
      BY <2>1, Constants, SMTT(20) DEF Bases, ParentIds
    <3>2. bs[s] = Genesis /\ NextAfter(Genesis) <= NextAfter(Genesis)
      BY <2>1, Constants, SMTT(20)
    <3> QED BY <3>1, <3>2 DEF BestOf
  <2>2. CASE s # 0
    <3>1. 0 \in 0..(s - 1)
      BY <2>2, Constants, SMTT(20)
    <3>2. Bases({}, 0, Genesis, s) = {}
      BY <1>1, <3>1, Constants DEF Bases
    <3>3. bs[s] = None
      BY <2>2
    <3> QED BY <3>2, <3>3 DEF BestOf
  <2> QED BY <2>1, <2>2
<1> QED BY <1>2, <1>3, <1>e DEF Best

LEMMA InitIInv == Init => IInv
<1> SUFFICES ASSUME Init PROVE IInv
  OBVIOUS
<1>1. CertsInv
  BY DEF Init, CertsInv
<1>2. /\ base \in [0..N -> ParentIds \cup {None}]
      /\ Runs(stored, skip_intervals) /\ RunsEnd(stored) /\ Best(stored, first, lastFinal, base)
  <2>1. PICK bs : bs = base
    OBVIOUS
  <2>2. bs = [s \in 0..N |-> IF s = 0 THEN Genesis ELSE None]
    BY <2>1 DEF Init
  <2>3. /\ bs \in [0..N -> ParentIds \cup {None}]
        /\ Runs({}, {}) /\ RunsEnd({}) /\ Best({}, 0, Genesis, bs)
    BY <2>2, FreshSlots
  <2>4. stored = {} /\ skip_intervals = {} /\ first = 0 /\ lastFinal = Genesis
    BY DEF Init
  <2> QED BY <2>1, <2>3, <2>4
<1>3. SlotsInv
  BY <1>2, Constants, SMTT(20) DEF Init, SlotsInv, ParentIds
<1>4. AnnouncedInv /\ AnnouncedTypes
  BY SMTT(20) DEF Init, AnnouncedInv, AnnouncedTypes, AnnouncedBaseValid, AnnouncementsIncrease
<1>5. AnswersInv
  BY DEF Init, AnswersInv, RightAnswer
<1>6. started \in BOOLEAN /\ restarts \in 0..MaxRestarts
  <2>1. started = FALSE
    BY DEF Init
  <2>2. restarts \in 0..MaxRestarts
    BY PoolAssumption, SMTT(20) DEF Init
  <2> QED BY <2>1, <2>2
<1> QED BY <1>1, <1>3, <1>4, <1>5, <1>6 DEF IInv

LEMMA RestartIInv ==
    ASSUME IInv, Restart
    PROVE  IInv'
<1> USE DEF Restart, FreshMemory, diskVars
<1>1. CertsInv'
  BY DEF IInv, CertsInv, Consistent, ReadyIn, Certs, Notar, Final, Skip, NextAfter, Slots
<1>2. /\ base' \in [0..N -> ParentIds \cup {None}]
      /\ Runs(stored', skip_intervals') /\ RunsEnd(stored')
      /\ Best(stored', first', lastFinal', base')
  <2>1. PICK bs : bs = base'
    OBVIOUS
  <2>2. bs = [s \in 0..N |-> IF s = 0 THEN Genesis ELSE None]
    BY <2>1
  <2>3. /\ bs \in [0..N -> ParentIds \cup {None}]
        /\ Runs({}, {}) /\ RunsEnd({}) /\ Best({}, 0, Genesis, bs)
    BY <2>2, FreshSlots
  <2> QED BY <2>1, <2>3
<1>3. SlotsInv'
  <2>1. (NextAfter(lastFinal) = first)'
    BY DEF NextAfter
  <2>2. now' \in first'..N /\ first' \in 0..N /\ lastFinal' \in ParentIds
    BY Constants DEF ParentIds
  <2>3. \A t \in first'..(now' - 1) : Notarized(stored', t) \/ Skipped(stored', t)
    BY SMTT(20)
  <2> QED BY <1>2, <2>1, <2>2, <2>3 DEF SlotsInv
<1>4. AnnouncedInv' /\ AnnouncedTypes'
  BY SMTT(20) DEF IInv, AnnouncedInv, AnnouncedTypes, AnnouncedBaseValid, AnnouncementsIncrease
<1>5. AnswersInv'
  <2>1. ASSUME NEW c \in Candidates PROVE RightAnswer(c, answer[c])'
    <3>1. answer'[c] = "none"
      OBVIOUS
    <3> QED BY <3>1 DEF RightAnswer
  <2> QED BY <2>1 DEF AnswersInv
<1>6. started' \in BOOLEAN /\ restarts' \in 0..MaxRestarts
  <2>1. started' = FALSE
    OBVIOUS
  <2>2. restarts' \in 0..MaxRestarts
    BY PoolAssumption, SMTT(20) DEF IInv
  <2> QED BY <2>1, <2>2
<1> QED BY <1>1, <1>3, <1>4, <1>5, <1>6 DEF IInv

(* handle_saved_certificate, for a certificate that is new to its slot. *)
LEMMA Handled ==
    ASSUME IInv, NEW x \in issued, x \notin stored, Tracked(x.slot),
           disk' = disk \cup {x}, UNCHANGED <<issued, dbWindow>>, HandleSaved(x)
    PROVE  /\ SlotsInv' /\ AnnouncedInv' /\ AnnouncedTypes'
           /\ stored' \subseteq stored \cup {x} /\ ResolveRequests
<1>1. CASE x.type = "notar" /\ NotarSaved(x)
  BY <1>1, NotarStep DEF IInv, HandleSaved
<1>2. CASE x.type = "skip" /\ SkipSaved(x)
  BY <1>2, SkipStep DEF IInv, HandleSaved
<1>3. CASE x.type = "final" /\ FinalSaved(x)
  BY <1>3, FinalStep DEF IInv, HandleSaved
<1> QED BY <1>1, <1>2, <1>3 DEF HandleSaved

(* What stays when the pool derives nothing new. *)
LEMMA SlotsStay ==
    ASSUME SlotsInv, disk \subseteq disk', UNCHANGED slotVars
    PROVE  SlotsInv'
<1>1. (lastFinal # Genesis => Final(lastFinal) \in disk)'
  BY DEF SlotsInv, slotVars, Final
<1>2. (NextAfter(lastFinal) = first)'
  BY DEF SlotsInv, slotVars, NextAfter
<1> QED BY <1>1, <1>2 DEF SlotsInv, slotVars

LEMMA CertsMore ==
    ASSUME CertsInv, UNCHANGED issued, disk' \subseteq issued, stored' \subseteq disk',
           loading' \subseteq disk', saving' \subseteq issued,
           (saving' \cup loading') \cap stored' = {}, saving' = {} \/ loading' = {}
    PROVE  CertsInv'
BY DEF CertsInv, Consistent, ReadyIn, Certs, Notar, Final, Skip, NextAfter, Slots

LEMMA SavedIInv ==
    ASSUME IInv, NEW x \in issued, CertificateSaved(x)
    PROVE  IInv'
<1>1. /\ x \in saving /\ saving' = saving \ {x} /\ disk' = disk \cup {x}
      /\ UNCHANGED <<issued, dbWindow, loading, started, restarts>>
  BY DEF CertificateSaved
<1>2. x \notin stored /\ loading = {} /\ disk \subseteq disk' /\ disk' \subseteq issued
  BY <1>1 DEF IInv, CertsInv
<1>3. CASE Tracked(x.slot) /\ HandleSaved(x)
  <2>1. /\ SlotsInv' /\ AnnouncedInv' /\ AnnouncedTypes'
        /\ stored' \subseteq stored \cup {x} /\ ResolveRequests
    BY <1>1, <1>2, <1>3, Handled
  <2>2. CertsInv'
    BY <1>1, <1>2, <2>1, CertsMore DEF IInv, CertsInv
  <2>3. AnswersInv'
    BY <1>1, <1>2, <2>1, <2>2, RequestsResolved DEF IInv
  <2> QED BY <1>1, <2>1, <2>2, <2>3 DEF IInv
<1>4. CASE UNCHANGED <<slotVars, nonannounced, announced, answer>>
  <2>1. CertsInv'
    BY <1>1, <1>2, <1>4, CertsMore DEF IInv, CertsInv, slotVars
  <2>2. SlotsInv'
    BY <1>2, <1>4, SlotsStay DEF IInv
  <2>3. AnnouncedInv' /\ AnnouncedTypes'
    BY <1>1, <1>2, <1>4, AnnouncedStays DEF IInv
  <2>4. AnswersInv'
    BY <1>1, <1>2, <1>4, AnswersStay DEF IInv, slotVars
  <2> QED BY <1>1, <2>1, <2>2, <2>3, <2>4 DEF IInv
<1> QED BY <1>3, <1>4 DEF CertificateSaved

LEMMA BootstrapIInv ==
    ASSUME IInv, NEW x \in issued, BootstrapCertificate(x)
    PROVE  IInv'
<1>1. /\ x \in loading /\ loading' = loading \ {x}
      /\ UNCHANGED <<issued, disk, dbWindow, saving, started, restarts>>
  BY DEF BootstrapCertificate, diskVars
<1>2. x \notin stored /\ saving = {} /\ disk' = disk \cup {x}
  BY <1>1 DEF IInv, CertsInv
<1>3. CASE Tracked(x.slot) /\ HandleSaved(x)
  <2>1. /\ SlotsInv' /\ AnnouncedInv' /\ AnnouncedTypes'
        /\ stored' \subseteq stored \cup {x} /\ ResolveRequests
    BY <1>1, <1>2, <1>3, Handled
  <2>2. CertsInv'
    BY <1>1, <1>2, <2>1, CertsMore DEF IInv, CertsInv
  <2>3. AnswersInv'
    BY <1>1, <2>1, <2>2, RequestsResolved DEF IInv
  <2> QED BY <1>1, <2>1, <2>2, <2>3 DEF IInv
<1>4. CASE UNCHANGED <<slotVars, nonannounced, announced, answer>>
  <2>1. CertsInv'
    BY <1>1, <1>2, <1>4, CertsMore DEF IInv, CertsInv, slotVars
  <2>2. SlotsInv'
    BY <1>1, <1>4, SlotsStay DEF IInv
  <2>3. AnnouncedInv' /\ AnnouncedTypes'
    BY <1>1, <1>4, AnnouncedStays DEF IInv
  <2>4. AnswersInv'
    BY <1>1, <1>4, AnswersStay DEF IInv, slotVars
  <2> QED BY <1>1, <2>1, <2>2, <2>3, <2>4 DEF IInv
<1> QED BY <1>3, <1>4 DEF BootstrapCertificate

LEMMA HandleIInv ==
    ASSUME IInv, NEW x \in issued, HandleCertificate(x)
    PROVE  IInv'
<1> USE DEF HandleCertificate, diskVars
<1>1. x \notin stored
  BY DEF Needs
<1>2. CertsInv'
  BY <1>1, CertsMore DEF IInv, CertsInv, slotVars
<1>3. SlotsInv' /\ AnnouncedInv' /\ AnnouncedTypes'
  BY SlotsStay, AnnouncedStays DEF IInv
<1>4. AnswersInv'
  BY AnswersStay DEF IInv, slotVars
<1> QED BY <1>2, <1>3, <1>4 DEF IInv

LEMMA WaitIInv ==
    ASSUME IInv, NEW c \in Candidates, WaitForParent(c)
    PROVE  IInv'
<1> USE DEF WaitForParent, diskVars
<1>1. CertsInv'
  BY CertsMore DEF IInv, CertsInv, slotVars
<1>2. SlotsInv' /\ AnnouncedInv' /\ AnnouncedTypes'
  BY SlotsStay, AnnouncedStays DEF IInv
<1>3. RightAnswer(c, Answer(c))
  BY AnswerRight DEF IInv
<1>4. ASSUME NEW d \in Candidates PROVE RightAnswer(d, answer[d])'
  <2>1. PICK a : a = IF d = c THEN Answer(c) ELSE answer[d]
    OBVIOUS
  <2>2. RightAnswer(d, a)
    BY <1>3, <2>1 DEF IInv, AnswersInv
  <2>3. RightAnswer(d, a)'
    BY <2>2, AnswerStays DEF slotVars
  <2>4. answer'[d] = a
    BY <2>1 DEF IInv, AnswersInv
  <2> QED BY <2>3, <2>4
<1>5. AnswersInv'
  <2>1. Answer(c) \in {"none", "waiting", "ok", "misbehavior", "error"}
    BY <1>3 DEF RightAnswer
  <2>2. answer' \in [Candidates -> {"none", "waiting", "ok", "misbehavior", "error"}]
    BY <2>1 DEF IInv, AnswersInv
  <2> QED BY <1>4, <2>2 DEF AnswersInv
<1> QED BY <1>1, <1>2, <1>5 DEF IInv

LEMMA StartIInv ==
    ASSUME IInv, Start
    PROVE  IInv'
<1>1. /\ started' = TRUE /\ advance_present(TRUE, stored, base, now)
      /\ UNCHANGED <<issued, disk, dbWindow, stored, base, skip_intervals, first, lastFinal,
                     saving, loading, answer, restarts>>
  BY DEF Start, diskVars
<1>2. CertsInv'
  BY <1>1, CertsMore DEF IInv, CertsInv
<1>3. /\ now' \in first..N
      /\ \A t \in first..(now' - 1) : Notarized(stored, t) \/ Skipped(stored, t)
      /\ AnnouncedInv' /\ AnnouncedTypes'
  <2>1. PICK S, f, l, n, bs, st : /\ S = stored /\ f = first /\ l = lastFinal /\ n = now
                                  /\ bs = base /\ st = TRUE
    OBVIOUS
  <2>2. /\ S \in SUBSET Certs /\ S \subseteq disk' /\ f \in 0..N /\ l \in ParentIds
        /\ NextAfter(l) = f /\ (l # Genesis => Final(l) \in disk') /\ Best(S, f, l, bs)
        /\ RunsEnd(S)
        /\ n \in f..N /\ (\A t \in f..(n - 1) : Notarized(S, t) \/ Skipped(S, t))
        /\ advance_present(st, S, bs, n)
    BY <1>1, <2>1 DEF IInv, CertsInv, SlotsInv
  <2>3. /\ now' \in f..N
        /\ \A t \in f..(now' - 1) : Notarized(S, t) \/ Skipped(S, t)
        /\ AnnouncedInv' /\ AnnouncedTypes'
    BY <1>1, <2>2, Advance DEF IInv
  <2> QED BY <2>1, <2>3
<1>4. SlotsInv'
  <2>1. (lastFinal # Genesis => Final(lastFinal) \in disk)'
    BY <1>1 DEF IInv, SlotsInv, Final
  <2>2. (NextAfter(lastFinal) = first)'
    BY <1>1 DEF IInv, SlotsInv, NextAfter
  <2> QED BY <1>1, <1>3, <2>1, <2>2 DEF IInv, SlotsInv
<1>5. AnswersInv'
  BY <1>1, AnswersStay DEF IInv
<1> QED BY <1>1, <1>2, <1>3, <1>4, <1>5 DEF IInv

LEMMA WindowIInv ==
    ASSUME IInv, WindowSaved
    PROVE  IInv'
<1>1. UNCHANGED <<issued, disk, slotVars, saving, loading, started, nonannounced, answer,
                  restarts>>
  BY DEF WindowSaved
<1>2. CertsInv'
  BY <1>1, CertsMore DEF IInv, CertsInv, slotVars
<1>3. SlotsInv'
  BY <1>1, SlotsStay DEF IInv
<1>4. AnnouncedInv' /\ AnnouncedTypes'
  BY WindowWritten DEF IInv
<1>5. AnswersInv'
  BY <1>1, AnswersStay DEF IInv, slotVars
<1> QED BY <1>1, <1>2, <1>3, <1>4, <1>5 DEF IInv

LEMMA StepIInv == IInv /\ [Next]_vars => IInv'
<1> SUFFICES ASSUME IInv, [Next]_vars PROVE IInv'
  OBVIOUS
<1>1. CASE \E x \in issued : HandleCertificate(x)
  BY <1>1, HandleIInv
<1>2. CASE \E x \in issued : CertificateSaved(x)
  BY <1>2, SavedIInv
<1>3. CASE \E x \in issued : BootstrapCertificate(x)
  BY <1>3, BootstrapIInv
<1>4. CASE \E c \in Received : WaitForParent(c)
  BY <1>4, WaitIInv, PoolAssumption
<1>5. CASE Start
  BY <1>5, StartIInv
<1>6. CASE WindowSaved
  BY <1>6, WindowIInv
<1>7. CASE Restart
  BY <1>7, RestartIInv
<1>8. CASE UNCHANGED vars
  <2>1. UNCHANGED <<issued, disk, dbWindow, slotVars, saving, loading, started, nonannounced,
                    announced, answer, restarts>>
    BY <1>8 DEF vars, diskVars
  <2>2. CertsInv'
    BY <2>1, CertsMore DEF IInv, CertsInv, slotVars
  <2>3. SlotsInv' /\ AnnouncedInv' /\ AnnouncedTypes'
    BY <2>1, SlotsStay, AnnouncedStays DEF IInv
  <2>4. AnswersInv'
    BY <2>1, AnswersStay DEF IInv, slotVars
  <2> QED BY <2>1, <2>2, <2>3, <2>4 DEF IInv
<1> QED BY <1>1, <1>2, <1>3, <1>4, <1>5, <1>6, <1>7, <1>8 DEF Next

LEMMA PoolInvariant == Spec => []IInv
BY InitIInv, StepIInv, PTL DEF Spec

-----------------------------------------------------------------------------
(* skip_intervals_ is exact: however many slots are skipped, finalized and loaded
   again, lower_bound in next_nonskipped_slot_after and maybe_resolve_request
   finds the end of the run of skipped slots it is asked for. *)
THEOREM SkipIntervalsRight == Spec => []SkipIntervalsExact
<1>1. IInv => SkipIntervalsExact
  BY DEF IInv, SlotsInv, Runs, SkipIntervalsExact
<1> QED BY <1>1, PoolInvariant, PTL

(* available_base, maintained by add_available_base one certificate at a time, is
   the highest block that a slot can build on. *)
THEOREM BasesRight == Spec => []BaseIsBest
<1>1. IInv => BaseIsBest
  <2> SUFFICES ASSUME IInv, NEW s \in 0..N, Tracked(s), ~Skipped(stored, s)
               PROVE  IF BasesFor(s) = {} THEN base[s] = None
                      ELSE /\ base[s] \in BasesFor(s)
                           /\ \A p \in BasesFor(s) : NextAfter(p) <= NextAfter(base[s])
    BY DEF BaseIsBest
  <2>1. BasesFor(s) = Bases(stored, first, lastFinal, s)
    <3>1. \A y \in stored : y.type = "notar" => y.id \in ParentIds
      BY CertShape DEF IInv, CertsInv, ParentIds
    <3>2. lastFinal \in ParentIds
      BY DEF IInv, SlotsInv
    <3>3. \A p : p \in {x.id : x \in {y \in stored : y.type = "notar"}} \cup {lastFinal}
                 <=> /\ p \in ParentIds
                     /\ p = lastFinal \/ \E x \in stored : x.type = "notar" /\ x.id = p
      BY <3>1, <3>2
    <3> QED BY <3>3 DEF BasesFor, Bases
  <2>2. BestOf(base[s], Bases(stored, first, lastFinal, s))
    BY DEF IInv, SlotsInv, Best, Tracked
  <2> QED BY <2>1, <2>2 DEF BestOf
<1> QED BY <1>1, PoolInvariant, PTL

(* Every leader window is announced with a base (the CHECK at pool.cpp:747 holds),
   certified and followed by skipped slots only, all of it on disk. *)
THEOREM AnnouncedBases == Spec => []AnnouncedBaseValid
<1>1. IInv => AnnouncedBaseValid
  BY DEF IInv, AnnouncedInv
<1> QED BY <1>1, PoolInvariant, PTL

(* The windows written to disk increase, so that the CHECK at db.cpp:99 holds and
   no window is announced twice, whenever the validator crashes. *)
THEOREM AnnouncementsOnce == Spec => []AnnouncementsIncrease
<1>1. IInv => AnnouncementsIncrease
  BY DEF IInv, AnnouncedInv
<1> QED BY <1>1, PoolInvariant, PTL

(* maybe_resolve_request says yes only with proof on disk, and a request that
   still waits has none: maybe_resolve_requests forgets nobody. *)
THEOREM ParentAnswers == Spec => []ParentAnswerExact
<1>1. IInv => ParentAnswerExact
  BY DEF IInv, AnswersInv, RightAnswer, ParentAnswerExact
<1> QED BY <1>1, PoolInvariant, PTL

(* Whoever maybe_resolve_request reports produced a candidate that the group can
   never notarize, or one beside another that it did notarize. *)
THEOREM ReportsJustified == Spec => []MisbehaviorJustified
<1>1. IInv => MisbehaviorJustified
  BY DEF IInv, AnswersInv, RightAnswer, MisbehaviorJustified
<1> QED BY <1>1, PoolInvariant, PTL

-----------------------------------------------------------------------------
(* What one life of the pool keeps, and what it finds again on disk. *)

LEMMA AdvanceForward ==
    ASSUME NEW S \in SUBSET Certs, RunsEnd(S), NEW n \in 0..N, NEW bs, NEW st,
           advance_present(st, S, bs, n)
    PROVE  now' \in n..N
<1>1. CASE ~st
  BY <1>1, Constants, SMTT(20) DEF advance_present
<1>2. CASE st
  <2>1. PICK p : p = CHOOSE m \in n..N :
                        /\ ~Notarized(S, m) /\ ~Skipped(S, m)
                        /\ \A t \in n..(m - 1) : Notarized(S, t) \/ Skipped(S, t)
    OBVIOUS
  <2>2. p \in n..N
    BY <2>1, Present
  <2>3. now' = p
    BY <1>2, <2>1 DEF advance_present
  <2> QED BY <2>2, <2>3
<1> QED BY <1>1, <1>2

LEMMA HandledForward ==
    ASSUME IInv, NEW x \in issued, Tracked(x.slot), HandleSaved(x)
    PROVE  /\ first' \in Nat /\ first <= first' /\ now <= now'
           /\ \A y \in stored \cup {x} : y \in stored' \/ y.slot < first'
<1>1. PICK S, n, f, s : S = stored \cup {x} /\ n = now /\ f = first /\ s = x.slot
  OBVIOUS
<1>2. S \in SUBSET Certs /\ RunsEnd(S) /\ x \in Certs
  BY <1>1, RunsEndMore DEF IInv, CertsInv, SlotsInv
<1>3. n \in 0..N /\ f \in 0..N /\ f <= s /\ s \in Slots
  <2>1. n \in first..N /\ first \in 0..N
    BY <1>1 DEF IInv, SlotsInv
  <2>2. s \in Slots
    BY <1>1, <1>2, CertShape
  <2> QED BY <1>1, <2>1, <2>2, Constants, SMTT(20) DEF Tracked
<1>4. s \in Nat /\ s + 1 \in 0..N
  BY <1>3, Constants
<1>5. \A m \in 0..N : \A bs, st : advance_present(st, S, bs, m) => now' \in m..N
  BY <1>2, AdvanceForward
<1>6. CASE (x.type = "notar" /\ NotarSaved(x)) \/ (x.type = "skip" /\ SkipSaved(x))
  <2>1. stored' = S /\ first' = f /\ \E bs : advance_present(started, S, bs, n)
    BY <1>1, <1>6 DEF NotarSaved, SkipSaved
  <2>2. now' \in n..N
    BY <1>3, <1>5, <2>1
  <2>3. first' \in Nat /\ f <= first' /\ n <= now'
    BY <1>3, <2>1, <2>2, SMTT(20)
  <2> QED BY <1>1, <2>1, <2>3
<1>7. CASE x.type = "final" /\ FinalSaved(x)
  <2>1. /\ first' = s + 1 /\ stored' = {y \in S : y.slot > s}
        /\ \/ n <= s /\ \E bs : advance_present(started, S, bs, s + 1)
           \/ now' = n
    BY <1>1, <1>7 DEF FinalSaved
  <2>2. (now' \in (s + 1)..N /\ n <= s) \/ now' = n
    BY <1>4, <1>5, <2>1
  <2>3. first' \in Nat /\ f <= first' /\ n <= now'
    BY <1>3, <1>4, <2>1, <2>2, SMTT(20)
  <2>4. \A y \in S : y.slot \in Nat
    BY <1>2, CertShape, Constants
  <2>5. ASSUME NEW y \in S, ~(y.slot > s) PROVE y.slot < s + 1
    BY <1>4, <2>4, <2>5, SMTT(20)
  <2> QED BY <1>1, <2>1, <2>3, <2>5
<1> QED BY <1>6, <1>7 DEF HandleSaved

(* While the process lives, first_nonfinalized_slot_ and now_ only grow. *)
NeverBack == restarts' = restarts => first <= first' /\ now <= now'

(* Every certificate on disk is still to be loaded, or in its slot, or of a slot
   below the finalized ones. *)
DiskCovered == \A x \in disk : x \in loading \cup stored \/ x.slot < first

LEMMA StepForward ==
    ASSUME IInv, DiskCovered, [Next]_vars
    PROVE  NeverBack /\ DiskCovered'
<1>1. /\ first \in Nat /\ now \in Nat
      /\ \A x \in disk \cup saving \cup loading : x \in issued /\ x.slot \in Nat
  <2>1. first \in Nat /\ now \in Nat
    BY Constants, SMTT(20) DEF IInv, SlotsInv
  <2> QED BY <2>1, CertShape, Constants DEF IInv, CertsInv
<1>2. first <= first /\ now <= now
  BY <1>1, SMTT(20)
<1>3. CASE UNCHANGED <<disk, slotVars>> /\ loading' = loading
  BY <1>2, <1>3 DEF NeverBack, DiskCovered, slotVars
<1>4. ASSUME NEW x \in issued, Tracked(x.slot), HandleSaved(x),
             disk' = disk \cup {x}, loading' = loading \ {x}
      PROVE  NeverBack /\ DiskCovered'
  <2>1. /\ first' \in Nat /\ first <= first' /\ now <= now'
        /\ \A y \in stored \cup {x} : y \in stored' \/ y.slot < first'
    BY <1>4, HandledForward
  <2>2. \A y \in disk : y.slot < first => y.slot < first'
    BY <1>1, <2>1, SMTT(20)
  <2> QED BY <1>4, <2>1, <2>2 DEF NeverBack, DiskCovered
<1>5. ASSUME NEW x \in issued, ~Tracked(x.slot), UNCHANGED slotVars, x.slot \in Nat,
             disk' = disk \cup {x}, loading' = loading \ {x}
      PROVE  NeverBack /\ DiskCovered'
  <2>1. x.slot < first
    BY <1>1, <1>5, SMTT(20) DEF Tracked
  <2> QED BY <1>2, <1>5, <2>1 DEF NeverBack, DiskCovered, slotVars
<1>6. ASSUME NEW x \in issued, CertificateSaved(x) PROVE NeverBack /\ DiskCovered'
  <2>1. x \in saving /\ disk' = disk \cup {x} /\ loading' = loading /\ loading = {}
    BY <1>6 DEF CertificateSaved, IInv, CertsInv
  <2>2. loading' = loading \ {x}
    BY <2>1
  <2> QED BY <1>1, <1>4, <1>5, <1>6, <2>1, <2>2 DEF CertificateSaved
<1>7. ASSUME NEW x \in issued, BootstrapCertificate(x) PROVE NeverBack /\ DiskCovered'
  <2>1. x \in loading /\ disk' = disk /\ loading' = loading \ {x} /\ loading \subseteq disk
    BY <1>7 DEF BootstrapCertificate, diskVars, IInv, CertsInv
  <2>2. disk' = disk \cup {x}
    BY <2>1
  <2> QED BY <1>1, <1>4, <1>5, <1>7, <2>1, <2>2 DEF BootstrapCertificate
<1>8. CASE Start
  <2>1. PICK S, n, bs : S = stored /\ n = now /\ bs = base
    OBVIOUS
  <2>2. /\ S \in SUBSET Certs /\ RunsEnd(S) /\ n \in first..N /\ first \in 0..N
        /\ advance_present(TRUE, S, bs, n)
    BY <1>8, <2>1 DEF Start, IInv, CertsInv, SlotsInv
  <2>n. n \in 0..N
    BY <2>2, Constants, SMTT(20)
  <2>3. now' \in n..N
    BY <2>2, <2>n, AdvanceForward
  <2>4. now <= now'
    BY <2>1, <2>n, <2>3, Constants, SMTT(20)
  <2> QED BY <1>2, <1>8, <2>4 DEF Start, diskVars, NeverBack, DiskCovered
<1>9. CASE Restart
  <2>1. restarts' # restarts
    BY <1>9, PoolAssumption, SMTT(20) DEF Restart, IInv
  <2> QED BY <1>9, <2>1 DEF Restart, diskVars, NeverBack, DiskCovered
<1>10. CASE WindowSaved \/ UNCHANGED vars
  BY <1>3, <1>10 DEF WindowSaved, vars, diskVars
<1>11. ASSUME NEW x \in issued, HandleCertificate(x) PROVE NeverBack /\ DiskCovered'
  BY <1>3, <1>11 DEF HandleCertificate, diskVars
<1>12. ASSUME NEW c \in Received, WaitForParent(c) PROVE NeverBack /\ DiskCovered'
  BY <1>3, <1>12 DEF WaitForParent, diskVars
<1> QED BY <1>6, <1>7, <1>8, <1>9, <1>10, <1>11, <1>12 DEF Next

LEMMA DiskInvariant == Spec => [](IInv /\ DiskCovered)
<1>1. Init => DiskCovered
  BY DEF Init, DiskCovered
<1>2. (IInv /\ DiskCovered) /\ [Next]_vars => (IInv /\ DiskCovered)'
  BY StepForward, StepIInv
<1> QED BY <1>1, <1>2, InitIInv, PTL DEF Spec

(* Once start_up has gone through the disk, no certificate on it is forgotten, in
   whatever order they were read: its slot has it, or is finalized. In particular
   nothing that was final before a crash is open again after it. *)
THEOREM DiskRemembered ==
    Spec => [](loading = {} => \A x \in disk : x \in stored \/ x.slot < first)
<1>1. DiskCovered => (loading = {} => \A x \in disk : x \in stored \/ x.slot < first)
  BY DEF DiskCovered
<1> QED BY <1>1, DiskInvariant, PTL

(* Finality and the present slot never go back in one life of the pool, whichever
   certificate is handled late (handle_typed_saved_certificate, advance_present). *)
THEOREM SlotsNeverBack == Spec => [][NeverBack]_vars
<1>1. (IInv /\ DiskCovered) /\ [Next]_vars => [NeverBack]_vars
  BY StepForward
<1> QED BY <1>1, DiskInvariant, PTL DEF Spec

(* The books keep their type: the bases are candidates or none, the ends of the
   runs, now_ and the announced slots are slots, and only what is on disk counts. *)
THEOREM Typing == Spec => []TypeOK
<1>1. IInv => TypeOK
  <2> SUFFICES ASSUME IInv PROVE TypeOK
    OBVIOUS
  <2>1. /\ issued \in SUBSET Certs /\ disk \subseteq issued
        /\ stored \subseteq disk /\ loading \subseteq disk /\ saving \subseteq issued
    BY DEF IInv, CertsInv
  <2>2. /\ base \in [0..N -> Candidates \cup {Genesis, None}]
        /\ lastFinal \in Candidates \cup {Genesis}
    <3>1. ParentIds \cup {None} = Candidates \cup {Genesis, None}
      BY DEF ParentIds
    <3> QED BY <3>1 DEF IInv, SlotsInv, ParentIds
  <2>3. skip_intervals \subseteq 1..N
    BY DEF IInv, SlotsInv, Runs
  <2>4. first \in 0..N /\ now \in 0..N
    BY Constants, SMTT(20) DEF IInv, SlotsInv
  <2>5. answer \in [Candidates -> {"none", "waiting", "ok", "misbehavior", "error"}]
    BY DEF IInv, AnswersInv, RightAnswer
  <2> QED BY <2>1, <2>2, <2>3, <2>4, <2>5 DEF IInv, AnnouncedTypes, TypeOK
<1> QED BY <1>1, PoolInvariant, PTL
=============================================================================
