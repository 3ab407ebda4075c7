------------------------ MODULE SimplexCertificates ------------------------
(***************************************************************************)
(* The certificates of a group as PoolImpl sees them (simplex/pool.cpp),   *)
(* and what a set of them has to satisfy to be those of one group.         *)
(* SimplexPool takes sets that satisfy it; SimplexProtocolProofs proves    *)
(* that the certificates SimplexProtocol allows do.                        *)
(***************************************************************************)
EXTENDS Naturals

CONSTANTS Candidates, SlotOf, ParentOf, Genesis, None

Notar(c) == [type |-> "notar", slot |-> SlotOf[c], id |-> c]
Skip(s) == [type |-> "skip", slot |-> s, id |-> None]
Final(c) == [type |-> "final", slot |-> SlotOf[c], id |-> c]

(* The slot after a parent; it orders ParentIds as the code compares them. *)
NextAfter(p) == IF p = Genesis THEN 0 ELSE SlotOf[p] + 1

(* c may be notarized once the certificates S are known. *)
ReadyIn(S, c) ==
    /\ NextAfter(ParentOf[c]) <= SlotOf[c]
    /\ ParentOf[c] = Genesis \/ {Notar(ParentOf[c]), Final(ParentOf[c])} \cap S # {}
    /\ \A s \in NextAfter(ParentOf[c])..(SlotOf[c] - 1) : Skip(s) \in S

(* One candidate of a slot is certified, a final one is notarized and its slot
   not skipped, and what is notarized was ready to be. *)
Consistent(S) ==
    /\ \A c, d \in Candidates :
          /\ {Notar(c), Notar(d)} \subseteq S /\ SlotOf[c] = SlotOf[d] => c = d
          /\ {Notar(c), Final(d)} \subseteq S /\ SlotOf[c] = SlotOf[d] => c = d
    /\ \A c \in Candidates : Final(c) \in S => Notar(c) \in S /\ Skip(SlotOf[c]) \notin S
    /\ \A c \in Candidates : Notar(c) \in S => ReadyIn(S, c)

=============================================================================
