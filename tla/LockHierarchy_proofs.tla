------------------------ MODULE LockHierarchy_proofs ------------------------
(* The hierarchy is enough: no circle of waiting threads, however many     *)
(* threads and resources there are and however the resources are ranked.   *)
EXTENDS LockHierarchy, WellFoundedInduction, TLAPS

TypeOK ==
  /\ owner \in [Resources -> Threads \union {Nobody}]
  /\ wants \in [Threads -> Resources \union {Nobody}]

(* A waiting thread waits for something above all it owns: kept because    *)
(* only a thread's own steps add to what it owns.                          *)
Ordered == \A t \in Threads : Waits(t) => Above(wants[t], t)

HInv == WellRanked /\ TypeOK /\ Ordered

-----------------------------------------------------------------------------
(* A set of ranks that is not empty has a greatest one.                    *)
LEMMA GreatestRank ==
  ASSUME WellRanked, NEW S, S \subseteq 0 .. MaxRank, S # {}
  PROVE  \E m \in S : \A n \in S : n <= m
<1> DEFINE Below == {MaxRank - n : n \in S}
           Less == OpToRel(<, Nat)
<1>1. MaxRank \in Nat
  BY DEF WellRanked
<1>2. Below \subseteq Nat /\ Below # {}
  <2>1. \A n \in S : MaxRank - n \in Nat
    BY <1>1
  <2> QED BY <2>1
<1>3. PICK k \in Below : \A b \in Below : k <= b
  <2>1. PICK k \in Below : \A b \in Below : <<b, k>> \notin Less
    <3>1. IsWellFoundedOn(Less, Nat)
      BY NatLessThanWellFounded
    <3> HIDE DEF Below, Less
    <3> QED BY <1>2, <3>1, WFMin
  <2>2. \A b \in Below : ~(b < k)
    BY <1>2, <2>1 DEF OpToRel
  <2> QED BY <1>2, <2>2
<1>4. PICK m \in S : k = MaxRank - m
  BY <1>3
<1>5. ASSUME NEW n \in S
      PROVE  n <= m
  <2>1. MaxRank - n \in Below
    OBVIOUS
  <2>2. MaxRank - m <= MaxRank - n
    BY <1>3, <1>4, <2>1
  <2> QED BY <1>1, <2>2
<1> QED BY <1>5

(* Where every waiting thread waits above what it owns, no threads wait    *)
(* for each other: the one of them whose resource ranks highest would wait *)
(* for a thread that waits for a higher one.                               *)
LEMMA OrderedIsFree == HInv => DeadlockFree
<1> SUFFICES ASSUME HInv,
                    NEW D \in SUBSET {t \in Threads : Waits(t)}, D # {},
                    \A t \in D : owner[wants[t]] \in D
             PROVE  FALSE
  BY DEF DeadlockFree
<1> USE DEF HInv, TypeOK
<1> DEFINE S == {Rank[wants[t]] : t \in D}
<1>1. \A t \in D : wants[t] \in Resources
  BY DEF Waits
<1>2. S \subseteq 0 .. MaxRank /\ S # {}
  BY <1>1 DEF WellRanked
<1>3. PICK m \in S : \A n \in S : n <= m
  <2> HIDE DEF S
  <2> QED BY <1>2, GreatestRank
<1>4. PICK t \in D : m = Rank[wants[t]]
  BY <1>3
<1> DEFINE u == owner[wants[t]]
<1>5. u \in D
  OBVIOUS
<1>6. wants[t] \in Owned(u)
  BY <1>1 DEF Owned
<1>7. Above(wants[u], u)
  BY <1>5 DEF Ordered
<1>8. Rank[wants[t]] < Rank[wants[u]]
  BY <1>6, <1>7 DEF Above
<1>9. Rank[wants[u]] <= m
  BY <1>3, <1>5
<1>10. Rank[wants[t]] \in Nat /\ Rank[wants[u]] \in Nat
  BY <1>1, <1>5 DEF WellRanked
<1> QED BY <1>4, <1>8, <1>9, <1>10

-----------------------------------------------------------------------------
LEMMA InitHInv == WellRanked /\ Init => HInv
BY DEF WellRanked, Init, HInv, TypeOK, Ordered, Waits

(* A step in which t goes on, nobody else gains a resource, and t owns only *)
(* what it is shown to, keeps the invariant.                               *)
LEMMA GoOnHInv ==
  ASSUME HInv, NEW t \in Threads, GoOn(t),
         owner' \in [Resources -> Threads \union {Nobody}],
         \A u \in Threads \ {t} : Owned(u)' \subseteq Owned(u)
  PROVE  HInv'
<1> USE DEF HInv, TypeOK
<1>1. WellRanked' /\ TypeOK'
  BY DEF GoOn, WellRanked
<1>2. ASSUME NEW u \in Threads, Waits(u)'
      PROVE  Above(wants[u], u)'
  <2>1. CASE u = t
    BY <1>2, <2>1 DEF GoOn
  <2>2. CASE u # t
    <3>1. wants'[u] = wants[u] /\ Waits(u)
      BY <1>2, <2>2 DEF GoOn, Waits
    <3>2. Above(wants[u], u) /\ Owned(u)' \subseteq Owned(u)
      BY <2>2, <3>1 DEF Ordered
    <3> QED BY <3>1, <3>2 DEF Above
  <2> QED BY <2>1, <2>2
<1> QED BY <1>1, <1>2 DEF Ordered

LEMMA RunHInv ==
  ASSUME HInv, NEW t \in Threads, Run(t)
  PROVE  HInv'
<1>1. \A u \in Threads \ {t} : Owned(u)' \subseteq Owned(u)
  BY DEF Run, Owned, HInv, WellRanked
<1> QED BY <1>1, GoOnHInv DEF Run

LEMMA CallAwayHInv ==
  ASSUME HInv, NEW t \in Threads, CallAway(t)
  PROVE  HInv'
BY GoOnHInv DEF CallAway, Owned, HInv, TypeOK

LEMMA StutterHInv == HInv /\ UNCHANGED vars => HInv'
BY DEF HInv, WellRanked, TypeOK, Ordered, Waits, Above, Owned, vars

(* No threads ever wait for each other in a circle, whatever they run, as  *)
(* long as each waits only for resources above those it owns.              *)
THEOREM HierarchyIsDeadlockFree ==
  ASSUME WellRanked
  PROVE  Spec => []DeadlockFree
<1>1. HInv /\ [Next]_vars => HInv'
  BY RunHInv, CallAwayHInv, StutterHInv DEF Next
<1> QED BY InitHInv, <1>1, OrderedIsFree, PTL DEF Spec
=============================================================================
