--------------------------- MODULE LockHierarchy ---------------------------
(***************************************************************************)
(* LockHierarchy: what the server's threads have to keep to so that they   *)
(* never wait for each other in a circle.  A resource is a mutex, or the   *)
(* life of a thread: the thread owns it until it ends, so that join() is a *)
(* wait for that resource.  Resources are ranked, and a thread waits only  *)
(* for one that ranks above all it owns.  Nothing is said of what else     *)
(* the threads do, or of who gets a resource first.                        *)
(***************************************************************************)
EXTENDS Naturals

CONSTANTS
  Threads,
  Resources,
  MaxRank,
  Rank,     \* Rank[r]: the place of r in the hierarchy
  Nobody    \* the owner of a free resource, and what a running thread wants

(* What a hierarchy needs.                                                 *)
WellRanked ==
  /\ MaxRank \in Nat /\ Rank \in [Resources -> 0 .. MaxRank]
  /\ Nobody \notin Threads /\ Nobody \notin Resources

VARIABLES
  owner,    \* owner[r]: the thread that owns r
  wants     \* wants[t]: the resource t waits for

vars == <<owner, wants>>

Owned(t) == {r \in Resources : owner[r] = t}
Waits(t) == wants[t] # Nobody

(* r ranks above everything t owns.                                        *)
Above(r, t) == \A h \in Owned(t) : Rank[h] < Rank[r]

Init ==
  /\ owner \in [Resources -> Threads \union {Nobody}]
  /\ wants = [t \in Threads |-> Nobody]

(* t goes on to run, or to wait for a resource above all it then owns.     *)
GoOn(t) ==
  /\ \A u \in Threads \ {t} : wants'[u] = wants[u]
  /\ wants' \in [Threads -> Resources \union {Nobody}]
  /\ Waits(t)' => Above(wants[t], t)'

(* A thread that need not wait takes what it wanted, or not if it only had *)
(* to see it free; gives up some of what it owns; and goes on.             *)
Run(t) ==
  /\ ~Waits(t) \/ owner[wants[t]] = Nobody
  /\ \A r \in Resources :
       \/ owner'[r] = owner[r]
       \/ owner'[r] = t /\ r = wants[t]
       \/ owner'[r] = Nobody /\ owner[r] = t
  /\ owner' \in [Resources -> Threads \union {Nobody}]
  /\ GoOn(t)

(* A thread is called away from what it does, waiting included.            *)
CallAway(t) == owner' = owner /\ GoOn(t)

Next == \E t \in Threads : CallAway(t) \/ Run(t)

Spec == Init /\ [][Next]_vars
-----------------------------------------------------------------------------
(* No threads wait for each other: of any waiting threads, one waits for a *)
(* resource that none of them owns.  A thread that waits for itself (for a *)
(* mutex it holds, or its own end) is the smallest circle.                 *)
DeadlockFree ==
  \A D \in SUBSET {t \in Threads : Waits(t)} :
    D # {} => \E t \in D : owner[wants[t]] \notin D
=============================================================================
