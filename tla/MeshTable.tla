------------------------------ MODULE MeshTable ------------------------------
(***************************************************************************)
(* The routing table of a mesh node (OMI_RoutingTable, lib/omi_mesh.h) and *)
(* what route updates, discovery frames and time do to it.                 *)
(*                                                                         *)
(* A table is the sequence of its slots in array order.  A slot holds a    *)
(* route, or NoRoute once its route has expired: lib/omi_mesh.c clears     *)
(* `valid' and never uses the slot again, nor lowers `count'.  A timestamp *)
(* is kept as its age, which stops at the first value past StaleAge: the   *)
(* code only ever asks whether the age exceeds the threshold.              *)
(***************************************************************************)
EXTENDS Integers, Sequences, FiniteSets, Compaction

CONSTANTS Node,        \* identifiers of the nodes (uint8_t node_id)
          Addr,        \* identifiers an envelope may carry, of nodes or not
          Zero,        \* the identifier 0, of a node or not
          NoRoute,     \* the content of an expired slot
          MaxRoutes,   \* OMI_MESH_MAX_ROUTES
          SeqMod,      \* sequence numbers are taken modulo this (256)
          MetricMod,   \* metrics and hop counts too (256)
          StaleAge     \* OMI_MESH_STALE_TIMEOUT, in units of Elapse

ASSUME TableAssumption ==
  /\ Node \subseteq Addr /\ Zero \in Addr
  /\ MaxRoutes \in Nat \ {0}
  /\ SeqMod \in Nat /\ SeqMod > 1
  /\ MetricMod \in Nat /\ MetricMod > 1
  /\ StaleAge \in Nat

\* relation[0..27] of an update holds at most seven advertised routes.
AdvertSlots == 7

Seqno  == 0..(SeqMod - 1)
Metric == 0..(MetricMod - 1)

Route  == [node: Addr, nextHop: Addr, metric: Metric, seqno: Seqno,
           age: 0..(StaleAge + 1)]
Advert == [node: Addr, metric: Metric, seqno: Seqno]

ASSUME NoRouteAssumption == NoRoute \notin Route

\* The sign of (int8_t)(s - t): serial number comparison.
Newer(s, t) == (s - t) % SeqMod \in 1..((SeqMod \div 2) - 1)

-----------------------------------------------------------------------------
\* The slots that hold a valid route to d; find_route returns the first.
Slots(t, d) == {i \in DOMAIN t : t[i] # NoRoute /\ t[i].node = d}

HasRoute(t, d) == Slots(t, d) # {}

FirstSlot(t, d) == CHOOSE i \in Slots(t, d) : \A j \in Slots(t, d) : i <= j

FindRoute(t, d) == t[FirstSlot(t, d)]

FreshRoute(d, hop, met, s) ==
  [node |-> d, nextHop |-> hop, metric |-> met, seqno |-> s, age |-> 0]

\* Mutant of AddRoute: the table is taken to have room.
AddRoutePastEnd(t, r) == Append(t, r)

\* A new route takes the next unused slot, or is dropped when none is left.
AddRoute(t, r) == IF Len(t) < MaxRoutes THEN Append(t, r) ELSE t

\* Mutant of Relax: a route that is not newer is added as another one.
RelaxOrAdd(t, r) ==
  IF HasRoute(t, r.node) /\ Newer(r.seqno, FindRoute(t, r.node).seqno)
  THEN [t EXCEPT ![FirstSlot(t, r.node)] = r] ELSE AddRoute(t, r)

\* Replace the route to r.node if r is newer; add r if there is none.
Relax(t, r) ==
  IF HasRoute(t, r.node)
  THEN IF Newer(r.seqno, FindRoute(t, r.node).seqno)
       THEN [t EXCEPT ![FirstSlot(t, r.node)] = r]
       ELSE t
  ELSE AddRoute(t, r)

\* Mutant of AddIfUnknown: find_route is not asked first.
AddUnasked(t, r) == AddRoute(t, r)

\* A discovery frame only ever adds a route (seqno 0), never replaces one.
AddIfUnknown(t, r) == IF HasRoute(t, r.node) THEN t ELSE AddRoute(t, r)

-----------------------------------------------------------------------------
\* An update is ignored as a whole if its origin's number is not newer.
Ignored(t, self, u) ==
  \/ u.origin = self
  \/ /\ HasRoute(t, u.origin)
     /\ ~Newer(u.seqno, FindRoute(t, u.origin).seqno)

\* A relation is read up to the first entry for node 0, which is also what an
\* unused entry holds: the adverts behind a route to node 0 are never seen.
Ended(u, k) == k > Len(u.adverts) \/ \E j \in 1..k : u.adverts[j].node = Zero

\* Mutants of Learn: routes to the node itself are learned; the advertised node
\* is taken for the next hop; its number is taken from the update, not from the
\* advert; the hop to the sender is not counted.
LearnSelf(t, self, u, k) ==
  IF Ended(u, k) THEN t
  ELSE LET adv == u.adverts[k]
       IN  Relax(t, FreshRoute(adv.node, u.origin, (adv.metric + 1) % MetricMod, adv.seqno))

LearnDirect(t, self, u, k) ==
  IF Ended(u, k) \/ u.adverts[k].node = self THEN t
  ELSE LET adv == u.adverts[k]
       IN  Relax(t, FreshRoute(adv.node, adv.node, (adv.metric + 1) % MetricMod, adv.seqno))

LearnUpdateSeqno(t, self, u, k) ==
  IF Ended(u, k) \/ u.adverts[k].node = self THEN t
  ELSE LET adv == u.adverts[k]
       IN  Relax(t, FreshRoute(adv.node, u.origin, (adv.metric + 1) % MetricMod, u.seqno))

LearnNoHop(t, self, u, k) ==
  IF Ended(u, k) \/ u.adverts[k].node = self THEN t
  ELSE LET adv == u.adverts[k]
       IN  Relax(t, FreshRoute(adv.node, u.origin, adv.metric, adv.seqno))

\* What the k-th advertised route does; a node skips routes to itself.
Learn(t, self, u, k) ==
  IF Ended(u, k) \/ u.adverts[k].node = self
  THEN t
  ELSE LET adv == u.adverts[k]
       IN  Relax(t, FreshRoute(adv.node, u.origin, (adv.metric + 1) % MetricMod, adv.seqno))

\* The route to the sender first, then the advertised ones in order.  The
\* loop is unrolled, AdvertSlots times.
ApplyUpdate(t, self, u) ==
  IF Ignored(t, self, u)
  THEN t
  ELSE LET t0 == Relax(t, FreshRoute(u.origin, u.origin, 1, u.seqno))
           t1 == Learn(t0, self, u, 1)
           t2 == Learn(t1, self, u, 2)
           t3 == Learn(t2, self, u, 3)
           t4 == Learn(t3, self, u, 4)
           t5 == Learn(t4, self, u, 5)
           t6 == Learn(t5, self, u, 6)
       IN  Learn(t6, self, u, 7)

\* What a node advertises: its first valid routes, in slot order.
Adverts(t) ==
  LET valid == {i \in DOMAIN t : t[i] # NoRoute}
  IN  [k \in DOMAIN Fit(Keep(t, valid), AdvertSlots) |->
         LET r == Keep(t, valid)[k]
         IN  [node |-> r.node, metric |-> r.metric, seqno |-> r.seqno]]

-----------------------------------------------------------------------------
\* Routes older than the threshold lose their slot.
Expire(t) ==
  [i \in DOMAIN t |->
     IF t[i] # NoRoute /\ t[i].age > StaleAge THEN NoRoute ELSE t[i]]

\* One unit of time passes.
Older(t) ==
  [i \in DOMAIN t |->
     IF t[i] # NoRoute /\ t[i].age <= StaleAge
     THEN [t[i] EXCEPT !.age = @ + 1] ELSE t[i]]
=============================================================================
