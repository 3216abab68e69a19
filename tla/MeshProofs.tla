----------------------------- MODULE MeshProofs -----------------------------
(***************************************************************************)
(* Safety of the mesh network for any set of nodes, any topology, any      *)
(* sizes of the tables and any loss: the type invariant, the routing table *)
(* invariants and the bound on relaying, from one inductive invariant; and *)
(* on top of it, that no payload is forgotten and that metrics are sound.  *)
(* First come the lemmas about the operators of Compaction and MeshTable.  *)
(***************************************************************************)
EXTENDS Mesh, Functions, FiniteSetTheorems, SequenceTheorems, TLAPS

-----------------------------------------------------------------------------
(* Keep and Fit. *)

\* A function on 1..n is a sequence of length n.
LEMMA FunctionIsSeq ==
  ASSUME NEW T, NEW n \in Nat, NEW f \in [1..n -> T]
  PROVE  f \in Seq(T) /\ Len(f) = n
  <1>1. f \in Seq(T)
    BY SeqDef
  <1>2. DOMAIN f = 1..Len(f) /\ Len(f) \in Nat
    BY <1>1, LenProperties
  <1> QED
    BY <1>1, <1>2

\* A set of indices is finite, and no larger than the array.
LEMMA FiniteIndices ==
  ASSUME NEW n \in Nat, NEW S \in SUBSET (1..n)
  PROVE  IsFiniteSet(S) /\ Cardinality(S) \in Nat /\ Cardinality(S) <= n
  <1>1. IsFiniteSet(1..n) /\ Cardinality(1..n) = n
    BY FS_Interval
  <1>2. IsFiniteSet(S) /\ Cardinality(S) <= Cardinality(1..n)
    BY <1>1, FS_Subset
  <1>3. Cardinality(S) \in Nat
    BY <1>2, FS_CardinalityType
  <1> QED
    BY <1>1, <1>2, <1>3

\* Members have different ranks, from one up to the size of the set.
LEMMA RankProperties ==
  ASSUME NEW n \in Nat, NEW S \in SUBSET (1..n)
  PROVE  /\ \A i \in S : Rank(S, i) \in 1..Cardinality(S)
         /\ \A i, j \in S : Rank(S, i) = Rank(S, j) => i = j
  <1> DEFINE Below(i) == {j \in S : j <= i}
             c == Cardinality(S)
  <1>1. IsFiniteSet(S) /\ c \in Nat
    BY FiniteIndices
  <1>2. \A i \in S : IsFiniteSet(Below(i)) /\ Cardinality(Below(i)) \in 1..c
    <2> TAKE i \in S
    <2>1. IsFiniteSet(Below(i)) /\ Cardinality(Below(i)) <= c
      BY <1>1, FS_Subset
    <2>2. Cardinality(Below(i)) \in Nat /\ Cardinality(Below(i)) # 0
      <3>1. i \in Below(i)
        OBVIOUS
      <3> QED
        BY <2>1, <3>1, FS_CardinalityType, FS_EmptySet
    <2> QED
      BY <1>1, <2>1, <2>2
  <1>3. ASSUME NEW p \in S, NEW q \in S, p < q, Rank(S, p) = Rank(S, q)
        PROVE  FALSE
    <2>1. Below(p) \subseteq Below(q) /\ q \in Below(q) /\ q \notin Below(p)
      <3>1. S \subseteq Int
        OBVIOUS
      <3>2. q \in Below(q)
        BY <3>1
      <3>3. q \notin Below(p)
        BY <1>3, <3>1
      <3>4. ASSUME NEW j1 \in Below(p)
            PROVE  j1 \in Below(q)
        BY <1>3, <3>1
      <3> QED
        BY <3>2, <3>3, <3>4
    <2>2. Cardinality(Below(p)) = Cardinality(Below(q))
      BY <1>3 DEF Rank
    <2>3. Below(p) = Below(q)
      BY <1>2, <2>1, <2>2, FS_Subset
    <2> QED
      BY <2>1, <2>3
  <1>4. ASSUME NEW i \in S, NEW j \in S, Rank(S, i) = Rank(S, j)
        PROVE  i = j
    <2>1. i \in Int /\ j \in Int
      OBVIOUS
    <2>2. ~(i < j) /\ ~(j < i)
      BY <1>3, <1>4
    <2> QED
      BY <2>1, <2>2
  <1> QED
    BY <1>2, <1>4 DEF Rank

\* Every rank up to the size of the set is taken by a member.
LEMMA NthExists ==
  ASSUME NEW n \in Nat, NEW S \in SUBSET (1..n), NEW k \in 1..Cardinality(S)
  PROVE  Nth(S, k) \in S /\ Rank(S, Nth(S, k)) = k
  <1> DEFINE c == Cardinality(S)
             f == [i \in S |-> Rank(S, i)]
  <1>1. IsFiniteSet(S) /\ c \in Nat
    BY FiniteIndices
  <1>2. f \in Injection(S, 1..c)
    BY RankProperties DEF Injection, IsInjective
  <1>3. IsFiniteSet(1..c) /\ Cardinality(1..c) = c
    BY <1>1, FS_Interval
  <1>4. f \in Surjection(S, 1..c)
    BY <1>2, <1>3, FS_Injection
  <1>5. \E i \in S : Rank(S, i) = k
    BY <1>4 DEF Surjection
  <1> QED
    BY <1>5 DEF Nth

\* Every member has its place.
LEMMA NthOfRank ==
  ASSUME NEW n \in Nat, NEW S \in SUBSET (1..n), NEW i \in S
  PROVE  Rank(S, i) \in 1..Cardinality(S) /\ Nth(S, Rank(S, i)) = i
  <1>1. /\ Rank(S, i) \in 1..Cardinality(S)
        /\ \A j \in S : Rank(S, j) = Rank(S, i) => j = i
    BY RankProperties
  <1> QED
    BY <1>1 DEF Nth

\* Compaction keeps one entry per chosen index and nothing else: the result
\* is a sequence of the chosen entries, as long as the set is large.
LEMMA KeepProperties ==
  ASSUME NEW T, NEW n \in Nat, NEW q, NEW S \in SUBSET (1..n), \A i \in S : q[i] \in T
  PROVE  /\ Keep(q, S) \in Seq(T)
         /\ Len(Keep(q, S)) = Cardinality(S)
         /\ Cardinality(S) \in Nat /\ Cardinality(S) <= n
         /\ \A k \in DOMAIN Keep(q, S) : \E i \in S : Keep(q, S)[k] = q[i]
  <1>1. Cardinality(S) \in Nat /\ Cardinality(S) <= n
    BY FiniteIndices
  <1>2. \A k \in 1..Cardinality(S) : Nth(S, k) \in S
    BY NthExists
  <1>3. Keep(q, S) \in [1..Cardinality(S) -> T]
    BY <1>2 DEF Keep
  <1>4. Keep(q, S) \in Seq(T) /\ Len(Keep(q, S)) = Cardinality(S)
    BY <1>1, <1>3, FunctionIsSeq
  <1> QED
    BY <1>1, <1>2, <1>4 DEF Keep

\* No chosen entry is missing after the compaction.
LEMMA KeepsAll ==
  ASSUME NEW q, NEW S, \E n \in Nat : S \subseteq 1..n, NEW i \in S
  PROVE  \E k \in DOMAIN Keep(q, S) : Keep(q, S)[k] = q[i]
  <1>1. Rank(S, i) \in 1..Cardinality(S) /\ Nth(S, Rank(S, i)) = i
    BY NthOfRank
  <1> QED
    BY <1>1 DEF Keep

\* Truncation to an array of n entries keeps a prefix.
LEMMA FitProperties ==
  ASSUME NEW T, NEW s \in Seq(T), NEW n \in Nat
  PROVE  /\ Fit(s, n) \in Seq(T)
         /\ Len(Fit(s, n)) <= n /\ Len(Fit(s, n)) <= Len(s)
         /\ \A i \in DOMAIN Fit(s, n) : i \in DOMAIN s /\ Fit(s, n)[i] = s[i]
  <1>1. CASE Len(s) <= n
    BY <1>1 DEF Fit
  <1>2. CASE Len(s) > n
    <2>1. \A i \in 1..n : s[i] \in T
      BY <1>2, ElementOfSeq
    <2>2. /\ SubSeq(s, 1, n) \in Seq(T)
          /\ Len(SubSeq(s, 1, n)) = n
          /\ \A i \in 1..n : SubSeq(s, 1, n)[i] = s[i]
      BY <2>1, SubSeqProperties
    <2> QED
      BY <1>2, <2>2 DEF Fit
  <1> QED
    BY <1>1, <1>2, LenProperties

\* What is appended to an array of n entries leaves those that are there, and stands
\* behind them as far as there is room.
LEMMA FitOfConcat ==
  ASSUME NEW T, NEW s \in Seq(T), NEW u \in Seq(T), NEW n \in Nat, Len(s) <= n
  PROVE  /\ \A i \in DOMAIN s : i \in DOMAIN Fit(s \o u, n) /\ Fit(s \o u, n)[i] = s[i]
         /\ \A j \in DOMAIN u : Len(s) + j <= n =>
              Len(s) + j \in DOMAIN Fit(s \o u, n) /\ Fit(s \o u, n)[Len(s) + j] = u[j]
  <1> DEFINE w == s \o u
  <1>1. /\ Len(s) \in Nat /\ Len(u) \in Nat /\ w \in Seq(T) /\ Len(w) = Len(s) + Len(u)
        /\ DOMAIN s = 1..Len(s) /\ DOMAIN u = 1..Len(u)
        /\ \A i \in 1..Len(s) : w[i] = s[i]
        /\ \A j \in 1..Len(u) : w[Len(s) + j] = u[j]
    BY ConcatProperties, LenProperties
  <1> HIDE DEF w
  <1>2. ASSUME NEW i \in 1..Len(w), i <= n
        PROVE  i \in DOMAIN Fit(w, n) /\ Fit(w, n)[i] = w[i]
    <2>1. CASE Len(w) <= n
      BY <1>1, <2>1 DEF Fit
    <2>2. CASE Len(w) > n
      <3>1. \A k \in 1..n : w[k] \in T
        BY <1>1, <2>2, ElementOfSeq
      <3>2. /\ SubSeq(w, 1, n) \in Seq(T) /\ Len(SubSeq(w, 1, n)) = n
            /\ \A k \in 1..n : SubSeq(w, 1, n)[k] = w[k]
        BY <3>1, SubSeqProperties
      <3>3. Fit(w, n) = SubSeq(w, 1, n) /\ i \in 1..n
        BY <1>1, <1>2, <2>2 DEF Fit
      <3> QED
        BY <3>2, <3>3
    <2> QED
      BY <1>1, <2>1, <2>2
  <1>3. \A i \in 1..Len(s) : i \in 1..Len(w) /\ i <= n
    BY <1>1
  <1>4. \A j \in 1..Len(u) : Len(s) + j \in 1..Len(w)
    BY <1>1
  <1> QED
    BY <1>1, <1>2, <1>3, <1>4 DEF w

-----------------------------------------------------------------------------
(* The routing table.  G stands for the routes an invariant allows; each    *)
(* lemma says that a table of such routes, at most one per destination,     *)
(* stays one. *)

\* At most one valid slot per destination.
UniqueIn(t) == \A d \in Addr : \A i, j \in Slots(t, d) : i = j

\* The tables whose valid slots hold routes of G.
Tables(G) == {t \in Seq(G \cup {NoRoute}) : Len(t) <= MaxRoutes /\ UniqueIn(t)}

\* find_route finds the one valid route there is.
LEMMA FindRouteInTable ==
  ASSUME NEW G \in SUBSET Route, NEW t \in Tables(G), NEW d \in Addr, HasRoute(t, d)
  PROVE  /\ FirstSlot(t, d) \in Slots(t, d)
         /\ FindRoute(t, d) \in G /\ FindRoute(t, d).node = d
  <1>1. PICK i \in Slots(t, d) : TRUE
    BY DEF HasRoute
  <1>2. \A j \in Slots(t, d) : j = i
    BY DEF Tables, UniqueIn
  <1>3. t \in Seq(G \cup {NoRoute}) /\ i \in Int
    BY DEF Tables, Slots
  <1>4. FirstSlot(t, d) = i
    <2>1. \A j \in Slots(t, d) : i <= j
      BY <1>2, <1>3
    <2>2. FirstSlot(t, d) \in Slots(t, d)
      BY <2>1 DEF FirstSlot
    <2> QED
      BY <1>2, <2>2
  <1> QED
    BY <1>1, <1>3, <1>4 DEF FindRoute, Slots

\* Adding a route to an unknown destination.
LEMMA AddRouteInTable ==
  ASSUME NEW G \in SUBSET Route, NEW t \in Tables(G), NEW r \in G, ~HasRoute(t, r.node)
  PROVE  AddRoute(t, r) \in Tables(G)
  <1> DEFINE u == Append(t, r)
  <1>1. CASE Len(t) < MaxRoutes
    <2>1. t \in Seq(G \cup {NoRoute}) /\ UniqueIn(t)
      BY DEF Tables
    <2>2. u \in Seq(G \cup {NoRoute}) /\ Len(u) = Len(t) + 1
      BY <2>1
    <2>3. \A i \in DOMAIN u : u[i] = IF i = Len(t) + 1 THEN r ELSE t[i]
      BY <2>1
    <2>4. ASSUME NEW d \in Addr, NEW i \in Slots(u, d), NEW j \in Slots(u, d)
          PROVE  i = j
      <3>1. CASE d = r.node
        <4>1. \A k \in DOMAIN t : ~(t[k] # NoRoute /\ t[k].node = d)
          BY <3>1 DEF HasRoute, Slots
        <4> QED
          BY <2>1, <2>2, <2>3, <2>4, <4>1 DEF Slots
      <3>2. CASE d # r.node
        <4>1. i \in Slots(t, d) /\ j \in Slots(t, d)
          BY <2>1, <2>2, <2>3, <2>4, <3>2 DEF Slots
        <4> QED
          BY <2>1, <4>1 DEF UniqueIn
      <3> QED
        BY <3>1, <3>2
    <2> QED
      BY <1>1, <2>1, <2>2, <2>4, TableAssumption DEF AddRoute, Tables, UniqueIn
  <1>2. CASE ~(Len(t) < MaxRoutes)
    BY <1>2 DEF AddRoute
  <1> QED
    BY <1>1, <1>2

\* A newer route replaces the old one in its slot.
LEMMA RelaxInTable ==
  ASSUME NEW G \in SUBSET Route, NEW t \in Tables(G), NEW r \in G
  PROVE  Relax(t, r) \in Tables(G)
  <1> DEFINE k == FirstSlot(t, r.node)
             u == [t EXCEPT ![k] = r]
  <1>0. r.node \in Addr /\ r # NoRoute
    BY NoRouteAssumption DEF Route
  <1>1. CASE HasRoute(t, r.node)
    <2>1. k \in Slots(t, r.node)
      BY <1>0, <1>1, FindRouteInTable
    <2>2. t \in Seq(G \cup {NoRoute}) /\ Len(t) <= MaxRoutes /\ UniqueIn(t)
      BY DEF Tables
    <2>3. u \in Seq(G \cup {NoRoute}) /\ Len(u) = Len(t) /\ DOMAIN u = DOMAIN t
      BY <2>1, <2>2 DEF Slots
    <2>4. \A d \in Addr : Slots(u, d) = Slots(t, d)
      BY <1>0, <2>1, <2>3 DEF Slots
    <2>5. u \in Tables(G)
      BY <2>2, <2>3, <2>4 DEF Tables, UniqueIn
    <2> QED
      BY <1>1, <2>5 DEF Relax
  <1>2. CASE ~HasRoute(t, r.node)
    BY <1>2, AddRouteInTable DEF Relax
  <1> QED
    BY <1>1, <1>2

LEMMA AddIfUnknownInTable ==
  ASSUME NEW G \in SUBSET Route, NEW t \in Tables(G), NEW r \in G
  PROVE  AddIfUnknown(t, r) \in Tables(G)
  BY AddRouteInTable DEF AddIfUnknown

\* The route that the k-th advert of an update gives its receiver.
AdvertRoute(u, k) ==
  FreshRoute(u.adverts[k].node, u.origin, (u.adverts[k].metric + 1) % MetricMod,
             u.adverts[k].seqno)

LEMMA LearnInTable ==
  ASSUME NEW G \in SUBSET Route, NEW t \in Tables(G), NEW self, NEW u, NEW k \in Nat \ {0},
         k <= Len(u.adverts) /\ u.adverts[k].node # self => AdvertRoute(u, k) \in G,
         Len(u.adverts) \in Nat
  PROVE  Learn(t, self, u, k) \in Tables(G)
  <1>1. CASE Ended(u, k) \/ u.adverts[k].node = self
    BY <1>1 DEF Learn
  <1>2. CASE ~(Ended(u, k) \/ u.adverts[k].node = self)
    <2>1. AdvertRoute(u, k) \in G
      BY <1>2 DEF Ended
    <2>2. Learn(t, self, u, k) = Relax(t, AdvertRoute(u, k))
      BY <1>2 DEF Learn, AdvertRoute
    <2> QED
      BY <2>1, <2>2, RelaxInTable
  <1> QED
    BY <1>1, <1>2

\* A whole update, whatever it advertises.
LEMMA ApplyUpdateInTable ==
  ASSUME NEW G \in SUBSET Route, NEW t \in Tables(G), NEW self, NEW u,
         Len(u.adverts) \in Nat,
         u.origin # self => FreshRoute(u.origin, u.origin, 1, u.seqno) \in G,
         \A k \in 1..Len(u.adverts) :
           u.origin # self /\ u.adverts[k].node # self => AdvertRoute(u, k) \in G
  PROVE  ApplyUpdate(t, self, u) \in Tables(G)
  <1>1. CASE Ignored(t, self, u)
    BY <1>1 DEF ApplyUpdate
  <1>2. CASE ~Ignored(t, self, u)
    <2> DEFINE t0 == Relax(t, FreshRoute(u.origin, u.origin, 1, u.seqno))
               t1 == Learn(t0, self, u, 1)
               t2 == Learn(t1, self, u, 2)
               t3 == Learn(t2, self, u, 3)
               t4 == Learn(t3, self, u, 4)
               t5 == Learn(t4, self, u, 5)
               t6 == Learn(t5, self, u, 6)
    <2>0. u.origin # self
      BY <1>2 DEF Ignored
    <2>1. t0 \in Tables(G)
      BY <2>0, RelaxInTable
    <2>2. \A k \in 1..7 :
            k <= Len(u.adverts) /\ u.adverts[k].node # self => AdvertRoute(u, k) \in G
      BY <2>0
    <2> HIDE DEF t0
    <2>3. t1 \in Tables(G)
      BY <2>1, <2>2, LearnInTable
    <2> HIDE DEF t1
    <2>4. t2 \in Tables(G)
      BY <2>2, <2>3, LearnInTable
    <2> HIDE DEF t2
    <2>5. t3 \in Tables(G)
      BY <2>2, <2>4, LearnInTable
    <2> HIDE DEF t3
    <2>6. t4 \in Tables(G)
      BY <2>2, <2>5, LearnInTable
    <2> HIDE DEF t4
    <2>7. t5 \in Tables(G)
      BY <2>2, <2>6, LearnInTable
    <2> HIDE DEF t5
    <2>8. t6 \in Tables(G)
      BY <2>2, <2>7, LearnInTable
    <2> HIDE DEF t6
    <2>9. Learn(t6, self, u, 7) \in Tables(G)
      BY <2>2, <2>8, LearnInTable
    <2> QED
      BY <1>2, <2>9 DEF ApplyUpdate, t0, t1, t2, t3, t4, t5, t6
  <1> QED
    BY <1>1, <1>2

\* Expiry only empties slots.
LEMMA ExpireInTable ==
  ASSUME NEW G \in SUBSET Route, NEW t \in Tables(G)
  PROVE  Expire(t) \in Tables(G)
  <1>1. t \in Seq(G \cup {NoRoute}) /\ Len(t) <= MaxRoutes /\ UniqueIn(t) /\ Len(t) \in Nat
    BY LenProperties DEF Tables
  <1>2. Expire(t) \in [1..Len(t) -> G \cup {NoRoute}]
    BY <1>1 DEF Expire
  <1>3. Expire(t) \in Seq(G \cup {NoRoute}) /\ Len(Expire(t)) = Len(t)
    BY <1>1, <1>2, FunctionIsSeq
  <1>4. \A d \in Addr : Slots(Expire(t), d) \subseteq Slots(t, d)
    BY <1>1, <1>2 DEF Expire, Slots
  <1> QED
    BY <1>1, <1>3, <1>4 DEF Tables, UniqueIn

\* Aging moves no route.
LEMMA OlderInTable ==
  ASSUME NEW G \in SUBSET Route, NEW t \in Tables(G),
         \A r \in G : r.age <= StaleAge => [r EXCEPT !.age = @ + 1] \in G
  PROVE  Older(t) \in Tables(G)
  <1>1. t \in Seq(G \cup {NoRoute}) /\ Len(t) <= MaxRoutes /\ UniqueIn(t) /\ Len(t) \in Nat
    BY LenProperties DEF Tables
  <1>2. \A i \in 1..Len(t) : t[i] \in G \cup {NoRoute}
    BY <1>1
  <1>3. Older(t) \in [1..Len(t) -> G \cup {NoRoute}]
    BY <1>1, <1>2 DEF Older
  <1>4. Older(t) \in Seq(G \cup {NoRoute}) /\ Len(Older(t)) = Len(t)
    BY <1>1, <1>3, FunctionIsSeq
  <1>5. \A d \in Addr : Slots(Older(t), d) \subseteq Slots(t, d)
    <2> SUFFICES ASSUME NEW d \in Addr, NEW i \in Slots(Older(t), d)
                 PROVE  i \in Slots(t, d)
      OBVIOUS
    <2>1. i \in 1..Len(t) /\ Older(t)[i] # NoRoute /\ Older(t)[i].node = d
      BY <1>1, <1>3 DEF Slots
    <2>2. CASE t[i] # NoRoute /\ t[i].age <= StaleAge
      <3>1. t[i] \in Route
        BY <1>2, <2>1, <2>2
      <3>2. Older(t)[i] = [t[i] EXCEPT !.age = @ + 1]
        BY <1>1, <2>1, <2>2 DEF Older
      <3>3. Older(t)[i].node = t[i].node
        BY <3>1, <3>2 DEF Route
      <3> QED
        BY <1>1, <2>1, <2>2, <3>3 DEF Slots
    <2>3. CASE ~(t[i] # NoRoute /\ t[i].age <= StaleAge)
      BY <1>1, <2>1, <2>3 DEF Older, Slots
    <2> QED
      BY <2>2, <2>3
  <1> QED
    BY <1>1, <1>4, <1>5 DEF Tables, UniqueIn

\* Every advert of an update stands for a route of its sender's table.
LEMMA AdvertsOfTable ==
  ASSUME NEW G \in SUBSET Route, NEW t \in Tables(G)
  PROVE  /\ Adverts(t) \in Seq(Advert)
         /\ \A k \in DOMAIN Adverts(t) : \E r \in G :
              Adverts(t)[k] = [node |-> r.node, metric |-> r.metric, seqno |-> r.seqno]
  <1> DEFINE valid == {i \in DOMAIN t : t[i] # NoRoute}
             kept == Keep(t, valid)
  <1>1. t \in Seq(G \cup {NoRoute}) /\ Len(t) \in Nat /\ DOMAIN t = 1..Len(t)
    BY LenProperties DEF Tables
  <1>2. valid \in SUBSET (1..Len(t)) /\ \A i \in valid : t[i] \in G
    BY <1>1
  <1>3. kept \in Seq(G)
    <2> HIDE DEF valid
    <2> QED
      BY <1>1, <1>2, KeepProperties
  <1>4. /\ Fit(kept, AdvertSlots) \in Seq(G)
        /\ \A i \in DOMAIN Fit(kept, AdvertSlots) : i \in DOMAIN kept
    <2> HIDE DEF kept
    <2> QED
      BY <1>3, FitProperties DEF AdvertSlots
  <1> DEFINE m == Len(Fit(kept, AdvertSlots))
  <1>5. m \in Nat /\ DOMAIN Fit(kept, AdvertSlots) = 1..m
    BY <1>4, LenProperties
  <1>6. \A k \in 1..m : kept[k] \in G
    BY <1>3, <1>4, <1>5
  <1>7. Adverts(t) = [k \in 1..m |-> [node |-> kept[k].node, metric |-> kept[k].metric,
                                      seqno |-> kept[k].seqno]]
    BY <1>5 DEF Adverts
  <1> HIDE DEF kept, m
  <1>8. Adverts(t) \in [1..m -> Advert]
    BY <1>6, <1>7 DEF Route, Advert
  <1>9. Adverts(t) \in Seq(Advert) /\ DOMAIN Adverts(t) = 1..m
    BY <1>5, <1>8, FunctionIsSeq
  <1> QED
    BY <1>6, <1>7, <1>9

-----------------------------------------------------------------------------
(* The network. *)

\* No node floods so often that its numbers wrap.
NoWrap == \A n \in Node : MaxSeqno[n] < SeqMod \div 2

\* The number s for d is one that a node took over from its own host.
Brought(d, s) == \E m \in Node : \E u \in handed[m] : Numbers(u, d, s)

\* What d's number bounds, until d restarts: every number but those.
NotAhead(s, d) ==
  NoWrap /\ d \in Node /\ d \notin restarted => s <= seqno[d] \/ Brought(d, s)

\* The next hops node n may have: nodes in range, and what its host named.
GoodHop(n, h) == (h \in Node /\ n \in Nbr[h]) \/ \E u \in handed[n] : u.origin = h

\* The routes node n may hold.
GoodRoute(n) ==
  {r \in Route : /\ n # Broadcast => r.node # n
                 /\ Broadcast \notin Node => GoodHop(n, r.nextHop)
                 /\ NotAhead(r.seqno, r.node)}

\* The frames that may be in the receive buffer of n.
GoodUpdate(n) ==
  {f \in UpdateFrame : /\ n \in Nbr[f.origin]
                       /\ NotAhead(f.seqno, f.origin)
                       /\ \A k \in DOMAIN f.adverts :
                            NotAhead(f.adverts[k].seqno, f.adverts[k].node)}

GoodRequest ==
  {f \in RequestFrame : /\ f.target = Broadcast
                        /\ f.kind = "rrep" => Broadcast \in Node /\ f.origin = Broadcast}

GoodData ==
  {f \in DataFrame : f.target # Broadcast => f.ttl >= 1 /\ f.ttl + f.hops <= Ttl(f.msg) + 1}

GoodFrame(n) == GoodUpdate(n) \cup GoodRequest \cup GoodData

GoodQueued == {q \in Queued : q.ttl + q.hops <= Ttl(q.msg)}

\* The inductive invariant, in three parts: what a node keeps besides its
\* table and buffer, the tables, and the buffers.
StateOK ==
  /\ seqno \in [Node -> Seqno]
  /\ floodAge \in [Node -> 0..(FloodAge + 1)]
  /\ rreq \in [Node -> Request]
  /\ queue \in [Node -> Seq(GoodQueued)] /\ \A n \in Node : Len(queue[n]) <= MaxQueue
  /\ dead \in [Node -> Seq(DeadLetter)] /\ \A n \in Node : Len(dead[n]) <= MaxDead
  /\ restarted \subseteq MayRestart
  /\ handed \in [Node -> SUBSET HostFrame]
  /\ submitted \subseteq Msg /\ lost \subseteq Msg
  /\ delivered \in [Node -> SUBSET Msg]

TablesOK ==
  /\ routes = [n \in Node |-> routes[n]]
  /\ \A n \in Node : routes[n] \in Tables(GoodRoute(n))

InboxOK ==
  /\ inbox = [n \in Node |-> inbox[n]]
  /\ \A n \in Node : inbox[n] \in Seq(GoodFrame(n)) /\ Len(inbox[n]) <= InboxCap

Inv == StateOK /\ TablesOK /\ InboxOK

-----------------------------------------------------------------------------
(* The arithmetic of numbers and TTLs. *)

LEMMA SeqnoStep ==
  ASSUME NEW s \in Seqno
  PROVE  (s + 1) % SeqMod \in Seqno /\ (s + 1 < SeqMod => (s + 1) % SeqMod = s + 1)
  BY TableAssumption DEF Seqno

LEMMA HopStep ==
  ASSUME NEW h \in Metric
  PROVE  (h + 1) % MetricMod \in Metric
  BY TableAssumption DEF Metric

LEMMA TtlPositive ==
  ASSUME NEW m \in Msg
  PROVE  Ttl(m) \in Nat \ {0}
  BY MeshAssumption DEF Ttl

LEMMA PayloadsOfFrames ==
  ASSUME NEW F \in SUBSET Frame, NEW s \in Seq(F)
  PROVE  Payloads(s) \subseteq Msg
  <1> SUFFICES ASSUME NEW i \in DOMAIN s, s[i].kind = "data"
               PROVE  s[i].msg \in Msg
    BY DEF Payloads
  <1>1. s[i] \in Frame
    OBVIOUS
  <1> QED
    BY <1>1 DEF Frame, UpdateFrame, RequestFrame, DataFrame

-----------------------------------------------------------------------------
(* The medium. *)

\* What a transmission leaves in the buffers: what was there, and what was
\* sent if it is in range.
LEMMA TransmitFrames ==
  ASSUME NEW n \in Node, NEW F, NEW box, NEW E, NEW out \in Seq(E),
         \A m \in Node : box[m] \in Seq(F[m]) /\ Len(box[m]) <= InboxCap,
         \A m \in Nbr[n] : E \subseteq F[m]
  PROVE  \A m \in Node : /\ Transmit(n, out, box)[m] \in Seq(F[m])
                         /\ Len(Transmit(n, out, box)[m]) <= InboxCap
  <1> SUFFICES ASSUME NEW m \in Node
               PROVE  /\ Transmit(n, out, box)[m] \in Seq(F[m])
                      /\ Len(Transmit(n, out, box)[m]) <= InboxCap
    OBVIOUS
  <1>1. CASE m \in Nbr[n]
    <2>1. out \in Seq(F[m])
      BY <1>1, SeqMonotonic
    <2>2. box[m] \o out \in Seq(F[m])
      BY <2>1, ConcatProperties
    <2>3. InboxCap \in Nat
      BY MeshAssumption
    <2>4. /\ Fit(box[m] \o out, InboxCap) \in Seq(F[m])
          /\ Len(Fit(box[m] \o out, InboxCap)) <= InboxCap
      BY <2>2, <2>3, FitProperties
    <2> QED
      BY <1>1, <2>4 DEF Transmit
  <1>2. CASE m \notin Nbr[n]
    BY <1>2 DEF Transmit
  <1> QED
    BY <1>1, <1>2

\* Taking the first frame off a buffer.
LEMMA RestFrames ==
  ASSUME InboxOK, NEW n \in Node, inbox[n] # <<>>
  PROVE  /\ Head(inbox[n]) \in GoodFrame(n)
         /\ \A m \in Node : /\ Rest(n)[m] \in Seq(GoodFrame(m))
                            /\ Len(Rest(n)[m]) <= InboxCap
         /\ Rest(n) = [m \in Node |-> Rest(n)[m]]
  <1>1. inbox[n] \in Seq(GoodFrame(n)) /\ Len(inbox[n]) <= InboxCap
    BY DEF InboxOK
  <1>2. /\ Head(inbox[n]) \in GoodFrame(n)
        /\ Tail(inbox[n]) \in Seq(GoodFrame(n))
        /\ Len(Tail(inbox[n])) = Len(inbox[n]) - 1 /\ Len(inbox[n]) \in Nat
    BY <1>1, HeadTailProperties, LenProperties
  <1>3. InboxCap \in Nat
    BY MeshAssumption
  <1>4. \A m \in Node : Rest(n)[m] = IF m = n THEN Tail(inbox[n]) ELSE inbox[m]
    BY DEF Rest, InboxOK
  <1>5. Len(Tail(inbox[n])) <= InboxCap
    BY <1>1, <1>2, <1>3
  <1>6. \A m \in Node : inbox[m] \in Seq(GoodFrame(m)) /\ Len(inbox[m]) <= InboxCap
    BY DEF InboxOK
  <1>7. Rest(n) = [m \in Node |-> Rest(n)[m]]
    BY DEF Rest, InboxOK
  <1> QED
    BY <1>2, <1>4, <1>5, <1>6, <1>7

\* The kind of a frame says which of the three it is.
LEMMA FrameKinds ==
  ASSUME NEW n, NEW f \in GoodFrame(n)
  PROVE  /\ f \in Frame
         /\ f.kind = "update" => f \in GoodUpdate(n)
         /\ f.kind \in {"rreq", "rrep"} => f \in GoodRequest
         /\ f.kind = "data" => f \in GoodData
  BY DEF GoodFrame, GoodUpdate, GoodRequest, GoodData, Frame, UpdateFrame, RequestFrame, DataFrame

LEMMA GoodFramesAreFrames ==
  ASSUME NEW n PROVE GoodFrame(n) \subseteq Frame
  BY FrameKinds

-----------------------------------------------------------------------------
(* What is allowed stays allowed: the bounds only grow, until a restart. *)

\* A step takes over at most one update from a host, and forgets none.
LEMMA HandedStep ==
  ASSUME StateOK, [Next]_vars
  PROVE  \/ UNCHANGED handed
         \/ \E n \in Node : \E u \in HostUpdate[n] :
              SendUpdate(n, u) /\ ~Ignored(routes[n], n, u)
  <1>1. CASE Elapse \/ UNCHANGED vars
    BY <1>1 DEF Elapse, vars
  <1>2. ASSUME NEW n \in Node, Recv(n) \/ Lose(n) \/ GetRouteCount(n) \/ Tick(n) \/ Restart(n)
        PROVE  UNCHANGED handed
    BY <1>2 DEF Recv, RecvUpdate, RecvRequestForMe, RecvRequestForOther, RecvReply,
                RecvDeliver, RecvTtlExpired, RecvForward, RecvStore, Lose, GetRouteCount,
                Tick, Restart
  <1>3. ASSUME NEW n \in Node, NEW m \in Msg,
               SendBroadcast(n, m) \/ SendToSelf(n, m) \/ SendRouted(n, m) \/ SendQueued(n, m)
        PROVE  UNCHANGED handed
    BY <1>3 DEF SendBroadcast, SendToSelf, SendRouted, SendQueued, Submit
  <1>4. ASSUME NEW n \in Node, NEW u \in HostUpdate[n], SendUpdate(n, u), Ignored(routes[n], n, u)
        PROVE  UNCHANGED handed
    BY <1>4 DEF SendUpdate
  <1> QED
    BY <1>1, <1>2, <1>3, <1>4 DEF Next, Send

LEMMA HandedGrows ==
  ASSUME StateOK, [Next]_vars
  PROVE  \A m \in Node : handed[m] \subseteq handed'[m]
  <1>1. ASSUME NEW n \in Node, NEW u \in HostUpdate[n], SendUpdate(n, u), ~Ignored(routes[n], n, u)
        PROVE  \A m \in Node : handed[m] \subseteq handed'[m]
    BY <1>1 DEF SendUpdate, StateOK
  <1> QED
    BY <1>1, HandedStep

LEMMA SeqnoGrows ==
  ASSUME StateOK, [Next]_vars
  PROVE  \A d \in Addr, s \in Seqno : NotAhead(s, d) => NotAhead(s, d)'
  <1> DEFINE Same == UNCHANGED <<seqno, restarted>>
             Grows == \A d \in Node, s \in Seqno :
                        NoWrap /\ d \notin restarted' =>
                          d \notin restarted /\ (s <= seqno[d] => s <= seqno'[d])
  <1>1. Same => Grows
    OBVIOUS
  <1>2. ASSUME NEW n \in Node, CanFlood(n), restarted' = restarted,
               seqno' = [seqno EXCEPT ![n] = (@ + 1) % SeqMod]
        PROVE  Grows
    <2> SUFFICES ASSUME NoWrap, NEW d \in Node, NEW s \in Seqno, s <= seqno[d]
                 PROVE  s <= seqno'[d]
      BY <1>2
    <2>1. seqno \in [Node -> Seqno]
      BY DEF StateOK
    <2>2. seqno[n] + 1 < SeqMod
      <3>1. seqno[n] < MaxSeqno[n] /\ MaxSeqno[n] < SeqMod \div 2 /\ seqno[n] \in Nat
        BY <1>2, <2>1 DEF CanFlood, NoWrap, Seqno
      <3>2. MaxSeqno[n] \in Nat /\ SeqMod \in Nat
        BY MeshAssumption, TableAssumption
      <3> QED
        BY <3>1, <3>2
    <2>3. seqno'[n] = seqno[n] + 1
      BY <1>2, <2>1, <2>2, SeqnoStep
    <2> QED
      BY <1>2, <2>1, <2>3 DEF Seqno
  <1>3. ASSUME Elapse PROVE Grows
    BY <1>1, <1>3 DEF Elapse
  <1>4. ASSUME NEW n \in Node, Send(n)
        PROVE  Grows
    <2>1. ASSUME NEW u \in HostUpdate[n], SendUpdate(n, u)
          PROVE  Grows
      <3>1. CanFlood(n) /\ restarted' = restarted
            /\ seqno' = [seqno EXCEPT ![n] = (@ + 1) % SeqMod]
        BY <2>1 DEF SendUpdate
      <3> HIDE DEF Grows
      <3> QED
        BY <1>2, <3>1
    <2>2. ASSUME NEW m \in Msg,
                 SendBroadcast(n, m) \/ SendToSelf(n, m) \/ SendRouted(n, m) \/ SendQueued(n, m)
          PROVE  Same
      BY <2>2 DEF SendBroadcast, SendToSelf, SendRouted, SendQueued, Submit
    <2> QED
      BY <1>1, <1>4, <2>1, <2>2 DEF Send
  <1>5. ASSUME NEW n \in Node, Recv(n) \/ Lose(n) \/ GetRouteCount(n)
        PROVE  Same
    BY <1>5 DEF Recv, RecvUpdate, RecvRequestForMe, RecvRequestForOther, RecvReply,
                RecvDeliver, RecvTtlExpired, RecvForward, RecvStore, Lose, GetRouteCount
  <1>6. ASSUME NEW n \in Node, Tick(n)
        PROVE  Grows
    <2>1. CASE FloodDue(n)
      BY <1>2, <1>6, <2>1 DEF Tick, FloodDue
    <2>2. CASE ~FloodDue(n)
      BY <1>1, <1>6, <2>2 DEF Tick
    <2> QED
      BY <2>1, <2>2
  <1>7. ASSUME NEW n \in Node, Restart(n)
        PROVE  Grows
    BY <1>7 DEF Restart, StateOK
  <1>8. ASSUME UNCHANGED vars PROVE Grows
    BY <1>1, <1>8 DEF vars
  <1>9. Grows
    <2>1. ASSUME NEW n \in Node, Recv(n) \/ Lose(n) \/ GetRouteCount(n)
          PROVE  Grows
      BY <1>1, <1>5, <2>1
    <2> HIDE DEF Grows, Same
    <2> QED
      BY <1>3, <1>4, <1>6, <1>7, <1>8, <2>1 DEF Next
  <1>10. \A d, s : Brought(d, s) => Brought(d, s)'
    BY HandedGrows DEF Brought, Numbers
  <1> QED
    BY <1>9, <1>10 DEF NotAhead, NoWrap

LEMMA TablesMonotonic ==
  ASSUME NEW G, NEW H, G \subseteq H
  PROVE  Tables(G) \subseteq Tables(H)
  <1> SUFFICES ASSUME NEW t \in Tables(G)
               PROVE  t \in Tables(H)
    OBVIOUS
  <1>1. t \in Seq(G \cup {NoRoute}) /\ G \cup {NoRoute} \subseteq H \cup {NoRoute}
    BY DEF Tables
  <1>2. t \in Seq(H \cup {NoRoute})
    BY <1>1, SeqMonotonic
  <1> QED
    BY <1>2 DEF Tables

LEMMA GoodGrows ==
  ASSUME StateOK, [Next]_vars
  PROVE  \A n \in Node : /\ GoodRoute(n) \subseteq GoodRoute(n)'
                         /\ Tables(GoodRoute(n)) \subseteq Tables(GoodRoute(n)')
                         /\ GoodFrame(n) \subseteq GoodFrame(n)'
  <1>1. \A d \in Addr, s \in Seqno : NotAhead(s, d) => NotAhead(s, d)'
    BY SeqnoGrows
  <1> SUFFICES ASSUME NEW n \in Node
               PROVE  /\ GoodRoute(n) \subseteq GoodRoute(n)'
                      /\ Tables(GoodRoute(n)) \subseteq Tables(GoodRoute(n)')
                      /\ GoodFrame(n) \subseteq GoodFrame(n)'
    OBVIOUS
  <1>2. GoodRoute(n) \subseteq GoodRoute(n)'
    <2>1. \A h : GoodHop(n, h) => GoodHop(n, h)'
      BY HandedGrows DEF GoodHop
    <2> QED
      BY <1>1, <2>1 DEF GoodRoute, Route
  <1>3. GoodUpdate(n) \subseteq GoodUpdate(n)'
    <2> SUFFICES ASSUME NEW f \in GoodUpdate(n)
                 PROVE  f \in GoodUpdate(n)'
      OBVIOUS
    <2>1. f \in UpdateFrame /\ f.origin \in Addr /\ f.seqno \in Seqno
      BY TableAssumption DEF GoodUpdate, UpdateFrame
    <2>2. \A k \in DOMAIN f.adverts : f.adverts[k].node \in Addr /\ f.adverts[k].seqno \in Seqno
      <3>1. f.adverts \in Seq(Advert)
        BY DEF GoodUpdate, UpdateFrame
      <3>2. \A k \in DOMAIN f.adverts : f.adverts[k] \in Advert
        BY <3>1
      <3> QED
        BY <3>2 DEF Advert
    <2> QED
      BY <1>1, <2>1, <2>2 DEF GoodUpdate
  <1>4. GoodFrame(n) \subseteq GoodFrame(n)'
    BY <1>3 DEF GoodFrame, GoodRequest, GoodData
  <1> QED
    BY <1>2, <1>4, TablesMonotonic

-----------------------------------------------------------------------------
(* The queue and the dead letters. *)

LEMMA EnqueueKeeps ==
  ASSUME StateOK, NEW n \in Node, NEW e \in GoodQueued, ~QueueFull(n), Enqueue(n, e)
  PROVE  queue' \in [Node -> Seq(GoodQueued)] /\ \A m \in Node : Len(queue'[m]) <= MaxQueue
  <1>1. queue \in [Node -> Seq(GoodQueued)] /\ \A m \in Node : Len(queue[m]) <= MaxQueue
    BY DEF StateOK
  <1>2. /\ Append(queue[n], e) \in Seq(GoodQueued)
        /\ Len(Append(queue[n], e)) = Len(queue[n]) + 1 /\ Len(queue[n]) \in Nat
    BY <1>1, AppendProperties, LenProperties
  <1>3. Len(queue[n]) < MaxQueue
    BY <1>1, <1>2, MeshAssumption DEF QueueFull
  <1>4. Len(Append(queue[n], e)) <= MaxQueue
    BY <1>2, <1>3, MeshAssumption
  <1> QED
    BY <1>1, <1>2, <1>4 DEF Enqueue

LEMMA BuryKeeps ==
  ASSUME StateOK, NEW n \in Node, NEW letters \in Seq(DeadLetter), Bury(n, letters)
  PROVE  dead' \in [Node -> Seq(DeadLetter)] /\ \A m \in Node : Len(dead'[m]) <= MaxDead
  <1>1. dead \in [Node -> Seq(DeadLetter)] /\ \A m \in Node : Len(dead[m]) <= MaxDead
    BY DEF StateOK
  <1>2. dead[n] \o letters \in Seq(DeadLetter) /\ MaxDead \in Nat
    BY <1>1, ConcatProperties, MeshAssumption
  <1>3. /\ Fit(dead[n] \o letters, MaxDead) \in Seq(DeadLetter)
        /\ Len(Fit(dead[n] \o letters, MaxDead)) <= MaxDead
    BY <1>2, FitProperties
  <1> QED
    BY <1>1, <1>3 DEF Bury

LEMMA NewEntry ==
  ASSUME NEW m \in Msg, NEW d \in Addr, NEW ttl \in Nat \ {0}, NEW h \in Nat, ttl + h <= Ttl(m)
  PROVE  Entry(m, d, ttl, h) \in GoodQueued
  BY MeshAssumption DEF Entry, GoodQueued, Queued

LEMMA RetriedEntry ==
  ASSUME NEW q \in GoodQueued, ~(q.retries + 1 >= MaxRetries)
  PROVE  [q EXCEPT !.age = 0, !.retries = @ + 1] \in GoodQueued
  <1> DEFINE r == [q EXCEPT !.age = 0, !.retries = @ + 1]
  <1>1. q \in Queued /\ q.ttl + q.hops <= Ttl(q.msg)
    BY DEF GoodQueued
  <1> DEFINE p == [q EXCEPT !.age = 0]
  <1>2. p \in Queued /\ p.msg = q.msg /\ p.ttl = q.ttl /\ p.hops = q.hops /\ p.retries = q.retries
    BY <1>1, MeshAssumption DEF Queued
  <1>3. r = [p EXCEPT !.retries = @ + 1]
    BY <1>2
  <1>4. q.retries + 1 \in 0..(MaxRetries - 1) /\ 0 \in 0..RetryAge
    BY <1>1, MeshAssumption DEF Queued
  <1> HIDE DEF r, p
  <1>5. r \in Queued /\ r.msg = q.msg /\ r.ttl = q.ttl /\ r.hops = q.hops
    BY <1>2, <1>3, <1>4 DEF Queued
  <1>6. r.ttl + r.hops <= Ttl(r.msg)
    BY <1>1, <1>5
  <1>7. r \in GoodQueued
    BY <1>5, <1>6 DEF GoodQueued
  <1> QED
    BY <1>7 DEF r

\* What a tick makes of the queue.
LEMMA TickQueue ==
  ASSUME StateOK, NEW n \in Node, NEW t
  PROVE  /\ QueueLeft(n, t) \in Seq(GoodQueued) /\ Len(QueueLeft(n, t)) <= MaxQueue
         /\ QueueLetters(n, t) \in Seq(DeadLetter)
         /\ QueueFrames(n, t) \in Seq(GoodData)
  <1> DEFINE N == Len(queue[n])
  <1>1. /\ N \in Nat /\ N <= MaxQueue /\ DOMAIN queue[n] = 1..N
        /\ \A i \in 1..N : queue[n][i] \in GoodQueued
    BY LenProperties DEF StateOK
  <1> HIDE DEF N
  <1>2. /\ Due(n) \subseteq 1..N
        /\ Routable(n, t) \subseteq 1..N /\ Exhausted(n, t) \subseteq 1..N
    BY <1>1 DEF Due, Routable, Retried, Exhausted
  <1>3. QueueLeft(n, t) \in Seq(GoodQueued) /\ Len(QueueLeft(n, t)) <= MaxQueue
    <2> DEFINE S == DOMAIN queue[n] \ (Routable(n, t) \cup Exhausted(n, t))
               q == [i \in DOMAIN queue[n] |->
                       IF i \in Retried(n, t)
                       THEN [queue[n][i] EXCEPT !.age = 0, !.retries = @ + 1]
                       ELSE queue[n][i]]
    <2>1. \A i \in S : q[i] \in GoodQueued
      <3> SUFFICES ASSUME NEW i \in S
                   PROVE  q[i] \in GoodQueued
        OBVIOUS
      <3>1. queue[n][i] \in GoodQueued
        BY <1>1
      <3>2. CASE i \in Retried(n, t)
        <4>1. ~(queue[n][i].retries + 1 >= MaxRetries)
          BY <3>2 DEF Exhausted
        <4>3. q[i] = [queue[n][i] EXCEPT !.age = 0, !.retries = @ + 1]
          BY <3>2
        <4> HIDE DEF q
        <4> QED
          BY <4>1, <4>3, <3>1, RetriedEntry
      <3>3. CASE i \notin Retried(n, t)
        BY <3>1, <3>3
      <3> QED
        BY <3>2, <3>3
    <2>2. S \subseteq 1..N
      BY <1>1
    <2>3. QueueLeft(n, t) = Keep(q, S)
      BY DEF QueueLeft
    <2> HIDE DEF q, S
    <2>4. Keep(q, S) \in Seq(GoodQueued) /\ Len(Keep(q, S)) \in Nat /\ Len(Keep(q, S)) <= N
      BY <1>1, <2>1, <2>2, KeepProperties
    <2>5. Len(Keep(q, S)) <= MaxQueue
      BY <1>1, <2>4, MeshAssumption
    <2> QED
      BY <2>3, <2>4, <2>5
  <1>4. QueueLetters(n, t) \in Seq(DeadLetter)
    <2> DEFINE q == [i \in DOMAIN queue[n] |->
                       LET e == queue[n][i] IN Letter(e.msg, e.dest, e.ttl, "retry_exhausted")]
    <2>1. \A i \in Exhausted(n, t) : q[i] \in DeadLetter
      BY <1>1, <1>2 DEF Letter, DeadLetter, GoodQueued, Queued
    <2>2. QueueLetters(n, t) = Keep(q, Exhausted(n, t))
      BY DEF QueueLetters
    <2> HIDE DEF q
    <2> QED
      BY <1>1, <1>2, <2>1, <2>2, KeepProperties
  <1>5. QueueFrames(n, t) \in Seq(GoodData)
    <2> DEFINE q == [i \in DOMAIN queue[n] |->
                       LET e == queue[n][i] IN Data(e.dest, e.msg, e.ttl, e.hops + 1)]
    <2>1. \A i \in Routable(n, t) : q[i] \in GoodData
      <3> SUFFICES ASSUME NEW i \in Routable(n, t)
                   PROVE  q[i] \in GoodData
        OBVIOUS
      <3> DEFINE e == queue[n][i]
      <3>1. e \in GoodQueued /\ q[i] = Data(e.dest, e.msg, e.ttl, e.hops + 1)
        BY <1>1, <1>2
      <3>2. Ttl(e.msg) \in Nat
        BY <3>1, TtlPositive DEF GoodQueued, Queued
      <3> HIDE DEF e, q
      <3> QED
        BY <3>1, <3>2 DEF Data, GoodData, DataFrame, GoodQueued, Queued
    <2>2. QueueFrames(n, t) = Keep(q, Routable(n, t))
      BY DEF QueueFrames
    <2> HIDE DEF q
    <2> QED
      BY <1>1, <1>2, <2>1, <2>2, KeepProperties
  <1> QED
    BY <1>3, <1>4, <1>5

-----------------------------------------------------------------------------
(* What a node sends may stand in the buffer of every node that hears it. *)

Sendable(n) == {f \in Frame : \A m \in Nbr[n] : f \in GoodFrame(m)}

LEMMA RequestSendable ==
  ASSUME NEW n \in Node, NEW o \in Node, NEW s \in Seqno, NEW h \in Metric
  PROVE  RouteRequest(o, s, h) \in Sendable(n) /\ RouteRequest(o, s, h) \in Sendable(n)'
  <1>1. RouteRequest(o, s, h) \in GoodRequest /\ RouteRequest(o, s, h) \in RequestFrame
    BY MeshAssumption DEF RouteRequest, GoodRequest, RequestFrame
  <1> QED
    BY <1>1 DEF Sendable, GoodFrame, Frame

LEMMA DataSendable ==
  ASSUME NEW n \in Node, NEW f \in GoodData
  PROVE  f \in Sendable(n) /\ f \in Sendable(n)'
  <1>1. f \in DataFrame
    BY DEF GoodData
  <1>2. \A m \in Nbr[n] : f \in GoodFrame(m) /\ f \in GoodFrame(m)'
    BY DEF GoodFrame
  <1> QED
    BY <1>1, <1>2 DEF Sendable, Frame

\* An update advertises numbers that no destination is behind.
LEMMA UpdateSendable ==
  ASSUME StateOK, [Next]_vars, NEW n \in Node, NEW t \in Tables(GoodRoute(n)'),
         seqno'[n] = (seqno[n] + 1) % SeqMod
  PROVE  Update(n, t) \in Sendable(n)'
  <1> SUFFICES ASSUME NEW u, u = Update(n, t)
               PROVE  u \in Sendable(n)'
    OBVIOUS
  <1>1. /\ Adverts(t) \in Seq(Advert)
        /\ \A k \in DOMAIN Adverts(t) : \E r \in GoodRoute(n)' :
             Adverts(t)[k] = [node |-> r.node, metric |-> r.metric, seqno |-> r.seqno]
    <2>1. GoodRoute(n)' \in SUBSET Route
      BY DEF GoodRoute
    <2> QED
      BY <2>1, AdvertsOfTable
  <1>2. \A r \in GoodRoute(n)' : NotAhead(r.seqno, r.node)'
    BY DEF GoodRoute
  <1>3. \A k \in DOMAIN Adverts(t) : NotAhead(Adverts(t)[k].seqno, Adverts(t)[k].node)'
    <2> TAKE k \in DOMAIN Adverts(t)
    <2>1. PICK r \in GoodRoute(n)' :
            Adverts(t)[k] = [node |-> r.node, metric |-> r.metric, seqno |-> r.seqno]
      BY <1>1
    <2>2. Adverts(t)[k].seqno = r.seqno /\ Adverts(t)[k].node = r.node
      BY <2>1
    <2> QED
      BY <1>2, <2>2 DEF NotAhead
  <1>4. (seqno[n] + 1) % SeqMod \in Seqno
    BY SeqnoStep DEF StateOK
  <1>5. u \in UpdateFrame /\ u.origin = n /\ u.seqno = seqno'[n] /\ u.adverts = Adverts(t)
    BY <1>1, <1>4 DEF Update, UpdateFrame
  <1>6. NotAhead(u.seqno, u.origin)'
    BY <1>4, <1>5 DEF NotAhead, Seqno
  <1>7. \A m \in Nbr[n] : u \in GoodUpdate(m)'
    BY <1>3, <1>5, <1>6 DEF GoodUpdate
  <1> QED
    BY <1>5, <1>7 DEF Sendable, GoodFrame, Frame

\* The buffers after a transmission, after taking a frame off, and untouched.
LEMMA SentInbox ==
  ASSUME Inv, [Next]_vars, NEW n \in Node, NEW box, NEW out \in Seq(Sendable(n)'),
         \A m \in Node : box[m] \in Seq(GoodFrame(m)) /\ Len(box[m]) <= InboxCap,
         inbox' = Transmit(n, out, box)
  PROVE  InboxOK' /\ Payloads(out) \subseteq Msg /\ Missed(n, out, box) \subseteq Msg
  <1> DEFINE F == [m \in Node |-> GoodFrame(m)']
  <1>1. \A m \in Node : GoodFrame(m) \subseteq GoodFrame(m)'
    BY GoodGrows DEF Inv
  <1>2. \A m \in Node : box[m] \in Seq(F[m]) /\ Len(box[m]) <= InboxCap
    <2> SUFFICES ASSUME NEW m \in Node
                 PROVE  box[m] \in Seq(GoodFrame(m)')
      OBVIOUS
    <2> QED
      BY <1>1, SeqMonotonic
  <1>3. \A m \in Nbr[n] : Sendable(n)' \subseteq F[m]
    BY MeshAssumption DEF Sendable
  <1>4. \A m \in Node : /\ Transmit(n, out, box)[m] \in Seq(F[m])
                         /\ Len(Transmit(n, out, box)[m]) <= InboxCap
    <2> HIDE DEF F
    <2> QED
      BY <1>2, <1>3, TransmitFrames
  <1>5. InboxOK'
    <2>1. inbox' = [m \in Node |-> inbox'[m]]
      BY DEF Transmit
    <2> QED
      BY <1>4, <2>1 DEF InboxOK
  <1>6. Payloads(out) \subseteq Msg
    <2>1. Sendable(n)' \in SUBSET Frame
      BY DEF Sendable
    <2> QED
      BY <2>1, PayloadsOfFrames
  <1> QED
    BY <1>5, <1>6 DEF Missed

LEMMA RestInbox ==
  ASSUME Inv, [Next]_vars, NEW n \in Node, inbox[n] # <<>>, inbox' = Rest(n)
  PROVE  InboxOK'
  <1>1. /\ \A m \in Node : /\ Rest(n)[m] \in Seq(GoodFrame(m))
                            /\ Len(Rest(n)[m]) <= InboxCap
        /\ Rest(n) = [m \in Node |-> Rest(n)[m]]
    BY RestFrames DEF Inv
  <1>2. \A m \in Node : GoodFrame(m) \subseteq GoodFrame(m)'
    BY GoodGrows DEF Inv
  <1>3. \A m \in Node : inbox'[m] \in Seq(GoodFrame(m)')
    BY <1>1, <1>2, SeqMonotonic
  <1> QED
    BY <1>1, <1>3 DEF InboxOK

LEMMA SameInbox ==
  ASSUME Inv, [Next]_vars, UNCHANGED inbox
  PROVE  InboxOK'
  <1>1. \A m \in Node : GoodFrame(m) \subseteq GoodFrame(m)'
    BY GoodGrows DEF Inv
  <1>2. \A m \in Node : inbox'[m] \in Seq(GoodFrame(m)')
    BY <1>1, SeqMonotonic DEF Inv, InboxOK
  <1> QED
    BY <1>2 DEF Inv, InboxOK

-----------------------------------------------------------------------------
(* The routing tables, action by action. *)

\* A change of one table, in the terms of the new state.
LEMMA OneTable ==
  ASSUME Inv, [Next]_vars, NEW n \in Node, NEW t \in Tables(GoodRoute(n)'),
         routes' = [routes EXCEPT ![n] = t]
  PROVE  TablesOK'
  <1>1. \A m \in Node : routes[m] \in Tables(GoodRoute(m)')
    BY GoodGrows DEF Inv, TablesOK
  <1>2. routes' = [m \in Node |-> IF m = n THEN t ELSE routes[m]]
    BY DEF Inv, TablesOK
  <1>3. \A m \in Node : routes'[m] \in Tables(GoodRoute(m)')
    BY <1>1, <1>2
  <1> QED
    BY <1>2, <1>3 DEF TablesOK

LEMMA SameTables ==
  ASSUME Inv, [Next]_vars, UNCHANGED routes
  PROVE  TablesOK'
  BY GoodGrows DEF Inv, TablesOK

\* The routes that frames teach.
LEMMA UpdateTeaches ==
  ASSUME NEW n \in Node, NEW u \in GoodUpdate(n), NEW t \in Tables(GoodRoute(n))
  PROVE  ApplyUpdate(t, n, u) \in Tables(GoodRoute(n))
  <1>1. /\ u \in UpdateFrame /\ n \in Nbr[u.origin] /\ NotAhead(u.seqno, u.origin)
        /\ \A k \in DOMAIN u.adverts : NotAhead(u.adverts[k].seqno, u.adverts[k].node)
    BY DEF GoodUpdate
  <1>2. u.origin \in Node /\ u.seqno \in Seqno /\ u.adverts \in Seq(Advert)
    BY <1>1 DEF UpdateFrame
  <1>3. Len(u.adverts) \in Nat /\ DOMAIN u.adverts = 1..Len(u.adverts)
    BY <1>2, LenProperties
  <1>4. u.origin # n => FreshRoute(u.origin, u.origin, 1, u.seqno) \in GoodRoute(n)
    BY <1>1, <1>2, TableAssumption DEF FreshRoute, GoodRoute, GoodHop, Route, Metric
  <1>5. ASSUME NEW k \in 1..Len(u.adverts), u.origin # n, u.adverts[k].node # n
        PROVE  AdvertRoute(u, k) \in GoodRoute(n)
    <2> DEFINE a == u.adverts[k]
    <2>1. a \in Advert
      BY <1>2, <1>3
    <2>2. (a.metric + 1) % MetricMod \in Metric
      BY <2>1, HopStep DEF Advert
    <2>3. NotAhead(a.seqno, a.node) /\ a.node # n
      BY <1>1, <1>3, <1>5
    <2>4. AdvertRoute(u, k) = FreshRoute(a.node, u.origin, (a.metric + 1) % MetricMod, a.seqno)
      BY DEF AdvertRoute
    <2> HIDE DEF a
    <2> QED
      BY <1>1, <1>2, <2>1, <2>2, <2>3, <2>4, TableAssumption
      DEF FreshRoute, GoodRoute, GoodHop, Route, Advert
  <1>6. GoodRoute(n) \in SUBSET Route
    BY DEF GoodRoute
  <1> HIDE DEF GoodRoute, GoodUpdate
  <1> QED
    BY <1>3, <1>4, <1>5, <1>6, ApplyUpdateInTable

\* An update that n takes over from its host, by then one of those handed to it.
LEMMA HostTeaches ==
  ASSUME Inv, [Next]_vars, NEW n \in Node, NEW u \in HostUpdate[n], SendUpdate(n, u)
  PROVE  ApplyUpdate(routes[n], n, u) \in Tables(GoodRoute(n)')
  <1>1. routes[n] \in Tables(GoodRoute(n)')
    BY GoodGrows DEF Inv, TablesOK
  <1>2. CASE Ignored(routes[n], n, u)
    BY <1>1, <1>2 DEF ApplyUpdate
  <1>3. CASE ~Ignored(routes[n], n, u)
    <2>1. u \in HostFrame /\ u \in handed'[n]
      BY <1>3, MeshAssumption DEF SendUpdate, Inv, StateOK
    <2>2. u.origin \in Addr /\ u.seqno \in Seqno /\ u.adverts \in Seq(Advert)
      BY <2>1 DEF HostFrame
    <2>3. Len(u.adverts) \in Nat /\ DOMAIN u.adverts = 1..Len(u.adverts)
      BY <2>2, LenProperties
    <2>4. GoodHop(n, u.origin)'
      BY <2>1 DEF GoodHop
    <2>5. \A d, s : Numbers(u, d, s) => NotAhead(s, d)'
      BY <2>1 DEF NotAhead, Brought
    <2>6. u.origin # n => FreshRoute(u.origin, u.origin, 1, u.seqno) \in GoodRoute(n)'
      <3>1. NotAhead(u.seqno, u.origin)'
        BY <2>5 DEF Numbers
      <3> QED
        BY <2>2, <2>4, <3>1, TableAssumption DEF FreshRoute, GoodRoute, Route, Metric
    <2>7. ASSUME NEW k \in 1..Len(u.adverts), u.origin # n, u.adverts[k].node # n
          PROVE  AdvertRoute(u, k) \in GoodRoute(n)'
      <3>1. PICK a \in Advert : a = u.adverts[k]
        BY <2>2, <2>3
      <3>2. (a.metric + 1) % MetricMod \in Metric
        BY HopStep DEF Advert
      <3>3. NotAhead(a.seqno, a.node)' /\ a.node # n
        BY <2>3, <2>5, <2>7, <3>1 DEF Numbers
      <3>4. AdvertRoute(u, k) = FreshRoute(a.node, u.origin, (a.metric + 1) % MetricMod, a.seqno)
        BY <3>1 DEF AdvertRoute
      <3> QED
        BY <2>2, <2>4, <3>2, <3>3, <3>4, TableAssumption
        DEF FreshRoute, GoodRoute, Route, Advert
    <2>8. GoodRoute(n)' \in SUBSET Route
      BY DEF GoodRoute
    <2> HIDE DEF GoodRoute
    <2> QED
      BY <1>1, <2>3, <2>6, <2>7, <2>8, ApplyUpdateInTable
  <1> QED
    BY <1>2, <1>3

\* Only a node with the identifier 0xFF answers, or is answered.
LEMMA DiscoveryTeaches ==
  ASSUME StateOK, NEW n \in Node, NEW f \in GoodRequest, NEW t \in Tables(GoodRoute(n)),
         f.target = n \/ f.kind = "rrep"
  PROVE  AddIfUnknown(t, FreshRoute(f.origin, f.origin, f.hops, 0)) \in Tables(GoodRoute(n))
  <1>1. f \in RequestFrame /\ f.target = Broadcast /\ Broadcast \in Node
    BY DEF GoodRequest
  <1>2. f.origin \in Node /\ f.hops \in Metric
    BY <1>1 DEF RequestFrame
  <1>3. FreshRoute(f.origin, f.origin, f.hops, 0) \in Route
    BY <1>2, TableAssumption DEF FreshRoute, Route, Seqno
  <1>4. NotAhead(0, f.origin)
    BY <1>2 DEF StateOK, NotAhead, Seqno
  <1>5. CASE n = Broadcast \/ f.origin # n
    <2>1. FreshRoute(f.origin, f.origin, f.hops, 0) \in GoodRoute(n)
      BY <1>1, <1>3, <1>4, <1>5 DEF GoodRoute, FreshRoute
    <2>2. GoodRoute(n) \in SUBSET Route
      BY DEF GoodRoute
    <2> QED
      BY <2>1, <2>2, AddIfUnknownInTable
  <1>6. CASE n # Broadcast /\ f.origin = n
    BY <1>1, <1>6 DEF GoodRequest
  <1> QED
    BY <1>5, <1>6

LEMMA TablesStep ==
  ASSUME Inv, [Next]_vars
  PROVE  TablesOK'
  <1>1. \A n \in Node : routes[n] \in Tables(GoodRoute(n)) /\ GoodRoute(n) \in SUBSET Route
    BY DEF Inv, TablesOK, GoodRoute
  <1>2. \A n \in Node : Tables(GoodRoute(n)) \subseteq Tables(GoodRoute(n)')
    BY GoodGrows DEF Inv
  <1>3. \A n \in Node : Expire(routes[n]) \in Tables(GoodRoute(n)')
    BY <1>1, <1>2, ExpireInTable
  <1>4. CASE Elapse
    <2>1. \A n \in Node : \A r \in GoodRoute(n) :
            r.age <= StaleAge => [r EXCEPT !.age = @ + 1] \in GoodRoute(n)
      BY TableAssumption DEF GoodRoute, Route
    <2>2. \A n \in Node : Older(routes[n]) \in Tables(GoodRoute(n)')
      BY <1>1, <1>2, <2>1, OlderInTable
    <2> QED
      BY <1>4, <2>2 DEF Elapse, TablesOK
  <1>5. ASSUME NEW n \in Node, Send(n)
        PROVE  TablesOK'
    <2>1. ASSUME NEW u \in HostUpdate[n], SendUpdate(n, u)
          PROVE  TablesOK'
      <3>1. routes' = [routes EXCEPT ![n] = ApplyUpdate(routes[n], n, u)]
        BY <2>1 DEF SendUpdate
      <3> QED
        BY <2>1, <3>1, HostTeaches, OneTable
    <2>2. ASSUME NEW m \in Msg,
                 SendBroadcast(n, m) \/ SendToSelf(n, m) \/ SendRouted(n, m) \/ SendQueued(n, m)
          PROVE  TablesOK'
      BY <2>2, SameTables DEF SendBroadcast, SendToSelf, SendRouted, SendQueued, Submit
    <2> QED
      BY <1>5, <2>1, <2>2 DEF Send
  <1>6. ASSUME NEW n \in Node, Recv(n)
        PROVE  TablesOK'
    <2> DEFINE f == Head(inbox[n])
    <2>1. CASE RecvUpdate(n)
      <3>1. f \in GoodUpdate(n)
        BY <2>1, RestFrames, FrameKinds DEF RecvUpdate, Arrives, Inv
      <3>2. ApplyUpdate(routes[n], n, f) \in Tables(GoodRoute(n)')
        BY <1>1, <1>2, <3>1, UpdateTeaches
      <3>3. routes' = [routes EXCEPT ![n] = ApplyUpdate(routes[n], n, f)]
        BY <2>1 DEF RecvUpdate
      <3> QED
        BY <3>2, <3>3, OneTable
    <2>2. CASE RecvRequestForMe(n) \/ RecvReply(n)
      <3>1. f \in GoodRequest /\ (f.target = n \/ f.kind = "rrep")
        BY <2>2, RestFrames, FrameKinds DEF RecvRequestForMe, RecvReply, Arrives, Inv
      <3>2. AddIfUnknown(routes[n], FreshRoute(f.origin, f.origin, f.hops, 0))
              \in Tables(GoodRoute(n)')
        BY <1>1, <1>2, <3>1, DiscoveryTeaches DEF Inv
      <3>3. routes' = [routes EXCEPT ![n] =
              AddIfUnknown(routes[n], FreshRoute(f.origin, f.origin, f.hops, 0))]
        BY <2>2 DEF RecvRequestForMe, RecvReply
      <3> QED
        BY <3>2, <3>3, OneTable
    <2>3. CASE RecvRequestForOther(n) \/ RecvDeliver(n) \/ RecvTtlExpired(n)
               \/ RecvForward(n) \/ RecvStore(n)
      BY <2>3, SameTables DEF RecvRequestForOther, RecvDeliver, RecvTtlExpired, RecvForward,
                              RecvStore
    <2> QED
      BY <1>6, <2>1, <2>2, <2>3 DEF Recv
  <1>7. ASSUME NEW n \in Node, Lose(n)
        PROVE  TablesOK'
    BY <1>7, SameTables DEF Lose
  <1>8. ASSUME NEW n \in Node, Tick(n) \/ GetRouteCount(n)
        PROVE  TablesOK'
    <2>1. routes' = [routes EXCEPT ![n] = Expire(routes[n])]
      BY <1>8 DEF Tick, GetRouteCount
    <2> QED
      BY <1>3, <2>1, OneTable
  <1>9. ASSUME NEW n \in Node, Restart(n)
        PROVE  TablesOK'
    <2>1. << >> \in Tables(GoodRoute(n)')
      BY TableAssumption DEF Tables, UniqueIn, Slots
    <2> QED
      BY <1>9, <2>1, OneTable DEF Restart
  <1>10. CASE UNCHANGED vars
    BY <1>10, SameTables DEF vars
  <1> QED
    BY <1>4, <1>5, <1>6, <1>7, <1>8, <1>9, <1>10 DEF Next

-----------------------------------------------------------------------------
(* The buffers, and the payloads the medium loses. *)

\* What each step that sends says of its frames.
LEMMA SingleFrame ==
  ASSUME NEW E, NEW f \in E
  PROVE  <<f>> \in Seq(E)
  OBVIOUS

LEMMA TickSendable ==
  ASSUME Inv, NEW n \in Node, Tick(n)
  PROVE  TickFrames(n, Expire(routes[n])) \in Seq(Sendable(n)')
  <1> DEFINE t == Expire(routes[n])
  <1>1. [Next]_vars
    BY DEF Next
  <1>2. StateOK /\ t \in Tables(GoodRoute(n))
    <2>1. routes[n] \in Tables(GoodRoute(n)) /\ GoodRoute(n) \in SUBSET Route
      BY DEF Inv, TablesOK, GoodRoute
    <2> QED
      BY <2>1, ExpireInTable DEF Inv
  <1> HIDE DEF t
  <1>3. RouteRequest(n, rreq[n].seqno, 1) \in Sendable(n)'
    <2>1. rreq[n].seqno \in Seqno /\ 1 \in Metric
      BY <1>2, TableAssumption DEF StateOK, Request, Metric
    <2> QED
      BY <2>1, RequestSendable
  <1>4. FloodDue(n) => Update(n, t) \in Sendable(n)'
    <2> SUFFICES ASSUME FloodDue(n) PROVE Update(n, t) \in Sendable(n)'
      OBVIOUS
    <2>1. seqno'[n] = (seqno[n] + 1) % SeqMod
      BY <1>2 DEF Tick, StateOK
    <2>2. t \in Tables(GoodRoute(n)')
      BY <1>1, <1>2, GoodGrows
    <2> QED
      BY <1>1, <1>2, <2>1, <2>2, UpdateSendable
  <1>5. QueueFrames(n, t) \in Seq(Sendable(n)')
    <2>1. QueueFrames(n, t) \in Seq(GoodData)
      BY <1>2, TickQueue
    <2>2. GoodData \subseteq Sendable(n)'
      BY DataSendable
    <2> QED
      BY <2>1, <2>2, SeqMonotonic
  <1>6. (IF RreqDue(n) THEN <<RouteRequest(n, rreq[n].seqno, 1)>> ELSE <<>>) \in Seq(Sendable(n)')
    BY <1>3
  <1>7. (IF FloodDue(n) THEN <<Update(n, t)>> ELSE <<>>) \in Seq(Sendable(n)')
    BY <1>4
  <1>8. TickFrames(n, t) \in Seq(Sendable(n)')
    BY <1>5, <1>6, <1>7, ConcatProperties DEF TickFrames
  <1> QED
    BY <1>8 DEF t

\* The frame a node passes on, or the payload it sends, is one it may send.
LEMMA RoutedSendable ==
  ASSUME Inv, NEW n \in Node, NEW m \in Msg, SendRouted(n, m), Ttl(m) # 1
  PROVE  Data(FindRoute(routes[n], m.to).nextHop, m, Ttl(m) - 1, 1) \in Sendable(n)'
  <1>1. HasRoute(routes[n], m.to)
    BY DEF SendRouted
  <1>2. FindRoute(routes[n], m.to).nextHop \in Addr
    <2>1. PICK i \in Slots(routes[n], m.to) : TRUE
      BY <1>1 DEF HasRoute
    <2>2. routes[n] \in Tables(GoodRoute(n)) /\ GoodRoute(n) \in SUBSET Route
      BY DEF Inv, TablesOK, GoodRoute
    <2>3. m.to \in Addr
      BY <2>1, <2>2 DEF Slots, Tables, Route
    <2>4. FindRoute(routes[n], m.to) \in Route
      BY <1>1, <2>2, <2>3, FindRouteInTable
    <2> QED
      BY <2>4, MeshAssumption DEF Route
  <1>3. Ttl(m) \in Nat \ {0}
    BY TtlPositive
  <1>4. Data(FindRoute(routes[n], m.to).nextHop, m, Ttl(m) - 1, 1) \in GoodData
    BY <1>2, <1>3 DEF Data, GoodData, DataFrame
  <1> QED
    BY <1>4, DataSendable

LEMMA ForwardSendable ==
  ASSUME Inv, NEW n \in Node, RecvForward(n)
  PROVE  LET f == Head(inbox[n])
         IN  Data(FindRoute(routes[n], f.target).nextHop, f.msg, f.ttl - 1, f.hops + 1)
               \in Sendable(n)'
  <1> DEFINE f == Head(inbox[n])
  <1>1. f \in GoodData /\ f.target # Broadcast /\ f.ttl > 1 /\ HasRoute(routes[n], f.target)
    BY RestFrames, FrameKinds DEF RecvForward, Overheard, Arrives, Inv
  <1> HIDE DEF f
  <1>2. FindRoute(routes[n], f.target).nextHop \in Addr
    <2>1. PICK i \in Slots(routes[n], f.target) : TRUE
      BY <1>1 DEF HasRoute
    <2>2. routes[n] \in Tables(GoodRoute(n)) /\ GoodRoute(n) \in SUBSET Route
      BY DEF Inv, TablesOK, GoodRoute
    <2>3. f.target \in Addr
      BY <2>1, <2>2 DEF Slots, Tables, Route
    <2>4. FindRoute(routes[n], f.target) \in Route
      BY <1>1, <2>2, <2>3, FindRouteInTable
    <2> QED
      BY <2>4, MeshAssumption DEF Route
  <1>3. f.msg \in Msg /\ f.ttl \in Nat /\ f.hops \in Nat /\ Ttl(f.msg) \in Nat
        /\ f.ttl + f.hops <= Ttl(f.msg) + 1
    BY <1>1, TtlPositive DEF GoodData, DataFrame
  <1>4. Data(FindRoute(routes[n], f.target).nextHop, f.msg, f.ttl - 1, f.hops + 1) \in GoodData
    BY <1>1, <1>2, <1>3 DEF Data, GoodData, DataFrame
  <1>5. Data(FindRoute(routes[n], f.target).nextHop, f.msg, f.ttl - 1, f.hops + 1) \in Sendable(n)'
    BY <1>4, DataSendable
  <1> QED
    BY <1>5 DEF f

LEMMA InboxStep ==
  ASSUME Inv, [Next]_vars
  PROVE  InboxOK' /\ lost' \subseteq Msg
  <1>1. lost \subseteq Msg /\ seqno \in [Node -> Seqno] /\ rreq \in [Node -> Request]
    BY DEF Inv, StateOK
  <1>2. \A m \in Node : inbox[m] \in Seq(GoodFrame(m)) /\ Len(inbox[m]) <= InboxCap
    BY DEF Inv, InboxOK
  <1>3. ASSUME NEW n \in Node, NEW out \in Seq(Sendable(n)'), Sends(n, out, inbox)
        PROVE  InboxOK' /\ lost' \subseteq Msg
    BY <1>1, <1>2, <1>3, SentInbox DEF Sends
  <1>4. CASE Elapse
    BY <1>1, <1>4, SameInbox DEF Elapse
  <1>5. ASSUME NEW n \in Node, Send(n)
        PROVE  InboxOK' /\ lost' \subseteq Msg
    <2>1. ASSUME NEW u \in HostUpdate[n], SendUpdate(n, u)
          PROVE  InboxOK' /\ lost' \subseteq Msg
      <3>1. PICK t \in Tables(GoodRoute(n)') : t = ApplyUpdate(routes[n], n, u)
        BY <2>1, HostTeaches
      <3>2. <<Update(n, t)>> \in Seq(Sendable(n)')
        <4>1. Update(n, t) \in Sendable(n)'
          BY <1>1, <2>1, UpdateSendable DEF SendUpdate, Inv
        <4> QED
          BY <4>1, SingleFrame
      <3>3. InboxOK'
        BY <1>2, <2>1, <3>1, <3>2, SentInbox DEF SendUpdate
      <3> QED
        BY <1>1, <2>1, <3>3 DEF SendUpdate
    <2>2. ASSUME NEW m \in Msg, SendBroadcast(n, m)
          PROVE  InboxOK' /\ lost' \subseteq Msg
      <3>1. Data(Broadcast, m, m.ttl, 1) \in GoodData
        BY MeshAssumption DEF Data, GoodData, DataFrame
      <3>2. <<Data(Broadcast, m, m.ttl, 1)>> \in Seq(Sendable(n)')
        BY <3>1, DataSendable, SingleFrame
      <3> QED
        BY <1>3, <2>2, <3>2 DEF SendBroadcast
    <2>3. ASSUME NEW m \in Msg, SendToSelf(n, m)
          PROVE  InboxOK' /\ lost' \subseteq Msg
      BY <1>1, <2>3, SameInbox DEF SendToSelf
    <2>4. ASSUME NEW m \in Msg, SendRouted(n, m)
          PROVE  InboxOK' /\ lost' \subseteq Msg
      <3>1. CASE Ttl(m) = 1
        BY <1>1, <2>4, <3>1, SameInbox DEF SendRouted
      <3>2. CASE Ttl(m) # 1
        <4> DEFINE f == Data(FindRoute(routes[n], m.to).nextHop, m, Ttl(m) - 1, 1)
        <4>1. f \in Sendable(n)'
          BY <2>4, <3>2, RoutedSendable
        <4>2. Sends(n, <<f>>, inbox)
          BY <2>4, <3>2 DEF SendRouted
        <4> HIDE DEF f
        <4>3. <<f>> \in Seq(Sendable(n)')
          BY <4>1, SingleFrame
        <4> QED
          BY <1>3, <4>2, <4>3
      <3> QED
        BY <3>1, <3>2
    <2>5. ASSUME NEW m \in Msg, SendQueued(n, m)
          PROVE  InboxOK' /\ lost' \subseteq Msg
      <3>1. lost' \subseteq Msg
        BY <1>1, <2>5 DEF SendQueued
      <3>2. CASE UNCHANGED inbox
        BY <3>1, <3>2, SameInbox
      <3>3. CASE inbox' # inbox
        <4> DEFINE q == (rreq[n].seqno + 1) % SeqMod
        <4>1. inbox' = Transmit(n, <<RouteRequest(n, q, 1)>>, inbox)
          BY <2>5, <3>3 DEF SendQueued
        <4>2. q \in Seqno /\ 1 \in Metric
          BY <1>1, SeqnoStep, TableAssumption DEF Request, Metric
        <4> HIDE DEF q
        <4>3. <<RouteRequest(n, q, 1)>> \in Seq(Sendable(n)')
          BY <4>2, RequestSendable, SingleFrame
        <4> QED
          BY <1>2, <3>1, <4>1, <4>3, SentInbox
      <3> QED
        BY <3>2, <3>3
    <2> QED
      BY <1>5, <2>1, <2>2, <2>3, <2>4, <2>5 DEF Send
  <1>6. ASSUME NEW n \in Node, Recv(n)
        PROVE  InboxOK' /\ lost' \subseteq Msg
    <2> DEFINE f == Head(inbox[n])
    <2>1. inbox[n] # <<>>
      BY <1>6 DEF Recv, RecvUpdate, RecvRequestForMe, RecvRequestForOther, RecvReply,
                  RecvDeliver, RecvTtlExpired, RecvForward, RecvStore, Overheard, Arrives
    <2>2. /\ f \in GoodFrame(n)
          /\ \A m \in Node : Rest(n)[m] \in Seq(GoodFrame(m)) /\ Len(Rest(n)[m]) <= InboxCap
      BY <2>1, RestFrames DEF Inv
    <2>3. f.kind = "data" => f.msg \in Msg
      BY <2>2, FrameKinds DEF GoodData, DataFrame
    <2>4. f.kind \in {"rreq", "rrep"} =>
            f.origin \in Node /\ f.seqno \in Seqno /\ f.hops \in Metric
      BY <2>2, FrameKinds DEF GoodRequest, RequestFrame
    <2>5. CASE RecvUpdate(n) \/ RecvReply(n) \/ RecvDeliver(n)
      BY <1>1, <2>1, <2>5, RestInbox DEF RecvUpdate, RecvReply, RecvDeliver
    <2>6. CASE RecvTtlExpired(n) \/ RecvStore(n)
      BY <1>1, <2>1, <2>3, <2>6, RestInbox DEF RecvTtlExpired, RecvStore, Overheard, Arrives
    <2>7. CASE RecvRequestForMe(n)
      <3>1. <<RouteReply(n, f.seqno, f.hops)>> \in Seq(Sendable(n)')
        <4>1. /\ RouteReply(n, f.seqno, f.hops) \in RequestFrame
              /\ RouteReply(n, f.seqno, f.hops) \in GoodRequest
          <5>1. f.target = n /\ f \in GoodRequest
            BY <2>2, <2>7, FrameKinds DEF RecvRequestForMe, Arrives
          <5> QED
            BY <5>1, <2>4, <2>7, MeshAssumption
            DEF RouteReply, GoodRequest, RequestFrame, RecvRequestForMe, Arrives
        <4>2. RouteReply(n, f.seqno, f.hops) \in Sendable(n)'
          BY <4>1 DEF Sendable, GoodFrame, Frame
        <4> QED
          BY <4>2, SingleFrame
      <3> QED
        BY <1>1, <2>2, <2>7, <3>1, SentInbox DEF RecvRequestForMe
    <2>8. CASE RecvRequestForOther(n)
      <3>1. <<RouteRequest(f.origin, f.seqno, (f.hops + 1) % MetricMod)>> \in Seq(Sendable(n)')
        BY <2>4, <2>8, HopStep, RequestSendable, SingleFrame DEF RecvRequestForOther, Arrives
      <3> QED
        BY <1>1, <2>2, <2>8, <3>1, SentInbox DEF RecvRequestForOther
    <2>9. CASE RecvForward(n)
      <3> DEFINE g == Data(FindRoute(routes[n], f.target).nextHop, f.msg, f.ttl - 1, f.hops + 1)
      <3>1. g \in Sendable(n)' /\ Sends(n, <<g>>, Rest(n))
        BY <2>9, ForwardSendable DEF RecvForward
      <3> HIDE DEF g, f
      <3>2. <<g>> \in Seq(Sendable(n)')
        BY <3>1, SingleFrame
      <3> QED
        BY <1>1, <2>2, <3>1, <3>2, SentInbox DEF Sends
    <2> QED
      BY <1>6, <2>5, <2>6, <2>7, <2>8, <2>9 DEF Recv
  <1>7. ASSUME NEW n \in Node, Lose(n)
        PROVE  InboxOK' /\ lost' \subseteq Msg
    <2>1. inbox[n] # <<>> /\ inbox' = Rest(n)
      BY <1>7 DEF Lose
    <2>2. Head(inbox[n]) \in Frame
      BY <2>1, RestFrames, FrameKinds DEF Inv
    <2>3. Payloads(<<Head(inbox[n])>>) \subseteq Msg
      BY <2>2, SingleFrame, PayloadsOfFrames
    <2> QED
      BY <1>1, <1>7, <2>1, <2>3, RestInbox DEF Lose
  <1>8. ASSUME NEW n \in Node, Tick(n)
        PROVE  InboxOK' /\ lost' \subseteq Msg
    <2> DEFINE t == Expire(routes[n])
               out == TickFrames(n, t)
    <2>1. inbox' = Transmit(n, out, inbox)
          /\ lost' = lost \cup Missed(n, out, inbox) \cup Unburied(n, QueueLetters(n, t))
      BY <1>8 DEF Tick
    <2>2. out \in Seq(Sendable(n)')
      BY <1>8, TickSendable
    <2>3. Unburied(n, QueueLetters(n, t)) \subseteq Msg
      <3> HIDE DEF t
      <3>1. QueueLetters(n, t) \in Seq(DeadLetter)
        BY TickQueue DEF Inv
      <3>2. \A i \in DOMAIN QueueLetters(n, t) : QueueLetters(n, t)[i] \in DeadLetter
        BY <3>1
      <3> QED
        BY <3>2 DEF Unburied, DeadLetter
    <2> HIDE DEF out, t
    <2>4. InboxOK' /\ Missed(n, out, inbox) \subseteq Msg
      BY <1>2, <2>1, <2>2, SentInbox
    <2> QED
      BY <1>1, <2>1, <2>3, <2>4
  <1>9. ASSUME NEW n \in Node, GetRouteCount(n)
        PROVE  InboxOK' /\ lost' \subseteq Msg
    BY <1>1, <1>9, SameInbox DEF GetRouteCount
  <1>10. ASSUME NEW n \in Node, Restart(n)
         PROVE  InboxOK' /\ lost' \subseteq Msg
    <2>1. InboxOK'
      <3>1. inbox' = [m \in Node |-> IF m = n THEN <<>> ELSE inbox[m]]
        BY <1>10 DEF Restart, Inv, InboxOK
      <3>2. \A m \in Node : GoodFrame(m) \subseteq GoodFrame(m)'
        BY GoodGrows DEF Inv
      <3>3. \A m \in Node : inbox[m] \in Seq(GoodFrame(m)')
        BY <1>2, <3>2, SeqMonotonic
      <3>4. \A m \in Node : inbox'[m] \in Seq(GoodFrame(m)') /\ Len(inbox'[m]) <= InboxCap
        BY <1>2, <3>1, <3>3, MeshAssumption
      <3> QED
        BY <3>1, <3>4 DEF InboxOK
    <2>2. {queue[n][i].msg : i \in DOMAIN queue[n]} \subseteq Msg
      <3>1. queue[n] \in Seq(GoodQueued)
        BY DEF Inv, StateOK
      <3>2. \A i \in DOMAIN queue[n] : queue[n][i] \in GoodQueued
        BY <3>1
      <3> QED
        BY <3>2 DEF GoodQueued, Queued
    <2>3. {dead[n][i].msg : i \in DOMAIN dead[n]} \subseteq Msg
      <3>1. dead[n] \in Seq(DeadLetter)
        BY DEF Inv, StateOK
      <3>2. \A i \in DOMAIN dead[n] : dead[n][i] \in DeadLetter
        BY <3>1
      <3> QED
        BY <3>2 DEF DeadLetter
    <2>4. Payloads(inbox[n]) \subseteq Msg
      BY <1>2, GoodFramesAreFrames, PayloadsOfFrames
    <2> QED
      BY <1>1, <1>10, <2>1, <2>2, <2>3, <2>4 DEF Restart
  <1>11. CASE UNCHANGED vars
    BY <1>1, <1>11, SameInbox DEF vars
  <1> QED
    BY <1>4, <1>5, <1>6, <1>7, <1>8, <1>9, <1>10, <1>11 DEF Next

-----------------------------------------------------------------------------
(* What a node keeps besides its table and buffer, action by action. *)

LEMMA StateStep ==
  ASSUME Inv, [Next]_vars
  PROVE  StateOK'
  <1> DEFINE SeqnoOK == seqno \in [Node -> Seqno]
             FloodOK == floodAge \in [Node -> 0..(FloodAge + 1)]
             RreqOK == rreq \in [Node -> Request]
             QueueOK == /\ queue \in [Node -> Seq(GoodQueued)]
                        /\ \A n \in Node : Len(queue[n]) <= MaxQueue
             DeadOK == /\ dead \in [Node -> Seq(DeadLetter)]
                       /\ \A n \in Node : Len(dead[n]) <= MaxDead
             HostOK == /\ restarted \subseteq MayRestart /\ submitted \subseteq Msg
                       /\ handed \in [Node -> SUBSET HostFrame]
                       /\ delivered \in [Node -> SUBSET Msg]
  <1>1. SeqnoOK /\ FloodOK /\ RreqOK /\ QueueOK /\ DeadOK /\ HostOK /\ StateOK
    BY DEF Inv, StateOK
  <1>2. SeqnoOK' /\ FloodOK' /\ RreqOK' /\ QueueOK' /\ DeadOK' /\ HostOK' => StateOK'
    BY InboxStep DEF StateOK
  <1>3. \A n \in Node : (seqno[n] + 1) % SeqMod \in Seqno
    BY <1>1, SeqnoStep
  <1>4. 0 \in Seqno /\ 0 \in 0..(FloodAge + 1) /\ 0 \in 0..(RreqAge + 1) /\ 0 \in 0..RreqRetries
    BY TableAssumption, MeshAssumption DEF Seqno
  <1>5. CASE Elapse
    <2>1. FloodOK'
      BY <1>1, <1>5, MeshAssumption DEF Elapse
    <2>2. RreqOK'
      <3>1. ASSUME NEW r \in Request, r.age <= RreqAge
            PROVE  [r EXCEPT !.age = @ + 1] \in Request
        <4>1. r.age + 1 \in 0..(RreqAge + 1)
          BY <3>1, MeshAssumption DEF Request
        <4> QED
          BY <4>1 DEF Request
      <3>2. rreq' = [n \in Node |-> IF rreq[n].pending /\ rreq[n].age <= RreqAge
                                    THEN [rreq[n] EXCEPT !.age = @ + 1] ELSE rreq[n]]
        BY <1>5 DEF Elapse
      <3> QED
        BY <1>1, <3>1, <3>2
    <2>3. QueueOK'
      <3> DEFINE Aged(n) == [i \in DOMAIN queue[n] |->
                               IF queue[n][i].age < RetryAge
                               THEN [queue[n][i] EXCEPT !.age = @ + 1] ELSE queue[n][i]]
      <3>1. \A q \in GoodQueued : q.age < RetryAge => [q EXCEPT !.age = @ + 1] \in GoodQueued
        BY MeshAssumption DEF GoodQueued, Queued
      <3>2. ASSUME NEW n \in Node
            PROVE  Aged(n) \in Seq(GoodQueued) /\ Len(Aged(n)) = Len(queue[n])
        <4>1. Len(queue[n]) \in Nat /\ DOMAIN queue[n] = 1..Len(queue[n])
              /\ \A i \in 1..Len(queue[n]) : queue[n][i] \in GoodQueued
          BY <1>1, LenProperties
        <4>2. Aged(n) \in [1..Len(queue[n]) -> GoodQueued]
          BY <3>1, <4>1
        <4> HIDE DEF Aged
        <4> QED
          BY <4>1, <4>2, FunctionIsSeq
      <3>3. queue' = [n \in Node |-> Aged(n)]
        BY <1>5 DEF Elapse
      <3> HIDE DEF Aged
      <3> QED
        BY <1>1, <3>2, <3>3
    <2>4. SeqnoOK' /\ DeadOK' /\ HostOK'
      BY <1>1, <1>5 DEF Elapse
    <2> QED
      BY <1>2, <2>1, <2>2, <2>3, <2>4
  <1>6. ASSUME NEW n \in Node, Send(n)
        PROVE  StateOK'
    <2>1. ASSUME NEW u \in HostUpdate[n], SendUpdate(n, u)
          PROVE  StateOK'
      <3>1. handed' \in [Node -> SUBSET HostFrame]
        <4>1. u \in HostFrame
          BY MeshAssumption
        <4> QED
          BY <1>1, <2>1, <4>1 DEF SendUpdate
      <3> QED
        BY <1>1, <1>2, <1>3, <2>1, <3>1 DEF SendUpdate
    <2>2. ASSUME NEW m \in Msg, SendBroadcast(n, m) \/ SendToSelf(n, m) \/ SendRouted(n, m)
          PROVE  StateOK'
      BY <1>1, <1>2, <2>2 DEF SendBroadcast, SendToSelf, SendRouted, Submit
    <2>3. ASSUME NEW m \in Msg, SendQueued(n, m)
          PROVE  StateOK'
      <3>1. SeqnoOK' /\ FloodOK' /\ DeadOK' /\ HostOK'
        BY <1>1, <2>3 DEF SendQueued, Submit
      <3>2. m.to \in Addr
        BY MeshAssumption
      <3>3. RreqOK'
        <4> DEFINE r == [pending |-> TRUE, dest |-> m.to, seqno |-> (rreq[n].seqno + 1) % SeqMod,
                         age |-> 0, retries |-> 0]
        <4>1. (rreq[n].seqno + 1) % SeqMod \in Seqno
          BY <1>1, SeqnoStep DEF Request
        <4>2. r \in Request
          BY <1>4, <3>2, <4>1 DEF Request
        <4>3. UNCHANGED rreq \/ rreq' = [rreq EXCEPT ![n] = r]
          BY <2>3 DEF SendQueued
        <4> HIDE DEF r
        <4> QED
          BY <1>1, <4>2, <4>3
      <3>4. QueueOK'
        <4>1. CASE QueueFull(n)
          BY <1>1, <2>3, <4>1 DEF SendQueued
        <4>2. CASE ~QueueFull(n)
          <5>1. Ttl(m) \in Nat \ {0}
            BY TtlPositive
          <5>2. Entry(m, m.to, Ttl(m), 0) \in GoodQueued
            BY <3>2, <5>1, NewEntry
          <5> QED
            BY <1>1, <2>3, <4>2, <5>2, EnqueueKeeps DEF SendQueued
        <4> QED
          BY <4>1, <4>2
      <3> QED
        BY <1>2, <3>1, <3>3, <3>4
    <2> QED
      BY <1>6, <2>1, <2>2, <2>3 DEF Send
  <1>7. ASSUME NEW n \in Node, Recv(n)
        PROVE  StateOK'
    <2> DEFINE f == Head(inbox[n])
    <2>1. Arrives(n, "data") => f \in GoodData
      BY RestFrames, FrameKinds DEF Arrives, Inv
    <2>2. CASE RecvUpdate(n) \/ RecvRequestForMe(n) \/ RecvRequestForOther(n)
               \/ RecvForward(n)
      BY <1>1, <1>2, <2>2 DEF RecvUpdate, RecvRequestForMe, RecvRequestForOther, RecvForward
    <2>3. CASE RecvReply(n)
      <3>1. rreq' = [rreq EXCEPT ![n].pending = @ /\ f.target # n]
        BY <2>3 DEF RecvReply
      <3>2. RreqOK'
        BY <1>1, <3>1 DEF Request
      <3> QED
        BY <1>1, <1>2, <2>3, <3>2 DEF RecvReply
    <2>4. CASE RecvDeliver(n)
      <3>1. f.msg \in Msg
        BY <2>1, <2>4 DEF RecvDeliver, GoodData, DataFrame
      <3>2. delivered' \in [Node -> SUBSET Msg]
        BY <1>1, <2>4, <3>1 DEF RecvDeliver
      <3> QED
        BY <1>1, <1>2, <2>4, <3>2 DEF RecvDeliver
    <2>5. CASE RecvTtlExpired(n)
      <3> DEFINE l == Letter(f.msg, f.target, f.ttl, "ttl_expired")
      <3>1. l \in DeadLetter
        BY <2>1, <2>5 DEF RecvTtlExpired, Overheard, GoodData, DataFrame, Letter, DeadLetter
      <3>2. Bury(n, <<l>>)
        BY <2>5 DEF RecvTtlExpired
      <3> HIDE DEF l
      <3>3. DeadOK'
        BY <1>1, <3>1, <3>2, SingleFrame, BuryKeeps
      <3> QED
        BY <1>1, <1>2, <2>5, <3>3 DEF RecvTtlExpired
    <2>6. CASE RecvStore(n)
      <3>1. QueueOK'
        <4>1. CASE QueueFull(n)
          BY <1>1, <2>6, <4>1 DEF RecvStore
        <4>2. CASE ~QueueFull(n)
          <5>1. f \in GoodData /\ f.target # Broadcast /\ f.ttl > 1
            BY <2>1, <2>6 DEF RecvStore, Overheard
          <5>2. /\ f.msg \in Msg /\ f.target \in Addr /\ f.ttl - 1 \in Nat \ {0}
                /\ f.hops \in Nat /\ Ttl(f.msg) \in Nat
                /\ f.ttl + f.hops <= Ttl(f.msg) + 1 /\ f.ttl \in Nat
            BY <5>1, TtlPositive DEF GoodData, DataFrame
          <5>3. f.ttl - 1 + f.hops <= Ttl(f.msg)
            BY <5>2
          <5>4. Entry(f.msg, f.target, f.ttl - 1, f.hops) \in GoodQueued
            <6> HIDE DEF f
            <6> QED
              BY <5>2, <5>3, NewEntry
          <5> QED
            BY <1>1, <2>6, <4>2, <5>4, EnqueueKeeps DEF RecvStore
        <4> QED
          BY <4>1, <4>2
      <3> QED
        BY <1>1, <1>2, <2>6, <3>1 DEF RecvStore
    <2> QED
      BY <1>7, <2>2, <2>3, <2>4, <2>5, <2>6 DEF Recv
  <1>8. ASSUME NEW n \in Node, Lose(n) \/ GetRouteCount(n)
        PROVE  StateOK'
    BY <1>1, <1>2, <1>8 DEF Lose, GetRouteCount
  <1>9. ASSUME NEW n \in Node, Tick(n)
        PROVE  StateOK'
    <2> DEFINE t == Expire(routes[n])
    <2>1. /\ QueueLeft(n, t) \in Seq(GoodQueued) /\ Len(QueueLeft(n, t)) <= MaxQueue
          /\ QueueLetters(n, t) \in Seq(DeadLetter)
      BY <1>1, TickQueue
    <2>2. queue' = [queue EXCEPT ![n] = QueueLeft(n, t)] /\ Bury(n, QueueLetters(n, t))
      BY <1>9 DEF Tick
    <2> HIDE DEF t
    <2>3. QueueOK'
      BY <1>1, <2>1, <2>2
    <2>4. DeadOK'
      BY <1>1, <2>1, <2>2, BuryKeeps
    <2>5. SeqnoOK' /\ FloodOK' /\ HostOK'
      BY <1>1, <1>3, <1>4, <1>9 DEF Tick
    <2>6. RreqOK'
      <3>1. CASE RreqDue(n)
        <4>1. rreq[n].retries + 1 \in 0..RreqRetries
          BY <1>1, <3>1, MeshAssumption DEF RreqDue, Request
        <4>2. rreq' = [rreq EXCEPT ![n].retries = @ + 1, ![n].age = 0]
          BY <1>9, <3>1 DEF Tick
        <4> QED
          BY <1>1, <1>4, <4>1, <4>2 DEF Request
      <3>2. CASE ~RreqDue(n)
        BY <1>1, <1>9, <3>2 DEF Tick
      <3> QED
        BY <3>1, <3>2
    <2> QED
      BY <1>2, <2>3, <2>4, <2>5, <2>6
  <1>10. ASSUME NEW n \in Node, Restart(n)
         PROVE  StateOK'
    <2>1. SeqnoOK' /\ FloodOK' /\ HostOK'
      BY <1>1, <1>4, <1>10 DEF Restart
    <2>2. RreqOK'
      <3>1. [pending |-> FALSE, dest |-> Broadcast, seqno |-> 0, age |-> 0, retries |-> 0] \in Request
        BY <1>4, MeshAssumption DEF Request
      <3> QED
        BY <1>1, <1>10, <3>1 DEF Restart
    <2>3. QueueOK' /\ DeadOK'
      <3>1. << >> \in Seq(GoodQueued) /\ << >> \in Seq(DeadLetter) /\ Len(<< >>) = 0
        OBVIOUS
      <3>2. queue' = [queue EXCEPT ![n] = << >>] /\ dead' = [dead EXCEPT ![n] = << >>]
        BY <1>10 DEF Restart
      <3> QED
        BY <1>1, <3>1, <3>2, MeshAssumption
    <2> QED
      BY <1>2, <2>1, <2>2, <2>3
  <1>11. CASE UNCHANGED vars
    BY <1>1, <1>2, <1>11 DEF vars
  <1> QED
    BY <1>5, <1>6, <1>7, <1>8, <1>9, <1>10, <1>11 DEF Next

-----------------------------------------------------------------------------
(* The invariant, and what follows from it. *)

LEMMA InvInit == Init => Inv
  <1> SUFFICES ASSUME Init PROVE Inv
    OBVIOUS
  <1>1. StateOK
    <2>1. /\ 0 \in Seqno /\ 0 \in 0..(FloodAge + 1) /\ 0 \in 0..(RreqAge + 1)
          /\ 0 \in 0..RreqRetries
      BY TableAssumption, MeshAssumption DEF Seqno
    <2>2. [pending |-> FALSE, dest |-> Broadcast, seqno |-> 0, age |-> 0, retries |-> 0] \in Request
      BY <2>1, MeshAssumption DEF Request
    <2>3. /\ seqno \in [Node -> Seqno] /\ floodAge \in [Node -> 0..(FloodAge + 1)]
          /\ rreq \in [Node -> Request]
      BY <2>1, <2>2 DEF Init
    <2>4. /\ queue \in [Node -> Seq(GoodQueued)] /\ \A n \in Node : Len(queue[n]) <= MaxQueue
          /\ dead \in [Node -> Seq(DeadLetter)] /\ \A n \in Node : Len(dead[n]) <= MaxDead
      BY MeshAssumption DEF Init
    <2> QED
      BY <2>3, <2>4 DEF Init, StateOK
  <1>2. TablesOK
    BY TableAssumption DEF Init, TablesOK, Tables, UniqueIn, Slots
  <1>3. InboxOK
    BY MeshAssumption DEF Init, InboxOK
  <1> QED
    BY <1>1, <1>2, <1>3 DEF Inv

LEMMA InvStep == Inv /\ [Next]_vars => Inv'
  BY StateStep, TablesStep, InboxStep DEF Inv

LEMMA Invariance == Spec => []Inv
  BY InvInit, InvStep, PTL DEF Spec

\* Every route a node holds is one it may hold.
LEMMA RoutesHeld ==
  ASSUME Inv, NEW n \in Node, NEW i \in DOMAIN routes[n], routes[n][i] # NoRoute
  PROVE  routes[n][i] \in GoodRoute(n)
  <1>1. routes[n] \in Seq(GoodRoute(n) \cup {NoRoute})
    BY DEF Inv, TablesOK, Tables
  <1>2. routes[n][i] \in GoodRoute(n) \cup {NoRoute}
    BY <1>1
  <1> QED
    BY <1>2

-----------------------------------------------------------------------------
(* No payload is forgotten: what becomes of each copy of it in one step.    *)

Waits(n, x) == \E i \in DOMAIN queue[n] : queue[n][i].msg = x

Buried(n, x) == \E i \in DOMAIN dead[n] : dead[n][i].msg = x

Travels(n, x) == x \in Payloads(inbox[n])

Accounted(x) == x \in lost \/ InCustody(x)

LEMMA Custody ==
  ASSUME NEW x, NEW n \in Node
  PROVE  /\ x \in delivered[n] \/ Waits(n, x) \/ Buried(n, x) \/ Travels(n, x) => Accounted(x)
         /\ (x \in delivered[n] \/ Waits(n, x) \/ Buried(n, x) \/ Travels(n, x))'
              => Accounted(x)'
  BY DEF Accounted, InCustody, Waits, Buried, Travels

\* A step forgets nothing if it accounts for each copy that was there, and for what
\* it submits.
LEMMA AccountKept ==
  ASSUME NoneForgotten,
         lost \subseteq lost',
         \A k \in Node : delivered[k] \subseteq delivered'[k],
         \A k \in Node, x \in Msg : Waits(k, x) => Accounted(x)',
         \A k \in Node, x \in Msg : Buried(k, x) => Accounted(x)',
         \A k \in Node, x \in Msg : Travels(k, x) => Accounted(x)',
         submitted \subseteq Msg,
         \A x \in submitted' \ submitted : Accounted(x)'
  PROVE  NoneForgotten'
  <1> SUFFICES ASSUME NEW x \in submitted' PROVE Accounted(x)'
    BY DEF NoneForgotten, Accounted
  <1>1. CASE x \in submitted
    <2>0. x \in Msg
      BY <1>1
    <2>1. x \in lost \/ InCustody(x)
      BY <1>1 DEF NoneForgotten
    <2>2. CASE x \in lost
      BY <2>2 DEF Accounted
    <2>3. ASSUME NEW k \in Node, x \in delivered[k] PROVE Accounted(x)'
      BY <2>3, Custody
    <2>4. ASSUME NEW k \in Node, Waits(k, x) \/ Buried(k, x) \/ Travels(k, x)
          PROVE  Accounted(x)'
      BY <2>0, <2>4
    <2> QED
      BY <2>1, <2>2, <2>3, <2>4 DEF InCustody, Waits, Buried, Travels
  <1> QED
    BY <1>1

LEMMA InPayloads ==
  ASSUME NEW s, NEW x
  PROVE  x \in Payloads(s) <=> \E j \in DOMAIN s : s[j].kind = "data" /\ s[j].msg = x
  BY DEF Payloads

LEMMA OnePayload ==
  ASSUME NEW f
  PROVE  /\ <<f>> \in Seq({f})
         /\ f.kind = "data" => f.msg \in Payloads(<<f>>)
  <1>1. <<f>> \in Seq({f}) /\ DOMAIN <<f>> = 1..1 /\ <<f>>[1] = f
    OBVIOUS
  <1>2. 1 \in DOMAIN <<f>>
    BY <1>1
  <1> QED
    BY <1>1, <1>2, InPayloads

\* A transmission leaves what is in the buffers, and what it carries gets into one, or
\* is missed.
LEMMA TransmitPayloads ==
  ASSUME NEW n \in Node, NEW box, NEW B, NEW E, NEW out \in Seq(E),
         \A k \in Node : box[k] \in Seq(B) /\ Len(box[k]) <= InboxCap,
         inbox' = Transmit(n, out, box)
  PROVE  /\ \A k \in Node : \A x \in Payloads(box[k]) : Travels(k, x)'
         /\ \A x \in Payloads(out) : x \in Missed(n, out, box) \/ \E k \in Node : Travels(k, x)'
  <1> DEFINE F == B \cup E
  <1>1. out \in Seq(F) /\ InboxCap \in Nat /\ \A k \in Node : box[k] \in Seq(F)
    <2>1. out \in Seq(F)
      BY SeqMonotonic
    <2>2. \A k \in Node : box[k] \in Seq(F)
      BY SeqMonotonic
    <2> QED
      BY <2>1, <2>2, MeshAssumption
  <1> HIDE DEF F
  <1>2. \A k \in Node : inbox'[k] = IF k \in Nbr[n] THEN Fit(box[k] \o out, InboxCap) ELSE box[k]
    BY DEF Transmit
  <1>3. \A k \in Node :
          /\ \A i \in DOMAIN box[k] :
               /\ i \in DOMAIN Fit(box[k] \o out, InboxCap)
               /\ Fit(box[k] \o out, InboxCap)[i] = box[k][i]
          /\ \A j \in DOMAIN out : Len(box[k]) + j <= InboxCap =>
               /\ Len(box[k]) + j \in DOMAIN Fit(box[k] \o out, InboxCap)
               /\ Fit(box[k] \o out, InboxCap)[Len(box[k]) + j] = out[j]
    BY <1>1, FitOfConcat
  <1>4. ASSUME NEW k \in Node, NEW x \in Payloads(box[k]) PROVE Travels(k, x)'
    <2>1. PICK i \in DOMAIN box[k] : box[k][i].kind = "data" /\ box[k][i].msg = x
      BY <1>4, InPayloads
    <2>2. i \in DOMAIN inbox'[k] /\ inbox'[k][i] = box[k][i]
      BY <1>2, <1>3
    <2>3. x \in Payloads(inbox'[k])
      BY <2>1, <2>2, InPayloads
    <2> QED
      BY <2>3 DEF Travels
  <1>5. ASSUME NEW x \in Payloads(out), x \notin Missed(n, out, box)
        PROVE  \E k \in Node : Travels(k, x)'
    <2>1. PICK j \in DOMAIN out : out[j].kind = "data" /\ out[j].msg = x
      BY <1>5, InPayloads
    <2>2. PICK k \in Nbr[n] : ~(Len(box[k] \o out) > InboxCap)
      BY <1>5 DEF Missed
    <2>3. k \in Node
      BY MeshAssumption
    <2>4. /\ Len(box[k] \o out) = Len(box[k]) + Len(out)
          /\ Len(box[k]) \in Nat /\ Len(out) \in Nat /\ DOMAIN out = 1..Len(out)
      BY <1>1, <2>3, ConcatProperties, LenProperties
    <2>5. Len(box[k]) + j <= InboxCap
      BY <2>2, <2>4, <1>1
    <2>6. Len(box[k]) + j \in DOMAIN inbox'[k] /\ inbox'[k][Len(box[k]) + j] = out[j]
      BY <1>2, <1>3, <2>2, <2>3, <2>5
    <2>7. x \in Payloads(inbox'[k])
      BY <2>1, <2>6, InPayloads
    <2> QED
      BY <2>3, <2>7 DEF Travels
  <1> QED
    BY <1>4, <1>5

\* The first frame of a buffer is all that is taken off.
LEMMA RestPayloads ==
  ASSUME InboxOK, NEW n \in Node, inbox[n] # <<>>
  PROVE  /\ \A k \in Node : \A x : Travels(k, x) =>
              \/ x \in Payloads(Rest(n)[k])
              \/ Head(inbox[n]).kind = "data" /\ x = Head(inbox[n]).msg
  <1> SUFFICES ASSUME NEW k \in Node, NEW x, Travels(k, x), x \notin Payloads(Rest(n)[k])
               PROVE  Head(inbox[n]).kind = "data" /\ x = Head(inbox[n]).msg
    OBVIOUS
  <1>1. Rest(n)[k] = IF k = n THEN Tail(inbox[n]) ELSE inbox[k]
    BY DEF Rest, InboxOK
  <1>2. k = n
    BY <1>1 DEF Travels
  <1>3. inbox[n] \in Seq(GoodFrame(n))
    BY DEF InboxOK
  <1>4. PICK j \in DOMAIN inbox[n] : inbox[n][j].kind = "data" /\ inbox[n][j].msg = x
    BY <1>2, InPayloads DEF Travels
  <1>5. /\ Head(inbox[n]) = inbox[n][1] /\ DOMAIN inbox[n] = 1..Len(inbox[n])
        /\ Len(inbox[n]) \in Nat
        /\ DOMAIN Tail(inbox[n]) = 1..(Len(inbox[n]) - 1)
        /\ \A i \in 1..(Len(inbox[n]) - 1) : Tail(inbox[n])[i] = inbox[n][i + 1]
    BY <1>3, HeadTailProperties, LenProperties
  <1>6. CASE j = 1
    BY <1>4, <1>5, <1>6
  <1>7. CASE j # 1
    <2>1. j - 1 \in 1..(Len(inbox[n]) - 1) /\ (j - 1) + 1 = j
      BY <1>5, <1>7
    <2>2. j - 1 \in DOMAIN Tail(inbox[n]) /\ Tail(inbox[n])[j - 1] = inbox[n][j]
      BY <2>1, <1>5
    <2>3. x \in Payloads(Tail(inbox[n]))
      BY <2>2, <1>4 DEF Payloads
    <2> QED
      BY <2>3, <1>1, <1>2
  <1> QED
    BY <1>6, <1>7

\* The same for the whole medium: the buffers as they are, and without the first frame.
LEMMA SentTravels ==
  ASSUME InboxOK, NEW n \in Node, NEW E, NEW out \in Seq(E), inbox' = Transmit(n, out, inbox)
  PROVE  /\ \A k \in Node : \A x : Travels(k, x) => Travels(k, x)'
         /\ \A x \in Payloads(out) : x \in Missed(n, out, inbox) \/ \E k \in Node : Travels(k, x)'
  <1> DEFINE B == UNION {GoodFrame(k) : k \in Node}
  <1>1. \A k \in Node : inbox[k] \in Seq(B) /\ Len(inbox[k]) <= InboxCap
    <2> TAKE k \in Node
    <2>1. inbox[k] \in Seq(GoodFrame(k)) /\ GoodFrame(k) \subseteq B /\ Len(inbox[k]) <= InboxCap
      BY DEF InboxOK
    <2> HIDE DEF B
    <2> QED
      BY <2>1, SeqMonotonic
  <1> HIDE DEF B
  <1> QED
    BY <1>1, TransmitPayloads DEF Travels

LEMMA PassedTravels ==
  ASSUME InboxOK, NEW n \in Node, inbox[n] # <<>>, NEW E, NEW out \in Seq(E),
         inbox' = Transmit(n, out, Rest(n))
  PROVE  /\ \A k \in Node : \A x : Travels(k, x) =>
              Travels(k, x)' \/ (Head(inbox[n]).kind = "data" /\ x = Head(inbox[n]).msg)
         /\ \A x \in Payloads(out) : x \in Missed(n, out, Rest(n)) \/ \E k \in Node : Travels(k, x)'
  <1> DEFINE B == UNION {GoodFrame(k) : k \in Node}
  <1>1. \A k \in Node : Rest(n)[k] \in Seq(B) /\ Len(Rest(n)[k]) <= InboxCap
    <2> TAKE k \in Node
    <2>1. /\ Rest(n)[k] \in Seq(GoodFrame(k)) /\ GoodFrame(k) \subseteq B
          /\ Len(Rest(n)[k]) <= InboxCap
      BY RestFrames
    <2> HIDE DEF B
    <2> QED
      BY <2>1, SeqMonotonic
  <1> HIDE DEF B
  <1> QED
    BY <1>1, TransmitPayloads, RestPayloads

LEMMA TakenTravels ==
  ASSUME InboxOK, NEW n \in Node, inbox[n] # <<>>, inbox' = Rest(n)
  PROVE  \A k \in Node : \A x : Travels(k, x) =>
              Travels(k, x)' \/ (Head(inbox[n]).kind = "data" /\ x = Head(inbox[n]).msg)
  BY RestPayloads DEF Travels

\* The queue and the dead letters.
LEMMA EnqueuedWaits ==
  ASSUME StateOK, NEW n \in Node, NEW e, Enqueue(n, e)
  PROVE  Waits(n, e.msg)' /\ \A k \in Node : \A x : Waits(k, x) => Waits(k, x)'
<1>1. queue[n] \in Seq(GoodQueued) /\ queue' = [queue EXCEPT ![n] = Append(queue[n], e)]
      /\ queue \in [Node -> Seq(GoodQueued)]
  BY DEF StateOK, Enqueue
<1> DEFINE a == Append(queue[n], e)
<1>2. /\ DOMAIN queue[n] = 1..Len(queue[n]) /\ Len(queue[n]) \in Nat
      /\ DOMAIN a = 1..(Len(queue[n]) + 1)
      /\ \A i \in 1..Len(queue[n]) : a[i] = queue[n][i]
      /\ a[Len(queue[n]) + 1] = e
  BY <1>1
<1>3. \A k \in Node : queue'[k] = IF k = n THEN a ELSE queue[k]
  BY <1>1
<1> HIDE DEF a
<1>4. Waits(n, e.msg)'
  <2>1. Len(queue[n]) + 1 \in DOMAIN queue'[n] /\ queue'[n][Len(queue[n]) + 1] = e
    BY <1>2, <1>3
  <2> QED
    BY <2>1 DEF Waits
<1>5. ASSUME NEW k \in Node, NEW x, Waits(k, x) PROVE Waits(k, x)'
  <2>1. PICK i \in DOMAIN queue[k] : queue[k][i].msg = x
    BY <1>5 DEF Waits
  <2>2. i \in DOMAIN queue'[k] /\ queue'[k][i] = queue[k][i]
    BY <1>2, <1>3
  <2> QED
    BY <2>1, <2>2 DEF Waits
<1> QED
  BY <1>4, <1>5

LEMMA LettersBuried ==
  ASSUME StateOK, NEW n \in Node, NEW L, NEW letters \in Seq(L), Bury(n, letters)
  PROVE  /\ \A k \in Node : \A x : Buried(k, x) => Buried(k, x)'
         /\ \A j \in DOMAIN letters :
              Len(dead[n]) + j <= MaxDead => Buried(n, letters[j].msg)'
<1>1. /\ dead \in [Node -> Seq(DeadLetter)] /\ Len(dead[n]) <= MaxDead /\ MaxDead \in Nat
      /\ dead' = [dead EXCEPT ![n] = Fit(dead[n] \o letters, MaxDead)]
  BY MeshAssumption DEF StateOK, Bury
<1> DEFINE B == L \cup DeadLetter
           d == Fit(dead[n] \o letters, MaxDead)
<1>2. dead[n] \in Seq(B) /\ letters \in Seq(B)
  <2>1. dead[n] \in Seq(DeadLetter) /\ DeadLetter \subseteq B /\ L \subseteq B
    BY <1>1
  <2> HIDE DEF B
  <2> QED
    BY <2>1, SeqMonotonic
<1> HIDE DEF B
<1>3. /\ \A i \in DOMAIN dead[n] : i \in DOMAIN d /\ d[i] = dead[n][i]
      /\ \A j \in DOMAIN letters : Len(dead[n]) + j <= MaxDead =>
           Len(dead[n]) + j \in DOMAIN d /\ d[Len(dead[n]) + j] = letters[j]
  BY <1>1, <1>2, FitOfConcat
<1>4. \A k \in Node : dead'[k] = IF k = n THEN d ELSE dead[k]
  BY <1>1
<1> HIDE DEF d
<1>5. ASSUME NEW k \in Node, NEW x, Buried(k, x) PROVE Buried(k, x)'
  <2>1. PICK i \in DOMAIN dead[k] : dead[k][i].msg = x
    BY <1>5 DEF Buried
  <2>2. i \in DOMAIN dead'[k] /\ dead'[k][i] = dead[k][i]
    BY <1>3, <1>4
  <2> QED
    BY <2>1, <2>2 DEF Buried
<1>6. ASSUME NEW j \in DOMAIN letters, Len(dead[n]) + j <= MaxDead
      PROVE  Buried(n, letters[j].msg)'
  <2>1. /\ Len(dead[n]) + j \in DOMAIN dead'[n]
        /\ dead'[n][Len(dead[n]) + j] = letters[j]
    BY <1>3, <1>4, <1>6
  <2> QED
    BY <2>1 DEF Buried
<1> QED
  BY <1>5, <1>6

-----------------------------------------------------------------------------
(* The actions. *)

\* mesh_send: the payload is on its way, in the queue, or dropped.
LEMMA SendForgetsNone ==
  ASSUME Inv, NoneForgotten, NEW n \in Node, Send(n) PROVE NoneForgotten'
<1>1. InboxOK /\ submitted \subseteq Msg /\ StateOK
  BY DEF Inv, StateOK
<1>2. ASSUME NEW u \in HostUpdate[n], SendUpdate(n, u)
      PROVE  NoneForgotten'
  <2>1. /\ UNCHANGED <<queue, dead, submitted, delivered, lost>>
        /\ inbox' = Transmit(n, <<Update(n, ApplyUpdate(routes[n], n, u))>>, inbox)
    BY <1>2 DEF SendUpdate
  <2>2. \A k \in Node : \A x : Travels(k, x) => Travels(k, x)'
    BY <1>1, <2>1, OnePayload, SentTravels
  <2> QED
    BY <1>1, <2>1, <2>2, Custody, AccountKept DEF Waits, Buried
<1>3. ASSUME NEW m \in Msg,
             SendBroadcast(n, m) \/ SendToSelf(n, m) \/ SendRouted(n, m) \/ SendQueued(n, m)
      PROVE  NoneForgotten'
  <2>1. submitted' = submitted \cup {m} /\ UNCHANGED <<dead, delivered>>
    BY <1>3 DEF SendBroadcast, SendToSelf, SendRouted, SendQueued, Submit
  <2> SUFFICES /\ lost \subseteq lost'
               /\ \A k \in Node, x \in Msg : Waits(k, x) => Accounted(x)'
               /\ \A k \in Node, x \in Msg : Travels(k, x) => Accounted(x)'
               /\ Accounted(m)'
    <3>1. \A k \in Node, x \in Msg : Buried(k, x) => Accounted(x)'
      BY <2>1, Custody DEF Buried
    <3> QED
      BY <1>1, <2>1, <3>1, AccountKept
  <2>2. ASSUME NEW f, f.kind = "data", f.msg = m, Sends(n, <<f>>, inbox), UNCHANGED queue
        PROVE  /\ lost \subseteq lost'
               /\ \A k \in Node, x \in Msg : Waits(k, x) => Accounted(x)'
               /\ \A k \in Node, x \in Msg : Travels(k, x) => Accounted(x)'
               /\ Accounted(m)'
    <3>1. inbox' = Transmit(n, <<f>>, inbox) /\ lost' = lost \cup Missed(n, <<f>>, inbox)
      BY <2>2 DEF Sends
    <3>2. <<f>> \in Seq({f}) /\ m \in Payloads(<<f>>)
      BY <2>2, OnePayload
    <3>3. /\ \A k \in Node : \A x : Travels(k, x) => Travels(k, x)'
          /\ m \in Missed(n, <<f>>, inbox) \/ \E k \in Node : Travels(k, m)'
      BY <1>1, <3>1, <3>2, SentTravels
    <3>4. m \in lost' => Accounted(m)'
      BY DEF Accounted
    <3>5. \A k \in Node : \A x : Waits(k, x) => Waits(k, x)'
      BY <2>2 DEF Waits
    <3> QED
      BY <3>1, <3>3, <3>4, <3>5, Custody
  <2>3. CASE SendBroadcast(n, m)
    <3> DEFINE f == Data(Broadcast, m, m.ttl, 1)
    <3>1. f.kind = "data" /\ f.msg = m
      BY DEF Data
    <3>2. Sends(n, <<f>>, inbox) /\ UNCHANGED queue
      BY <2>3 DEF SendBroadcast
    <3> HIDE DEF f
    <3> QED
      BY <3>1, <3>2, <2>2
  <2>4. ASSUME m \in lost', lost' = lost \cup {m}, UNCHANGED <<inbox, queue>>
        PROVE  /\ lost \subseteq lost'
               /\ \A k \in Node, x \in Msg : Waits(k, x) => Accounted(x)'
               /\ \A k \in Node, x \in Msg : Travels(k, x) => Accounted(x)'
               /\ Accounted(m)'
    <3>1. Accounted(m)'
      BY <2>4 DEF Accounted
    <3> QED
      BY <2>4, <3>1, Custody DEF Waits, Travels
  <2>5. CASE SendToSelf(n, m)
    BY <2>4, <2>5 DEF SendToSelf
  <2>6. CASE SendRouted(n, m)
    <3>1. CASE Ttl(m) = 1
      BY <3>1, <2>4, <2>6 DEF SendRouted
    <3>2. CASE Ttl(m) # 1
      <4> DEFINE f == Data(FindRoute(routes[n], m.to).nextHop, m, Ttl(m) - 1, 1)
      <4>1. f.kind = "data" /\ f.msg = m
        BY DEF Data
      <4>2. Sends(n, <<f>>, inbox) /\ UNCHANGED queue
        BY <2>6, <3>2 DEF SendRouted
      <4> HIDE DEF f
      <4> QED
        BY <4>1, <4>2, <2>2
    <3> QED
      BY <3>1, <3>2
  <2>7. CASE SendQueued(n, m)
    <3>1. \A k \in Node : \A x : Travels(k, x) => Travels(k, x)'
      <4>1. CASE UNCHANGED inbox
        BY <4>1 DEF Travels
      <4>2. ASSUME NEW f, inbox' = Transmit(n, <<f>>, inbox)
            PROVE  \A k \in Node : \A x : Travels(k, x) => Travels(k, x)'
        BY <4>2, <1>1, OnePayload, SentTravels
      <4> QED
        BY <2>7, <4>1, <4>2 DEF SendQueued
    <3>2. CASE QueueFull(n)
      <4>1. lost' = lost \cup {m} /\ UNCHANGED queue
        BY <2>7, <3>2 DEF SendQueued
      <4>2. Accounted(m)'
        BY <4>1 DEF Accounted
      <4> QED
        BY <3>1, <4>1, <4>2, Custody DEF Waits
    <3>3. CASE ~QueueFull(n)
      <4> DEFINE e == Entry(m, m.to, Ttl(m), 0)
      <4>1. lost' = lost /\ Enqueue(n, e)
        BY <2>7, <3>3 DEF SendQueued
      <4>2. e.msg = m
        BY DEF Entry
      <4> HIDE DEF e
      <4>3. Waits(n, m)' /\ \A k \in Node : \A x : Waits(k, x) => Waits(k, x)'
        BY <1>1, <4>1, <4>2, EnqueuedWaits
      <4> QED
        BY <3>1, <4>1, <4>3, Custody
    <3> QED
      BY <3>2, <3>3
  <2> QED
    BY <1>3, <2>3, <2>5, <2>6, <2>7
<1> QED
  BY <1>2, <1>3 DEF Send

\* mesh_recv: the payload of the frame goes to the host, to the dead letters, to the
\* next hop or to the queue; other frames carry none.
LEMMA RecvForgetsNone ==
  ASSUME Inv, NoneForgotten, NEW n \in Node, Recv(n) \/ Lose(n) PROVE NoneForgotten'
<1>f. PICK f : f = Head(inbox[n])
  OBVIOUS
<1>1. InboxOK /\ submitted \subseteq Msg /\ StateOK
  BY DEF Inv, StateOK
<1>2. inbox[n] # <<>> /\ UNCHANGED submitted
  BY DEF Recv, RecvUpdate, RecvRequestForMe, RecvRequestForOther, RecvReply, RecvDeliver,
         RecvTtlExpired, RecvForward, RecvStore, Overheard, Arrives, Lose
\* It is enough to account for the payload of this frame.
<1>3. ASSUME /\ lost \subseteq lost'
             /\ \A k \in Node : delivered[k] \subseteq delivered'[k]
             /\ \A k \in Node : \A x : Waits(k, x) => Waits(k, x)'
             /\ \A k \in Node : \A x : Buried(k, x) => Buried(k, x)'
             /\ \A k \in Node : \A x : Travels(k, x) =>
                  Travels(k, x)' \/ (f.kind = "data" /\ x = f.msg)
             /\ f.kind = "data" => Accounted(f.msg)'
      PROVE  NoneForgotten'
  <2>1. \A k \in Node, x \in Msg : Travels(k, x) => Accounted(x)'
    BY <1>3, Custody
  <2>2. \A k \in Node, x \in Msg : Waits(k, x) \/ Buried(k, x) => Accounted(x)'
    BY <1>3, Custody
  <2> QED
    BY <1>1, <1>2, <1>3, <2>1, <2>2, AccountKept
<1>4. UNCHANGED queue => \A k \in Node : \A x : Waits(k, x) => Waits(k, x)'
  BY DEF Waits
<1>5. UNCHANGED dead => \A k \in Node : \A x : Buried(k, x) => Buried(k, x)'
  BY DEF Buried
<1>6. inbox' = Rest(n) =>
        \A k \in Node : \A x : Travels(k, x) => Travels(k, x)' \/ (f.kind = "data" /\ x = f.msg)
  BY <1>f, <1>1, <1>2, TakenTravels
<1>7. ASSUME NEW g, inbox' = Transmit(n, <<g>>, Rest(n))
      PROVE  /\ \A k \in Node : \A x : Travels(k, x) =>
                  Travels(k, x)' \/ (f.kind = "data" /\ x = f.msg)
             /\ g.kind = "data" =>
                  g.msg \in Missed(n, <<g>>, Rest(n)) \/ \E k \in Node : Travels(k, g.msg)'
  BY <1>f, <1>1, <1>2, <1>7, OnePayload, PassedTravels
<1>8. CASE RecvUpdate(n) \/ RecvReply(n)
  <2>1. f.kind # "data" /\ UNCHANGED <<queue, dead, delivered, lost>> /\ inbox' = Rest(n)
    BY <1>f, <1>8 DEF RecvUpdate, RecvReply, Arrives
  <2> QED
    BY <2>1, <1>3, <1>4, <1>5, <1>6
<1>9. CASE RecvRequestForMe(n) \/ RecvRequestForOther(n)
  <2>1. /\ f.kind # "data" /\ UNCHANGED <<queue, dead, delivered, lost>>
        /\ \E g : inbox' = Transmit(n, <<g>>, Rest(n))
    BY <1>f, <1>9 DEF RecvRequestForMe, RecvRequestForOther, Arrives
  <2> QED
    BY <2>1, <1>3, <1>4, <1>5, <1>7
<1>10. CASE RecvDeliver(n)
  <2>1. /\ UNCHANGED <<queue, dead, lost>> /\ inbox' = Rest(n)
        /\ delivered' = [delivered EXCEPT ![n] = @ \cup {f.msg}]
    BY <1>f, <1>10 DEF RecvDeliver
  <2>2. f.msg \in delivered'[n] /\ \A k \in Node : delivered[k] \subseteq delivered'[k]
    BY <2>1, <1>1 DEF StateOK
  <2>3. Accounted(f.msg)'
    BY <2>2, Custody
  <2> QED
    BY <2>1, <2>2, <2>3, <1>3, <1>4, <1>5, <1>6
<1>11. CASE RecvTtlExpired(n)
  <2>0. PICK l : l = Letter(f.msg, f.target, f.ttl, "ttl_expired")
    OBVIOUS
  <2>1. /\ UNCHANGED <<queue, delivered>> /\ inbox' = Rest(n) /\ Bury(n, <<l>>)
        /\ lost' = IF Len(dead[n]) >= MaxDead THEN lost \cup {f.msg} ELSE lost
    BY <1>f, <1>11, <2>0 DEF RecvTtlExpired
  <2>2. l.msg = f.msg
    BY <2>0 DEF Letter
  <2>3. <<l>> \in Seq({l}) /\ DOMAIN <<l>> = 1..1 /\ <<l>>[1] = l
    OBVIOUS
  <2>4. /\ \A k \in Node : \A x : Buried(k, x) => Buried(k, x)'
        /\ \A j \in DOMAIN <<l>> : Len(dead[n]) + j <= MaxDead => Buried(n, <<l>>[j].msg)'
    BY <1>1, <2>1, <2>3, LettersBuried
  <2>5. Accounted(f.msg)'
    <3>1. CASE Len(dead[n]) >= MaxDead
      BY <2>1, <3>1 DEF Accounted
    <3>2. CASE ~(Len(dead[n]) >= MaxDead)
      <4>1. Len(dead[n]) + 1 <= MaxDead
        <5>1. dead[n] \in Seq(DeadLetter) /\ MaxDead \in Nat
          BY <1>1, MeshAssumption DEF StateOK
        <5>2. Len(dead[n]) \in Nat
          BY <5>1
        <5> QED
          BY <5>1, <5>2, <3>2
      <4>2. Buried(n, f.msg)'
        BY <4>1, <2>2, <2>3, <2>4
      <4> QED
        BY <4>2, Custody
    <3> QED
      BY <3>1, <3>2
  <2>6. lost \subseteq lost'
    BY <2>1
  <2> QED
    BY <2>1, <2>4, <2>5, <2>6, <1>3, <1>4, <1>6
<1>12. CASE RecvForward(n)
  <2>0. PICK g :
          g = Data(FindRoute(routes[n], f.target).nextHop, f.msg, f.ttl - 1, f.hops + 1)
    OBVIOUS
  <2>1. UNCHANGED <<queue, dead, delivered>> /\ Sends(n, <<g>>, Rest(n))
    BY <1>f, <1>12, <2>0 DEF RecvForward
  <2>2. g.kind = "data" /\ g.msg = f.msg
    BY <2>0 DEF Data
  <2>3. inbox' = Transmit(n, <<g>>, Rest(n)) /\ lost' = lost \cup Missed(n, <<g>>, Rest(n))
    BY <2>1 DEF Sends
  <2>4. Accounted(f.msg)'
    <3>1. f.msg \in lost' \/ \E k \in Node : Travels(k, f.msg)'
      BY <2>2, <2>3, <1>7
    <3> QED
      BY <3>1, Custody DEF Accounted
  <2>5. lost \subseteq lost'
    BY <2>3
  <2> QED
    BY <2>1, <2>3, <2>4, <2>5, <1>3, <1>4, <1>5, <1>7
<1>13. CASE RecvStore(n)
  <2>0. PICK e : e = Entry(f.msg, f.target, f.ttl - 1, f.hops)
    OBVIOUS
  <2>1. /\ UNCHANGED <<dead, delivered>> /\ inbox' = Rest(n)
        /\ IF QueueFull(n) THEN lost' = lost \cup {f.msg} /\ UNCHANGED queue
                           ELSE Enqueue(n, e) /\ UNCHANGED lost
    BY <1>f, <1>13, <2>0 DEF RecvStore
  <2>2. e.msg = f.msg
    BY <2>0 DEF Entry
  <2>3. CASE QueueFull(n)
    <3>1. lost' = lost \cup {f.msg} /\ UNCHANGED queue
      BY <2>1, <2>3
    <3>2. Accounted(f.msg)' /\ lost \subseteq lost'
      BY <3>1 DEF Accounted
    <3> QED
      BY <2>1, <3>1, <3>2, <1>3, <1>4, <1>5, <1>6
  <2>4. CASE ~QueueFull(n)
    <3>1. Enqueue(n, e) /\ UNCHANGED lost
      BY <2>1, <2>4
    <3>2. Waits(n, f.msg)' /\ \A k \in Node : \A x : Waits(k, x) => Waits(k, x)'
      BY <3>1, <2>2, <1>1, EnqueuedWaits
    <3>3. Accounted(f.msg)'
      BY <3>2, Custody
    <3> QED
      BY <2>1, <3>1, <3>2, <3>3, <1>3, <1>5, <1>6
  <2> QED
    BY <2>3, <2>4
<1>14. CASE Lose(n)
  <2>1. /\ UNCHANGED <<queue, dead, delivered>> /\ inbox' = Rest(n)
        /\ lost' = lost \cup Payloads(<<f>>)
    BY <1>f, <1>14 DEF Lose
  <2>2. f.kind = "data" => Accounted(f.msg)'
    BY <2>1, OnePayload DEF Accounted
  <2>3. lost \subseteq lost'
    BY <2>1
  <2> QED
    BY <2>1, <2>2, <2>3, <1>3, <1>4, <1>5, <1>6
<1> QED
  BY <1>8, <1>9, <1>10, <1>11, <1>12, <1>13, <1>14 DEF Recv

\* What stands at the end of a sequence of frames is in it.
LEMMA ConcatPayloads ==
  ASSUME NEW F, NEW s \in Seq(F), NEW u \in Seq(F)
  PROVE  Payloads(u) \subseteq Payloads(s \o u)
<1>1. /\ Len(s) \in Nat /\ DOMAIN u = 1..Len(u) /\ Len(u) \in Nat
      /\ DOMAIN (s \o u) = 1..(Len(s) + Len(u))
      /\ \A j \in 1..Len(u) : (s \o u)[Len(s) + j] = u[j]
  BY ConcatProperties, LenProperties
<1> SUFFICES ASSUME NEW x \in Payloads(u) PROVE x \in Payloads(s \o u)
  OBVIOUS
<1>2. PICK j \in DOMAIN u : u[j].kind = "data" /\ u[j].msg = x
  BY InPayloads
<1>3. Len(s) + j \in DOMAIN (s \o u) /\ (s \o u)[Len(s) + j] = u[j]
  BY <1>1
<1> QED
  BY <1>2, <1>3, InPayloads

LEMMA TickFramesCarry ==
  ASSUME StateOK, NEW n \in Node, NEW t
  PROVE  \E E : /\ TickFrames(n, t) \in Seq(E)
                /\ Payloads(QueueFrames(n, t)) \subseteq Payloads(TickFrames(n, t))
<1> DEFINE a == RouteRequest(n, rreq[n].seqno, 1)
           b == Update(n, t)
           E == {a, b} \cup GoodData
           r == IF RreqDue(n) THEN <<a>> ELSE <<>>
           u == IF FloodDue(n) THEN <<b>> ELSE <<>>
           q == QueueFrames(n, t)
<1>1. r \in Seq(E) /\ u \in Seq(E)
  <2>1. a \in E /\ b \in E
    OBVIOUS
  <2> HIDE DEF a, b, E
  <2> QED
    BY <2>1
<1>2. q \in Seq(E)
  <2>1. q \in Seq(GoodData) /\ GoodData \subseteq E
    BY TickQueue
  <2> HIDE DEF q, E
  <2> QED
    BY <2>1, SeqMonotonic
<1>3. TickFrames(n, t) = r \o u \o q
  BY DEF TickFrames
<1> HIDE DEF a, b, E, r, u, q
<1>4. r \o u \in Seq(E) /\ r \o u \o q \in Seq(E)
  BY <1>1, <1>2, ConcatProperties
<1>5. Payloads(q) \subseteq Payloads(r \o u \o q)
  BY <1>2, <1>4, ConcatPayloads
<1> QED
  BY <1>3, <1>4, <1>5 DEF q

LEMMA EntryQueued ==
  ASSUME StateOK, NEW n \in Node, NEW i \in DOMAIN queue[n]
  PROVE  queue[n][i] \in Queued
<1>1. queue[n] \in Seq(GoodQueued)
  BY DEF StateOK
<1>2. queue[n][i] \in GoodQueued
  BY <1>1
<1> QED
  BY <1>2 DEF GoodQueued

\* Every entry of the queue is sent, or becomes a dead letter, or stays.
LEMMA TickSorts ==
  ASSUME StateOK, NEW n \in Node, NEW t, NEW x, Waits(n, x)
  PROVE  \/ x \in Payloads(QueueFrames(n, t))
         \/ \E j \in DOMAIN QueueLetters(n, t) : QueueLetters(n, t)[j].msg = x
         \/ \E k \in DOMAIN QueueLeft(n, t) : QueueLeft(n, t)[k].msg = x
<1>1. PICK i \in DOMAIN queue[n] : queue[n][i].msg = x
  BY DEF Waits
<1>2. PICK N \in Nat : DOMAIN queue[n] = 1..N
  BY LenProperties DEF StateOK
<1>q. queue[n][i] \in Queued
  BY <1>1, EntryQueued
<1>3. Routable(n, t) \subseteq 1..N /\ Exhausted(n, t) \subseteq 1..N
  BY <1>2 DEF Due, Routable, Retried, Exhausted
<1>4. CASE i \in Routable(n, t)
  <2> DEFINE q == [j \in DOMAIN queue[n] |->
                     LET e == queue[n][j] IN Data(e.dest, e.msg, e.ttl, e.hops + 1)]
  <2>1. q[i].kind = "data" /\ q[i].msg = x
    BY <1>1 DEF Data
  <2>2. QueueFrames(n, t) = Keep(q, Routable(n, t))
    BY DEF QueueFrames
  <2> HIDE DEF q
  <2>3. \E k \in DOMAIN Keep(q, Routable(n, t)) : Keep(q, Routable(n, t))[k] = q[i]
    BY <1>2, <1>3, <1>4, KeepsAll
  <2> QED
    BY <2>1, <2>2, <2>3, InPayloads
<1>5. CASE i \in Exhausted(n, t)
  <2> DEFINE q == [j \in DOMAIN queue[n] |->
                     LET e == queue[n][j] IN Letter(e.msg, e.dest, e.ttl, "retry_exhausted")]
  <2>1. q[i].msg = x
    BY <1>1 DEF Letter
  <2>2. QueueLetters(n, t) = Keep(q, Exhausted(n, t))
    BY DEF QueueLetters
  <2> HIDE DEF q
  <2>3. \E k \in DOMAIN Keep(q, Exhausted(n, t)) : Keep(q, Exhausted(n, t))[k] = q[i]
    BY <1>2, <1>3, <1>5, KeepsAll
  <2> QED
    BY <2>1, <2>2, <2>3
<1>6. CASE i \notin Routable(n, t) \cup Exhausted(n, t)
  <2> DEFINE S == DOMAIN queue[n] \ (Routable(n, t) \cup Exhausted(n, t))
             q == [j \in DOMAIN queue[n] |->
                     IF j \in Retried(n, t)
                     THEN [queue[n][j] EXCEPT !.age = 0, !.retries = @ + 1]
                     ELSE queue[n][j]]
  <2>1. q[i].msg = x
    BY <1>1, <1>q DEF Queued
  <2>2. QueueLeft(n, t) = Keep(q, S) /\ S \subseteq 1..N /\ i \in S
    BY <1>1, <1>2, <1>6 DEF QueueLeft
  <2> HIDE DEF q, S
  <2>3. \E k \in DOMAIN Keep(q, S) : Keep(q, S)[k] = q[i]
    BY <1>2, <2>2, KeepsAll
  <2> QED
    BY <2>1, <2>2, <2>3
<1> QED
  BY <1>4, <1>5, <1>6

\* mesh_tick: an entry of the queue is sent, becomes a dead letter or stays.
LEMMA TickForgetsNone ==
  ASSUME Inv, NoneForgotten, NEW n \in Node, Tick(n) PROVE NoneForgotten'
<1>1. InboxOK /\ submitted \subseteq Msg /\ StateOK
  BY DEF Inv, StateOK
<1>t. PICK t : t = Expire(routes[n])
  OBVIOUS
<1>o. PICK out : out = TickFrames(n, t)
  OBVIOUS
<1>l. PICK letters : letters = QueueLetters(n, t)
  OBVIOUS
<1>q. PICK left : left = QueueLeft(n, t)
  OBVIOUS
<1>2. /\ queue' = [queue EXCEPT ![n] = left] /\ Bury(n, letters)
      /\ inbox' = Transmit(n, out, inbox)
      /\ lost' = lost \cup Missed(n, out, inbox) \cup Unburied(n, letters)
      /\ UNCHANGED <<submitted, delivered>>
  BY <1>t, <1>o, <1>l, <1>q DEF Tick
<1>3. PICK E : out \in Seq(E) /\ Payloads(QueueFrames(n, t)) \subseteq Payloads(out)
  BY <1>1, <1>o, TickFramesCarry
<1>4. /\ \A k \in Node : \A x : Travels(k, x) => Travels(k, x)'
      /\ \A x \in Payloads(out) : x \in Missed(n, out, inbox) \/ \E k \in Node : Travels(k, x)'
  BY <1>1, <1>2, <1>3, SentTravels
<1>5. /\ \A k \in Node : \A x : Buried(k, x) => Buried(k, x)'
      /\ \A j \in DOMAIN letters : Len(dead[n]) + j <= MaxDead => Buried(n, letters[j].msg)'
  <2>1. letters \in Seq(DeadLetter)
    BY <1>1, <1>l, TickQueue
  <2> QED
    BY <2>1, <1>1, <1>2, LettersBuried
<1>6. \A k \in Node : queue'[k] = IF k = n THEN left ELSE queue[k]
  BY <1>1, <1>2 DEF StateOK
<1>7. ASSUME NEW k \in Node, NEW x \in Msg, Waits(k, x) PROVE Accounted(x)'
  <2>1. CASE k # n
    <3>1. Waits(k, x)'
      BY <1>6, <1>7, <2>1 DEF Waits
    <3> QED
      BY <3>1, Custody
  <2>2. CASE k = n
    <3>1. \/ x \in Payloads(QueueFrames(n, t))
          \/ \E j \in DOMAIN letters : letters[j].msg = x
          \/ \E i \in DOMAIN left : left[i].msg = x
      BY <1>1, <1>7, <1>l, <1>q, <2>2, TickSorts
    <3>2. CASE x \in Payloads(QueueFrames(n, t))
      <4>1. x \in lost' \/ \E p \in Node : Travels(p, x)'
        BY <3>2, <1>2, <1>3, <1>4
      <4> QED
        BY <4>1, Custody DEF Accounted
    <3>3. ASSUME NEW j \in DOMAIN letters, letters[j].msg = x PROVE Accounted(x)'
      <4>1. CASE Len(dead[n]) + j > MaxDead
        <5>1. x \in Unburied(n, letters)
          BY <3>3, <4>1 DEF Unburied
        <5> QED
          BY <5>1, <1>2 DEF Accounted
      <4>2. CASE ~(Len(dead[n]) + j > MaxDead)
        <5>1. Len(dead[n]) + j <= MaxDead
          <6>1. dead[n] \in Seq(DeadLetter) /\ letters \in Seq(DeadLetter) /\ MaxDead \in Nat
            BY <1>1, <1>l, TickQueue, MeshAssumption DEF StateOK
          <6>2. Len(dead[n]) \in Nat /\ j \in Nat
            BY <6>1
          <6> QED
            BY <6>1, <6>2, <4>2
        <5>2. Buried(n, x)'
          BY <5>1, <3>3, <1>5
        <5> QED
          BY <5>2, Custody
      <4> QED
        BY <4>1, <4>2
    <3>4. CASE \E i \in DOMAIN left : left[i].msg = x
      <4>1. Waits(n, x)'
        BY <3>4, <1>6 DEF Waits
      <4> QED
        BY <4>1, Custody
    <3> QED
      BY <3>1, <3>2, <3>3, <3>4
  <2> QED
    BY <2>1, <2>2
<1>8. lost \subseteq lost'
  BY <1>2
<1>9. \A k \in Node, x \in Msg : Travels(k, x) \/ Buried(k, x) => Accounted(x)'
  BY <1>4, <1>5, Custody
<1> QED
  BY <1>1, <1>2, <1>7, <1>8, <1>9, AccountKept

\* Time passes, or routes expire: no payload moves.
LEMMA TimeForgetsNone ==
  ASSUME Inv, NoneForgotten,
         Elapse \/ (\E n \in Node : GetRouteCount(n)) \/ UNCHANGED vars
  PROVE  NoneForgotten'
<1>1. submitted \subseteq Msg /\ StateOK
  BY DEF Inv, StateOK
<1>2. UNCHANGED <<dead, inbox, submitted, delivered, lost>>
  BY DEF Elapse, GetRouteCount, vars
<1>3. \A k \in Node : \A x : Waits(k, x) => Waits(k, x)'
  <2>1. CASE UNCHANGED queue
    BY <2>1 DEF Waits
  <2>2. CASE Elapse
    <3> SUFFICES ASSUME NEW k \in Node, NEW x, Waits(k, x) PROVE Waits(k, x)'
      OBVIOUS
    <3>1. PICK i \in DOMAIN queue[k] : queue[k][i].msg = x
      BY DEF Waits
    <3>2. queue[k][i] \in Queued
      BY <1>1, <3>1, EntryQueued
    <3>3. /\ i \in DOMAIN queue'[k]
          /\ queue'[k][i] = IF queue[k][i].age < RetryAge
                            THEN [queue[k][i] EXCEPT !.age = @ + 1] ELSE queue[k][i]
      BY <2>2, <3>1 DEF Elapse
    <3>4. queue'[k][i].msg = x
      BY <3>1, <3>2, <3>3 DEF Queued
    <3> QED
      BY <3>3, <3>4 DEF Waits
  <2> QED
    BY <2>1, <2>2 DEF GetRouteCount, vars
<1>4. \A k \in Node : \A x : Buried(k, x) \/ Travels(k, x) => (Buried(k, x) \/ Travels(k, x))'
  BY <1>2 DEF Buried, Travels
<1>5. \A k \in Node, x \in Msg : Waits(k, x) \/ Buried(k, x) \/ Travels(k, x) => Accounted(x)'
  BY <1>3, <1>4, Custody
<1> QED
  BY <1>1, <1>2, <1>5, AccountKept

\* A restart loses what the node had, and nothing else.
LEMMA RestartForgetsNone ==
  ASSUME Inv, NoneForgotten, NEW n \in Node, Restart(n) PROVE NoneForgotten'
<1>1. submitted \subseteq Msg /\ StateOK /\ InboxOK
  BY DEF Inv, StateOK
<1>2. /\ UNCHANGED <<submitted, delivered>>
      /\ \A k \in Node \ {n} : queue'[k] = queue[k] /\ dead'[k] = dead[k] /\ inbox'[k] = inbox[k]
      /\ lost' = lost \cup {queue[n][i].msg : i \in DOMAIN queue[n]}
                      \cup {dead[n][i].msg : i \in DOMAIN dead[n]} \cup Payloads(inbox[n])
  BY <1>1 DEF Restart, StateOK, InboxOK
<1>3. ASSUME NEW k \in Node, NEW x \in Msg, Waits(k, x) \/ Buried(k, x) \/ Travels(k, x)
      PROVE  Accounted(x)'
  <2>1. CASE k = n
    <3>1. x \in lost'
      BY <1>2, <1>3, <2>1 DEF Waits, Buried, Travels
    <3> QED
      BY <3>1 DEF Accounted
  <2>2. CASE k # n
    <3>1. (Waits(k, x) \/ Buried(k, x) \/ Travels(k, x))'
      BY <1>2, <1>3, <2>2 DEF Waits, Buried, Travels
    <3> QED
      BY <3>1, Custody
  <2> QED
    BY <2>1, <2>2
<1>4. lost \subseteq lost'
  BY <1>2
<1> QED
  BY <1>1, <1>2, <1>3, <1>4, AccountKept

LEMMA ForgottenStep == Inv /\ NoneForgotten /\ [Next]_vars => NoneForgotten'
  BY SendForgetsNone, RecvForgetsNone, TickForgetsNone, TimeForgetsNone, RestartForgetsNone
  DEF Next

LEMMA ForgottenInit == Init => NoneForgotten
  BY DEF Init, NoneForgotten

-----------------------------------------------------------------------------
(* Metrics.  A route is as sound as the advert it was learned from, and that *)
(* as the route its sender held, so the invariant speaks of both.            *)

\* The destinations that hosts have handed in updates of, or about.
Told == {d \in Addr : \E m \in Node : \E u \in handed[m] : Names(u, d)}

\* n is within k transmissions of d, unless d is one of T.
Near(n, d, k, T) == d \in Node \ T => n \in Within[d][k]

NearRoute(n, T) == {r \in Route : Near(n, r.node, r.metric, T)}

\* The sender's routes are sound, and have room for one transmission more.
NearUpdate(n, T) ==
  {f \in UpdateFrame :
     /\ n \in Nbr[f.origin]
     /\ \A k \in DOMAIN f.adverts : /\ f.adverts[k].metric + 1 < MetricMod
                                    /\ Near(f.origin, f.adverts[k].node, f.adverts[k].metric, T)}

NearRequest(n) == {f \in RequestFrame : f.hops >= 1 /\ n \in Within[f.origin][f.hops]}

NearFrame(n, T) == NearUpdate(n, T) \cup NearRequest(n) \cup DataFrame

NearInv(T) ==
  \A n \in Node : routes[n] \in Tables(NearRoute(n, T)) /\ inbox[n] \in Seq(NearFrame(n, T))

LEMMA WithinOne ==
  ASSUME NEW d \in Node, NEW n \in Nbr[d], NEW k \in Metric, k >= 1
  PROVE  n \in Within[d][k]
  <1> DEFINE path == [i \in 0..k |-> IF i = 0 THEN d ELSE n]
  <1>1. n \in Node /\ k \in Nat
    BY MeshAssumption, TableAssumption DEF Metric
  <1>2. path \in [0..k -> Node] /\ path[0] = d /\ path[k] = n
    BY <1>1
  <1>3. \A i \in 1..k : path[i] \in Nbr[path[i - 1]] \cup {path[i - 1]}
    BY <1>1
  <1> HIDE DEF path
  <1> QED
    BY <1>1, <1>2, <1>3 DEF Within

LEMMA WithinStep ==
  ASSUME NEW d \in Node, NEW m \in Node, NEW k \in Metric, m \in Within[d][k],
         NEW n \in Nbr[m], k + 1 < MetricMod
  PROVE  (k + 1) % MetricMod \in Metric /\ n \in Within[d][(k + 1) % MetricMod]
  <1>1. n \in Node /\ k \in Nat /\ (k + 1) % MetricMod = k + 1 /\ k + 1 \in Metric
    BY MeshAssumption, TableAssumption DEF Metric
  <1>2. PICK p \in [0..k -> Node] :
          /\ p[0] = d /\ p[k] = m
          /\ \A i \in 1..k : p[i] \in Nbr[p[i - 1]] \cup {p[i - 1]}
    BY DEF Within
  <1> DEFINE path == [i \in 0..(k + 1) |-> IF i <= k THEN p[i] ELSE n]
  <1>3. path \in [0..(k + 1) -> Node] /\ path[0] = d /\ path[k + 1] = n
    BY <1>1, <1>2
  <1>4. \A i \in 1..(k + 1) : path[i] \in Nbr[path[i - 1]] \cup {path[i - 1]}
    <2> TAKE i \in 1..(k + 1)
    <2>1. CASE i <= k
      <3>1. path[i] = p[i] /\ path[i - 1] = p[i - 1] /\ i \in 1..k
        BY <1>1, <2>1
      <3> QED
        BY <1>2, <3>1
    <2>2. CASE ~(i <= k)
      <3>1. i = k + 1 /\ path[i] = n /\ path[i - 1] = p[k]
        BY <1>1, <2>2
      <3> QED
        BY <1>2, <3>1
    <2> QED
      BY <2>1, <2>2
  <1> HIDE DEF path
  <1>5. n \in Within[d][k + 1]
    BY <1>1, <1>3, <1>4 DEF Within
  <1> QED
    BY <1>1, <1>5

LEMMA NearKinds ==
  ASSUME NEW T, NEW n, NEW f \in NearFrame(n, T)
  PROVE  /\ f.kind = "update" => f \in NearUpdate(n, T)
         /\ f.kind \in {"rreq", "rrep"} => f \in NearRequest(n)
  BY DEF NearFrame, NearUpdate, NearRequest, UpdateFrame, RequestFrame, DataFrame

\* The routes that frames teach are as near as they say.
LEMMA NearUpdateTeaches ==
  ASSUME NEW T, NEW n \in Node, NEW u \in NearUpdate(n, T), NEW t \in Tables(NearRoute(n, T))
  PROVE  ApplyUpdate(t, n, u) \in Tables(NearRoute(n, T))
  <1>1. /\ u \in UpdateFrame /\ n \in Nbr[u.origin]
        /\ \A k \in DOMAIN u.adverts :
             /\ u.adverts[k].metric + 1 < MetricMod
             /\ Near(u.origin, u.adverts[k].node, u.adverts[k].metric, T)
    BY DEF NearUpdate
  <1>2. u.origin \in Node /\ u.seqno \in Seqno /\ u.adverts \in Seq(Advert)
    BY <1>1 DEF UpdateFrame
  <1>3. Len(u.adverts) \in Nat /\ DOMAIN u.adverts = 1..Len(u.adverts)
    BY <1>2, LenProperties
  <1>4. FreshRoute(u.origin, u.origin, 1, u.seqno) \in NearRoute(n, T)
    <2>1. 1 \in Metric
      BY TableAssumption DEF Metric
    <2>2. n \in Within[u.origin][1]
      BY <1>1, <1>2, <2>1, WithinOne
    <2> QED
      BY <1>2, <2>1, <2>2, TableAssumption DEF FreshRoute, NearRoute, Near, Route
  <1>5. ASSUME NEW k \in 1..Len(u.adverts)
        PROVE  AdvertRoute(u, k) \in NearRoute(n, T)
    <2>1. PICK a \in Advert : a = u.adverts[k]
      BY <1>2, <1>3
    <2>2. a.node \in Addr /\ a.metric \in Metric /\ a.seqno \in Seqno
      BY DEF Advert
    <2>3. a.metric + 1 < MetricMod /\ Near(u.origin, a.node, a.metric, T)
      BY <1>1, <1>3, <2>1
    <2>4. (a.metric + 1) % MetricMod \in Metric
          /\ Near(n, a.node, (a.metric + 1) % MetricMod, T)
      <3>1. (a.metric + 1) % MetricMod \in Metric
        BY <2>2, HopStep
      <3>2. ASSUME a.node \in Node, u.origin \in Within[a.node][a.metric]
            PROVE  n \in Within[a.node][(a.metric + 1) % MetricMod]
        BY <1>1, <1>2, <2>2, <2>3, <3>2, WithinStep
      <3> QED
        BY <2>3, <3>1, <3>2 DEF Near
    <2>5. AdvertRoute(u, k) = FreshRoute(a.node, u.origin, (a.metric + 1) % MetricMod, a.seqno)
      BY <2>1 DEF AdvertRoute
    <2> QED
      BY <1>2, <2>2, <2>4, <2>5, TableAssumption DEF FreshRoute, NearRoute, Route
  <1>6. NearRoute(n, T) \in SUBSET Route
    BY DEF NearRoute
  <1> HIDE DEF NearRoute, NearUpdate
  <1> QED
    BY <1>3, <1>4, <1>5, <1>6, ApplyUpdateInTable

LEMMA NearRequestTeaches ==
  ASSUME NEW T, NEW n \in Node, NEW f \in NearRequest(n), NEW t \in Tables(NearRoute(n, T))
  PROVE  AddIfUnknown(t, FreshRoute(f.origin, f.origin, f.hops, 0)) \in Tables(NearRoute(n, T))
  <1>1. FreshRoute(f.origin, f.origin, f.hops, 0) \in NearRoute(n, T)
    BY TableAssumption DEF NearRequest, RequestFrame, FreshRoute, NearRoute, Near, Route, Seqno
  <1>2. NearRoute(n, T) \in SUBSET Route
    BY DEF NearRoute
  <1> QED
    BY <1>1, <1>2, AddIfUnknownInTable

\* What a host hands in is about destinations of T, and teaches no others.
LEMMA NearHostTeaches ==
  ASSUME NEW T, Inv, NearInv(T), Told' \subseteq T,
         NEW n \in Node, NEW u \in HostUpdate[n], SendUpdate(n, u)
  PROVE  ApplyUpdate(routes[n], n, u) \in Tables(NearRoute(n, T))
  <1>1. routes[n] \in Tables(NearRoute(n, T)) /\ NearRoute(n, T) \in SUBSET Route
    BY DEF NearInv, NearRoute
  <1>2. CASE Ignored(routes[n], n, u)
    BY <1>1, <1>2 DEF ApplyUpdate
  <1>3. CASE ~Ignored(routes[n], n, u)
    <2>1. u \in HostFrame /\ u \in handed'[n]
      BY <1>3, MeshAssumption DEF SendUpdate, Inv, StateOK
    <2>2. u.origin \in Addr /\ u.seqno \in Seqno /\ u.adverts \in Seq(Advert)
      BY <2>1 DEF HostFrame
    <2>3. Len(u.adverts) \in Nat /\ DOMAIN u.adverts = 1..Len(u.adverts)
      BY <2>2, LenProperties
    <2>4. \A d \in Addr : Names(u, d) => d \in T
      BY <2>1 DEF Told
    <2>5. FreshRoute(u.origin, u.origin, 1, u.seqno) \in NearRoute(n, T)
      <3>1. u.origin \in T
        BY <2>2, <2>4 DEF Names
      <3> QED
        BY <2>2, <3>1, TableAssumption DEF FreshRoute, NearRoute, Near, Route, Metric
    <2>6. ASSUME NEW k \in 1..Len(u.adverts)
          PROVE  AdvertRoute(u, k) \in NearRoute(n, T)
      <3>1. PICK a \in Advert : a = u.adverts[k]
        BY <2>2, <2>3
      <3>2. (a.metric + 1) % MetricMod \in Metric
        BY HopStep DEF Advert
      <3>3. a.node \in T /\ a.node \in Addr /\ a.seqno \in Seqno
        BY <2>3, <2>4, <3>1 DEF Names, Advert
      <3>4. AdvertRoute(u, k) = FreshRoute(a.node, u.origin, (a.metric + 1) % MetricMod, a.seqno)
        BY <3>1 DEF AdvertRoute
      <3> QED
        BY <2>2, <3>2, <3>3, <3>4, TableAssumption DEF FreshRoute, NearRoute, Near, Route
    <2> HIDE DEF NearRoute
    <2> QED
      BY <1>1, <2>3, <2>5, <2>6, ApplyUpdateInTable
  <1> QED
    BY <1>2, <1>3

\* What a node sends tells every node that hears it no more than is so.
NearSendable(n, T) == {f \in Frame : \A m \in Nbr[n] : f \in NearFrame(m, T)}

LEMMA NearDataSendable ==
  ASSUME NEW T, NEW n \in Node
  PROVE  DataFrame \subseteq NearSendable(n, T)
  BY DEF NearSendable, NearFrame, Frame

\* Whoever hears n is within h transmissions of o, if n's own frames have that many
\* or n has heard o after one less.
LEMMA NearRequestSendable ==
  ASSUME NEW T, NEW n \in Node, NEW f \in RequestFrame, f.hops >= 1,
         \A m \in Nbr[n] : m \in Within[f.origin][f.hops]
  PROVE  f \in NearSendable(n, T)
  BY DEF NearSendable, NearFrame, NearRequest, Frame

LEMMA NearUpdateSendable ==
  ASSUME NEW T, StateOK, NEW n \in Node, NEW t \in Tables(NearRoute(n, T)),
         \A i \in DOMAIN t : t[i] # NoRoute => t[i].metric + 1 < MetricMod
  PROVE  Update(n, t) \in NearSendable(n, T)
  <1> DEFINE G == {r \in NearRoute(n, T) : r.metric + 1 < MetricMod}
  <1>1. t \in Tables(G) /\ G \in SUBSET Route
    <2>1. t \in Seq(NearRoute(n, T) \cup {NoRoute}) /\ Len(t) \in Nat /\ DOMAIN t = 1..Len(t)
          /\ Len(t) <= MaxRoutes /\ UniqueIn(t)
      BY LenProperties DEF Tables
    <2>2. \A i \in 1..Len(t) : t[i] \in G \cup {NoRoute}
      BY <2>1
    <2>3. t \in [1..Len(t) -> G \cup {NoRoute}]
      BY <2>1, <2>2
    <2>4. t \in Seq(G \cup {NoRoute})
      BY <2>1, <2>3, FunctionIsSeq
    <2> QED
      BY <2>1, <2>4 DEF Tables, NearRoute
  <1>2. /\ Adverts(t) \in Seq(Advert)
        /\ \A k \in DOMAIN Adverts(t) : \E r \in G :
             Adverts(t)[k] = [node |-> r.node, metric |-> r.metric, seqno |-> r.seqno]
    <2> HIDE DEF G
    <2> QED
      BY <1>1, AdvertsOfTable
  <1>3. \A k \in DOMAIN Adverts(t) :
          /\ Adverts(t)[k].metric + 1 < MetricMod
          /\ Near(n, Adverts(t)[k].node, Adverts(t)[k].metric, T)
    <2> TAKE k \in DOMAIN Adverts(t)
    <2>1. PICK r \in G :
            Adverts(t)[k] = [node |-> r.node, metric |-> r.metric, seqno |-> r.seqno]
      BY <1>2
    <2>2. Adverts(t)[k].metric = r.metric /\ Adverts(t)[k].node = r.node
      BY <2>1
    <2> QED
      BY <2>1, <2>2 DEF NearRoute
  <1>4. PICK u : u = Update(n, t)
    OBVIOUS
  <1>5. u \in UpdateFrame /\ u.origin = n /\ u.adverts = Adverts(t)
    <2>1. (seqno[n] + 1) % SeqMod \in Seqno
      BY SeqnoStep DEF StateOK
    <2> QED
      BY <1>2, <1>4, <2>1 DEF Update, UpdateFrame
  <1>6. \A m \in Nbr[n] : u \in NearUpdate(m, T)
    BY <1>3, <1>5 DEF NearUpdate
  <1> QED
    BY <1>4, <1>5, <1>6 DEF NearSendable, NearFrame, Frame

\* The buffers after a transmission, and after a frame is taken off.
LEMMA NearSent ==
  ASSUME NEW T, NEW n \in Node, NEW box, NEW out \in Seq(NearSendable(n, T)),
         \A m \in Node : box[m] \in Seq(NearFrame(m, T)) /\ Len(box[m]) <= InboxCap,
         inbox' = Transmit(n, out, box)
  PROVE  \A m \in Node : inbox'[m] \in Seq(NearFrame(m, T))
  <1> DEFINE F == [m \in Node |-> NearFrame(m, T)]
  <1>1. \A m \in Nbr[n] : NearSendable(n, T) \subseteq F[m]
    BY MeshAssumption DEF NearSendable
  <1>2. \A m \in Node : box[m] \in Seq(F[m]) /\ Len(box[m]) <= InboxCap
    OBVIOUS
  <1>3. \A m \in Node : Transmit(n, out, box)[m] \in Seq(F[m])
    <2> HIDE DEF F
    <2> QED
      BY <1>1, <1>2, TransmitFrames
  <1> QED
    BY <1>3

LEMMA NearRest ==
  ASSUME NEW T, Inv, NearInv(T), NEW n \in Node, inbox[n] # <<>>
  PROVE  /\ Head(inbox[n]) \in NearFrame(n, T)
         /\ \A m \in Node : Rest(n)[m] \in Seq(NearFrame(m, T)) /\ Len(Rest(n)[m]) <= InboxCap
  <1>1. \A m \in Node : inbox[m] \in Seq(NearFrame(m, T))
    BY DEF NearInv
  <1>2. Head(inbox[n]) \in NearFrame(n, T) /\ Tail(inbox[n]) \in Seq(NearFrame(n, T))
    BY <1>1, HeadTailProperties
  <1>3. \A m \in Node : Rest(n)[m] = IF m = n THEN Tail(inbox[n]) ELSE inbox[m]
    BY DEF Rest, Inv, InboxOK
  <1>4. \A m \in Node : Len(Rest(n)[m]) <= InboxCap
    BY RestFrames DEF Inv
  <1> QED
    BY <1>1, <1>2, <1>3, <1>4

LEMMA NearTick ==
  ASSUME NEW T, Inv, NearInv(T), MetricsFit, NEW n \in Node
  PROVE  TickFrames(n, Expire(routes[n])) \in Seq(NearSendable(n, T))
  <1> DEFINE t == Expire(routes[n])
  <1>1. t \in Tables(NearRoute(n, T))
    <2>1. routes[n] \in Tables(NearRoute(n, T)) /\ NearRoute(n, T) \in SUBSET Route
      BY DEF NearInv, NearRoute
    <2> QED
      BY <2>1, ExpireInTable
  <1>2. \A i \in DOMAIN t : t[i] # NoRoute => t[i].metric + 1 < MetricMod
    BY DEF Expire, MetricsFit
  <1>3. StateOK /\ t \in Tables(GoodRoute(n))
    <2>1. routes[n] \in Tables(GoodRoute(n)) /\ GoodRoute(n) \in SUBSET Route
      BY DEF Inv, TablesOK, GoodRoute
    <2> QED
      BY <2>1, ExpireInTable DEF Inv
  <1> HIDE DEF t
  <1>4. RouteRequest(n, rreq[n].seqno, 1) \in NearSendable(n, T)
    <2>1. rreq[n].seqno \in Seqno /\ 1 \in Metric
      BY <1>3, TableAssumption DEF StateOK, Request, Metric
    <2>2. \A m \in Nbr[n] : m \in Within[n][1]
      BY <2>1, WithinOne
    <2>3. PICK f : f = RouteRequest(n, rreq[n].seqno, 1)
      OBVIOUS
    <2>4. f \in RequestFrame /\ f.origin = n /\ f.hops = 1
      BY <2>1, <2>3, MeshAssumption DEF RouteRequest, RequestFrame
    <2> QED
      BY <2>2, <2>3, <2>4, NearRequestSendable
  <1>5. Update(n, t) \in NearSendable(n, T)
    BY <1>1, <1>2, <1>3, NearUpdateSendable
  <1>6. QueueFrames(n, t) \in Seq(NearSendable(n, T))
    <2>1. QueueFrames(n, t) \in Seq(GoodData)
      BY <1>3, TickQueue
    <2>2. GoodData \subseteq NearSendable(n, T)
      BY NearDataSendable DEF GoodData
    <2> QED
      BY <2>1, <2>2, SeqMonotonic
  <1>7. (IF RreqDue(n) THEN <<RouteRequest(n, rreq[n].seqno, 1)>> ELSE <<>>) \in Seq(NearSendable(n, T))
    BY <1>4
  <1>8. (IF FloodDue(n) THEN <<Update(n, t)>> ELSE <<>>) \in Seq(NearSendable(n, T))
    BY <1>5
  <1>9. TickFrames(n, t) \in Seq(NearSendable(n, T))
    BY <1>6, <1>7, <1>8, ConcatProperties DEF TickFrames
  <1> QED
    BY <1>9 DEF t

\* The tables, action by action.
LEMMA NearTablesStep ==
  ASSUME NEW T, Inv, NearInv(T), Told' \subseteq T, [Next]_vars
  PROVE  \A m \in Node : routes'[m] \in Tables(NearRoute(m, T))
  <1> DEFINE Kept == \A m \in Node : routes'[m] \in Tables(NearRoute(m, T))
  <1>1. \A n \in Node : routes[n] \in Tables(NearRoute(n, T)) /\ NearRoute(n, T) \in SUBSET Route
    BY DEF NearInv, NearRoute
  <1>2. ASSUME NEW n \in Node, NEW t \in Tables(NearRoute(n, T)), routes' = [routes EXCEPT ![n] = t]
        PROVE  Kept
    <2>1. \A m \in Node : routes'[m] = IF m = n THEN t ELSE routes[m]
      BY <1>2 DEF Inv, TablesOK
    <2> QED
      BY <1>1, <2>1
  <1>3. UNCHANGED routes => Kept
    BY <1>1
  <1>4. \A n \in Node : Expire(routes[n]) \in Tables(NearRoute(n, T))
    BY <1>1, ExpireInTable
  <1>5. CASE Elapse
    <2>1. \A n \in Node : \A r \in NearRoute(n, T) :
            r.age <= StaleAge => [r EXCEPT !.age = @ + 1] \in NearRoute(n, T)
      BY TableAssumption DEF NearRoute, Route
    <2>2. \A n \in Node : Older(routes[n]) \in Tables(NearRoute(n, T))
      BY <1>1, <2>1, OlderInTable
    <2> QED
      BY <1>5, <2>2 DEF Elapse
  <1>6. ASSUME NEW n \in Node, Send(n)
        PROVE  Kept
    <2>1. ASSUME NEW u \in HostUpdate[n], SendUpdate(n, u)
          PROVE  Kept
      BY <1>2, <2>1, NearHostTeaches DEF SendUpdate
    <2>2. ASSUME NEW m \in Msg,
                 SendBroadcast(n, m) \/ SendToSelf(n, m) \/ SendRouted(n, m) \/ SendQueued(n, m)
          PROVE  Kept
      BY <1>3, <2>2 DEF SendBroadcast, SendToSelf, SendRouted, SendQueued, Submit
    <2> QED
      BY <1>6, <2>1, <2>2 DEF Send
  <1>7. ASSUME NEW n \in Node, Recv(n)
        PROVE  Kept
    <2> DEFINE f == Head(inbox[n])
    <2>1. CASE RecvUpdate(n)
      <3>1. f \in NearUpdate(n, T)
        BY <2>1, NearRest, NearKinds DEF RecvUpdate, Arrives
      <3>2. ApplyUpdate(routes[n], n, f) \in Tables(NearRoute(n, T))
        BY <1>1, <3>1, NearUpdateTeaches
      <3> QED
        BY <1>2, <2>1, <3>2 DEF RecvUpdate
    <2>2. CASE RecvRequestForMe(n) \/ RecvReply(n)
      <3>1. f \in NearRequest(n)
        BY <2>2, NearRest, NearKinds DEF RecvRequestForMe, RecvReply, Arrives
      <3>2. AddIfUnknown(routes[n], FreshRoute(f.origin, f.origin, f.hops, 0))
              \in Tables(NearRoute(n, T))
        BY <1>1, <3>1, NearRequestTeaches
      <3> QED
        BY <1>2, <2>2, <3>2 DEF RecvRequestForMe, RecvReply
    <2>3. CASE RecvRequestForOther(n) \/ RecvDeliver(n) \/ RecvTtlExpired(n)
               \/ RecvForward(n) \/ RecvStore(n)
      BY <1>3, <2>3 DEF RecvRequestForOther, RecvDeliver, RecvTtlExpired, RecvForward, RecvStore
    <2> QED
      BY <1>7, <2>1, <2>2, <2>3 DEF Recv
  <1>8. ASSUME NEW n \in Node, Lose(n)
        PROVE  Kept
    BY <1>3, <1>8 DEF Lose
  <1>9. ASSUME NEW n \in Node, Tick(n) \/ GetRouteCount(n)
        PROVE  Kept
    BY <1>2, <1>4, <1>9 DEF Tick, GetRouteCount
  <1>10. ASSUME NEW n \in Node, Restart(n)
         PROVE  Kept
    <2>1. << >> \in Tables(NearRoute(n, T))
      BY TableAssumption DEF Tables, UniqueIn, Slots
    <2> QED
      BY <1>2, <1>10, <2>1 DEF Restart
  <1>11. CASE UNCHANGED vars
    BY <1>3, <1>11 DEF vars
  <1> QED
    BY <1>5, <1>6, <1>7, <1>8, <1>9, <1>10, <1>11 DEF Next

\* The buffers, action by action.
LEMMA NearInboxStep ==
  ASSUME NEW T, Inv, NearInv(T), MetricsFit, MetricsFit', Told' \subseteq T, [Next]_vars
  PROVE  \A m \in Node : inbox'[m] \in Seq(NearFrame(m, T))
  <1> DEFINE Kept == \A m \in Node : inbox'[m] \in Seq(NearFrame(m, T))
  <1>1. \A m \in Node : inbox[m] \in Seq(NearFrame(m, T)) /\ Len(inbox[m]) <= InboxCap
    BY DEF NearInv, Inv, InboxOK
  <1>2. UNCHANGED inbox => Kept
    BY <1>1
  <1>3. ASSUME NEW n \in Node, NEW f \in NearSendable(n, T), inbox' = Transmit(n, <<f>>, inbox)
        PROVE  Kept
    <2>1. <<f>> \in Seq(NearSendable(n, T))
      BY SingleFrame
    <2> QED
      BY <1>1, <1>3, <2>1, NearSent
  <1>4. \A n \in Node, f \in Frame : f.kind = "data" => f \in NearSendable(n, T)
    BY NearDataSendable DEF Frame, UpdateFrame, RequestFrame, DataFrame
  <1>5. \A n \in Node : \A f : f \in Sendable(n)' => f \in Frame
    BY DEF Sendable
  <1>6. CASE Elapse
    BY <1>2, <1>6 DEF Elapse
  <1>7. ASSUME NEW n \in Node, Send(n)
        PROVE  Kept
    <2>1. ASSUME NEW u \in HostUpdate[n], SendUpdate(n, u)
          PROVE  Kept
      <3>1. PICK t \in Tables(NearRoute(n, T)) : t = ApplyUpdate(routes[n], n, u)
        BY <2>1, NearHostTeaches
      <3>2. routes'[n] = t
        BY <2>1, <3>1 DEF SendUpdate, Inv, TablesOK
      <3>3. \A i \in DOMAIN t : t[i] # NoRoute => t[i].metric + 1 < MetricMod
        BY <3>2 DEF MetricsFit
      <3>4. Update(n, t) \in NearSendable(n, T)
        BY <3>3, NearUpdateSendable DEF Inv
      <3> QED
        BY <1>3, <2>1, <3>1, <3>4 DEF SendUpdate
    <2>2. ASSUME NEW m \in Msg, SendBroadcast(n, m)
          PROVE  Kept
      <3>1. Data(Broadcast, m, m.ttl, 1) \in DataFrame
        BY MeshAssumption DEF Data, DataFrame
      <3>2. Data(Broadcast, m, m.ttl, 1) \in NearSendable(n, T)
        BY <3>1, NearDataSendable
      <3> QED
        BY <1>3, <2>2, <3>2 DEF SendBroadcast, Sends
    <2>3. ASSUME NEW m \in Msg, SendToSelf(n, m)
          PROVE  Kept
      BY <1>2, <2>3 DEF SendToSelf
    <2>4. ASSUME NEW m \in Msg, SendRouted(n, m)
          PROVE  Kept
      <3>1. CASE Ttl(m) = 1
        BY <1>2, <2>4, <3>1 DEF SendRouted
      <3>2. CASE Ttl(m) # 1
        <4>1. PICK f : f = Data(FindRoute(routes[n], m.to).nextHop, m, Ttl(m) - 1, 1)
          OBVIOUS
        <4>2. f \in Sendable(n)' /\ f.kind = "data"
          BY <2>4, <3>2, <4>1, RoutedSendable DEF Data
        <4>3. inbox' = Transmit(n, <<f>>, inbox)
          BY <2>4, <3>2, <4>1 DEF SendRouted, Sends
        <4> QED
          BY <1>3, <1>4, <1>5, <4>2, <4>3
      <3> QED
        BY <3>1, <3>2
    <2>5. ASSUME NEW m \in Msg, SendQueued(n, m)
          PROVE  Kept
      <3>1. CASE inbox' # inbox
        <4>1. PICK q : q = (rreq[n].seqno + 1) % SeqMod
          OBVIOUS
        <4>2. PICK f : f = RouteRequest(n, q, 1)
          OBVIOUS
        <4>3. inbox' = Transmit(n, <<f>>, inbox)
          BY <2>5, <3>1, <4>1, <4>2 DEF SendQueued
        <4>4. q \in Seqno /\ 1 \in Metric
          BY <4>1, SeqnoStep, TableAssumption DEF Inv, StateOK, Request, Metric
        <4>5. f \in RequestFrame /\ f.origin = n /\ f.hops = 1
          BY <4>2, <4>4, MeshAssumption DEF RouteRequest, RequestFrame
        <4>6. f \in NearSendable(n, T)
          BY <4>4, <4>5, WithinOne, NearRequestSendable
        <4> QED
          BY <1>3, <4>3, <4>6
      <3> QED
        BY <1>2, <3>1
    <2> QED
      BY <1>7, <2>1, <2>2, <2>3, <2>4, <2>5 DEF Send
  <1>8. ASSUME NEW n \in Node, Recv(n)
        PROVE  Kept
    <2>1. PICK f : f = Head(inbox[n])
      OBVIOUS
    <2>2. inbox[n] # <<>>
      BY <1>8 DEF Recv, RecvUpdate, RecvRequestForMe, RecvRequestForOther, RecvReply,
                  RecvDeliver, RecvTtlExpired, RecvForward, RecvStore, Overheard, Arrives
    <2>3. /\ f \in NearFrame(n, T)
          /\ \A m \in Node : Rest(n)[m] \in Seq(NearFrame(m, T)) /\ Len(Rest(n)[m]) <= InboxCap
      BY <2>1, <2>2, NearRest
    <2>4. inbox' = Rest(n) => Kept
      BY <2>3
    <2>5. ASSUME NEW g \in NearSendable(n, T), inbox' = Transmit(n, <<g>>, Rest(n))
          PROVE  Kept
      <3>1. <<g>> \in Seq(NearSendable(n, T))
        BY SingleFrame
      <3> QED
        BY <2>3, <2>5, <3>1, NearSent
    <2>6. f.kind \in {"rreq", "rrep"} =>
            /\ f \in RequestFrame /\ f.origin \in Node /\ f.hops \in Metric /\ f.hops >= 1
            /\ n \in Within[f.origin][f.hops]
      BY <2>3, NearKinds DEF NearRequest, RequestFrame
    <2>7. CASE RecvUpdate(n) \/ RecvReply(n) \/ RecvDeliver(n) \/ RecvTtlExpired(n) \/ RecvStore(n)
      BY <2>4, <2>7 DEF RecvUpdate, RecvReply, RecvDeliver, RecvTtlExpired, RecvStore
    <2>8. CASE RecvRequestForMe(n)
      <3>1. PICK g : g = RouteReply(n, f.seqno, f.hops)
        OBVIOUS
      <3>2. f.kind = "rreq"
        BY <2>1, <2>8 DEF RecvRequestForMe, Arrives
      <3>3. g \in RequestFrame /\ g.origin = n /\ g.hops = f.hops
        BY <2>6, <3>1, <3>2, MeshAssumption DEF RouteReply, RequestFrame
      <3>4. g \in NearSendable(n, T)
        BY <2>6, <3>2, <3>3, WithinOne, NearRequestSendable
      <3> QED
        BY <2>1, <2>5, <2>8, <3>1, <3>4 DEF RecvRequestForMe
    <2>9. CASE RecvRequestForOther(n)
      <3>1. PICK h : h = (f.hops + 1) % MetricMod
        OBVIOUS
      <3>2. PICK g : g = RouteRequest(f.origin, f.seqno, h)
        OBVIOUS
      <3>3. f.kind = "rreq"
        BY <2>1, <2>9 DEF RecvRequestForOther, Arrives
      <3>4. f.hops + 1 < MetricMod
        <4>1. inbox[n][1] = f /\ 1 \in DOMAIN inbox[n]
          BY <1>1, <2>1, <2>2
        <4> QED
          BY <3>3, <4>1 DEF MetricsFit
      <3>5. h \in Metric /\ h >= 1 /\ \A m \in Nbr[n] : m \in Within[f.origin][h]
        <4>1. h \in Metric /\ h = f.hops + 1
          BY <2>6, <3>1, <3>3, <3>4, TableAssumption DEF Metric
        <4>2. \A m \in Nbr[n] : m \in Within[f.origin][(f.hops + 1) % MetricMod]
          BY <2>6, <3>3, <3>4, WithinStep
        <4> QED
          BY <2>6, <3>1, <3>3, <4>1, <4>2 DEF Metric
      <3>6. g \in RequestFrame /\ g.origin = f.origin /\ g.hops = h
        BY <2>6, <3>2, <3>3, <3>5, MeshAssumption DEF RouteRequest, RequestFrame
      <3>7. g \in NearSendable(n, T)
        BY <3>5, <3>6, NearRequestSendable
      <3> QED
        BY <2>1, <2>5, <2>9, <3>1, <3>2, <3>7 DEF RecvRequestForOther
    <2>10. CASE RecvForward(n)
      <3>1. PICK g : g = Data(FindRoute(routes[n], f.target).nextHop, f.msg, f.ttl - 1, f.hops + 1)
        OBVIOUS
      <3>2. g \in Sendable(n)' /\ g.kind = "data"
        BY <2>1, <2>10, <3>1, ForwardSendable DEF Data
      <3>3. inbox' = Transmit(n, <<g>>, Rest(n))
        BY <2>1, <2>10, <3>1 DEF RecvForward, Sends
      <3> QED
        BY <1>4, <1>5, <2>5, <3>2, <3>3
    <2> QED
      BY <1>8, <2>7, <2>8, <2>9, <2>10 DEF Recv
  <1>9. ASSUME NEW n \in Node, Lose(n)
        PROVE  Kept
    BY <1>9, NearRest DEF Lose
  <1>10. ASSUME NEW n \in Node, Tick(n)
         PROVE  Kept
    <2>1. inbox' = Transmit(n, TickFrames(n, Expire(routes[n])), inbox)
      BY <1>10 DEF Tick
    <2> QED
      BY <1>1, <2>1, NearTick, NearSent
  <1>11. ASSUME NEW n \in Node, GetRouteCount(n)
         PROVE  Kept
    BY <1>2, <1>11 DEF GetRouteCount
  <1>12. ASSUME NEW n \in Node, Restart(n)
         PROVE  Kept
    <2>1. \A m \in Node : inbox'[m] = IF m = n THEN <<>> ELSE inbox[m]
      BY <1>12 DEF Restart, Inv, InboxOK
    <2>2. <<>> \in Seq(NearFrame(n, T))
      OBVIOUS
    <2> QED
      BY <1>1, <2>1, <2>2
  <1>13. CASE UNCHANGED vars
    BY <1>2, <1>13 DEF vars
  <1> QED
    BY <1>6, <1>7, <1>8, <1>9, <1>10, <1>11, <1>12, <1>13 DEF Next

LEMMA NearInit == ASSUME NEW T, Init PROVE NearInv(T)
  <1> SUFFICES ASSUME NEW n \in Node
               PROVE  routes[n] \in Tables(NearRoute(n, T)) /\ inbox[n] \in Seq(NearFrame(n, T))
    BY DEF NearInv
  <1>1. routes[n] = <<>> /\ inbox[n] = <<>>
    BY DEF Init
  <1>2. <<>> \in Seq(NearRoute(n, T) \cup {NoRoute}) /\ <<>> \in Seq(NearFrame(n, T))
    OBVIOUS
  <1> QED
    BY <1>1, <1>2, TableAssumption DEF Tables, UniqueIn, Slots

\* The more destinations hosts have spoken of, the less is claimed.
LEMMA NearWeakens ==
  ASSUME NEW S, NEW T, S \subseteq T, NearInv(S)
  PROVE  NearInv(T)
  <1> SUFFICES ASSUME NEW n \in Node
               PROVE  routes[n] \in Tables(NearRoute(n, T)) /\ inbox[n] \in Seq(NearFrame(n, T))
    BY DEF NearInv
  <1>1. NearRoute(n, S) \subseteq NearRoute(n, T)
    BY DEF NearRoute, Near
  <1>2. NearFrame(n, S) \subseteq NearFrame(n, T)
    BY DEF NearFrame, NearUpdate, Near
  <1>3. routes[n] \in Tables(NearRoute(n, S)) /\ inbox[n] \in Seq(NearFrame(n, S))
    BY DEF NearInv
  <1>4. routes[n] \in Tables(NearRoute(n, T))
    BY <1>1, <1>3, TablesMonotonic
  <1>5. inbox[n] \in Seq(NearFrame(n, T))
    BY <1>2, <1>3, SeqMonotonic
  <1> QED
    BY <1>4, <1>5

LEMMA NearStep ==
  Inv /\ NearInv(Told) /\ MetricsFit /\ MetricsFit' /\ [Next]_vars => NearInv(Told)'
  <1> SUFFICES ASSUME Inv, NearInv(Told), MetricsFit, MetricsFit', [Next]_vars
               PROVE  NearInv(Told)'
    OBVIOUS
  <1>1. Told \subseteq Told'
    BY HandedGrows DEF Told, Inv
  <1>2. PICK T : T = Told'
    OBVIOUS
  <1>3. NearInv(T)
    BY <1>1, <1>2, NearWeakens
  <1>4. NearInv(T)'
    <2>1. \A m \in Node : routes'[m] \in Tables(NearRoute(m, T))
      BY <1>2, <1>3, NearTablesStep
    <2>2. \A m \in Node : inbox'[m] \in Seq(NearFrame(m, T))
      BY <1>2, <1>3, NearInboxStep
    <2> QED
      BY <2>1, <2>2 DEF NearInv, NearRoute, NearFrame, NearUpdate, NearRequest, Near
  <1> QED
    BY <1>2, <1>4 DEF NearInv, NearRoute, NearFrame, NearUpdate, NearRequest, Near

\* The declared types, with the sizes of the fixed arrays of
\* OMI_MeshTransport: no handler writes past the routing table, the
\* store-and-forward queue or the dead-letter array, and no entry of the
\* queue has its retries used up or a TTL of zero.
THEOREM TypeCorrect == Spec => []TypeOK
  <1>1. Inv => TypeOK
    <2> SUFFICES ASSUME Inv PROVE TypeOK
      OBVIOUS
    <2>1. StateOK /\ TablesOK /\ InboxOK
      BY DEF Inv
    <2>2. routes \in [Node -> Seq(Route \cup {NoRoute})]
          /\ \A n \in Node : Len(routes[n]) <= MaxRoutes
      <3>1. \A n \in Node : routes[n] \in Seq(Route \cup {NoRoute}) /\ Len(routes[n]) <= MaxRoutes
        <4> TAKE n \in Node
        <4>1. GoodRoute(n) \subseteq Route
          BY DEF GoodRoute
        <4>2. routes[n] \in Tables(Route)
          BY <2>1, <4>1, TablesMonotonic DEF TablesOK
        <4> QED
          BY <4>2 DEF Tables
      <3> QED
        BY <2>1, <3>1 DEF TablesOK
    <2>3. queue \in [Node -> Seq(Queued)]
      <3>1. GoodQueued \subseteq Queued
        BY DEF GoodQueued
      <3>2. \A n \in Node : queue[n] \in Seq(Queued)
        BY <2>1, <3>1, SeqMonotonic DEF StateOK
      <3> QED
        BY <2>1, <3>2 DEF StateOK
    <2>4. inbox \in [Node -> Seq(Frame)] /\ \A n \in Node : Len(inbox[n]) <= InboxCap
      <3>1. \A n \in Node : inbox[n] \in Seq(Frame)
        BY <2>1, GoodFramesAreFrames, SeqMonotonic DEF InboxOK
      <3> QED
        BY <2>1, <3>1 DEF InboxOK
    <2> QED
      BY <2>1, <2>2, <2>3, <2>4 DEF TypeOK, StateOK
  <1> QED
    BY <1>1, Invariance, PTL

\* No table ever has two valid routes to one destination, so the first one
\* find_route meets is the only one.
THEOREM RoutesAreUnique == Spec => []UniqueRoutes
  <1>1. Inv => UniqueRoutes
    BY DEF Inv, TablesOK, Tables, UniqueIn, UniqueRoutes
  <1> QED
    BY <1>1, Invariance, PTL

\* A node whose identifier is not 0xFF never routes to itself.
THEOREM NoRouteToSelf == Spec => []NoSelfRoute
  <1>1. Inv => NoSelfRoute
    BY RoutesHeld DEF NoSelfRoute, HasRoute, Slots, GoodRoute
  <1> QED
    BY <1>1, Invariance, PTL

\* Where no node has the identifier 0xFF, every next hop is a node in range, or
\* one that the node's own host handed in with an update (mesh_send): what other
\* hosts hand in makes no node's next hops wrong.
THEOREM NextHopsAreHeard == Spec => []NextHopHeard
  <1>1. Inv => NextHopHeard
    BY RoutesHeld DEF NextHopHeard, GoodRoute, GoodHop
  <1> QED
    BY <1>1, Invariance, PTL

\* No route is numbered ahead of its destination, but by a number that a host
\* handed in for it (mesh_send), while numbers do not wrap and until the
\* destination restarts.
THEOREM NumbersAreSound == Spec => []SeqnoSound
  <1>1. Inv => SeqnoSound
    BY RoutesHeld DEF SeqnoSound, Slots, GoodRoute, NotAhead, NoWrap, Brought
  <1> QED
    BY <1>1, Invariance, PTL

\* No payload is sent more often on a path than its TTL allows.
THEOREM HopsAreBounded == Spec => []HopsBounded
  <1>1. Inv => HopsBounded
    <2> SUFFICES ASSUME Inv, NEW n \in Node, NEW i \in DOMAIN inbox[n],
                        inbox[n][i].kind = "data", inbox[n][i].target # Broadcast
                 PROVE  inbox[n][i].hops <= Ttl(inbox[n][i].msg)
      BY DEF HopsBounded, Frames
    <2> DEFINE f == inbox[n][i]
    <2>1. f \in GoodFrame(n)
      BY DEF Inv, InboxOK
    <2>2. f \in GoodData
      BY <2>1, FrameKinds
    <2> HIDE DEF f
    <2>3. /\ f.ttl >= 1 /\ f.ttl + f.hops <= Ttl(f.msg) + 1
          /\ f.ttl \in Nat /\ f.hops \in Nat /\ Ttl(f.msg) \in Nat
      BY <2>2, TtlPositive DEF GoodData, DataFrame, f
    <2>4. f.hops <= Ttl(f.msg)
      BY <2>3
    <2> QED
      BY <2>4 DEF f
  <1> QED
    BY <1>1, Invariance, PTL

\* Store and forward loses no payload without a trace: whatever fills the queue, the
\* dead letters and the buffers, one that no full table, used-up TTL, restart or
\* medium has dropped is queued, on its way, a dead letter or delivered (mesh_send,
\* mesh_recv, retry_queue).
THEOREM NoPayloadForgotten == Spec => []NoneForgotten
  <1>1. Spec => [](Inv /\ NoneForgotten)
    BY InvInit, InvStep, ForgottenInit, ForgottenStep, PTL DEF Spec
  <1> QED
    BY <1>1, PTL
\* No route claims that its destination is nearer than it is, however updates,
\* requests and expiries interleave, unless a host has handed in an update of or
\* about that destination (mesh_send), and as long as no metric comes to the top of
\* its byte: handle_route_update and send_rreq add one without a test, and 255
\* becomes 0.
THEOREM MetricsAreSound == Spec /\ []MetricsFit => []MetricSound
  <1>1. NearInv(Told) => MetricSound
    <2> SUFFICES ASSUME NearInv(Told), NEW n \in Node, NEW d \in Node,
                        NEW i \in Slots(routes[n], d), d \notin Told
                 PROVE  n \in Within[d][routes[n][i].metric]
      BY TableAssumption DEF MetricSound, Told
    <2>1. routes[n] \in Seq(NearRoute(n, Told) \cup {NoRoute})
      BY DEF NearInv, Tables
    <2>2. routes[n][i] \in NearRoute(n, Told) /\ routes[n][i].node = d
      BY <2>1 DEF Slots
    <2> QED
      BY <2>2 DEF NearRoute, Near
  <1>2. Init => NearInv(Told)
    BY NearInit
  <1>3. Spec /\ []MetricsFit => []NearInv(Told)
    BY Invariance, <1>2, NearStep, PTL DEF Spec
  <1> QED
    BY <1>1, <1>3, PTL

-----------------------------------------------------------------------------
(* Why a queue is emptied: no entry stays in it but by using up its retries. *)

\* Each retry is preceded by RetryAge units of time.
Tries(k) == k * (RetryAge + 1)

\* How many units of time and ticks an entry can still see in the queue.
Life(e) == Tries(MaxRetries - e.retries) - e.age

Same(e, f) ==
  f.msg = e.msg /\ f.dest = e.dest /\ f.ttl = e.ttl /\ f.hops = e.hops

IsNew(e) == e.age = 0 /\ e.retries = 0

\* The entry that n holds at i has become f.
Lives(n, i, f) == Same(queue[n][i], f) /\ Life(f) <= Life(queue[n][i])
Hurries(n, i, f) == Life(f) < Life(queue[n][i])

\* Every entry of n's queue comes from one that was there, no two from the same, and is
\* no younger than that; one of those at the indices `hurried' has come nearer to its end.
\* At most one is new.
Continues(n, hurried) ==
  \E from \in Injection(DOMAIN queue'[n], 1..(Len(queue[n]) + 1)) :
    \A k \in DOMAIN queue'[n] :
      IF from[k] \in DOMAIN queue[n]
      THEN /\ Lives(n, from[k], queue'[n][k])
           /\ from[k] \in hurried => Hurries(n, from[k], queue'[n][k])
      ELSE IsNew(queue'[n][k])

\* Time brings nearer to its end what is not due, and mesh_tick what is.
QueueProgress ==
  \A n \in Node :
    /\ Continues(n, {})
    /\ Elapse => Continues(n, DOMAIN queue[n] \ Due(n))
    /\ Tick(n) => Continues(n, Due(n))

LifeBounded ==
  \A n \in Node : \A i \in DOMAIN queue[n] : Life(queue[n][i]) \in 1..Tries(MaxRetries)

LEMMA OneMoreTry ==
  ASSUME NEW k \in Nat
  PROVE  /\ Tries(k) \in Nat /\ RetryAge \in Nat
         /\ Tries(k + 1) = Tries(k) + RetryAge + 1
  <1>1. RetryAge \in Nat /\ RetryAge + 1 \in Nat
    BY MeshAssumption
  <1>2. \A T \in Nat : k * T \in Nat /\ (k + 1) * T = k * T + T
    OBVIOUS
  <1>3. k * (RetryAge + 1) \in Nat
        /\ (k + 1) * (RetryAge + 1) = k * (RetryAge + 1) + (RetryAge + 1)
    BY <1>1, <1>2
  <1> QED
    BY <1>1, <1>3 DEF Tries

LEMMA FewerTries ==
  ASSUME NEW j \in Nat, NEW k \in Nat, j <= k
  PROVE  Tries(j) <= Tries(k)
  <1>1. \A d \in Nat, T \in Nat : d * T \in Nat /\ j * T \in Nat /\ (j + d) * T = j * T + d * T
    OBVIOUS
  <1>2. PICK d \in Nat : k = j + d
    <2>1. k - j \in Nat /\ k = j + (k - j)
      OBVIOUS
    <2> QED
      BY <2>1
  <1>3. RetryAge + 1 \in Nat
    BY MeshAssumption
  <1>4. /\ d * (RetryAge + 1) \in Nat /\ j * (RetryAge + 1) \in Nat
        /\ k * (RetryAge + 1) = j * (RetryAge + 1) + d * (RetryAge + 1)
    BY <1>1, <1>2, <1>3
  <1> QED
    BY <1>4 DEF Tries

\* An entry has time left, and both a unit of time and a retry shorten it by one.
LEMMA LifeShortens ==
  ASSUME NEW e \in Queued
  PROVE  /\ Life(e) \in 1..Tries(MaxRetries)
         /\ e.age < RetryAge => Life([e EXCEPT !.age = @ + 1]) = Life(e) - 1
         /\ e.age >= RetryAge /\ e.retries + 1 < MaxRetries
              => Life([e EXCEPT !.age = 0, !.retries = @ + 1]) = Life(e) - 1
  <1> DEFINE left == MaxRetries - e.retries
  <1>1. /\ e.retries \in 0..(MaxRetries - 1) /\ e.age \in 0..RetryAge
        /\ RetryAge \in Nat /\ MaxRetries \in Nat
    BY MeshAssumption DEF Queued
  <1>2. left \in Nat /\ left - 1 \in Nat /\ left <= MaxRetries /\ left = (left - 1) + 1
        /\ left - 1 = MaxRetries - (e.retries + 1)
    BY <1>1
  <1>3. Tries(left - 1) \in Nat /\ Tries(left) = Tries(left - 1) + RetryAge + 1
    BY <1>2, OneMoreTry
  <1>4. Tries(left) <= Tries(MaxRetries) /\ Tries(MaxRetries) \in Nat
    BY <1>1, <1>2, FewerTries, OneMoreTry
  <1>5. Life(e) = Tries(left) - e.age
    BY DEF Life
  <1>6. Life([e EXCEPT !.age = @ + 1]) = Tries(left) - (e.age + 1)
    <2>1. [e EXCEPT !.age = @ + 1].age = e.age + 1 /\ [e EXCEPT !.age = @ + 1].retries = e.retries
      BY DEF Queued
    <2> QED
      BY <2>1 DEF Life
  <1>7. Life([e EXCEPT !.age = 0, !.retries = @ + 1]) = Tries(left - 1) - 0
    <2>1. /\ [e EXCEPT !.age = 0, !.retries = @ + 1].age = 0
          /\ [e EXCEPT !.age = 0, !.retries = @ + 1].retries = e.retries + 1
      BY DEF Queued
    <2> QED
      BY <1>2, <2>1 DEF Life
  <1> HIDE DEF left
  <1>8. Life(e) \in 1..Tries(MaxRetries)
    BY <1>1, <1>3, <1>4, <1>5
  <1>9. e.age < RetryAge => Life([e EXCEPT !.age = @ + 1]) = Life(e) - 1
    BY <1>1, <1>3, <1>5, <1>6
  <1>10. e.age >= RetryAge => Life([e EXCEPT !.age = 0, !.retries = @ + 1]) = Life(e) - 1
    <2>1. e.age >= RetryAge => e.age = RetryAge
      BY <1>1
    <2> QED
      BY <1>1, <1>3, <1>5, <1>7, <2>1
  <1> QED
    BY <1>8, <1>9, <1>10

LEMMA QueueIndices ==
  ASSUME StateOK, NEW n \in Node
  PROVE  /\ Len(queue[n]) \in Nat /\ DOMAIN queue[n] = 1..Len(queue[n])
         /\ \A i \in DOMAIN queue[n] : queue[n][i] \in Queued /\ Life(queue[n][i]) \in Int
  <1>1. \A i \in DOMAIN queue[n] : queue[n][i] \in Queued
    BY EntryQueued
  <1>2. \A i \in DOMAIN queue[n] : Life(queue[n][i]) \in Int
    <2> TAKE i \in DOMAIN queue[n]
    <2>1. Life(queue[n][i]) \in 1..Tries(MaxRetries) /\ Tries(MaxRetries) \in Nat
      BY <1>1, LifeShortens, OneMoreTry, MeshAssumption
    <2> QED
      BY <2>1
  <1> QED
    BY <1>1, <1>2, LenProperties DEF StateOK

\* Nothing of n's queue is touched.
LEMMA UntouchedContinues ==
  ASSUME StateOK, NEW n \in Node, queue'[n] = queue[n]
  PROVE  Continues(n, {})
  <1> DEFINE from == [k \in DOMAIN queue[n] |-> k]
  <1>1. /\ Len(queue[n]) \in Nat /\ DOMAIN queue[n] = 1..Len(queue[n])
        /\ \A i \in DOMAIN queue[n] : Life(queue[n][i]) \in Int
    BY QueueIndices
  <1>2. from \in Injection(DOMAIN queue'[n], 1..(Len(queue[n]) + 1))
    BY <1>1 DEF Injection, IsInjective
  <1>3. \A k \in DOMAIN queue'[n] : from[k] = k /\ Lives(n, k, queue'[n][k])
    BY <1>1 DEF Lives, Same
  <1> HIDE DEF from
  <1> QED
    BY <1>2, <1>3 DEF Continues

\* An entry is added at the end.
LEMMA EnqueueContinues ==
  ASSUME StateOK, NEW n \in Node, NEW m \in Node, NEW e, IsNew(e), Enqueue(m, e)
  PROVE  Continues(n, {})
  <1>1. queue \in [Node -> Seq(GoodQueued)]
    BY DEF StateOK
  <1>2. CASE n # m
    BY <1>1, <1>2, UntouchedContinues DEF Enqueue
  <1>3. CASE n = m
    <2> DEFINE N == Len(queue[n])
               from == [k \in 1..(N + 1) |-> k]
    <2>1. /\ N \in Nat /\ DOMAIN queue[n] = 1..N
          /\ \A i \in DOMAIN queue[n] : Life(queue[n][i]) \in Int
      BY QueueIndices
    <2>2. queue'[n] = Append(queue[n], e)
      BY <1>1, <1>3 DEF Enqueue
    <2>3. /\ DOMAIN queue'[n] = 1..(N + 1)
          /\ \A k \in 1..N : queue'[n][k] = queue[n][k]
          /\ queue'[n][N + 1] = e
      BY <2>1, <2>2
    <2>4. from \in Injection(DOMAIN queue'[n], 1..(N + 1))
      BY <2>3 DEF Injection, IsInjective
    <2>5. ASSUME NEW k \in DOMAIN queue'[n]
          PROVE  IF k \in DOMAIN queue[n] THEN Lives(n, k, queue'[n][k]) ELSE IsNew(queue'[n][k])
      <3>1. CASE k \in 1..N
        BY <2>1, <2>3, <3>1 DEF Lives, Same
      <3>2. CASE k = N + 1
        BY <2>1, <2>3, <3>2
      <3> QED
        BY <2>1, <2>3, <3>1, <3>2
    <2>6. \A k \in DOMAIN queue'[n] : from[k] = k
      BY <2>3
    <2> HIDE DEF from
    <2> QED
      BY <2>4, <2>5, <2>6 DEF Continues
  <1> QED
    BY <1>2, <1>3

\* Time passes.
LEMMA ElapseContinues ==
  ASSUME StateOK, NEW n \in Node, Elapse
  PROVE  Continues(n, DOMAIN queue[n] \ Due(n))
  <1> DEFINE q == queue[n]
             from == [k \in DOMAIN q |-> k]
  <1>1. /\ Len(q) \in Nat /\ DOMAIN q = 1..Len(q)
        /\ \A i \in DOMAIN q : q[i] \in Queued /\ Life(q[i]) \in Int
    BY QueueIndices
  <1>2. queue'[n] = [i \in DOMAIN q |-> IF q[i].age < RetryAge
                                        THEN [q[i] EXCEPT !.age = @ + 1] ELSE q[i]]
    BY DEF Elapse
  <1>3. from \in Injection(DOMAIN queue'[n], 1..(Len(q) + 1))
    BY <1>1, <1>2 DEF Injection, IsInjective
  <1>4. ASSUME NEW k \in DOMAIN queue'[n]
        PROVE  /\ k \in DOMAIN q /\ Lives(n, k, queue'[n][k])
               /\ k \notin Due(n) => Hurries(n, k, queue'[n][k])
    <2>1. k \in DOMAIN q /\ q[k] \in Queued /\ q[k].age \in Nat /\ RetryAge \in Nat
      BY <1>1, <1>2, MeshAssumption DEF Queued
    <2>2. CASE q[k].age < RetryAge
      <3>1. queue'[n][k] = [q[k] EXCEPT !.age = @ + 1]
        BY <1>2, <2>1, <2>2
      <3>2. Same(q[k], queue'[n][k])
        BY <2>1, <3>1 DEF Same, Queued
      <3>3. Life(queue'[n][k]) = Life(q[k]) - 1
        BY <2>1, <2>2, <3>1, LifeShortens
      <3> QED
        BY <1>1, <2>1, <3>2, <3>3 DEF Lives, Hurries
    <2>3. CASE ~(q[k].age < RetryAge)
      <3>1. queue'[n][k] = q[k] /\ k \in Due(n)
        BY <1>2, <2>1, <2>3 DEF Due
      <3> QED
        BY <1>1, <2>1, <3>1 DEF Lives, Same
    <2> QED
      BY <2>2, <2>3
  <1>5. \A k \in DOMAIN queue'[n] : from[k] = k
    BY <1>2
  <1> HIDE DEF from
  <1> QED
    BY <1>3, <1>4, <1>5 DEF Continues

\* mesh_tick: what stays stays in its order, and what was due has one retry less.
LEMMA TickContinues ==
  ASSUME StateOK, NEW n \in Node, Tick(n)
  PROVE  Continues(n, Due(n))
  <1> DEFINE t == Expire(routes[n])
             N == Len(queue[n])
             S == DOMAIN queue[n] \ (Routable(n, t) \cup Exhausted(n, t))
             q == [i \in DOMAIN queue[n] |->
                     IF i \in Retried(n, t)
                     THEN [queue[n][i] EXCEPT !.age = 0, !.retries = @ + 1]
                     ELSE queue[n][i]]
             c == Cardinality(S)
             from == [k \in 1..c |-> Nth(S, k)]
  <1>1. /\ N \in Nat /\ DOMAIN queue[n] = 1..N
        /\ \A i \in DOMAIN queue[n] : queue[n][i] \in Queued /\ Life(queue[n][i]) \in Int
    BY QueueIndices
  <1>2. queue'[n] = QueueLeft(n, t)
    BY DEF Tick, StateOK
  <1>3. QueueLeft(n, t) = Keep(q, S)
    BY DEF QueueLeft
  <1>4. S \subseteq 1..N
    BY <1>1
  <1>5. ASSUME NEW i \in S
        PROVE  Lives(n, i, q[i]) /\ (i \in Due(n) => Hurries(n, i, q[i]))
    <2>1. i \in DOMAIN queue[n] /\ queue[n][i] \in Queued /\ Life(queue[n][i]) \in Int
      BY <1>1
    <2>2. CASE i \in Due(n)
      <3>1. i \in Retried(n, t) /\ ~(queue[n][i].retries + 1 >= MaxRetries)
        BY <2>2 DEF Retried, Exhausted
      <3>2. q[i] = [queue[n][i] EXCEPT !.age = 0, !.retries = @ + 1]
        BY <2>1, <3>1
      <3>3. queue[n][i].age >= RetryAge
        BY <2>2 DEF Due
      <3>4. queue[n][i].retries + 1 < MaxRetries
        <4>1. queue[n][i].retries \in Int /\ MaxRetries \in Int
          BY <2>1, MeshAssumption DEF Queued
        <4> QED
          BY <3>1, <4>1
      <3> HIDE DEF q
      <3>5. Same(queue[n][i], q[i])
        BY <2>1, <3>2 DEF Same, Queued
      <3>6. Life(q[i]) = Life(queue[n][i]) - 1
        BY <2>1, <3>2, <3>3, <3>4, LifeShortens
      <3> QED
        BY <2>1, <3>5, <3>6 DEF Lives, Hurries
    <2>3. CASE i \notin Due(n)
      <3>1. q[i] = queue[n][i]
        BY <2>1, <2>3 DEF Retried
      <3> HIDE DEF q
      <3> QED
        BY <2>1, <2>3, <3>1 DEF Lives, Same
    <2> QED
      BY <2>2, <2>3
  <1> HIDE DEF S, q, t, N
  <1>6. DOMAIN Keep(q, S) = 1..c /\ \A k \in 1..c : Keep(q, S)[k] = q[Nth(S, k)]
    BY DEF Keep
  <1>7. \A k \in 1..c : Nth(S, k) \in S /\ Rank(S, Nth(S, k)) = k
    BY <1>1, <1>4, NthExists
  <1>8. from \in Injection(DOMAIN queue'[n], 1..(Len(queue[n]) + 1))
    <2>1. 1..N \subseteq 1..(Len(queue[n]) + 1)
      BY <1>1 DEF N
    <2>2. DOMAIN queue'[n] = 1..c
      BY <1>2, <1>3, <1>6
    <2>3. from \in [1..c -> 1..(Len(queue[n]) + 1)]
      BY <1>4, <1>7, <2>1
    <2>4. \A j, k \in 1..c : from[j] = from[k] => j = k
      BY <1>7
    <2> QED
      BY <2>2, <2>3, <2>4 DEF Injection, IsInjective
  <1>9. ASSUME NEW k \in DOMAIN queue'[n]
        PROVE  /\ from[k] \in S /\ from[k] \in DOMAIN queue[n]
               /\ queue'[n][k] = q[from[k]]
    BY <1>1, <1>2, <1>3, <1>4, <1>6, <1>7
  <1> HIDE DEF from
  <1> QED
    BY <1>5, <1>8, <1>9 DEF Continues

\* Every other step adds an entry or leaves the queue alone; a restart forgets it.
LEMMA StepContinues ==
  ASSUME StateOK, [Next]_vars, NEW n \in Node
  PROVE  Continues(n, {})
  <1>1. queue \in [Node -> Seq(GoodQueued)]
    BY DEF StateOK
  <1>2. CASE Elapse
    BY <1>2, ElapseContinues DEF Continues
  <1>3. ASSUME NEW m \in Node, Tick(m)
        PROVE  Continues(n, {})
    <2>1. CASE m = n
      BY <1>3, <2>1, TickContinues DEF Continues
    <2>2. CASE m # n
      BY <1>1, <1>3, <2>2, UntouchedContinues DEF Tick
    <2> QED
      BY <2>1, <2>2
  <1>4. ASSUME NEW m \in Node, Send(m)
        PROVE  Continues(n, {})
    <2>1. ASSUME NEW p \in Msg, SendQueued(m, p)
          PROVE  Continues(n, {})
      <3>1. queue' = queue \/ Enqueue(m, Entry(p, p.to, Ttl(p), 0))
        BY <2>1 DEF SendQueued
      <3>2. IsNew(Entry(p, p.to, Ttl(p), 0))
        BY DEF Entry, IsNew
      <3> QED
        BY <3>1, <3>2, UntouchedContinues, EnqueueContinues
    <2>2. \/ queue' = queue
          \/ \E p \in Msg : SendQueued(m, p)
      BY <1>4 DEF Send, SendBroadcast, SendToSelf, SendRouted, SendUpdate
    <2> QED
      BY <2>1, <2>2, UntouchedContinues
  <1>5. ASSUME NEW m \in Node, Recv(m)
        PROVE  Continues(n, {})
    <2>1. CASE RecvStore(m)
      <3> DEFINE e == Entry(Head(inbox[m]).msg, Head(inbox[m]).target, Head(inbox[m]).ttl - 1,
                            Head(inbox[m]).hops)
      <3>1. queue' = queue \/ Enqueue(m, e)
        BY <2>1 DEF RecvStore
      <3>2. IsNew(e)
        BY DEF Entry, IsNew
      <3> HIDE DEF e
      <3> QED
        BY <3>1, <3>2, UntouchedContinues, EnqueueContinues
    <2>2. queue' = queue \/ RecvStore(m)
      BY <1>5 DEF Recv, RecvUpdate, RecvRequestForMe, RecvRequestForOther, RecvReply,
                  RecvDeliver, RecvTtlExpired, RecvForward
    <2> QED
      BY <2>1, <2>2, UntouchedContinues
  <1>6. ASSUME NEW m \in Node, Restart(m)
        PROVE  Continues(n, {})
    <2>1. CASE m = n
      <3>1. queue'[n] = <<>>
        BY <1>1, <1>6, <2>1 DEF Restart
      <3>2. <<>> \in Injection(DOMAIN <<>>, 1..(Len(queue[n]) + 1))
        BY DEF Injection, IsInjective
      <3> QED
        BY <3>1, <3>2 DEF Continues
    <2>2. CASE m # n
      BY <1>1, <1>6, <2>2, UntouchedContinues DEF Restart
    <2> QED
      BY <2>1, <2>2
  <1>7. CASE UNCHANGED queue
    BY <1>7, UntouchedContinues
  <1>8. (\E m \in Node : Lose(m) \/ GetRouteCount(m)) \/ UNCHANGED vars => UNCHANGED queue
    BY DEF Lose, GetRouteCount, vars
  <1> QED
    BY <1>2, <1>3, <1>4, <1>5, <1>6, <1>7, <1>8 DEF Next

\* Every entry of a store-and-forward queue has at least one more unit of time or tick to
\* go, and never more than OMI_MESH_MAX_RETRIES retries take.
THEOREM LivesAreBounded == Spec => []LifeBounded
  <1>1. Inv => LifeBounded
    BY EntryQueued, LifeShortens DEF Inv, LifeBounded
  <1> QED
    BY <1>1, Invariance, PTL

\* retry_queue keeps nothing for ever: no step of any node gives an entry more time; a unit
\* of time takes one from each that is not due, and mesh_tick one from each that is due and
\* stays, whatever is added and compacted meanwhile.  With time that passes and a host that
\* keeps calling available(), the queue is therefore emptied of all that is in it.
THEOREM QueuesRunDown == Spec => [][QueueProgress]_vars
  <1>1. Inv /\ [Next]_vars => [QueueProgress]_vars
    BY StepContinues, ElapseContinues, TickContinues DEF Inv, QueueProgress
  <1> QED
    BY <1>1, Invariance, PTL DEF Spec

-----------------------------------------------------------------------------
(* Route requests. *)

\* Where no node has the identifier 0xFF, a request that is pending remains so.
Unanswered ==
  Broadcast \notin Node =>
    \A n \in Node : rreq[n].pending /\ n \notin restarted' \ restarted => rreq'[n].pending

\* No reply is ever on its way.
LEMMA NoReplyArrives ==
  ASSUME Inv, Broadcast \notin Node, NEW n \in Node
  PROVE  ~RecvReply(n)
  <1> SUFFICES ASSUME inbox[n] # <<>>, Head(inbox[n]).kind = "rrep"
               PROVE  FALSE
    BY DEF RecvReply, Arrives
  <1>1. Head(inbox[n]) \in GoodFrame(n)
    BY DEF Inv, InboxOK
  <1>2. Head(inbox[n]) \in GoodRequest
    BY <1>1, FrameKinds
  <1> QED
    BY <1>2 DEF GoodRequest

LEMMA RequestsStay ==
  ASSUME Inv, [Next]_vars, Broadcast \notin Node, NEW n \in Node, rreq[n].pending,
         n \notin restarted' \ restarted
  PROVE  rreq'[n].pending
  <1>1. rreq \in [Node -> Request] /\ rreq[n].pending \in BOOLEAN
    BY DEF Inv, StateOK, Request
  <1>2. CASE Elapse
    <2>1. rreq'[n] = rreq[n] \/ rreq'[n] = [rreq[n] EXCEPT !.age = @ + 1]
      BY <1>2 DEF Elapse
    <2> QED
      BY <1>1, <2>1 DEF Request
  <1>3. ASSUME NEW m \in Node, Tick(m)
        PROVE  rreq'[n].pending
    <2>1. rreq' = rreq \/ rreq' = [rreq EXCEPT ![m].retries = @ + 1, ![m].age = 0]
      BY <1>3 DEF Tick
    <2> QED
      BY <1>1, <2>1 DEF Request
  <1>4. ASSUME NEW m \in Node, Send(m)
        PROVE  rreq'[n].pending
    <2>1. ASSUME NEW p \in Msg, SendQueued(m, p)
          PROVE  rreq'[n].pending
      <3>1. \/ rreq' = rreq
            \/ rreq' = [rreq EXCEPT ![m] = [pending |-> TRUE, dest |-> p.to,
                                            seqno |-> (rreq[m].seqno + 1) % SeqMod,
                                            age |-> 0, retries |-> 0]]
        BY <2>1 DEF SendQueued
      <3> QED
        BY <1>1, <3>1
    <2>2. rreq' = rreq \/ \E p \in Msg : SendQueued(m, p)
      BY <1>4 DEF Send, SendBroadcast, SendToSelf, SendRouted, SendUpdate
    <2> QED
      BY <2>1, <2>2
  <1>5. ASSUME NEW m \in Node, Recv(m)
        PROVE  rreq' = rreq
    BY <1>5, NoReplyArrives
       DEF Recv, RecvUpdate, RecvRequestForMe, RecvRequestForOther, RecvDeliver, RecvTtlExpired,
           RecvForward, RecvStore
  <1>6. ASSUME NEW m \in Node, Restart(m)
        PROVE  rreq'[n].pending
    <2>1. m # n
      BY <1>6 DEF Restart
    <2> QED
      BY <1>1, <1>6, <2>1 DEF Restart
  <1>7. (\E m \in Node : Lose(m) \/ GetRouteCount(m)) \/ UNCHANGED vars => rreq' = rreq
    BY DEF Lose, GetRouteCount, vars
  <1> QED
    BY <1>2, <1>3, <1>4, <1>5, <1>6, <1>7 DEF Next

\* The finding of the run `request', for every network without a node named 0xFF: a node
\* that has once sent a route request has one pending until it restarts, whatever the
\* medium does and however many nodes hear it, because send_rreq overwrites target[0].
THEOREM RequestsStayPending == Spec => [][Unanswered]_vars
  <1>1. Inv /\ [Next]_vars => [Unanswered]_vars
    BY RequestsStay DEF Unanswered
  <1> QED
    BY <1>1, Invariance, PTL DEF Spec

=============================================================================
