-------------------------------- MODULE Mesh --------------------------------
(***************************************************************************)
(* A network of omi-isa mesh nodes (lib/omi_mesh.c): DSDV-style route      *)
(* updates, on-demand route requests, data forwarding with a TTL, a        *)
(* store-and-forward queue with retries, and dead letters.                 *)
(*                                                                         *)
(* Each node runs mesh_send and mesh_recv when its host calls them, and    *)
(* mesh_tick when the host calls available().  The transport below is a    *)
(* broadcast medium: what a node sends reaches the receive buffer of every *)
(* neighbour, in order, unless it is lost.                                 *)
(***************************************************************************)
EXTENDS MeshTable

CONSTANTS Broadcast,     \* the address 0xFF
          Nbr,           \* Nbr[n]: the nodes that hear n
          Msg,           \* application payloads, [from, to, ttl] records
          HostUpdate,    \* HostUpdate[n]: route updates the host of n may send
          MaxQueue,      \* OMI_MESH_MAX_QUEUE
          MaxDead,       \* OMI_MESH_DEAD_LETTER_MAX
          TtlDefault,    \* OMI_MESH_TTL_DEFAULT
          FloodAge,      \* OMI_MESH_FLOOD_INTERVAL, in units of Elapse
          RetryAge,      \* OMI_MESH_RETRY_INTERVAL
          MaxRetries,    \* OMI_MESH_MAX_RETRIES
          RreqAge,       \* OMI_MESH_RREQ_RETRY_INTERVAL
          RreqRetries,   \* OMI_MESH_RREQ_MAX_RETRIES
          InboxCap,      \* frames a receive buffer holds
          MaxSeqno,      \* bound: n does not flood past MaxSeqno[n]
          MayRestart     \* bound: the nodes that may restart, once each

\* What mesh_send reads of an update: target[1], target[2] and relation.
HostFrame == [origin: Addr, seqno: Seqno, adverts: Seq(Advert)]

ASSUME MeshAssumption ==
  /\ Nbr \in [Node -> SUBSET Node]
  /\ Broadcast \in Addr
  /\ \A n \in Node : HostUpdate[n] \subseteq HostFrame
  /\ Msg \subseteq [from: Node, to: Addr, ttl: Nat]
  /\ MaxQueue \in Nat /\ MaxDead \in Nat /\ InboxCap \in Nat
  /\ TtlDefault \in Nat \ {0}
  /\ FloodAge \in Nat /\ RetryAge \in Nat /\ RreqAge \in Nat
  /\ MaxRetries \in Nat \ {0} /\ RreqRetries \in Nat
  /\ MaxSeqno \in [Node -> Nat]
  /\ MayRestart \subseteq Node

VARIABLES
  routes,      \* routes[n]: the routing table
  seqno,       \* seqno[n]: the number of n's last update
  floodAge,    \* floodAge[n]: time since last_flood
  rreq,        \* rreq[n]: the one route request n can have pending
  queue,       \* queue[n]: store-and-forward entries, valid ones only
  dead,        \* dead[n]: dead letters
  inbox,       \* inbox[n]: frames in n's receive buffer
  restarted,   \* the nodes that have restarted
  handed,      \* handed[n]: updates that n took over from its own host
  submitted,   \* payloads handed to mesh_send
  delivered,   \* delivered[n]: payloads mesh_recv gave to n's host
  lost         \* payloads of which the medium or a restart lost a copy

vars == <<routes, seqno, floodAge, rreq, queue, dead, inbox, restarted, handed,
          submitted, delivered, lost>>

-----------------------------------------------------------------------------
(* Frames: the envelope fields that the mesh layer reads. *)

\* make_route_update, for the table t; flood_routes has raised the number.
Update(n, t) ==
  [kind |-> "update", origin |-> n, seqno |-> (seqno[n] + 1) % SeqMod,
   adverts |-> Adverts(t)]

\* send_rreq stores the wanted node in target[0] and then overwrites it.
RouteRequest(n, s, hops) ==
  [kind |-> "rreq", target |-> Broadcast, origin |-> n, seqno |-> s, hops |-> hops]

RouteReply(n, s, hops) ==
  [kind |-> "rrep", target |-> Broadcast, origin |-> n, seqno |-> s, hops |-> hops]

\* target is target[0]; hops counts transmissions and is not in the envelope.
\* Its first byte, orientation[0], is the host's: mesh_send writes no marker there.
\* A payload whose byte is one of the markers 4 and 5 would be taken for a request
\* or a reply by its receivers; the payloads of Msg have another byte.
Data(target, m, ttl, hops) ==
  [kind |-> "data", target |-> target, msg |-> m, ttl |-> ttl, hops |-> hops]

Ttl(m) == IF m.ttl = 0 THEN TtlDefault ELSE m.ttl

Payloads(frames) ==
  {frames[i].msg : i \in {j \in DOMAIN frames : frames[j].kind = "data"}}

-----------------------------------------------------------------------------
(* The medium. *)

\* n sends the frames `out'; box is the contents of the buffers before.
Transmit(n, out, box) ==
  [m \in Node |-> IF m \in Nbr[n] THEN Fit(box[m] \o out, InboxCap) ELSE box[m]]

\* The payloads of which some neighbour's full buffer misses a copy, or which nobody
\* hears.
Missed(n, out, box) ==
  IF Nbr[n] = {} \/ \E m \in Nbr[n] : Len(box[m] \o out) > InboxCap
  THEN Payloads(out) ELSE {}

Rest(n) == [inbox EXCEPT ![n] = Tail(@)]

\* n does nothing but send `out', having taken a frame off its buffer or not.
Sends(n, out, box) ==
  /\ inbox' = Transmit(n, out, box)
  /\ lost' = lost \cup Missed(n, out, box)

\* A frame addressed to n arrives; the next one in its buffer is of this kind.
Arrives(n, kind) == inbox[n] # <<>> /\ Head(inbox[n]).kind = kind

-----------------------------------------------------------------------------
(* Store and forward. *)

Entry(m, dest, ttl, hops) ==
  [msg |-> m, dest |-> dest, ttl |-> ttl, hops |-> hops, age |-> 0, retries |-> 0]

Letter(m, dest, ttl, reason) ==
  [msg |-> m, dest |-> dest, ttl |-> ttl, reason |-> reason]

QueueFull(n) == Len(queue[n]) >= MaxQueue

Enqueue(n, e) == queue' = [queue EXCEPT ![n] = Append(@, e)]

Bury(n, letters) == dead' = [dead EXCEPT ![n] = Fit(@ \o letters, MaxDead)]

-----------------------------------------------------------------------------
Init ==
  /\ routes = [n \in Node |-> <<>>]
  /\ seqno = [n \in Node |-> 0]
  /\ floodAge = [n \in Node |-> 0]
  /\ rreq = [n \in Node |-> [pending |-> FALSE, dest |-> Broadcast, seqno |-> 0,
                             age |-> 0, retries |-> 0]]
  /\ queue = [n \in Node |-> <<>>]
  /\ dead = [n \in Node |-> <<>>]
  /\ inbox = [n \in Node |-> <<>>]
  /\ restarted = {}
  /\ handed = [n \in Node |-> {}]
  /\ submitted = {}
  /\ delivered = [n \in Node |-> {}]
  /\ lost = {}

-----------------------------------------------------------------------------
(* mesh_send: the host of m.from hands the payload m to the mesh layer. *)

Submit(m) ==
  /\ m \in Msg \ submitted
  /\ submitted' = submitted \cup {m}
  /\ UNCHANGED <<routes, seqno, floodAge, dead, restarted, handed, delivered>>

\* To the broadcast address: passed to the medium as it is.
SendBroadcast(n, m) ==
  /\ Submit(m) /\ m.from = n
  /\ m.to = Broadcast
  /\ Sends(n, <<Data(Broadcast, m, m.ttl, 1)>>, inbox)
  /\ UNCHANGED <<rreq, queue>>

\* To the node itself: reported as sent, and dropped.
SendToSelf(n, m) ==
  /\ Submit(m) /\ m.from = n
  /\ m.to # Broadcast /\ m.to = n
  /\ lost' = lost \cup {m}
  /\ UNCHANGED <<inbox, rreq, queue>>

\* By a known route; a TTL that reaches zero drops the payload instead.
SendRouted(n, m) ==
  /\ Submit(m) /\ m.from = n
  /\ m.to \notin {Broadcast, n} /\ HasRoute(routes[n], m.to)
  /\ IF Ttl(m) = 1
     THEN lost' = lost \cup {m} /\ UNCHANGED inbox
     ELSE Sends(n, <<Data(FindRoute(routes[n], m.to).nextHop, m, Ttl(m) - 1, 1)>>, inbox)
  /\ UNCHANGED <<rreq, queue>>

\* No route: request one, unless that request is pending, and queue.
SendQueued(n, m) ==
  /\ Submit(m) /\ m.from = n
  /\ m.to \notin {Broadcast, n} /\ ~HasRoute(routes[n], m.to)
  /\ LET s == (rreq[n].seqno + 1) % SeqMod
         asked == rreq[n].pending /\ rreq[n].dest = m.to
     IN  /\ rreq' = IF asked THEN rreq
                    ELSE [rreq EXCEPT ![n] = [pending |-> TRUE, dest |-> m.to,
                                              seqno |-> s, age |-> 0, retries |-> 0]]
         /\ inbox' = IF asked THEN inbox
                     ELSE Transmit(n, <<RouteRequest(n, s, 1)>>, inbox)
  /\ IF QueueFull(n)
     THEN lost' = lost \cup {m} /\ UNCHANGED queue
     ELSE Enqueue(n, Entry(m, m.to, Ttl(m), 0)) /\ UNCHANGED lost

\* flood_routes raises the number; a bounded model floods no more at MaxSeqno.
CanFlood(n) == seqno[n] < MaxSeqno[n]

\* A route update handed to mesh_send: n takes it in as if it had been received,
\* whatever it says and of whichever node, and floods its table.  The update a
\* node's own host makes for it (test_mesh.c) is Ignored; a SYNC_COMMIT
\* (omi_probe.c) has the same marker and is taken for an update of node 0.
SendUpdate(n, u) ==
  /\ CanFlood(n) /\ u \in HostUpdate[n]
  /\ LET t == ApplyUpdate(routes[n], n, u)
     IN  /\ routes' = [routes EXCEPT ![n] = t]
         /\ inbox' = Transmit(n, <<Update(n, t)>>, inbox)
  /\ seqno' = [seqno EXCEPT ![n] = (@ + 1) % SeqMod]
  /\ handed' = IF Ignored(routes[n], n, u) THEN handed
               ELSE [handed EXCEPT ![n] = @ \cup {u}]
  /\ UNCHANGED <<floodAge, rreq, queue, dead, restarted, submitted, delivered, lost>>

-----------------------------------------------------------------------------
(* mesh_recv: the host of n takes the next frame off the transport. *)

RecvUpdate(n) ==
  /\ Arrives(n, "update")
  /\ routes' = [routes EXCEPT ![n] = ApplyUpdate(@, n, Head(inbox[n]))]
  /\ inbox' = Rest(n)
  /\ UNCHANGED <<seqno, floodAge, rreq, queue, dead, restarted, handed, submitted, delivered, lost>>

\* A request for n itself: learn the requester, and reply.
RecvRequestForMe(n) ==
  /\ Arrives(n, "rreq") /\ Head(inbox[n]).target = n
  /\ LET f == Head(inbox[n])
     IN  /\ routes' = [routes EXCEPT ![n] =
                          AddIfUnknown(@, FreshRoute(f.origin, f.origin, f.hops, 0))]
         /\ inbox' = Transmit(n, <<RouteReply(n, f.seqno, f.hops)>>, Rest(n))
  /\ UNCHANGED <<seqno, floodAge, rreq, queue, dead, restarted, handed, submitted, delivered, lost>>

\* A request for another node is sent on, whoever sent it and however often.
RecvRequestForOther(n) ==
  /\ Arrives(n, "rreq") /\ Head(inbox[n]).target # n
  /\ LET f == Head(inbox[n])
     IN  inbox' = Transmit(n, <<RouteRequest(f.origin, f.seqno, (f.hops + 1) % MetricMod)>>,
                           Rest(n))
  /\ UNCHANGED <<routes, seqno, floodAge, rreq, queue, dead, restarted, handed, submitted,
                 delivered, lost>>

\* A reply adds the replier; it ends the request of the node it is addressed to.
RecvReply(n) ==
  /\ Arrives(n, "rrep")
  /\ LET f == Head(inbox[n])
     IN  /\ routes' = [routes EXCEPT ![n] =
                          AddIfUnknown(@, FreshRoute(f.origin, f.origin, f.hops, 0))]
         /\ rreq' = [rreq EXCEPT ![n].pending = @ /\ f.target # n]
  /\ inbox' = Rest(n)
  /\ UNCHANGED <<seqno, floodAge, queue, dead, restarted, handed, submitted, delivered, lost>>

\* Data for n, or for everyone, goes to the host.
RecvDeliver(n) ==
  /\ Arrives(n, "data") /\ Head(inbox[n]).target \in {n, Broadcast}
  /\ delivered' = [delivered EXCEPT ![n] = @ \cup {Head(inbox[n]).msg}]
  /\ inbox' = Rest(n)
  /\ UNCHANGED <<routes, seqno, floodAge, rreq, queue, dead, restarted, handed, submitted, lost>>

\* Data for another node arrives at n.
Overheard(n) == Arrives(n, "data") /\ Head(inbox[n]).target \notin {n, Broadcast}

\* The last hop: the frame becomes a dead letter here.
RecvTtlExpired(n) ==
  /\ Overheard(n)
  /\ LET f == Head(inbox[n])
     IN  /\ f.ttl <= 1
         /\ Bury(n, <<Letter(f.msg, f.target, f.ttl, "ttl_expired")>>)
         /\ lost' = IF Len(dead[n]) >= MaxDead THEN lost \cup {f.msg} ELSE lost
  /\ inbox' = Rest(n)
  /\ UNCHANGED <<routes, seqno, floodAge, rreq, queue, restarted, handed, submitted, delivered>>

\* Mutant of RecvForward: the TTL of the relayed frame is left as it is.
RecvForwardKeepTtl(n) ==
  /\ Overheard(n)
  /\ LET f == Head(inbox[n])
     IN  /\ f.ttl > 1 /\ HasRoute(routes[n], f.target)
         /\ Sends(n, <<Data(FindRoute(routes[n], f.target).nextHop, f.msg, f.ttl,
                            f.hops + 1)>>, Rest(n))
  /\ UNCHANGED <<routes, seqno, floodAge, rreq, queue, dead, restarted, handed, submitted, delivered>>

\* Relay: the next hop replaces the destination in target[0].
RecvForward(n) ==
  /\ Overheard(n)
  /\ LET f == Head(inbox[n])
     IN  /\ f.ttl > 1 /\ HasRoute(routes[n], f.target)
         /\ Sends(n, <<Data(FindRoute(routes[n], f.target).nextHop, f.msg, f.ttl - 1,
                            f.hops + 1)>>, Rest(n))
  /\ UNCHANGED <<routes, seqno, floodAge, rreq, queue, dead, restarted, handed, submitted, delivered>>

\* No route: keep it for a retry.  A full queue drops it.
RecvStore(n) ==
  /\ Overheard(n)
  /\ LET f == Head(inbox[n])
     IN  /\ f.ttl > 1 /\ ~HasRoute(routes[n], f.target)
         /\ IF QueueFull(n)
            THEN lost' = lost \cup {f.msg} /\ UNCHANGED queue
            ELSE Enqueue(n, Entry(f.msg, f.target, f.ttl - 1, f.hops)) /\ UNCHANGED lost
  /\ inbox' = Rest(n)
  /\ UNCHANGED <<routes, seqno, floodAge, rreq, dead, restarted, handed, submitted, delivered>>

\* The medium loses the next frame of n's buffer.
Lose(n) ==
  /\ inbox[n] # <<>>
  /\ inbox' = Rest(n)
  /\ lost' = lost \cup Payloads(<<Head(inbox[n])>>)
  /\ UNCHANGED <<routes, seqno, floodAge, rreq, queue, dead, restarted, handed, submitted, delivered>>

-----------------------------------------------------------------------------
(* mesh_tick: what available() does before it asks the transport. *)

RreqDue(n) == rreq[n].pending /\ rreq[n].age > RreqAge /\ rreq[n].retries < RreqRetries

FloodDue(n) == floodAge[n] > FloodAge /\ CanFlood(n)

\* retry_queue looks at the entries that have waited long enough, by table t.
Due(n) == {i \in DOMAIN queue[n] : queue[n][i].age >= RetryAge}

Routable(n, t) == {i \in Due(n) : HasRoute(t, queue[n][i].dest)}

Retried(n, t) == Due(n) \ Routable(n, t)

\* Mutant of Exhausted: one retry too many.
ExhaustedLate(n, t) == {i \in Retried(n, t) : queue[n][i].retries + 1 > MaxRetries}

Exhausted(n, t) == {i \in Retried(n, t) : queue[n][i].retries + 1 >= MaxRetries}

\* A routable entry is sent, addressed to its destination, and forgotten.
QueueFrames(n, t) ==
  Keep([i \in DOMAIN queue[n] |->
          LET q == queue[n][i] IN Data(q.dest, q.msg, q.ttl, q.hops + 1)],
       Routable(n, t))

\* The others count a retry; the last one makes a dead letter.
QueueLetters(n, t) ==
  Keep([i \in DOMAIN queue[n] |->
          LET q == queue[n][i] IN Letter(q.msg, q.dest, q.ttl, "retry_exhausted")],
       Exhausted(n, t))

\* Mutants of QueueLeft: the compaction drops every entry that was looked at;
\* a retry is not counted.
QueueLeftUntouched(n, t) == Keep(queue[n], DOMAIN queue[n] \ Due(n))

QueueLeftUncounted(n, t) ==
  Keep([i \in DOMAIN queue[n] |->
          IF i \in Retried(n, t) THEN [queue[n][i] EXCEPT !.age = 0] ELSE queue[n][i]],
       DOMAIN queue[n] \ (Routable(n, t) \cup Exhausted(n, t)))

QueueLeft(n, t) ==
  Keep([i \in DOMAIN queue[n] |->
          IF i \in Retried(n, t)
          THEN [queue[n][i] EXCEPT !.age = 0, !.retries = @ + 1]
          ELSE queue[n][i]],
       DOMAIN queue[n] \ (Routable(n, t) \cup Exhausted(n, t)))

\* Dead letters that no longer fit are dropped without a trace.
Unburied(n, letters) ==
  {letters[i].msg : i \in {j \in DOMAIN letters : Len(dead[n]) + j > MaxDead}}

\* What a tick sends, in order: the pending request, the update, the queue.
TickFrames(n, t) ==
  (IF RreqDue(n) THEN <<RouteRequest(n, rreq[n].seqno, 1)>> ELSE <<>>)
  \o (IF FloodDue(n) THEN <<Update(n, t)>> ELSE <<>>)
  \o QueueFrames(n, t)

Tick(n) ==
  /\ LET t == Expire(routes[n])
         out == TickFrames(n, t)
     IN  /\ routes' = [routes EXCEPT ![n] = t]
         /\ rreq' = IF RreqDue(n)
                    THEN [rreq EXCEPT ![n].retries = @ + 1, ![n].age = 0] ELSE rreq
         /\ seqno' = IF FloodDue(n) THEN [seqno EXCEPT ![n] = (@ + 1) % SeqMod] ELSE seqno
         /\ floodAge' = IF FloodDue(n) THEN [floodAge EXCEPT ![n] = 0] ELSE floodAge
         /\ queue' = [queue EXCEPT ![n] = QueueLeft(n, t)]
         /\ Bury(n, QueueLetters(n, t))
         /\ inbox' = Transmit(n, out, inbox)
         /\ lost' = lost \cup Missed(n, out, inbox) \cup Unburied(n, QueueLetters(n, t))
  /\ UNCHANGED <<restarted, handed, submitted, delivered>>

\* omi_mesh_get_route_count expires routes too.
GetRouteCount(n) ==
  /\ routes' = [routes EXCEPT ![n] = Expire(@)]
  /\ UNCHANGED <<seqno, floodAge, rreq, queue, dead, inbox, restarted, handed, submitted,
                 delivered, lost>>

-----------------------------------------------------------------------------
\* One unit of time passes at every node; ages stop once past their threshold.
Elapse ==
  /\ routes' = [n \in Node |-> Older(routes[n])]
  /\ floodAge' = [n \in Node |-> IF floodAge[n] > FloodAge THEN floodAge[n] ELSE floodAge[n] + 1]
  /\ rreq' = [n \in Node |-> IF rreq[n].pending /\ rreq[n].age <= RreqAge
                             THEN [rreq[n] EXCEPT !.age = @ + 1] ELSE rreq[n]]
  /\ queue' = [n \in Node |-> [i \in DOMAIN queue[n] |->
                  IF queue[n][i].age < RetryAge
                  THEN [queue[n][i] EXCEPT !.age = @ + 1] ELSE queue[n][i]]]
  /\ UNCHANGED <<seqno, dead, inbox, restarted, handed, submitted, delivered, lost>>

\* A node loses power and starts again: omi_mesh_create, numbers from zero.
Restart(n) ==
  /\ n \in MayRestart \ restarted
  /\ restarted' = restarted \cup {n}
  /\ routes' = [routes EXCEPT ![n] = <<>>]
  /\ seqno' = [seqno EXCEPT ![n] = 0]
  /\ floodAge' = [floodAge EXCEPT ![n] = 0]
  /\ rreq' = [rreq EXCEPT ![n] = [pending |-> FALSE, dest |-> Broadcast, seqno |-> 0,
                                  age |-> 0, retries |-> 0]]
  /\ queue' = [queue EXCEPT ![n] = <<>>]
  /\ dead' = [dead EXCEPT ![n] = <<>>]
  /\ inbox' = [inbox EXCEPT ![n] = <<>>]
  /\ lost' = lost \cup {queue[n][i].msg : i \in DOMAIN queue[n]}
                  \cup {dead[n][i].msg : i \in DOMAIN dead[n]}
                  \cup Payloads(inbox[n])
  /\ UNCHANGED <<handed, submitted, delivered>>

-----------------------------------------------------------------------------
Send(n) ==
  \/ \E m \in Msg : SendBroadcast(n, m) \/ SendToSelf(n, m) \/ SendRouted(n, m)
                     \/ SendQueued(n, m)
  \/ \E u \in HostUpdate[n] : SendUpdate(n, u)

Recv(n) ==
  \/ RecvUpdate(n) \/ RecvRequestForMe(n) \/ RecvRequestForOther(n) \/ RecvReply(n)
  \/ RecvDeliver(n) \/ RecvTtlExpired(n) \/ RecvForward(n) \/ RecvStore(n)

Next ==
  \/ Elapse
  \/ \E n \in Node : Send(n) \/ Recv(n) \/ Lose(n) \/ Tick(n) \/ GetRouteCount(n)
                      \/ Restart(n)

Spec == Init /\ [][Next]_vars

\* Time passes.  Nothing else is certain: whether available() and recv() are
\* called is up to each host, and the firmware's loop never calls available().
TimedSpec == Spec /\ WF_vars(Elapse)

\* A host that, like those of test_mesh.c, keeps calling available(), or recv().
Polled(n) == WF_vars(Tick(n))
Received(n) == WF_vars(Recv(n))

\* A medium that loses frames only when a receive buffer is full, and hosts
\* that do all they can to be answered.
ReliableNext == Elapse \/ \E n \in Node : Send(n) \/ Recv(n) \/ Tick(n)

ReliableSpec ==
  /\ Init /\ [][ReliableNext]_vars
  /\ WF_vars(Elapse) /\ \A n \in Node : Polled(n) /\ Received(n)

-----------------------------------------------------------------------------
(* Properties. *)

Frames == UNION {{inbox[n][i] : i \in DOMAIN inbox[n]} : n \in Node}

UpdateFrame  == [kind: {"update"}, origin: Node, seqno: Seqno, adverts: Seq(Advert)]
RequestFrame == [kind: {"rreq", "rrep"}, target: Addr, origin: Node, seqno: Seqno,
                 hops: Metric]
DataFrame    == [kind: {"data"}, target: Addr, msg: Msg, ttl: Nat, hops: Nat]
Frame        == UpdateFrame \cup RequestFrame \cup DataFrame

Request    == [pending: BOOLEAN, dest: Addr, seqno: Seqno, age: 0..(RreqAge + 1),
               retries: 0..RreqRetries]
Queued     == [msg: Msg, dest: Addr, ttl: Nat \ {0}, hops: Nat, age: 0..RetryAge,
               retries: 0..(MaxRetries - 1)]
DeadLetter == [msg: Msg, dest: Addr, ttl: Nat, reason: {"ttl_expired", "retry_exhausted"}]

\* What a node keeps is of the declared shape and within the fixed array
\* sizes of OMI_MeshTransport; retry_queue leaves no entry with its retries
\* used up and enqueue none with a TTL of zero.
TypeOK ==
  /\ routes \in [Node -> Seq(Route \cup {NoRoute})]
  /\ seqno \in [Node -> Seqno]
  /\ floodAge \in [Node -> 0..(FloodAge + 1)]
  /\ rreq \in [Node -> Request]
  /\ queue \in [Node -> Seq(Queued)]
  /\ dead \in [Node -> Seq(DeadLetter)]
  /\ inbox \in [Node -> Seq(Frame)]
  /\ restarted \subseteq MayRestart
  /\ handed \in [Node -> SUBSET HostFrame]
  /\ submitted \subseteq Msg /\ lost \subseteq Msg
  /\ delivered \in [Node -> SUBSET Msg]
  /\ \A n \in Node :
       /\ Len(routes[n]) <= MaxRoutes /\ Len(queue[n]) <= MaxQueue
       /\ Len(dead[n]) <= MaxDead /\ Len(inbox[n]) <= InboxCap

\* find_route takes the first valid slot: whatever mixture of updates,
\* adverts, discovery frames and expiries filled the table, no node ever
\* holds two valid routes to the same destination.
UniqueRoutes ==
  \A n \in Node, d \in Addr :
    \A i, j \in Slots(routes[n], d) : i = j

\* No node ever has a route to itself, although its own updates and requests
\* come back to it.  (A node whose MAC gives it the identifier 0xFF does: it
\* answers its own returning request.)
NoSelfRoute ==
  \A n \in Node \ {Broadcast} : ~HasRoute(routes[n], n)

\* The next hop of every route is a node that this node hears directly, not
\* a node further away on the path, or else one that this node's own host has
\* put there (omi_mesh.c believes a host's update as it believes a received
\* one): a false next hop never spreads.  It rests on no request being answered.
NextHopHeard ==
  Broadcast \notin Node =>
    \A n \in Node : \A i \in DOMAIN routes[n] :
      routes[n][i] # NoRoute =>
        \/ routes[n][i].nextHop \in Node /\ n \in Nbr[routes[n][i].nextHop]
        \/ \E u \in handed[n] : u.origin = routes[n][i].nextHop

\* The update u claims the number s for d, or anything of d.
Numbers(u, d, s) ==
  \/ u.origin = d /\ u.seqno = s
  \/ \E k \in DOMAIN u.adverts : u.adverts[k].node = d /\ u.adverts[k].seqno = s

Names(u, d) == u.origin = d \/ \E k \in DOMAIN u.adverts : u.adverts[k].node = d

\* No table anywhere holds a newer number for a destination than the one the
\* destination itself has reached, except a number that some node's host has
\* handed in for it: relaying, replacing and expiry never make one up.  A
\* restart breaks it: the numbers start again from zero.
SeqnoSound ==
  (\A n \in Node : MaxSeqno[n] < SeqMod \div 2) =>
    \A n \in Node, d \in Node \ restarted :
      \A i \in Slots(routes[n], d) :
        \/ routes[n][i].seqno <= seqno[d]
        \/ \E m \in Node : \E u \in handed[m] : Numbers(u, d, routes[n][i].seqno)

\* Within[d][k]: the nodes that what d sends has reached after at most k
\* transmissions, each by a node that heard the one before.
Within ==
  [d \in Node |-> [k \in Metric |->
    {n \in Node : \E path \in [0..k -> Node] :
       /\ path[0] = d /\ path[k] = n
       /\ \A i \in 1..k : path[i] \in Nbr[path[i - 1]] \cup {path[i - 1]}}]]

\* A metric never claims that a destination is nearer than it is: a route of
\* metric k is held only by a node within k transmissions of the destination,
\* whatever overtakes, replaces or expires, and whatever hosts have handed in
\* about other destinations.  (omi_mesh.c counts in a uint8_t and tests no bound:
\* see MetricsFit.)
MetricSound ==
  \A n, d \in Node : \A i \in Slots(routes[n], d) :
    \/ n \in Within[d][routes[n][i].metric]
    \/ \E m \in Node : \E u \in handed[m] : Names(u, d)

\* No metric and no count of hops has come to the last value before it wraps.
MetricsFit ==
  \A n \in Node :
    /\ \A i \in DOMAIN routes[n] : routes[n][i] # NoRoute => routes[n][i].metric + 1 < MetricMod
    /\ \A i \in DOMAIN inbox[n] : inbox[n][i].kind = "rreq" => inbox[n][i].hops + 1 < MetricMod

\* However a payload is routed, queued, relayed and relayed again by every
\* node that overhears it, it is transmitted at most as often on one path as
\* its TTL says.
HopsBounded ==
  \A f \in Frames :
    f.kind = "data" /\ f.target # Broadcast => f.hops <= Ttl(f.msg)

\* Where a payload can be that has been handed to mesh_send.
InCustody(m) ==
  \/ \E n \in Node : m \in delivered[n]
  \/ \E n \in Node : \E i \in DOMAIN queue[n] : queue[n][i].msg = m
  \/ \E n \in Node : \E i \in DOMAIN dead[n] : dead[n][i].msg = m
  \/ \E n \in Node : m \in Payloads(inbox[n])

\* Store and forward: a payload that no full table, exhausted TTL, medium or
\* restart has dropped a copy of is queued, on its way, dead-lettered or
\* delivered; retries, compaction and relaying lose none.
NoneForgotten == \A m \in submitted : m \in lost \/ InCustody(m)

\* What mesh-protocol.md promises of multi-hop routing: the host that gets a
\* payload is the one it is addressed to.
DeliveredToAddressee ==
  \A n \in Node : \A m \in delivered[n] : m.to \in {n, Broadcast}

\* On-demand routing, as mesh-protocol.md lists it: a request is followed by a
\* reply, which ends it.
RequestAnswered ==
  \A n \in Node : rreq[n].pending ~> ~rreq[n].pending

\* The queue is emptied by sending or by dead letters: no payload stays for ever
\* in the queue of a node whose host keeps calling available(), whatever the
\* hosts of the other nodes do and however many copies others send it.
QueueDrains ==
  \A n \in Node : Polled(n) =>
    \A m \in Msg :
      (\E i \in DOMAIN queue[n] : queue[n][i].msg = m)
        ~> ~(\E i \in DOMAIN queue[n] : queue[n][i].msg = m)

=============================================================================
