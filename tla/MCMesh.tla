------------------------------- MODULE MCMesh -------------------------------
(***************************************************************************)
(* Instances of Mesh for TLC.                                              *)
(***************************************************************************)
EXTENDS Mesh, TLC

CONSTANTS a, b, c,  \* nodes
          x         \* an address no node has

MCAddr == Node \cup {Broadcast, x}

\* Two nodes in range of each other, as in test/test_mesh.c.
PairNbr == (a :> {b}) @@ (b :> {a})
\* Three nodes in a line: a and c do not hear each other.
LineNbr == (a :> {b}) @@ (b :> {a, c}) @@ (c :> {b})

\* Three nodes that all hear each other.
CliqueNbr == (a :> {b, c}) @@ (b :> {a, c}) @@ (c :> {a, b})

\* Bounds on the floods of each node.
PairSeqno == (a :> 1) @@ (b :> 1)
LineSeqno == (a :> 2) @@ (b :> 1) @@ (c :> 1)
NoFloods == [n \in Node |-> 0]

CliqueSeqno == (a :> 0) @@ (b :> 1) @@ (c :> 0)

\* A payload for a node two hops away.
LineMsg == {[from |-> a, to |-> c, ttl |-> 0]}
\* One payload for a neighbour that is in range all the time, and that others
\* overhear.
NeighbourMsg == {[from |-> a, to |-> b, ttl |-> 0]}
\* The node b has the identifier 0xFF, as one MAC address in 256 gives it: a
\* payload for b is one for everybody.
LastMsg == {[from |-> a, to |-> x, ttl |-> 0], [from |-> a, to |-> x, ttl |-> 2],
            [from |-> a, to |-> a, ttl |-> 0], [from |-> a, to |-> b, ttl |-> 0]}

\* The update of its own that test_mesh.c hands to a node.
OwnUpdate(n) == [origin |-> n, seqno |-> 1, adverts |-> <<>>]
\* SYNC_COMMIT, as omi_probe.c fills it in: taken for an update of node 0.
SyncCommit == [origin |-> Zero, seqno |-> 0, adverts |-> <<>>]
\* An update that claims a number and a distance of a that a does not have.
Hearsay == [origin |-> x, seqno |-> 1,
            adverts |-> <<[node |-> a, metric |-> 0, seqno |-> 3]>>]

OwnUpdates == [n \in Node |-> {OwnUpdate(n)}]
\* The host of c sends a SYNC_COMMIT, or what it has heard elsewhere.
LineUpdates == (a :> {OwnUpdate(a)}) @@ (b :> {}) @@ (c :> {SyncCommit, Hearsay})
CliqueUpdates == [n \in Node |-> {OwnUpdate(n), SyncCommit}]
=============================================================================
