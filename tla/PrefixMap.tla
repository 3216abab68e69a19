----------------------------- MODULE PrefixMap -----------------------------
(***************************************************************************)
(* What a caller may expect of the resolver of lib/omi_omion.h: a map from *)
(* prefixes to next hops, of which a lookup takes a longest one that       *)
(* covers the address.  There are no slots and no order among prefixes.    *)
(***************************************************************************)
EXTENDS Integers, FiniteSets

CONSTANTS
  Width,     \* bits of an address
  Block,     \* Block[l]: number of addresses that agree in their first l bits
  ByteMod,   \* 2^8
  Capacity,  \* prefixes that can be added before the next reset
  Address, Length, Hop, Hint   \* what calls name

VARIABLES
  hops,      \* the map, from prefixes [address, len]
  used,      \* prefixes that have been added, the removed ones included
  ret,       \* what the last call returned
  out        \* the next hop it wrote

vars == <<hops, used, ret, out>>

\* p and the address agree in the first p.len bits.
Covers(p, address) == address \div Block[p.len] = p.address \div Block[p.len]

Init == hops = [p \in {} |-> 0] /\ used = 0 /\ ret = 0 /\ out = 0

Reset == hops' = [p \in {} |-> 0] /\ used' = 0 /\ UNCHANGED <<ret, out>>

Return(code) == ret' = code /\ UNCHANGED <<hops, used, out>>

\* A removed prefix does not give its place back; with no place left, not even
\* the hop of a prefix that is there can change.
Add(p, hop) ==
  \/ p.len > Width /\ Return(-2)
  \/ p.len <= Width /\ used = Capacity /\ Return(-3)
  \/ /\ p.len <= Width /\ used < Capacity
     /\ hops' = [q \in DOMAIN hops \cup {p} |-> IF q = p THEN hop ELSE hops[q]]
     /\ used' = IF p \in DOMAIN hops THEN used ELSE used + 1
     /\ ret' = 0 /\ UNCHANGED out

Remove(p) ==
  \/ p \notin DOMAIN hops /\ Return(-2)
  \/ /\ p \in DOMAIN hops
     /\ hops' = [q \in DOMAIN hops \ {p} |-> hops[q]]
     /\ ret' = 0 /\ UNCHANGED <<used, out>>

\* The longest prefixes that cover the address; a default route (len 0) never
\* does.  There are several if their addresses differ in bits behind the prefix.
Best(address) ==
  {p \in DOMAIN hops :
     /\ p.len > 0 /\ Covers(p, address)
     /\ \A q \in DOMAIN hops : q.len > p.len => ~Covers(q, address)}

Found(address) ==
  /\ \E p \in Best(address) : out' = hops[p]
  /\ ret' = 0 /\ UNCHANGED <<hops, used>>

Resolve(address) == Found(address) \/ (Best(address) = {} /\ Return(-2))

\* Without a prefix the hint decides, if there is one: the hop of a prefix that
\* has it for its hop or for its lowest byte, else the hint itself.
Cascade(address, hint) ==
  \/ Found(address)
  \/ /\ Best(address) = {} /\ hint # 0
     /\ LET named == {p \in DOMAIN hops : hint \in {hops[p], p.address % ByteMod}}
        IN  IF named = {} THEN out' = hint ELSE \E p \in named : out' = hops[p]
     /\ ret' = 1 /\ UNCHANGED <<hops, used>>
  \/ /\ Best(address) = {} /\ hint = 0
     /\ out' = 0 /\ ret' = -2 /\ UNCHANGED <<hops, used>>

Count == ret' = Cardinality(DOMAIN hops) /\ UNCHANGED <<hops, used, out>>

Prefix == [address: Address, len: Length]

Next ==
  \/ Reset \/ Count
  \/ \E p \in Prefix : Remove(p) \/ \E hop \in Hop : Add(p, hop)
  \/ \E address \in Address : Resolve(address) \/ \E hint \in Hint : Cascade(address, hint)

Spec == Init /\ [][Next]_vars

=============================================================================
