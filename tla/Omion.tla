------------------------------- MODULE Omion -------------------------------
(***************************************************************************)
(* The prefix resolver (lib/omi_omion.c): an array of entries that is only *)
(* ever appended to, with a flag for those that count, and two lookups     *)
(* that scan it.  Calls with a null pointer change nothing and are left    *)
(* out.                                                                    *)
(***************************************************************************)
EXTENDS Integers, Sequences, FiniteSets

CONSTANTS
  Width,         \* bits of an address, 64 in the code
  Block,         \* Block[l] = 2^(Width - l): the mask of length l, plus one, negated
  ByteMod,       \* 2^8
  MaxPrefixes,   \* OMIOM_MAX_PREFIXES
  Address,       \* addresses that calls name
  Length,        \* prefix lengths that calls name, too long ones included
  Hop,           \* next hops that calls name
  Segments       \* the segments of envelopes that omicron_resolve reads

ASSUME OmionAssumption ==
  /\ Width \in Nat
  /\ Block \in [0..Width -> Nat \ {0}]
  /\ ByteMod \in Nat \ {0}
  /\ MaxPrefixes \in Nat
  /\ Address \subseteq Nat /\ Length \subseteq Nat /\ Hop \subseteq Nat
  /\ Segments \subseteq [9..12 -> Nat]

VARIABLES
  entries,   \* entries[1..count]
  ret,       \* what the last call returned
  out        \* the caller's next hop, which the lookups write

omionVars == <<entries, ret, out>>

Slots == 1..Len(entries)
Valid == {i \in Slots : entries[i].valid}

\* The slots in use for a prefix; the first of a set of slots.
Holding(address, plen) ==
  {i \in Valid : entries[i].address = address /\ entries[i].prefix_len = plen}
IsFirst(i, slots) == i \in slots /\ \A j \in slots : i <= j

OmionInit == entries = <<>> /\ ret = 0 /\ out = 0

OmionReset == entries' = <<>> /\ UNCHANGED <<ret, out>>

Entry(address, plen, hop) ==
  [address |-> address, prefix_len |-> plen, next_hop |-> hop, layer |-> 0, valid |-> TRUE]

-----------------------------------------------------------------------------
(* Changing the array. *)

AddTooLong(plen) == plen > Width /\ ret' = -2 /\ UNCHANGED <<entries, out>>

\* The array is tested for room before it is searched.
AddFull(plen) ==
  /\ plen <= Width /\ Len(entries) = MaxPrefixes
  /\ ret' = -3 /\ UNCHANGED <<entries, out>>

AddUpdate(address, plen, hop) ==
  /\ plen <= Width /\ Len(entries) < MaxPrefixes
  /\ \E i \in Holding(address, plen) :
       /\ IsFirst(i, Holding(address, plen))
       /\ entries' = [entries EXCEPT ![i] = Entry(address, plen, hop)]
  /\ ret' = 0 /\ UNCHANGED out

\* Mutant of AddAppend: an entry with another hop does not count as the same.
AddAppendOther(address, plen, hop) ==
  /\ plen <= Width /\ Len(entries) < MaxPrefixes
  /\ \A i \in Holding(address, plen) : entries[i].next_hop # hop
  /\ entries' = Append(entries, Entry(address, plen, hop))
  /\ ret' = 0 /\ UNCHANGED out

\* Mutant of AddAppend: there is always room.
AddAppendAnyway(address, plen, hop) ==
  /\ plen <= Width /\ Holding(address, plen) = {}
  /\ entries' = Append(entries, Entry(address, plen, hop))
  /\ ret' = 0 /\ UNCHANGED out

AddAppend(address, plen, hop) ==
  /\ plen <= Width /\ Len(entries) < MaxPrefixes
  /\ Holding(address, plen) = {}
  /\ entries' = Append(entries, Entry(address, plen, hop))
  /\ ret' = 0 /\ UNCHANGED out

AddPrefix(address, plen, hop) ==
  \/ AddTooLong(plen) \/ AddFull(plen)
  \/ AddUpdate(address, plen, hop) \/ AddAppend(address, plen, hop)

RemovePrefix(address, plen) ==
  \/ /\ \E i \in Holding(address, plen) :
          /\ IsFirst(i, Holding(address, plen))
          /\ entries' = [entries EXCEPT ![i].valid = FALSE]
     /\ ret' = 0 /\ UNCHANGED out
  \/ /\ Holding(address, plen) = {}
     /\ ret' = -2 /\ UNCHANGED <<entries, out>>

-----------------------------------------------------------------------------
(* Lookups. *)

Masked(address, plen) == address - (address % Block[plen])

\* Mutant of Matching: entries that have been removed are found as well.
MatchingRemoved(address) ==
  {i \in Slots : /\ entries[i].prefix_len # 0
                 /\ Masked(entries[i].address, entries[i].prefix_len)
                      = Masked(address, entries[i].prefix_len)}

Matching(address) ==
  {i \in Valid : /\ entries[i].prefix_len # 0
                 /\ Masked(entries[i].address, entries[i].prefix_len)
                      = Masked(address, entries[i].prefix_len)}

\* A later entry replaces the best one so far only if it is strictly longer.
Longest(address) ==
  {i \in Matching(address) :
     \A j \in Matching(address) : entries[j].prefix_len <= entries[i].prefix_len}

\* An entry that answers a lookup is marked with the layer that found it.
AnswerWith(i, layer, code) ==
  /\ entries' = [entries EXCEPT ![i].layer = layer]
  /\ out' = entries[i].next_hop
  /\ ret' = code

Hit(address) ==
  \E i \in Longest(address) : IsFirst(i, Longest(address)) /\ AnswerWith(i, 9, 0)

Miss(address) == Matching(address) = {}

Resolve(address) ==
  Hit(address) \/ (Miss(address) /\ ret' = -2 /\ UNCHANGED <<entries, out>>)

\* omicron_resolve of the layers 9 to 12: a segment of the envelope modulo the
\* layer.  As a byte it is never 0xFF, which omiom_cascade would skip.
OmicronResolve(segments, layer) == segments[layer] % layer

\* The layers whose candidate is not 0; the cascade stops at the first.
Speaking(segments) == {layer \in 9..12 : OmicronResolve(segments, layer) # 0}

Named(hint) ==
  {i \in Valid : entries[i].next_hop = hint \/ entries[i].address % ByteMod = hint}

CascadeHint(address, segments) ==
  /\ Miss(address)
  /\ \E layer \in 9..12 :
       /\ IsFirst(layer, Speaking(segments))
       /\ LET hint == OmicronResolve(segments, layer)
          IN  \/ \E i \in Named(hint) : IsFirst(i, Named(hint)) /\ AnswerWith(i, layer, 1)
              \/ Named(hint) = {} /\ out' = hint /\ ret' = 1 /\ UNCHANGED entries

CascadeNone(address, segments) ==
  /\ Miss(address) /\ Speaking(segments) = {}
  /\ out' = 0 /\ ret' = -2 /\ UNCHANGED entries

\* An entry of length 0 covers no address, but may be named by a hint.
Cascade(address, segments) ==
  Hit(address) \/ CascadeHint(address, segments) \/ CascadeNone(address, segments)

PrefixCount == ret' = Cardinality(Valid) /\ UNCHANGED <<entries, out>>

-----------------------------------------------------------------------------
OmionNext ==
  \/ OmionReset \/ PrefixCount
  \/ \E address \in Address, plen \in Length :
       RemovePrefix(address, plen) \/ \E hop \in Hop : AddPrefix(address, plen, hop)
  \/ \E address \in Address :
       Resolve(address) \/ \E segments \in Segments : Cascade(address, segments)

OmionSpec == OmionInit /\ [][OmionNext]_omionVars

-----------------------------------------------------------------------------
(* Properties. *)

OmionTypeOK ==
  /\ entries \in Seq([address: Address, prefix_len: 0..Width, next_hop: Hop,
                      layer: {0} \cup 9..12, valid: BOOLEAN])
  /\ Len(entries) <= MaxPrefixes
  /\ ret \in Int /\ out \in Nat

Key(i) == [address |-> entries[i].address, len |-> entries[i].prefix_len]

\* However prefixes are added, updated, removed and added again, no two slots in
\* use hold the same one: a removal would leave the other to answer.
UniquePrefixes == \A i, j \in Valid : Key(i) = Key(j) => i = j

\* The map that the array stands for.
HopOf == [p \in {Key(i) : i \in Valid} |->
            entries[CHOOSE i \in Valid : Key(i) = p].next_hop]

Map == INSTANCE PrefixMap WITH hops <- HopOf, used <- Len(entries),
                               Capacity <- MaxPrefixes, Hint <- 0..11

\* The array does what the map promises: what a caller is answered depends on
\* the prefixes that are there and not on the slots they and others are or
\* have been in, but for the choice among equally long ones.
MapSpec == Map!Spec

=============================================================================
