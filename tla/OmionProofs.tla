---------------------------- MODULE OmionProofs ----------------------------
(***************************************************************************)
(* Proofs about Omion: for any addresses, lengths, hops and envelopes, and *)
(* an array of any size, the slots stay within it, no prefix is in two of  *)
(* them, and what callers see is what PrefixMap promises.                  *)
(***************************************************************************)
EXTENDS Omion, FiniteSetTheorems, TLAPS

-----------------------------------------------------------------------------
(* What the state says of an array of entries, for any array. *)

EntrySet == [address: Address, prefix_len: 0..Width, next_hop: Hop,
             layer: {0} \cup 9..12, valid: BOOLEAN]

KeyIn(e, i)  == [address |-> e[i].address, len |-> e[i].prefix_len]
ValidIn(e)   == {i \in 1..Len(e) : e[i].valid}
KeysIn(e)    == {KeyIn(e, i) : i \in ValidIn(e)}
UniqueIn(e)  == \A i, j \in ValidIn(e) : KeyIn(e, i) = KeyIn(e, j) => i = j
HopsIn(e)    == [p \in KeysIn(e) |-> e[CHOOSE i \in ValidIn(e) : KeyIn(e, i) = p].next_hop]

\* The map of e with a hop for p, and without p.
With(e, p, hop) ==
  [q \in KeysIn(e) \cup {p} |-> IF q = p THEN hop ELSE HopsIn(e)[q]]
Without(e, p) == [q \in KeysIn(e) \ {p} |-> HopsIn(e)[q]]

LEMMA InTheState ==
  /\ Valid = ValidIn(entries) /\ UniquePrefixes = UniqueIn(entries)
  /\ HopOf = HopsIn(entries)
  /\ \A i : Key(i) = KeyIn(entries, i)
  BY DEF Valid, Slots, ValidIn, UniquePrefixes, UniqueIn, HopOf, HopsIn, KeysIn, Key, KeyIn

LEMMA InTheNextState ==
  /\ Valid' = ValidIn(entries') /\ UniquePrefixes' = UniqueIn(entries')
  /\ HopOf' = HopsIn(entries')
  BY DEF Valid, Slots, ValidIn, UniquePrefixes, UniqueIn, HopOf, HopsIn, KeysIn, Key, KeyIn

LEMMA HopsFunction ==
  ASSUME NEW e
  PROVE  DOMAIN HopsIn(e) = KeysIn(e) /\ HopsIn(e) = [q \in KeysIn(e) |-> HopsIn(e)[q]]
  BY DEF HopsIn

\* Where keys are unique, the map has the hop of every slot in use.
LEMMA HopAt ==
  ASSUME NEW e, UniqueIn(e), NEW i \in ValidIn(e)
  PROVE  KeyIn(e, i) \in KeysIn(e) /\ HopsIn(e)[KeyIn(e, i)] = e[i].next_hop
<1>1. KeyIn(e, i) \in KeysIn(e)
  BY DEF KeysIn
<1>2. (CHOOSE j \in ValidIn(e) : KeyIn(e, j) = KeyIn(e, i)) = i
  BY DEF UniqueIn
<1> QED BY <1>1, <1>2 DEF HopsIn

\* The slots that a call names are those of its prefix.
Prefix(address, plen) == [address |-> address, len |-> plen]

LEMMA EntryFields ==
  ASSUME NEW x \in EntrySet
  PROVE  /\ x.address \in Address /\ x.address \in Nat
         /\ x.prefix_len \in 0..Width /\ x.prefix_len \in Nat
         /\ x.next_hop \in Hop /\ x.next_hop \in Nat
<1>1. x.address \in Address /\ x.prefix_len \in 0..Width /\ x.next_hop \in Hop
  BY DEF EntrySet
<1>2. Address \subseteq Nat /\ Hop \subseteq Nat
  BY OmionAssumption
<1>3. 0..Width \subseteq Nat
  BY OmionAssumption
<1> QED BY <1>1, <1>2, <1>3, Zenon

LEMMA HoldingKeys ==
  ASSUME NEW address, NEW plen
  PROVE  /\ Holding(address, plen)
              = {i \in ValidIn(entries) : KeyIn(entries, i) = Prefix(address, plen)}
         /\ Holding(address, plen) = {} <=> Prefix(address, plen) \notin KeysIn(entries)
<1>1. \A i : KeyIn(entries, i) = Prefix(address, plen)
               <=> entries[i].address = address /\ entries[i].prefix_len = plen
  BY DEF KeyIn, Prefix
<1> QED BY <1>1, InTheState DEF Holding, KeysIn

-----------------------------------------------------------------------------
(* What becomes of the slots in use, and of the map, when the array changes. *)

LEMMA AppendSlots ==
  ASSUME NEW e \in Seq(EntrySet), NEW x \in EntrySet, x.valid, UniqueIn(e),
         NEW p, p = [address |-> x.address, len |-> x.prefix_len], p \notin KeysIn(e)
  PROVE  /\ UniqueIn(Append(e, x))
         /\ HopsIn(Append(e, x))
              = With(e, p, x.next_hop)
<1> DEFINE f == Append(e, x)  n == Len(e) + 1
<1>1. /\ Len(f) = n /\ f[n] = x /\ n \notin 1..Len(e)
      /\ 1..Len(f) = 1..Len(e) \cup {n}
      /\ \A i \in 1..Len(e) : f[i] = e[i]
  OBVIOUS
<1>2. ValidIn(f) = ValidIn(e) \cup {n} /\ n \notin ValidIn(e)
  BY <1>1 DEF ValidIn
<1>3. KeyIn(f, n) = p /\ \A i \in ValidIn(e) : KeyIn(f, i) = KeyIn(e, i) /\ f[i] = e[i]
  BY <1>1 DEF KeyIn, ValidIn
<1> HIDE DEF f, n
<1>4. \A i \in ValidIn(e) : KeyIn(e, i) \in KeysIn(e) /\ KeyIn(e, i) # p
  BY DEF KeysIn
<1>5. UniqueIn(f)
  BY <1>2, <1>3, <1>4 DEF UniqueIn
<1>6. KeysIn(f) = KeysIn(e) \cup {p}
  BY <1>2, <1>3 DEF KeysIn
<1>7. ASSUME NEW q \in KeysIn(f)
      PROVE  HopsIn(f)[q] = IF q = p THEN x.next_hop ELSE HopsIn(e)[q]
  <2>1. PICK i \in ValidIn(f) : q = KeyIn(f, i)
    BY <1>7 DEF KeysIn
  <2>2. HopsIn(f)[q] = f[i].next_hop
    BY <2>1, <1>5, HopAt
  <2>3. CASE i = n
    BY <2>1, <2>2, <2>3, <1>1, <1>3 DEF f, n
  <2>4. CASE i \in ValidIn(e)
    BY <2>1, <2>2, <2>4, <1>3, <1>4, HopAt
  <2> QED BY <2>3, <2>4, <1>2
<1>8. HopsIn(f) = With(e, p, x.next_hop)
  BY <1>6, <1>7, HopsFunction DEF With
<1> QED BY <1>5, <1>8 DEF f

LEMMA UpdateSlots ==
  ASSUME NEW e \in Seq(EntrySet), UniqueIn(e), NEW k \in ValidIn(e),
         NEW x \in EntrySet, x.valid,
         NEW p, p = KeyIn(e, k), p = [address |-> x.address, len |-> x.prefix_len]
  PROVE  /\ UniqueIn([e EXCEPT ![k] = x])
         /\ HopsIn([e EXCEPT ![k] = x])
              = With(e, p, x.next_hop)
<1> DEFINE f == [e EXCEPT ![k] = x]
<1>1. /\ Len(f) = Len(e) /\ k \in 1..Len(e) /\ f[k] = x
      /\ \A i \in 1..Len(e) : i # k => f[i] = e[i]
  BY DEF ValidIn
<1>2. ValidIn(f) = ValidIn(e)
  BY <1>1 DEF ValidIn
<1>3. KeyIn(f, k) = p /\ \A i \in ValidIn(e) : KeyIn(f, i) = KeyIn(e, i)
  BY <1>1 DEF KeyIn, ValidIn
<1>4. \A i \in ValidIn(e) : i # k => KeyIn(e, i) # p /\ f[i] = e[i]
  BY <1>1 DEF UniqueIn, ValidIn
<1> HIDE DEF f
<1>5. UniqueIn(f)
  BY <1>2, <1>3 DEF UniqueIn
<1>6. KeysIn(f) = KeysIn(e) \cup {p}
  BY <1>2, <1>3 DEF KeysIn
<1>7. ASSUME NEW q \in KeysIn(f)
      PROVE  HopsIn(f)[q] = IF q = p THEN x.next_hop ELSE HopsIn(e)[q]
  <2>1. PICK i \in ValidIn(f) : q = KeyIn(f, i)
    BY <1>7 DEF KeysIn
  <2>2. HopsIn(f)[q] = f[i].next_hop
    BY <2>1, <1>5, HopAt
  <2>3. CASE i = k
    BY <2>1, <2>2, <2>3, <1>1, <1>3
  <2>4. CASE i # k
    BY <2>1, <2>2, <2>4, <1>2, <1>3, <1>4, HopAt
  <2> QED BY <2>3, <2>4
<1>8. HopsIn(f) = With(e, p, x.next_hop)
  BY <1>6, <1>7, HopsFunction DEF With
<1> QED BY <1>5, <1>8 DEF f

\* Changing a field of a slot leaves an array of entries.
LEMMA ChangedSlot ==
  ASSUME NEW e \in Seq(EntrySet), NEW k \in ValidIn(e)
  PROVE  /\ [e EXCEPT ![k].valid = FALSE] \in Seq(EntrySet)
         /\ Len([e EXCEPT ![k].valid = FALSE]) = Len(e)
         /\ \A layer \in 9..12 : /\ [e EXCEPT ![k].layer = layer] \in Seq(EntrySet)
                                /\ Len([e EXCEPT ![k].layer = layer]) = Len(e)
<1>1. k \in 1..Len(e) /\ e[k] \in EntrySet
  BY DEF ValidIn
<1>2. [e[k] EXCEPT !.valid = FALSE] \in EntrySet
  BY <1>1 DEF EntrySet
<1>3. ASSUME NEW layer \in 9..12 PROVE [e[k] EXCEPT !.layer = layer] \in EntrySet
  BY <1>1 DEF EntrySet
<1>4. ASSUME NEW x \in EntrySet
      PROVE  [e EXCEPT ![k] = x] \in Seq(EntrySet) /\ Len([e EXCEPT ![k] = x]) = Len(e)
  BY <1>1
<1>5. [e EXCEPT ![k].valid = FALSE] = [e EXCEPT ![k] = [e[k] EXCEPT !.valid = FALSE]]
  OBVIOUS
<1>6. ASSUME NEW layer
      PROVE  [e EXCEPT ![k].layer = layer] = [e EXCEPT ![k] = [e[k] EXCEPT !.layer = layer]]
  OBVIOUS
<1> QED BY <1>2, <1>3, <1>4, <1>5, <1>6, Zenon

LEMMA RemoveSlot ==
  ASSUME NEW e \in Seq(EntrySet), UniqueIn(e), NEW k \in ValidIn(e),
         NEW p, p = KeyIn(e, k)
  PROVE  /\ UniqueIn([e EXCEPT ![k].valid = FALSE])
         /\ HopsIn([e EXCEPT ![k].valid = FALSE])
              = Without(e, p)
<1> DEFINE f == [e EXCEPT ![k].valid = FALSE]
<1>1. /\ Len(f) = Len(e) /\ k \in 1..Len(e) /\ ~f[k].valid
      /\ \A i \in 1..Len(e) : i # k => f[i] = e[i]
  <2>1. k \in 1..Len(e) /\ e[k] \in EntrySet
    BY DEF ValidIn
  <2> QED BY <2>1 DEF EntrySet
<1>2. ValidIn(f) = ValidIn(e) \ {k}
  BY <1>1 DEF ValidIn
<1>3. \A i \in ValidIn(f) :
        KeyIn(f, i) = KeyIn(e, i) /\ KeyIn(e, i) # p /\ f[i] = e[i] /\ i \in ValidIn(e)
  BY <1>1, <1>2 DEF KeyIn, ValidIn, UniqueIn
<1> HIDE DEF f
<1>5. UniqueIn(f)
  BY <1>3 DEF UniqueIn
<1>6. KeysIn(f) = KeysIn(e) \ {p}
  BY <1>2, <1>3 DEF KeysIn
<1>7. ASSUME NEW q \in KeysIn(f)
      PROVE  HopsIn(f)[q] = HopsIn(e)[q]
  <2>1. PICK i \in ValidIn(f) : q = KeyIn(f, i)
    BY <1>7 DEF KeysIn
  <2> QED BY <2>1, <1>3, <1>5, HopAt
<1>8. HopsIn(f) = Without(e, p)
  BY <1>6, <1>7, HopsFunction DEF Without
<1> QED BY <1>5, <1>8 DEF f

\* The mark of the layer that answered is not seen from outside.
LEMMA MarkSlot ==
  ASSUME NEW e \in Seq(EntrySet), UniqueIn(e), NEW k \in ValidIn(e), NEW layer
  PROVE  /\ UniqueIn([e EXCEPT ![k].layer = layer])
         /\ HopsIn([e EXCEPT ![k].layer = layer]) = HopsIn(e)
         /\ Len([e EXCEPT ![k].layer = layer]) = Len(e)
<1> DEFINE f == [e EXCEPT ![k].layer = layer]
<1>1. /\ Len(f) = Len(e)
      /\ \A i \in 1..Len(e) :
           /\ f[i].valid = e[i].valid /\ f[i].next_hop = e[i].next_hop
           /\ f[i].address = e[i].address /\ f[i].prefix_len = e[i].prefix_len
  <2>1. k \in 1..Len(e) /\ \A i \in 1..Len(e) : e[i] \in EntrySet
    BY DEF ValidIn
  <2> QED BY <2>1 DEF EntrySet
<1> HIDE DEF f
<1>2. ValidIn(f) = ValidIn(e)
  BY <1>1 DEF ValidIn
<1>3. \A i \in ValidIn(e) : KeyIn(f, i) = KeyIn(e, i) /\ f[i].next_hop = e[i].next_hop
  BY <1>1 DEF KeyIn, ValidIn
<1>5. UniqueIn(f)
  BY <1>2, <1>3 DEF UniqueIn
<1>6. KeysIn(f) = KeysIn(e)
  BY <1>2, <1>3 DEF KeysIn
<1>7. ASSUME NEW q \in KeysIn(f)
      PROVE  HopsIn(f)[q] = HopsIn(e)[q]
  <2>1. PICK i \in ValidIn(f) : q = KeyIn(f, i)
    BY <1>7 DEF KeysIn
  <2> QED BY <2>1, <1>2, <1>3, <1>5, HopAt
<1>8. HopsIn(f) = HopsIn(e)
  BY <1>6, <1>7, HopsFunction
<1> QED BY <1>1, <1>5, <1>8 DEF f

-----------------------------------------------------------------------------
(* The invariant: each slot in use for a prefix of its own.  A removed slot  *)
(* keeps its key, but is not in use.                                         *)

Inv == OmionTypeOK /\ UniquePrefixes

LEMMA InvIn ==
  Inv <=> /\ entries \in Seq(EntrySet) /\ Len(entries) <= MaxPrefixes
          /\ ret \in Int /\ out \in Nat /\ UniqueIn(entries)
  BY InTheState DEF Inv, OmionTypeOK, EntrySet

LEMMA InvInNext ==
  Inv' <=> /\ entries' \in Seq(EntrySet) /\ Len(entries') <= MaxPrefixes
           /\ ret' \in Int /\ out' \in Nat /\ UniqueIn(entries')
  BY InTheNextState DEF Inv, OmionTypeOK, EntrySet

LEMMA Keys == DOMAIN HopOf = KeysIn(entries) /\ HopOf = HopsIn(entries)
  BY InTheState, HopsFunction

\* A call that leaves the array alone.
LEMMA OnlyReturns ==
  ASSUME Inv, entries' = entries, ret' \in Int, out' \in Nat
  PROVE  Inv' /\ HopOf' = HopOf /\ Len(entries)' = Len(entries)
  BY InvIn, InvInNext, InTheState, InTheNextState

LEMMA AddStep ==
  ASSUME Inv, NEW address \in Address, NEW plen \in Length, NEW hop \in Hop,
         AddPrefix(address, plen, hop)
  PROVE  Inv' /\ Map!Add(Prefix(address, plen), hop)
<1> DEFINE p == Prefix(address, plen)  x == Entry(address, plen, hop)
<1>1. p.len = plen /\ p = [address |-> x.address, len |-> x.prefix_len] /\ x.valid
      /\ x.next_hop = hop
  BY DEF Entry, Prefix
<1>2. ASSUME plen <= Width PROVE x \in EntrySet
  BY <1>2, OmionAssumption DEF Entry, EntrySet
<1>3. /\ entries \in Seq(EntrySet) /\ Len(entries) <= MaxPrefixes
      /\ ret \in Int /\ out \in Nat /\ UniqueIn(entries)
  BY InvIn
<1>4. MaxPrefixes \in Nat
  BY OmionAssumption
<1> HIDE DEF p, x
<1>5. CASE AddTooLong(plen)
  <2>1. Inv' /\ HopOf' = HopOf /\ Len(entries)' = Len(entries)
    BY <1>3, <1>5, OnlyReturns DEF AddTooLong
  <2> QED BY <2>1, <1>1, <1>5 DEF AddTooLong, Map!Add, Map!Return, p
<1>6. CASE AddFull(plen)
  <2>1. Inv' /\ HopOf' = HopOf /\ Len(entries)' = Len(entries)
    BY <1>3, <1>6, OnlyReturns DEF AddFull
  <2> QED BY <2>1, <1>1, <1>6 DEF AddFull, Map!Add, Map!Return, p
<1>7. CASE AddUpdate(address, plen, hop)
  <2>1. PICK k \in Holding(address, plen) : entries' = [entries EXCEPT ![k] = x]
    BY <1>7 DEF AddUpdate, IsFirst, x
  <2>2. k \in ValidIn(entries) /\ KeyIn(entries, k) = p /\ p \in KeysIn(entries)
    BY HoldingKeys DEF p, KeysIn
  <2>3. plen <= Width /\ Len(entries) < MaxPrefixes /\ ret' = 0 /\ out' = out
    BY <1>7 DEF AddUpdate
  <2>4. UniqueIn(entries') /\ HopsIn(entries') = With(entries, p, x.next_hop)
    BY <1>1, <1>2, <1>3, <2>1, <2>2, <2>3, UpdateSlots
  <2>5. entries' \in Seq(EntrySet) /\ Len(entries') = Len(entries)
    BY <1>2, <1>3, <2>1, <2>2, <2>3 DEF ValidIn
  <2>6. Inv'
    BY <1>3, <2>3, <2>4, <2>5, InvInNext
  <2> QED BY <1>1, <2>2, <2>3, <2>4, <2>5, <2>6, InTheNextState, Keys DEF Map!Add, p, With
<1>8. CASE AddAppend(address, plen, hop)
  <2>1. /\ plen <= Width /\ Len(entries) < MaxPrefixes /\ ret' = 0 /\ out' = out
        /\ Holding(address, plen) = {} /\ entries' = Append(entries, x)
    BY <1>8 DEF AddAppend, x
  <2>2. p \notin KeysIn(entries)
    BY <2>1, HoldingKeys DEF p
  <2>3. UniqueIn(entries') /\ HopsIn(entries') = With(entries, p, x.next_hop)
    BY <1>1, <1>2, <1>3, <2>1, <2>2, AppendSlots
  <2>4. entries' \in Seq(EntrySet) /\ Len(entries') = Len(entries) + 1
    BY <1>2, <1>3, <2>1
  <2>5. Inv'
    BY <1>3, <1>4, <2>1, <2>3, <2>4, InvInNext
  <2> QED BY <1>1, <2>1, <2>2, <2>3, <2>4, <2>5, InTheNextState, Keys DEF Map!Add, p, With
<1> QED BY <1>5, <1>6, <1>7, <1>8 DEF AddPrefix, p

LEMMA RemoveStep ==
  ASSUME Inv, NEW address \in Address, NEW plen \in Length, RemovePrefix(address, plen)
  PROVE  Inv' /\ Map!Remove(Prefix(address, plen))
<1> DEFINE p == Prefix(address, plen)
<1> HIDE DEF p
<1>1. /\ entries \in Seq(EntrySet) /\ Len(entries) <= MaxPrefixes
      /\ ret \in Int /\ out \in Nat /\ UniqueIn(entries)
  BY InvIn
<1>2. CASE Holding(address, plen) = {}
  <2>1. entries' = entries /\ ret' = -2 /\ out' = out
    BY <1>2 DEF RemovePrefix
  <2>2. Inv' /\ HopOf' = HopOf /\ Len(entries)' = Len(entries)
    BY <1>1, <2>1, OnlyReturns
  <2>3. p \notin DOMAIN HopOf
    BY <1>2, HoldingKeys, Keys DEF p
  <2> QED BY <2>1, <2>2, <2>3 DEF Map!Remove, Map!Return, p
<1>3. CASE Holding(address, plen) # {}
  <2>1. PICK k \in Holding(address, plen) : entries' = [entries EXCEPT ![k].valid = FALSE]
    BY <1>3 DEF RemovePrefix, IsFirst
  <2>2. ret' = 0 /\ out' = out
    BY <1>3 DEF RemovePrefix
  <2>3. k \in ValidIn(entries) /\ KeyIn(entries, k) = p /\ p \in KeysIn(entries)
    BY HoldingKeys DEF p, KeysIn
  <2>4. UniqueIn(entries') /\ HopsIn(entries') = Without(entries, p)
    BY <1>1, <2>1, <2>3, RemoveSlot
  <2>5. entries' \in Seq(EntrySet) /\ Len(entries') = Len(entries)
    BY <1>1, <2>1, <2>3, ChangedSlot
  <2>6. Inv'
    BY <1>1, <2>2, <2>4, <2>5, InvInNext
  <2> QED BY <2>2, <2>3, <2>4, <2>5, <2>6, InTheNextState, Keys DEF Map!Remove, p, Without
<1> QED BY <1>2, <1>3

-----------------------------------------------------------------------------
(* Lookups. *)

\* Two addresses agree under a mask if and only if they agree in front of it.
LEMMA Masks ==
  ASSUME NEW x \in Nat, NEW y \in Nat, NEW n \in Nat \ {0}
  PROVE  x - (x % n) = y - (y % n) <=> x \div n = y \div n
<1>1. x = n * (x \div n) + (x % n) /\ y = n * (y \div n) + (y % n)
  OBVIOUS
<1>2. x \div n \in Nat /\ y \div n \in Nat /\ x % n \in 0..n-1 /\ y % n \in 0..n-1
  OBVIOUS
<1>3. \A a, b \in Nat : n * a = n * b => a = b
  OBVIOUS
<1>4. x - (x % n) = n * (x \div n) /\ y - (y % n) = n * (y \div n)
  BY <1>1, <1>2
<1> QED BY <1>2, <1>3, <1>4

LEMMA MatchingCovers ==
  ASSUME Inv, NEW address \in Address, NEW i \in ValidIn(entries)
  PROVE  i \in Matching(address)
           <=> KeyIn(entries, i).len > 0 /\ Map!Covers(KeyIn(entries, i), address)
<1>1. entries[i] \in EntrySet
  BY InvIn DEF ValidIn
<1> DEFINE l == entries[i].prefix_len  a == entries[i].address
<1>2. l \in 0..Width /\ l \in Nat /\ a \in Nat /\ address \in Nat
  <2>1. Address \subseteq Nat
    BY OmionAssumption
  <2> QED BY <1>1, <2>1, EntryFields
<1>3. Block[l] \in Nat \ {0}
  BY <1>2, OmionAssumption
<1>4. KeyIn(entries, i).len = l /\ KeyIn(entries, i).address = a
  BY DEF KeyIn
<1>5. i \in Matching(address) <=> l # 0 /\ Masked(a, l) = Masked(address, l)
  BY InTheState DEF Matching
<1> HIDE DEF l, a
<1>6. Masked(a, l) = Masked(address, l) <=> a \div Block[l] = address \div Block[l]
  BY <1>2, <1>3, Masks DEF Masked
<1>7. Map!Covers(KeyIn(entries, i), address) <=> address \div Block[l] = a \div Block[l]
  BY <1>4 DEF Map!Covers
<1> QED BY <1>2, <1>4, <1>5, <1>6, <1>7

LEMMA LongestIsBest ==
  ASSUME Inv, NEW address \in Address
  PROVE  /\ \A i \in Longest(address) :
              i \in ValidIn(entries) /\ KeyIn(entries, i) \in Map!Best(address)
         /\ Miss(address) => Map!Best(address) = {}
<1>1. DOMAIN HopOf = KeysIn(entries)
  BY Keys
<1>2. \A i \in Matching(address) : i \in ValidIn(entries)
  BY InTheState DEF Matching
<1>3. \A i \in ValidIn(entries) : KeyIn(entries, i).len = entries[i].prefix_len
                                   /\ entries[i].prefix_len \in Nat
  <2> SUFFICES ASSUME NEW i \in ValidIn(entries)
               PROVE  KeyIn(entries, i).len = entries[i].prefix_len
                        /\ entries[i].prefix_len \in Nat
    OBVIOUS
  <2>1. entries[i] \in EntrySet
    BY InvIn DEF ValidIn
  <2> QED BY <2>1, EntryFields DEF KeyIn
<1>4. ASSUME NEW i \in Longest(address)
      PROVE  i \in ValidIn(entries) /\ KeyIn(entries, i) \in Map!Best(address)
  <2>1. i \in Matching(address) /\ i \in ValidIn(entries)
    BY <1>2 DEF Longest
  <2>2. KeyIn(entries, i) \in DOMAIN HopOf
    BY <1>1, <2>1 DEF KeysIn
  <2>3. KeyIn(entries, i).len > 0 /\ Map!Covers(KeyIn(entries, i), address)
    BY <2>1, MatchingCovers
  <2>4. ASSUME NEW q \in DOMAIN HopOf, q.len > KeyIn(entries, i).len,
               Map!Covers(q, address)
        PROVE  FALSE
    <3>1. PICK j \in ValidIn(entries) : q = KeyIn(entries, j)
      BY <1>1 DEF KeysIn
    <3>2. j \in Matching(address)
      BY <1>3, <2>1, <2>4, <3>1, MatchingCovers
    <3>3. entries[j].prefix_len <= entries[i].prefix_len
      BY <3>2 DEF Longest
    <3> QED BY <1>3, <2>1, <2>4, <3>1, <3>3
  <2> QED BY <2>1, <2>2, <2>3, <2>4 DEF Map!Best
<1>5. ASSUME Miss(address), NEW p \in Map!Best(address)
      PROVE  FALSE
  <2>1. p \in DOMAIN HopOf /\ p.len > 0 /\ Map!Covers(p, address)
    BY DEF Map!Best
  <2>2. PICK i \in ValidIn(entries) : p = KeyIn(entries, i)
    BY <1>1, <2>1 DEF KeysIn
  <2>3. i \in Matching(address)
    BY <2>1, <2>2, MatchingCovers
  <2> QED BY <1>5, <2>3 DEF Miss
<1> QED BY <1>4, <1>5

\* An answer tells the hop of its prefix and leaves the map as it is.
LEMMA Answer ==
  ASSUME Inv, NEW i \in ValidIn(entries), NEW layer \in 9..12, NEW code \in Int,
         AnswerWith(i, layer, code)
  PROVE  /\ Inv' /\ HopOf' = HopOf /\ Len(entries)' = Len(entries)
         /\ KeyIn(entries, i) \in DOMAIN HopOf /\ out' = HopOf[KeyIn(entries, i)]
         /\ ret' = code
<1>1. entries \in Seq(EntrySet) /\ Len(entries) <= MaxPrefixes /\ UniqueIn(entries)
  BY InvIn
<1>2. /\ entries' = [entries EXCEPT ![i].layer = layer]
      /\ out' = entries[i].next_hop /\ ret' = code
  BY DEF AnswerWith
<1>3. UniqueIn(entries') /\ HopsIn(entries') = HopsIn(entries) /\ Len(entries') = Len(entries)
  BY <1>1, <1>2, MarkSlot
<1>4. entries' \in Seq(EntrySet)
  BY <1>1, <1>2, ChangedSlot
<1>5. entries[i].next_hop \in Nat
  <2>1. entries[i] \in EntrySet
    BY <1>1 DEF ValidIn
  <2> QED BY <2>1, EntryFields
<1>6. Inv'
  BY <1>1, <1>2, <1>3, <1>4, <1>5, InvInNext
<1>7. KeyIn(entries, i) \in KeysIn(entries)
      /\ HopsIn(entries)[KeyIn(entries, i)] = entries[i].next_hop
  BY <1>1, HopAt
<1> QED BY <1>2, <1>3, <1>6, <1>7, Keys, InTheNextState

LEMMA HitStep ==
  ASSUME Inv, NEW address \in Address, Hit(address)
  PROVE  Inv' /\ Map!Found(address)
<1>1. PICK i \in Longest(address) : AnswerWith(i, 9, 0)
  BY DEF Hit
<1>2. i \in ValidIn(entries) /\ KeyIn(entries, i) \in Map!Best(address)
  BY LongestIsBest
<1>3. /\ Inv' /\ HopOf' = HopOf /\ Len(entries)' = Len(entries)
      /\ out' = HopOf[KeyIn(entries, i)] /\ ret' = 0
  BY <1>1, <1>2, Answer
<1> QED BY <1>2, <1>3 DEF Map!Found

LEMMA ResolveStep ==
  ASSUME Inv, NEW address \in Address, Resolve(address)
  PROVE  Inv' /\ Map!Resolve(address)
<1>1. CASE Hit(address)
  BY <1>1, HitStep DEF Map!Resolve
<1>2. CASE Miss(address) /\ ret' = -2 /\ UNCHANGED <<entries, out>>
  <2>1. Inv' /\ HopOf' = HopOf /\ Len(entries)' = Len(entries)
    BY <1>2, InvIn, OnlyReturns
  <2>2. Map!Best(address) = {}
    BY <1>2, LongestIsBest
  <2> QED BY <1>2, <2>1, <2>2 DEF Map!Resolve, Map!Return
<1> QED BY <1>1, <1>2 DEF Resolve

\* The remainder that omicron_resolve computes is a hint of the map.
LEMMA Hints ==
  ASSUME NEW segments \in Segments, NEW layer \in 9..12
  PROVE  OmicronResolve(segments, layer) \in 0..11
<1>1. segments[layer] \in Nat
  BY OmionAssumption
<1>2. segments[layer] % layer \in 0..layer - 1
  BY <1>1
<1> QED BY <1>2 DEF OmicronResolve

LEMMA NamedKeys ==
  ASSUME Inv, NEW hint
  PROVE  /\ \A i \in Named(hint) :
              /\ i \in ValidIn(entries) /\ KeyIn(entries, i) \in DOMAIN HopOf
              /\ hint \in {HopOf[KeyIn(entries, i)], KeyIn(entries, i).address % ByteMod}
         /\ Named(hint) = {} =>
              {p \in DOMAIN HopOf : hint \in {HopOf[p], p.address % ByteMod}} = {}
<1>1. \A i \in ValidIn(entries) :
        /\ KeyIn(entries, i) \in KeysIn(entries)
        /\ HopOf[KeyIn(entries, i)] = entries[i].next_hop
        /\ KeyIn(entries, i).address = entries[i].address
  BY InvIn, HopAt, Keys DEF KeyIn
<1>2. Named(hint) = {i \in ValidIn(entries) :
                      entries[i].next_hop = hint \/ entries[i].address % ByteMod = hint}
  BY InTheState DEF Named
<1>3. \A p \in KeysIn(entries) : \E i \in ValidIn(entries) : p = KeyIn(entries, i)
  BY DEF KeysIn
<1> QED BY <1>1, <1>2, <1>3, Keys

LEMMA CascadeStep ==
  ASSUME Inv, NEW address \in Address, NEW segments \in Segments, Cascade(address, segments)
  PROVE  Inv' /\ \E hint \in 0..11 : Map!Cascade(address, hint)
<1>1. CASE Hit(address)
  <2>1. Inv' /\ Map!Found(address)
    BY <1>1, HitStep
  <2>2. Map!Cascade(address, 0)
    BY <2>1 DEF Map!Cascade
  <2> QED BY <2>1, <2>2
<1>2. CASE CascadeHint(address, segments)
  <2>1. PICK layer \in 9..12 :
          /\ IsFirst(layer, Speaking(segments))
          /\ LET hint == OmicronResolve(segments, layer)
             IN  \/ \E i \in Named(hint) : IsFirst(i, Named(hint)) /\ AnswerWith(i, layer, 1)
                 \/ Named(hint) = {} /\ out' = hint /\ ret' = 1 /\ UNCHANGED entries
    BY <1>2 DEF CascadeHint
  <2> DEFINE hint == OmicronResolve(segments, layer)
  <2>2. hint \in 0..11 /\ hint # 0
    BY <2>1, Hints DEF IsFirst, Speaking
  <2>3. Map!Best(address) = {}
    BY <1>2, LongestIsBest DEF CascadeHint
  <2> DEFINE named == {p \in DOMAIN HopOf : hint \in {HopOf[p], p.address % ByteMod}}
  <2>4. CASE \E i \in Named(hint) : IsFirst(i, Named(hint)) /\ AnswerWith(i, layer, 1)
    <3>1. PICK i \in Named(hint) : AnswerWith(i, layer, 1)
      BY <2>4
    <3> HIDE DEF hint
    <3>2. i \in ValidIn(entries) /\ KeyIn(entries, i) \in named
      BY NamedKeys
    <3>3. /\ Inv' /\ HopOf' = HopOf /\ Len(entries)' = Len(entries)
          /\ out' = HopOf[KeyIn(entries, i)] /\ ret' = 1
      BY <3>1, <3>2, Answer
    <3>4. Map!Cascade(address, hint)
      BY <2>2, <2>3, <3>2, <3>3 DEF Map!Cascade
    <3> QED BY <2>2, <3>3, <3>4
  <2>5. CASE Named(hint) = {} /\ out' = hint /\ ret' = 1 /\ UNCHANGED entries
    <3> HIDE DEF hint
    <3>1. named = {}
      BY <2>5, NamedKeys
    <3>2. Inv' /\ HopOf' = HopOf /\ Len(entries)' = Len(entries)
      BY <2>2, <2>5, InvIn, OnlyReturns
    <3>3. Map!Cascade(address, hint)
      BY <2>2, <2>3, <2>5, <3>1, <3>2 DEF Map!Cascade
    <3> QED BY <2>2, <3>2, <3>3
  <2> QED BY <2>1, <2>4, <2>5
<1>3. CASE CascadeNone(address, segments)
  <2>1. Map!Best(address) = {}
    BY <1>3, LongestIsBest DEF CascadeNone
  <2>2. entries' = entries /\ out' = 0 /\ ret' = -2
    BY <1>3 DEF CascadeNone
  <2>3. Inv' /\ HopOf' = HopOf /\ Len(entries)' = Len(entries)
    BY <2>2, InvIn, OnlyReturns
  <2>4. Map!Cascade(address, 0)
    BY <2>1, <2>2, <2>3 DEF Map!Cascade
  <2> QED BY <2>3, <2>4
<1> QED BY <1>1, <1>2, <1>3 DEF Cascade

\* There are as many slots in use as prefixes.
LEMMA CountStep ==
  ASSUME Inv, PrefixCount
  PROVE  Inv' /\ Map!Count
<1>1. Len(entries) \in Nat /\ UniqueIn(entries)
  BY InvIn
<1>2. IsFiniteSet(1..Len(entries))
  BY <1>1, FS_Interval
<1>3. IsFiniteSet(ValidIn(entries))
  BY <1>2, FS_Subset DEF ValidIn
<1> DEFINE f == [i \in ValidIn(entries) |-> KeyIn(entries, i)]
<1>4. f \in Bijection(ValidIn(entries), KeysIn(entries))
  <2>1. f \in [ValidIn(entries) -> KeysIn(entries)]
    BY DEF KeysIn
  <2>2. \A i, j \in ValidIn(entries) : f[i] = f[j] => i = j
    BY <1>1 DEF UniqueIn
  <2>3. \A p \in KeysIn(entries) : \E i \in ValidIn(entries) : f[i] = p
    BY DEF KeysIn
  <2> QED BY <2>1, <2>2, <2>3 DEF Bijection, Injection, IsInjective, Surjection
<1>5. Cardinality(KeysIn(entries)) = Cardinality(ValidIn(entries))
  BY <1>3, <1>4, FS_Bijection DEF ExistsBijection
<1>6. Cardinality(ValidIn(entries)) \in Nat
  BY <1>3, FS_CardinalityType
<1>7. ret' = Cardinality(ValidIn(entries)) /\ entries' = entries /\ out' = out
  BY InTheState DEF PrefixCount
<1>8. Inv' /\ HopOf' = HopOf /\ Len(entries)' = Len(entries)
  BY <1>6, <1>7, InvIn, OnlyReturns
<1>9. \A S : Map!Cardinality(S) = Cardinality(S)
  BY Zenon DEF Map!Cardinality, Cardinality
<1> QED BY <1>5, <1>7, <1>8, <1>9, Keys DEF Map!Count

LEMMA ResetStep ==
  ASSUME Inv, OmionReset
  PROVE  Inv' /\ Map!Reset
<1>1. entries' = <<>> /\ ret' = ret /\ out' = out
  BY DEF OmionReset
<1>2. ValidIn(<<>>) = {} /\ KeysIn(<<>>) = {} /\ Len(<<>>) = 0 /\ <<>> \in Seq(EntrySet)
  BY DEF ValidIn, KeysIn
<1>3. UniqueIn(<<>>) /\ HopsIn(<<>>) = [p \in {} |-> 0]
  BY <1>2 DEF UniqueIn, HopsIn
<1>4. Inv'
  <2>1. MaxPrefixes \in Nat
    BY OmionAssumption
  <2> QED BY <1>1, <1>2, <1>3, <2>1, InvIn, InvInNext
<1> QED BY <1>1, <1>2, <1>3, <1>4, InTheNextState DEF Map!Reset

-----------------------------------------------------------------------------
(* The theorems. *)

LEMMA Initially ==
  ASSUME OmionInit
  PROVE  Inv /\ Map!Init
<1>1. entries = <<>> /\ ret = 0 /\ out = 0
  BY DEF OmionInit
<1>2. ValidIn(<<>>) = {} /\ KeysIn(<<>>) = {} /\ Len(<<>>) = 0 /\ <<>> \in Seq(EntrySet)
  BY DEF ValidIn, KeysIn
<1>3. UniqueIn(<<>>) /\ HopsIn(<<>>) = [p \in {} |-> 0]
  BY <1>2 DEF UniqueIn, HopsIn
<1>4. Inv
  <2>1. MaxPrefixes \in Nat
    BY OmionAssumption
  <2> QED BY <1>1, <1>2, <1>3, <2>1, InvIn
<1> QED BY <1>1, <1>2, <1>3, <1>4, InTheState DEF Map!Init

LEMMA EveryStep ==
  ASSUME Inv, [OmionNext]_omionVars
  PROVE  Inv' /\ [Map!Next]_(Map!vars)
<1>1. CASE OmionReset
  BY <1>1, ResetStep DEF Map!Next
<1>2. CASE PrefixCount
  BY <1>2, CountStep DEF Map!Next
<1>3. ASSUME NEW address \in Address, NEW plen \in Length, RemovePrefix(address, plen)
      PROVE  Inv' /\ [Map!Next]_(Map!vars)
  <2>1. Inv' /\ Map!Remove(Prefix(address, plen))
    BY <1>3, RemoveStep
  <2>2. Prefix(address, plen) \in Map!Prefix
    BY DEF Prefix, Map!Prefix
  <2> QED BY <2>1, <2>2 DEF Map!Next
<1>4. ASSUME NEW address \in Address, NEW plen \in Length, NEW hop \in Hop,
             AddPrefix(address, plen, hop)
      PROVE  Inv' /\ [Map!Next]_(Map!vars)
  <2>1. Inv' /\ Map!Add(Prefix(address, plen), hop)
    BY <1>4, AddStep
  <2>2. Prefix(address, plen) \in Map!Prefix
    BY DEF Prefix, Map!Prefix
  <2> QED BY <2>1, <2>2 DEF Map!Next
<1>5. ASSUME NEW address \in Address, Resolve(address)
      PROVE  Inv' /\ [Map!Next]_(Map!vars)
  BY <1>5, ResolveStep DEF Map!Next
<1>6. ASSUME NEW address \in Address, NEW segments \in Segments, Cascade(address, segments)
      PROVE  Inv' /\ [Map!Next]_(Map!vars)
  BY <1>6, CascadeStep DEF Map!Next
<1>7. CASE UNCHANGED omionVars
  <2>1. entries' = entries /\ ret' = ret /\ out' = out
    BY <1>7 DEF omionVars
  <2>2. Inv' /\ HopOf' = HopOf /\ Len(entries)' = Len(entries)
    BY <2>1, InvIn, OnlyReturns
  <2> QED BY <2>1, <2>2 DEF Map!vars
<1> QED BY <1>1, <1>2, <1>3, <1>4, <1>5, <1>6, <1>7 DEF OmionNext

\* The array never holds more entries than it has slots, and every field keeps its
\* range: add_prefix and its lookups write nowhere else.
THEOREM TypeCorrect == OmionSpec => []OmionTypeOK
<1>1. OmionInit => Inv
  BY Initially
<1>2. Inv /\ [OmionNext]_omionVars => Inv'
  BY EveryStep
<1>3. Inv => OmionTypeOK
  BY DEF Inv
<1> QED BY <1>1, <1>2, <1>3, PTL DEF OmionSpec

\* No prefix is in two slots in use, so that one removal removes it.
THEOREM PrefixesAreUnique == OmionSpec => []UniquePrefixes
<1>1. OmionInit => Inv
  BY Initially
<1>2. Inv /\ [OmionNext]_omionVars => Inv'
  BY EveryStep
<1>3. Inv => UniquePrefixes
  BY DEF Inv
<1> QED BY <1>1, <1>2, <1>3, PTL DEF OmionSpec

\* The array of slots implements the map of prefixes.
THEOREM SlotsImplementMap == OmionSpec => MapSpec
<1>1. OmionInit => Inv /\ Map!Init
  BY Initially
<1>2. Inv /\ [OmionNext]_omionVars => Inv' /\ [Map!Next]_(Map!vars)
  BY EveryStep
<1> QED BY <1>1, <1>2, PTL DEF OmionSpec, MapSpec, Map!Spec

=============================================================================
