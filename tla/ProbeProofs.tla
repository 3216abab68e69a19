----------------------------- MODULE ProbeProofs -----------------------------
(***************************************************************************)
(* Proofs about Probe: what the run `agree' checks of two nodes with small *)
(* buffers holds for any capabilities, buffers, numbers of attempts, and   *)
(* however many envelopes are lost.                                        *)
(***************************************************************************)
EXTENDS Probe, SequenceTheorems, FiniteSetTheorems, TLAPS

\* The envelopes that wait at node m.
Waiting(m) == {rx[m][i] : i \in 1..Len(rx[m])}

Elements(s) == {s[i] : i \in 1..Len(s)}

-----------------------------------------------------------------------------
(* The two nodes. *)

\* A node's peer is the other node, whose peer it is; what they have in common
\* is the same for both.
LEMMA Peers ==
  ASSUME NEW n \in Node
  PROVE  /\ Peer(n) \in Node /\ Peer(n) # n /\ Peer(Peer(n)) = n
         /\ Node = {n, Peer(n)}
         /\ Common(Peer(n)) = Common(n)
<1>1. PICK p \in Node, q \in Node : p # q /\ Node = {p, q}
  BY ProbeAssumption
<1>2. \E m \in Node : m # n
  BY <1>1
<1>3. Peer(n) \in Node /\ Peer(n) # n
  BY <1>2 DEF Peer
<1>4. Peer(Peer(n)) \in Node /\ Peer(Peer(n)) # Peer(n)
  <2>1. \E m \in Node : m # Peer(n)
    BY <1>3
  <2> QED
    BY <2>1 DEF Peer
<1>5. Node = {n, Peer(n)} /\ Peer(Peer(n)) = n
  BY <1>1, <1>3, <1>4
<1> QED
  BY <1>3, <1>5 DEF Common

-----------------------------------------------------------------------------
(* The transport. *)

\* A prefix has no more than k elements, and only those of the whole.
LEMMA UpToFacts ==
  ASSUME NEW S, NEW es \in Seq(S), NEW k \in Nat
  PROVE  /\ UpTo(k, es) \in Seq(S)
         /\ Len(UpTo(k, es)) <= k /\ Len(UpTo(k, es)) <= Len(es)
         /\ \A i \in 1..Len(UpTo(k, es)) : UpTo(k, es)[i] = es[i]
<1> DEFINE j == IF k < Len(es) THEN k ELSE Len(es)
<1>1. j \in 0..Len(es) /\ j <= k
  OBVIOUS
<1>2. UpTo(k, es) = SubSeq(es, 1, j)
  BY DEF UpTo
<1> HIDE DEF j
<1>3. /\ SubSeq(es, 1, j) \in Seq(S) /\ Len(SubSeq(es, 1, j)) = j
      /\ \A i \in 1..j : SubSeq(es, 1, j)[i] = es[i]
  BY <1>1
<1> QED
  BY <1>1, <1>2, <1>3

\* After a transfer the sender's queue is shorter or the same, the receiver's
\* has at most the envelopes sent in addition, and still fits into its buffer.
LEMMA TransferFacts ==
  ASSUME TypeOK, NEW n \in Node, NEW taken \in BOOLEAN, taken => rx[n] # <<>>,
         NEW es \in Seq(Envelopes), Transfer(n, taken, es)
  PROVE  /\ rx' \in [Node -> Seq(Envelopes)]
         /\ \A m \in Node : Len(rx'[m]) <= BufSlots
         /\ missed' \in BOOLEAN
         /\ Waiting(n)' \subseteq Waiting(n)
         /\ Waiting(Peer(n))' \subseteq Waiting(Peer(n)) \cup Elements(es)
<1>1. Peer(n) \in Node /\ Peer(n) # n /\ Node = {n, Peer(n)}
  BY Peers
<1>2. /\ rx \in [Node -> Seq(Envelopes)] /\ \A m \in Node : Len(rx[m]) <= BufSlots
      /\ missed \in BOOLEAN
  BY DEF TypeOK
<1>3. Room(n) \in Nat
  BY <1>1, <1>2, ProbeAssumption DEF Room
<1> DEFINE fits == UpTo(Room(n), es)
<1>4. /\ fits \in Seq(Envelopes) /\ Len(fits) <= Room(n)
      /\ \A i \in 1..Len(fits) : fits[i] = es[i]
      /\ Len(fits) <= Len(es)
  BY <1>3, UpToFacts
<1> DEFINE q == IF taken THEN [rx EXCEPT ![n] = Tail(@)] ELSE rx
<1>5. /\ q \in [Node -> Seq(Envelopes)] /\ q[Peer(n)] = rx[Peer(n)]
      /\ Len(q[n]) <= Len(rx[n])
      /\ \A i \in 1..Len(q[n]) : \E j \in 1..Len(rx[n]) : q[n][i] = rx[n][j]
  <2>1. CASE taken
    <3>1. q = [rx EXCEPT ![n] = Tail(@)]
      BY <2>1
    <3>2. rx[n] \in Seq(Envelopes) /\ rx[n] # <<>>
      BY <1>2, <2>1
    <3>3. /\ Tail(rx[n]) \in Seq(Envelopes) /\ Len(Tail(rx[n])) = Len(rx[n]) - 1
          /\ \A i \in 1..Len(Tail(rx[n])) : Tail(rx[n])[i] = rx[n][i + 1]
      BY <3>2
    <3>4. Len(rx[n]) \in Nat
      BY <3>2
    <3>5. \A i \in 1..Len(Tail(rx[n])) : i + 1 \in 1..Len(rx[n])
      BY <3>3, <3>4
    <3>6. q[n] = Tail(rx[n]) /\ q[Peer(n)] = rx[Peer(n)] /\ q \in [Node -> Seq(Envelopes)]
      BY <3>1, <3>3, <1>1, <1>2
    <3> QED
      BY <3>3, <3>4, <3>5, <3>6
  <2>2. CASE ~taken
    BY <2>2, <1>1, <1>2
  <2> QED
    BY <2>1, <2>2
<1>6. /\ rx' = [q EXCEPT ![Peer(n)] = @ \o fits]
      /\ missed' = (missed \/ Len(es) > Len(fits))
  BY DEF Transfer
<1> HIDE DEF q, fits
<1>7. rx'[n] = q[n] /\ rx'[Peer(n)] = rx[Peer(n)] \o fits
  BY <1>1, <1>5, <1>6
<1>8. /\ rx[Peer(n)] \o fits \in Seq(Envelopes)
      /\ Len(rx[Peer(n)] \o fits) = Len(rx[Peer(n)]) + Len(fits)
      /\ \A i \in 1..Len(rx[Peer(n)] \o fits) :
           \/ i \in 1..Len(rx[Peer(n)]) /\ (rx[Peer(n)] \o fits)[i] = rx[Peer(n)][i]
           \/ /\ i - Len(rx[Peer(n)]) \in 1..Len(fits)
              /\ (rx[Peer(n)] \o fits)[i] = fits[i - Len(rx[Peer(n)])]
  <2>1. rx[Peer(n)] \in Seq(Envelopes) /\ fits \in Seq(Envelopes)
    BY <1>1, <1>2, <1>4
  <2> QED
    BY <2>1
<1>9. rx' \in [Node -> Seq(Envelopes)]
  BY <1>5, <1>6, <1>8, <1>1
<1>10. Len(rx'[n]) <= BufSlots /\ Len(rx'[Peer(n)]) <= BufSlots
  <2>1. /\ rx[n] \in Seq(Envelopes) /\ rx[Peer(n)] \in Seq(Envelopes) /\ q[n] \in Seq(Envelopes)
        /\ Len(rx[n]) \in Nat /\ Len(rx[Peer(n)]) \in Nat /\ Len(q[n]) \in Nat /\ Len(fits) \in Nat
    BY <1>1, <1>2, <1>4, <1>5
  <2>2. Len(rx[n]) <= BufSlots /\ BufSlots \in Nat
    BY <1>2, ProbeAssumption
  <2> QED
    BY <2>1, <2>2, <1>4, <1>5, <1>7, <1>8 DEF Room
<1>11. Waiting(n)' \subseteq Waiting(n)
  <2> SUFFICES ASSUME NEW i \in 1..Len(rx'[n])
               PROVE  \E j \in 1..Len(rx[n]) : rx'[n][i] = rx[n][j]
    BY DEF Waiting
  <2> QED
    BY <1>5, <1>7
<1>12. Waiting(Peer(n))' \subseteq Waiting(Peer(n)) \cup Elements(es)
  <2> SUFFICES ASSUME NEW i \in 1..Len(rx'[Peer(n)])
               PROVE  rx'[Peer(n)][i] \in Waiting(Peer(n)) \cup Elements(es)
    BY DEF Waiting
  <2>1. CASE i \in 1..Len(rx[Peer(n)]) /\ rx'[Peer(n)][i] = rx[Peer(n)][i]
    BY <2>1 DEF Waiting
  <2>2. CASE /\ i - Len(rx[Peer(n)]) \in 1..Len(fits)
             /\ rx'[Peer(n)][i] = fits[i - Len(rx[Peer(n)])]
    <3>1. Len(fits) \in Nat /\ Len(es) \in Nat
      BY <1>4
    <3>2. i - Len(rx[Peer(n)]) \in 1..Len(es)
      BY <3>1, <2>2, <1>4
    <3> QED
      BY <3>2, <2>2, <1>4 DEF Elements
  <2> QED
    BY <2>1, <2>2, <1>7, <1>8
<1> QED
  BY <1>1, <1>2, <1>6, <1>9, <1>10, <1>11, <1>12

-----------------------------------------------------------------------------
(* The dispatcher. *)

\* What the handlers leave in the CPU is of its type.
LEMMA HandleType ==
  ASSUME TypeOK, NEW n \in Node, NEW e \in Envelopes, Handle(n, e)
  PROVE  /\ probeState' \in [Node -> {"IDLE", "PROBING", "NEGOTIATED"}]
         /\ peerCap' \in [Node -> SUBSET Bits] /\ subset' \in [Node -> SUBSET Bits]
<1>1. e.cap \in SUBSET Bits
  BY DEF Envelopes
<1>2. Capability[n] \cap e.cap \in SUBSET Bits
  BY <1>1
<1> QED
  BY <1>1, <1>2 DEF Handle, TypeOK

\* The envelopes that a node sends are well formed.
LEMMA EnvelopeType ==
  ASSUME NEW n \in Node
  PROVE  /\ Probe(n) \in Envelopes /\ ProbeAck(n) \in Envelopes /\ SyncCommit \in Envelopes
         /\ \A op \in OtherOps : Envelope(op, {}) \in Envelopes
<1>1. Capability[n] \in SUBSET Bits
  BY DEF Bits
<1> QED
  BY <1>1 DEF Probe, ProbeAck, SyncCommit, Envelope, Envelopes

\* An answer is one envelope or none: an acknowledgement, a commitment, or one
\* that has nothing to do with the handshake.
LEMMA AnswerFacts ==
  ASSUME NEW n \in Node, NEW e \in Envelopes
  PROVE  /\ Answer(n, e) \in Seq(Envelopes)
         /\ \A x \in Elements(Answer(n, e)) :
              \/ x = ProbeAck(n) /\ e.op = "PROBE"
              \/ x = SyncCommit /\ e.op = "SYNC_COMMIT"
              \/ x.op \in OtherOps
<1>1. \A x \in Envelopes : <<x>> \in Seq(Envelopes) /\ Elements(<<x>>) = {x}
  BY DEF Elements
<1>2. <<>> \in Seq(Envelopes) /\ Elements(<<>>) = {}
  BY DEF Elements
<1>3. CASE e.op = "PROBE"
  <2>1. Answer(n, e) = <<ProbeAck(n)>>
    BY <1>3 DEF Answer
  <2> QED
    BY <2>1, <1>1, <1>3, EnvelopeType
<1>4. CASE e.op = "SYNC_COMMIT" /\ probeState[n] # "NEGOTIATED"
  <2>1. Answer(n, e) = <<SyncCommit>>
    BY <1>4 DEF Answer
  <2> QED
    BY <2>1, <1>1, <1>4, EnvelopeType
<1>5. CASE e.op = "SEAL"
  <2>1. Answer(n, e) = <<Envelope("NOP", {})>>
    BY <1>5 DEF Answer
  <2>2. Envelope("NOP", {}) \in Envelopes /\ Envelope("NOP", {}).op \in OtherOps
    BY DEF Envelope, Envelopes, OtherOps
  <2> QED
    BY <2>1, <2>2, <1>1
<1>6. CASE e.op = "SEND"
  <2>1. Answer(n, e) = <<e>>
    BY <1>6 DEF Answer
  <2>2. e.op \in OtherOps
    BY <1>6 DEF OtherOps
  <2> QED
    BY <2>1, <2>2, <1>1
<1>7. CASE ~(\/ e.op = "PROBE" \/ (e.op = "SYNC_COMMIT" /\ probeState[n] # "NEGOTIATED")
             \/ e.op = "SEAL" \/ e.op = "SEND")
  <2>1. Answer(n, e) = <<>>
    BY <1>7 DEF Answer
  <2> QED
    BY <2>1, <1>2
<1> QED
  BY <1>3, <1>4, <1>5, <1>6, <1>7

\* An answer followed by a commitment.
LEMMA AnswerAndCommit ==
  ASSUME NEW n \in Node, NEW e \in Envelopes
  PROVE  /\ Answer(n, e) \o <<SyncCommit>> \in Seq(Envelopes)
         /\ Elements(Answer(n, e) \o <<SyncCommit>>)
              \subseteq Elements(Answer(n, e)) \cup {SyncCommit}
<1>1. Answer(n, e) \in Seq(Envelopes) /\ <<SyncCommit>> \in Seq(Envelopes)
  BY AnswerFacts, EnvelopeType
<1> DEFINE s == Answer(n, e)
           t == <<SyncCommit>>
<1>2. s \in Seq(Envelopes) /\ t \in Seq(Envelopes) /\ Len(t) = 1 /\ t[1] = SyncCommit
  BY <1>1
<1> HIDE DEF s, t
<1>3. /\ s \o t \in Seq(Envelopes) /\ Len(s \o t) = Len(s) + 1
      /\ \A i \in 1..Len(s) : (s \o t)[i] = s[i]
      /\ (s \o t)[Len(s) + 1] = SyncCommit
      /\ Len(s) \in Nat
  <2>1. s \o t \in Seq(Envelopes)
    BY <1>2
  <2>2. Len(s \o t) = Len(s) + 1 /\ Len(s) \in Nat
    BY <1>2, ConcatProperties
  <2>3. \A i \in 1..Len(s) : (s \o t)[i] = s[i]
    BY <1>2
  <2>4. (s \o t)[Len(s) + 1] = t[1]
    BY <1>2, <2>2
  <2> QED
    BY <2>1, <2>2, <2>3, <2>4, <1>2
<1>4. \A i \in 1..Len(s \o t) : i \in 1..Len(s) \/ i = Len(s) + 1
  BY <1>3
<1>5. \A i \in 1..Len(s \o t) : (s \o t)[i] \in Elements(s) \cup {SyncCommit}
  BY <1>3, <1>4 DEF Elements
<1> QED
  BY <1>3, <1>5 DEF s, t, Elements

\* The head of a queue is one of the envelopes that wait there.
LEMMA HeadWaits ==
  ASSUME TypeOK, NEW n \in Node, rx[n] # <<>>
  PROVE  Head(rx[n]) \in Envelopes /\ Head(rx[n]) \in Waiting(n)
<1>1. rx[n] \in Seq(Envelopes)
  BY DEF TypeOK
<1>2. 1 \in 1..Len(rx[n]) /\ Head(rx[n]) = rx[n][1] /\ rx[n][1] \in Envelopes
  BY <1>1
<1> QED
  BY <1>2 DEF Waiting

-----------------------------------------------------------------------------
(* Types. *)

LEMMA TypeInit == Init => TypeOK
<1> SUFFICES ASSUME Init PROVE TypeOK
  OBVIOUS
<1>1. <<>> \in Seq(Envelopes) /\ Len(<<>>) = 0
  OBVIOUS
<1>2. BufSlots \in Nat /\ 0 \in 0..MaxAttempts /\ 0 \in Nat
  BY ProbeAssumption
<1>3. rx \in [Node -> Seq(Envelopes)] /\ \A n \in Node : Len(rx[n]) <= BufSlots
  BY <1>1, <1>2 DEF Init
<1>4. /\ probeState \in [Node -> {"IDLE", "PROBING", "NEGOTIATED"}]
      /\ peerCap \in [Node -> SUBSET Bits] /\ subset \in [Node -> SUBSET Bits]
  BY DEF Init
<1>5. /\ session \in [Node -> {"IDLE", "SENT", "ACKED", "SYNCED", "FAILED"}]
      /\ attempts \in [Node -> 0..MaxAttempts]
      /\ result \in [Node -> {"NONE", "OK", "FAILED", "ERROR"}]
  BY <1>2 DEF Init
<1> QED
  BY <1>2, <1>3, <1>4, <1>5 DEF Init, TypeOK

\* Every poll updates the control as UseAttempt or Return say.
LEMMA UseAttemptType ==
  ASSUME TypeOK, NEW n \in Node, attempts[n] > 0,
         NEW s \in {"IDLE", "SENT", "ACKED", "SYNCED", "FAILED"}, UseAttempt(n, s)
  PROVE  /\ session' \in [Node -> {"IDLE", "SENT", "ACKED", "SYNCED", "FAILED"}]
         /\ attempts' \in [Node -> 0..MaxAttempts]
         /\ result' \in [Node -> {"NONE", "OK", "FAILED", "ERROR"}]
<1>1. attempts[n] \in 0..MaxAttempts /\ MaxAttempts \in Nat
  BY ProbeAssumption DEF TypeOK
<1>2. attempts[n] - 1 \in 0..MaxAttempts
  BY <1>1
<1> QED
  BY <1>2 DEF TypeOK, UseAttempt

LEMMA ReturnType ==
  ASSUME TypeOK, NEW n \in Node, NEW s \in {"IDLE", "SENT", "ACKED", "SYNCED", "FAILED"},
         NEW r \in {"NONE", "OK", "FAILED", "ERROR"}, Return(n, s, r)
  PROVE  /\ session' \in [Node -> {"IDLE", "SENT", "ACKED", "SYNCED", "FAILED"}]
         /\ attempts' \in [Node -> 0..MaxAttempts]
         /\ result' \in [Node -> {"NONE", "OK", "FAILED", "ERROR"}]
<1>1. 0 \in 0..MaxAttempts
  BY ProbeAssumption
<1> QED
  BY <1>1 DEF TypeOK, Return

\* A step that sends, handles nothing, and keeps to the types of the rest.
LEMMA TypeStep == TypeOK /\ [Next]_vars => TypeOK'
<1> SUFFICES ASSUME TypeOK, [Next]_vars PROVE TypeOK'
  OBVIOUS
<1> USE DEF counters, cpu
<1>t. /\ \A m \in Node : session[m] \in {"IDLE", "SENT", "ACKED", "SYNCED", "FAILED"}
      /\ calls \in Nat /\ lost \in Nat /\ restarts \in Nat
      /\ MaxAttempts \in Nat /\ 0 \in 0..MaxAttempts /\ MaxAttempts \in 0..MaxAttempts
  BY ProbeAssumption DEF TypeOK
<1>e. \A m \in Node : <<Probe(m)>> \in Seq(Envelopes) /\ <<SyncCommit>> \in Seq(Envelopes)
  BY EnvelopeType
<1>1. ASSUME NEW n \in Node, NEW polls \in {0, MaxAttempts}, Start(n, polls) PROVE TypeOK'
  <2>1. Transfer(n, FALSE, <<Probe(n)>>)
    BY <1>1 DEF Start
  <2>2. /\ rx' \in [Node -> Seq(Envelopes)] /\ \A m \in Node : Len(rx'[m]) <= BufSlots
        /\ missed' \in BOOLEAN
    BY <2>1, <1>e, TransferFacts
  <2>3. polls \in 0..MaxAttempts
    BY <1>t
  <2>4. /\ session' \in [Node -> {"IDLE", "SENT", "ACKED", "SYNCED", "FAILED"}]
        /\ attempts' \in [Node -> 0..MaxAttempts]
        /\ probeState' \in [Node -> {"IDLE", "PROBING", "NEGOTIATED"}]
    <3>1. CASE Room(n) = 0
      BY <3>1, <1>1 DEF Start, TypeOK
    <3>2. CASE Room(n) # 0
      <4>1. /\ session' = [session EXCEPT ![n] = "SENT"]
            /\ probeState' = [probeState EXCEPT ![n] = "PROBING"]
            /\ attempts' = [attempts EXCEPT ![n] = polls]
        BY <3>2, <1>1 DEF Start
      <4> QED
        BY <4>1, <2>3 DEF TypeOK
    <3> QED
      BY <3>1, <3>2
  <2>5. result' \in [Node -> {"NONE", "OK", "FAILED", "ERROR"}]
    BY <1>1 DEF Start, TypeOK
  <2>6. calls' \in Nat /\ UNCHANGED <<peerCap, subset, lost, restarts>>
    BY <1>1, <1>t DEF Start
  <2> QED
    BY <2>2, <2>4, <2>5, <2>6 DEF TypeOK
<1>2. ASSUME NEW n \in Node, SendSync(n) PROVE TypeOK'
  <2>1. Transfer(n, FALSE, <<SyncCommit>>)
    BY <1>2 DEF SendSync
  <2>2. /\ rx' \in [Node -> Seq(Envelopes)] /\ \A m \in Node : Len(rx'[m]) <= BufSlots
        /\ missed' \in BOOLEAN
    BY <2>1, <1>e, TransferFacts
  <2> QED
    BY <2>2, <1>2, <1>t DEF SendSync, TypeOK
<1>3. ASSUME NEW n \in Node, Post(n) PROVE TypeOK'
  <2>1. PICK op \in Posted : Transfer(n, FALSE, <<Envelope(op, {})>>)
    BY <1>3 DEF Post
  <2>2. <<Envelope(op, {})>> \in Seq(Envelopes)
    BY EnvelopeType, ProbeAssumption
  <2>3. /\ rx' \in [Node -> Seq(Envelopes)] /\ \A m \in Node : Len(rx'[m]) <= BufSlots
        /\ missed' \in BOOLEAN
    BY <2>1, <2>2, TransferFacts
  <2> QED
    BY <2>3, <1>3, <1>t DEF Post, TypeOK
<1>h. ASSUME NEW n \in Node, rx[n] # <<>>, NEW es \in Seq(Envelopes),
             Handle(n, Head(rx[n])), Transfer(n, TRUE, es), UNCHANGED counters,
             session' \in [Node -> {"IDLE", "SENT", "ACKED", "SYNCED", "FAILED"}],
             attempts' \in [Node -> 0..MaxAttempts],
             result' \in [Node -> {"NONE", "OK", "FAILED", "ERROR"}]
      PROVE  TypeOK'
  <2>1. Head(rx[n]) \in Envelopes
    BY <1>h, HeadWaits
  <2>2. /\ rx' \in [Node -> Seq(Envelopes)] /\ \A m \in Node : Len(rx'[m]) <= BufSlots
        /\ missed' \in BOOLEAN
    BY <1>h, TransferFacts
  <2>3. /\ probeState' \in [Node -> {"IDLE", "PROBING", "NEGOTIATED"}]
        /\ peerCap' \in [Node -> SUBSET Bits] /\ subset' \in [Node -> SUBSET Bits]
    BY <1>h, <2>1, HandleType
  <2> QED
    BY <1>h, <1>t, <2>2, <2>3 DEF TypeOK
<1>4. ASSUME NEW n \in Node, Serve(n) PROVE TypeOK'
  <2> DEFINE e == Head(rx[n])
  <2>1. /\ rx[n] # <<>> /\ Handle(n, e) /\ Transfer(n, TRUE, Answer(n, e))
        /\ session' = [session EXCEPT ![n] = NextSession(n, e)]
        /\ UNCHANGED <<attempts, result, counters>>
    BY <1>4 DEF Serve
  <2>2. Answer(n, e) \in Seq(Envelopes)
    BY <2>1, HeadWaits, AnswerFacts
  <2>3. NextSession(n, e) \in {"IDLE", "SENT", "ACKED", "SYNCED", "FAILED"}
    BY <1>t DEF NextSession
  <2>4. session' \in [Node -> {"IDLE", "SENT", "ACKED", "SYNCED", "FAILED"}]
    BY <2>1, <2>3 DEF TypeOK
  <2>5. /\ attempts' \in [Node -> 0..MaxAttempts]
        /\ result' \in [Node -> {"NONE", "OK", "FAILED", "ERROR"}]
    BY <2>1 DEF TypeOK
  <2> QED
    BY <2>1, <2>2, <2>4, <2>5, <1>h
<1>5. ASSUME NEW n \in Node, PollNothing(n) PROVE TypeOK'
  <2>1. attempts[n] > 0 /\ UseAttempt(n, session[n]) /\ UNCHANGED <<cpu, rx, missed, counters>>
    BY <1>5 DEF PollNothing
  <2>2. /\ session' \in [Node -> {"IDLE", "SENT", "ACKED", "SYNCED", "FAILED"}]
        /\ attempts' \in [Node -> 0..MaxAttempts]
        /\ result' \in [Node -> {"NONE", "OK", "FAILED", "ERROR"}]
    BY <2>1, <1>t, UseAttemptType
  <2> QED
    BY <2>1, <2>2 DEF TypeOK
<1>6. ASSUME NEW n \in Node, PollRefused(n) PROVE TypeOK'
  <2>1. /\ rx[n] # <<>> /\ Transfer(n, TRUE, <<>>) /\ Return(n, session[n], "ERROR")
        /\ UNCHANGED <<cpu, counters>>
    BY <1>6 DEF PollRefused
  <2>2. /\ session' \in [Node -> {"IDLE", "SENT", "ACKED", "SYNCED", "FAILED"}]
        /\ attempts' \in [Node -> 0..MaxAttempts]
        /\ result' \in [Node -> {"NONE", "OK", "FAILED", "ERROR"}]
    BY <2>1, <1>t, ReturnType
  <2>3. <<>> \in Seq(Envelopes)
    OBVIOUS
  <2>4. /\ rx' \in [Node -> Seq(Envelopes)] /\ \A m \in Node : Len(rx'[m]) <= BufSlots
        /\ missed' \in BOOLEAN
    BY <2>1, <2>3, TransferFacts
  <2> QED
    BY <2>1, <2>2, <2>4 DEF TypeOK
<1>7. ASSUME NEW n \in Node, PollCommit(n) PROVE TypeOK'
  <2> DEFINE e == Head(rx[n])
  <2>1. /\ attempts[n] > 0 /\ rx[n] # <<>> /\ Handle(n, e)
        /\ Transfer(n, TRUE, Answer(n, e) \o <<SyncCommit>>)
        /\ Return(n, "ACKED", "ERROR") \/ UseAttempt(n, "ACKED")
        /\ UNCHANGED counters
    BY <1>7 DEF PollCommit
  <2>2. Answer(n, e) \o <<SyncCommit>> \in Seq(Envelopes)
    BY <2>1, HeadWaits, AnswerAndCommit
  <2>3. /\ session' \in [Node -> {"IDLE", "SENT", "ACKED", "SYNCED", "FAILED"}]
        /\ attempts' \in [Node -> 0..MaxAttempts]
        /\ result' \in [Node -> {"NONE", "OK", "FAILED", "ERROR"}]
    BY <2>1, UseAttemptType, ReturnType
  <2> QED
    BY <2>1, <2>2, <2>3, <1>h
<1>8. ASSUME NEW n \in Node, PollSynced(n) PROVE TypeOK'
  <2> DEFINE e == Head(rx[n])
  <2>1. /\ rx[n] # <<>> /\ Handle(n, e) /\ Transfer(n, TRUE, Answer(n, e))
        /\ Return(n, "SYNCED", "OK") /\ UNCHANGED counters
    BY <1>8 DEF PollSynced
  <2>2. Answer(n, e) \in Seq(Envelopes)
    BY <2>1, HeadWaits, AnswerFacts
  <2>3. /\ session' \in [Node -> {"IDLE", "SENT", "ACKED", "SYNCED", "FAILED"}]
        /\ attempts' \in [Node -> 0..MaxAttempts]
        /\ result' \in [Node -> {"NONE", "OK", "FAILED", "ERROR"}]
    BY <2>1, ReturnType
  <2> QED
    BY <2>1, <2>2, <2>3, <1>h
<1>9. ASSUME NEW n \in Node, PollOther(n) PROVE TypeOK'
  <2> DEFINE e == Head(rx[n])
  <2>1. /\ attempts[n] > 0 /\ rx[n] # <<>> /\ Handle(n, e) /\ Transfer(n, TRUE, Answer(n, e))
        /\ UseAttempt(n, session[n]) /\ UNCHANGED counters
    BY <1>9 DEF PollOther
  <2>2. Answer(n, e) \in Seq(Envelopes)
    BY <2>1, HeadWaits, AnswerFacts
  <2>3. /\ session' \in [Node -> {"IDLE", "SENT", "ACKED", "SYNCED", "FAILED"}]
        /\ attempts' \in [Node -> 0..MaxAttempts]
        /\ result' \in [Node -> {"NONE", "OK", "FAILED", "ERROR"}]
    BY <2>1, <1>t, UseAttemptType
  <2> QED
    BY <2>1, <2>2, <2>3, <1>h
<1>10. ASSUME NEW n \in Node, Lose(n) PROVE TypeOK'
  <2>1. rx[n] \in Seq(Envelopes) /\ rx[n] # <<>> /\ rx' = [rx EXCEPT ![n] = Tail(@)]
    BY <1>10 DEF Lose, TypeOK
  <2>2. Tail(rx[n]) \in Seq(Envelopes) /\ Len(Tail(rx[n])) = Len(rx[n]) - 1 /\ Len(rx[n]) \in Nat
    BY <2>1
  <2>3. /\ rx' \in [Node -> Seq(Envelopes)]
        /\ \A m \in Node : rx'[m] = IF m = n THEN Tail(rx[n]) ELSE rx[m]
    BY <2>1, <2>2 DEF TypeOK
  <2>4. \A m \in Node : Len(rx'[m]) <= BufSlots
    <3>1. \A m \in Node : Len(rx[m]) <= BufSlots
      BY DEF TypeOK
    <3>2. Len(rx[n]) - 1 <= BufSlots
      BY <3>1, <2>2, ProbeAssumption
    <3> QED
      BY <3>1, <3>2, <2>2, <2>3
  <2> QED
    BY <2>3, <2>4, <1>10, <1>t DEF Lose, TypeOK
<1>11. ASSUME NEW n \in Node, Restart(n) PROVE TypeOK'
  <2>1. <<>> \in Seq(Envelopes) /\ Len(<<>>) = 0 /\ BufSlots \in Nat
    BY ProbeAssumption
  <2>2. rx' \in [Node -> Seq(Envelopes)] /\ \A m \in Node : rx'[m] = <<>> \/ rx'[m] = rx[m]
    BY <1>11, <2>1 DEF Restart, TypeOK
  <2>3. \A m \in Node : Len(rx'[m]) <= BufSlots
    BY <2>1, <2>2 DEF TypeOK
  <2>4. {} \in SUBSET Bits
    OBVIOUS
  <2> QED
    BY <1>11, <2>2, <2>3, <2>4, <1>t DEF Restart, TypeOK
<1>12. CASE UNCHANGED vars
  BY <1>12 DEF vars, TypeOK
<1> QED
  BY <1>1, <1>2, <1>3, <1>4, <1>5, <1>6, <1>7, <1>8, <1>9, <1>10, <1>11, <1>12 DEF Next, Poll

\* In every instance the session, the attempts left and the CPU's fields are of
\* their types, and no buffer holds more envelopes than it has room for.
THEOREM TypeCorrect == Spec => []TypeOK
<1> QED
  BY TypeInit, TypeStep, PTL DEF Spec

-----------------------------------------------------------------------------
(* The inductive invariant of the agreement: CommittedAgree says nothing of *)
(* the envelopes on their way, from which a node concludes that the other   *)
(* has stored the subset.                                                   *)

Agreed == \A m \in Node : subset[m] = Common(m)

\* An envelope that waits at m tells the truth about the node that sent it.
GoodMail(m, e) ==
  /\ e.op \in {"PROBE", "PROBE_ACK"} => e.cap = Capability[Peer(m)]
  /\ e.op = "PROBE_ACK" => subset[Peer(m)] = Common(m)
  /\ e.op = "SYNC_COMMIT" => Agreed /\ probeState[Peer(m)] # "IDLE"

\* A node that believes in an agreement is right.
Knows(m) ==
  /\ probeState[m] = "NEGOTIATED" \/ session[m] \in {"ACKED", "SYNCED"} \/ result[m] = "OK" => Agreed
  /\ session[m] = "SYNCED" \/ result[m] = "OK" => probeState[Peer(m)] # "IDLE"
  /\ session[m] = "ACKED" => probeState[m] # "IDLE"

MailInv == \A m \in Node : \A e \in Waiting(m) : GoodMail(m, e)
AgreeInv == restarts = 0 => MailInv /\ \A m \in Node : Knows(m)

\* What a step without a restart never takes back.
Keeps ==
  /\ \A m \in Node : subset[m] = Common(m) => subset'[m] = Common(m)
  /\ \A m \in Node : probeState[m] # "IDLE" => probeState'[m] # "IDLE"

LEMMA AgreedKept == Keeps /\ Agreed => Agreed'
  BY DEF Keeps, Agreed

\* An envelope that told the truth goes on doing so.
LEMMA MailKept ==
  ASSUME Keeps, NEW m \in Node, NEW e, GoodMail(m, e)
  PROVE  GoodMail(m, e)'
<1>1. Peer(m) \in Node /\ Common(Peer(m)) = Common(m)
  BY Peers
<1>2. e.op \in {"PROBE", "PROBE_ACK"} => e.cap = Capability[Peer(m)]
  BY DEF GoodMail
<1>3. e.op = "PROBE_ACK" => subset'[Peer(m)] = Common(m)
  BY <1>1 DEF GoodMail, Keeps
<1>4. e.op = "SYNC_COMMIT" => Agreed' /\ probeState'[Peer(m)] # "IDLE"
  BY <1>1, AgreedKept DEF GoodMail, Keeps
<1> QED
  BY <1>2, <1>3, <1>4 DEF GoodMail

\* A transfer keeps MailInv if what it sends tells the truth.
LEMMA Delivery ==
  ASSUME TypeOK, MailInv, Keeps, NEW n \in Node, NEW taken \in BOOLEAN, taken => rx[n] # <<>>,
         NEW es \in Seq(Envelopes), Transfer(n, taken, es),
         \A x \in Elements(es) : GoodMail(Peer(n), x)'
  PROVE  MailInv'
<1>1. /\ Waiting(n)' \subseteq Waiting(n)
      /\ Waiting(Peer(n))' \subseteq Waiting(Peer(n)) \cup Elements(es)
  BY TransferFacts
<1>2. Node = {n, Peer(n)} /\ Peer(n) \in Node
  BY Peers
<1>3. \A e \in Waiting(n)' : GoodMail(n, e)'
  BY <1>1, MailKept DEF MailInv
<1>4. \A e \in Waiting(Peer(n))' : GoodMail(Peer(n), e)'
  BY <1>1, <1>2, MailKept DEF MailInv
<1> QED
  BY <1>2, <1>3, <1>4 DEF MailInv

\* A handler takes nothing back, and stores what the envelope entitles it to.
LEMMA HandleKeeps ==
  ASSUME TypeOK, NEW n \in Node, NEW e \in Envelopes, GoodMail(n, e), Handle(n, e)
  PROVE  /\ Keeps
         /\ e.op = "PROBE" => subset'[n] = Common(n)
         /\ e.op = "PROBE_ACK" => Agreed' /\ probeState'[n] = "NEGOTIATED"
         /\ e.op = "SYNC_COMMIT" =>
              Agreed' /\ probeState'[n] = "NEGOTIATED" /\ probeState'[Peer(n)] # "IDLE"
         /\ probeState'[Peer(n)] = probeState[Peer(n)]
         /\ e.op \notin {"PROBE_ACK", "SYNC_COMMIT"} => probeState'[n] = probeState[n]
<1>1. Node = {n, Peer(n)} /\ Peer(n) \in Node /\ Peer(n) # n /\ Common(Peer(n)) = Common(n)
  BY Peers
<1>2. e.op \in {"PROBE", "PROBE_ACK"} => subset'[n] = Common(n)
  BY DEF Handle, GoodMail, TypeOK, Common
<1>3. subset'[Peer(n)] = subset[Peer(n)] /\ (e.op \notin {"PROBE", "PROBE_ACK"} => subset'[n] = subset[n])
  BY <1>1 DEF Handle, TypeOK
<1>4. /\ probeState'[Peer(n)] = probeState[Peer(n)]
      /\ e.op \in {"PROBE_ACK", "SYNC_COMMIT"} => probeState'[n] = "NEGOTIATED"
      /\ e.op \notin {"PROBE_ACK", "SYNC_COMMIT"} => probeState'[n] = probeState[n]
  BY <1>1 DEF Handle, TypeOK
<1>5. Keeps
  BY <1>1, <1>2, <1>3, <1>4 DEF Keeps
<1>6. e.op = "PROBE_ACK" => Agreed'
  BY <1>1, <1>2, <1>3 DEF Agreed, GoodMail
<1>7. e.op = "SYNC_COMMIT" => Agreed' /\ probeState'[Peer(n)] # "IDLE"
  BY <1>4, <1>5, AgreedKept DEF GoodMail
<1> QED
  BY <1>2, <1>4, <1>5, <1>6, <1>7

\* The answers tell the truth.
LEMMA AnswerGood ==
  ASSUME TypeOK, NEW n \in Node, NEW e \in Envelopes, GoodMail(n, e), Handle(n, e)
  PROVE  \A x \in Elements(Answer(n, e)) : GoodMail(Peer(n), x)'
<1> SUFFICES ASSUME NEW x \in Elements(Answer(n, e)) PROVE GoodMail(Peer(n), x)'
  OBVIOUS
<1>1. Peer(Peer(n)) = n /\ Common(Peer(n)) = Common(n) /\ Peer(n) \in Node
  BY Peers
<1>2. \/ x = ProbeAck(n) /\ e.op = "PROBE"
      \/ x = SyncCommit /\ e.op = "SYNC_COMMIT"
      \/ x.op \in OtherOps
  BY AnswerFacts
<1>3. CASE x = ProbeAck(n) /\ e.op = "PROBE"
  <2>1. x.op = "PROBE_ACK" /\ x.cap = Capability[n]
    BY <1>3 DEF ProbeAck, Envelope
  <2>2. subset'[n] = Common(n)
    BY <1>3, HandleKeeps
  <2> QED
    BY <1>1, <2>1, <2>2 DEF GoodMail
<1>4. CASE x = SyncCommit /\ e.op = "SYNC_COMMIT"
  <2>1. x.op = "SYNC_COMMIT"
    BY <1>4 DEF SyncCommit, Envelope
  <2>2. Agreed' /\ probeState'[n] # "IDLE"
    BY <1>4, HandleKeeps
  <2> QED
    BY <1>1, <2>1, <2>2 DEF GoodMail
<1>5. CASE x.op \in OtherOps
  BY <1>5 DEF GoodMail, OtherOps
<1> QED
  BY <1>2, <1>3, <1>4, <1>5

\* A node whose session does not get further, and whose CPU is NEGOTIATED only
\* by right, goes on being right.
LEMMA KnowsKept ==
  ASSUME Keeps, NEW m \in Node, Knows(m),
         session'[m] \in {session[m], "SENT", "FAILED"},
         result'[m] \in {result[m], "NONE", "FAILED", "ERROR"},
         probeState'[m] = "NEGOTIATED" => Agreed'
  PROVE  Knows(m)'
<1>1. Peer(m) \in Node
  BY Peers
<1>2. session'[m] \in {"ACKED", "SYNCED"} \/ result'[m] = "OK" => Agreed'
  BY AgreedKept DEF Knows
<1>3. session'[m] = "SYNCED" \/ result'[m] = "OK" => probeState'[Peer(m)] # "IDLE"
  BY <1>1 DEF Knows, Keeps
<1>4. session'[m] = "ACKED" => probeState'[m] # "IDLE"
  BY DEF Knows, Keeps
<1> QED
  BY <1>2, <1>3, <1>4 DEF Knows

\* A node that has handled an envelope, with whatever outcome for the session.
LEMMA KnowsHandled ==
  ASSUME TypeOK, NEW n \in Node, NEW e \in Envelopes, GoodMail(n, e), Handle(n, e), Knows(n),
         session'[n] \in {session[n], NextSession(n, e), "FAILED"},
         \/ result'[n] \in {result[n], "NONE", "FAILED", "ERROR"}
         \/ result'[n] = "OK" /\ NextSession(n, e) = "SYNCED"
  PROVE  Knows(n)'
<1>1. Keeps /\ Peer(n) \in Node
  BY HandleKeeps, Peers
<1>2. probeState'[n] = "NEGOTIATED" => Agreed'
  BY <1>1, HandleKeeps, AgreedKept DEF Knows
<1>3. /\ NextSession(n, e) = "ACKED" => e.op = "PROBE_ACK" \/ session[n] = "ACKED"
      /\ NextSession(n, e) = "SYNCED" => e.op = "SYNC_COMMIT" \/ session[n] = "SYNCED"
      /\ NextSession(n, e) \in {"ACKED", "SYNCED", session[n]}
  BY DEF NextSession
<1>4. NextSession(n, e) = "ACKED" => Agreed' /\ probeState'[n] # "IDLE"
  BY <1>1, <1>3, HandleKeeps, AgreedKept DEF Knows, Keeps
<1>5. NextSession(n, e) = "SYNCED" => Agreed' /\ probeState'[Peer(n)] # "IDLE"
  BY <1>1, <1>3, HandleKeeps, AgreedKept DEF Knows, Keeps
<1>6. session[n] \in {"ACKED", "SYNCED"} \/ result[n] = "OK" => Agreed'
  BY <1>1, AgreedKept DEF Knows
<1>7. session[n] = "SYNCED" \/ result[n] = "OK" => probeState'[Peer(n)] # "IDLE"
  BY <1>1 DEF Knows, Keeps
<1>8. session[n] = "ACKED" => probeState'[n] # "IDLE"
  BY <1>1 DEF Knows, Keeps
<1> QED
  BY <1>2, <1>3, <1>4, <1>5, <1>6, <1>7, <1>8 DEF Knows

-----------------------------------------------------------------------------
LEMMA AgreeInit == Init => AgreeInv
<1> SUFFICES ASSUME Init PROVE AgreeInv
  OBVIOUS
<1>1. MailInv
  <2>1. \A m \in Node : Len(rx[m]) = 0
    BY DEF Init
  <2>0. 1..0 = {}
    OBVIOUS
  <2>2. \A m \in Node : 1..Len(rx[m]) = {}
    BY <2>0, <2>1, Zenon
  <2>3. \A m \in Node : Waiting(m) = {}
    BY <2>2 DEF Waiting
  <2> QED
    BY <2>3 DEF MailInv
<1>2. \A m \in Node : Knows(m)
  BY DEF Init, Knows
<1> QED
  BY <1>1, <1>2 DEF AgreeInv

\* Every call keeps the agreement: what it sends is true when it is sent, and
\* what it concludes follows from the envelope it has read.
LEMMA AgreeStep == TypeOK /\ AgreeInv /\ [Next]_vars => AgreeInv'
<1> SUFFICES ASSUME TypeOK, AgreeInv, [Next]_vars, restarts' = 0
             PROVE  MailInv' /\ \A m \in Node : Knows(m)'
  BY DEF AgreeInv
<1> USE DEF counters, cpu
<1>e. \A m \in Node : <<Probe(m)>> \in Seq(Envelopes) /\ <<SyncCommit>> \in Seq(Envelopes)
  BY EnvelopeType
<1>0. CASE \E n \in Node : Restart(n)
  <2>1. restarts' = restarts + 1 /\ restarts \in Nat
    BY <1>0 DEF Restart, TypeOK
  <2> QED
    BY <2>1
<1>k. ASSUME restarts = 0 PROVE MailInv /\ \A m \in Node : Knows(m)
  BY <1>k DEF AgreeInv
<1>1. ASSUME NEW n \in Node, NEW polls \in {0, MaxAttempts}, Start(n, polls)
      PROVE  MailInv' /\ \A m \in Node : Knows(m)'
  <2>1. Transfer(n, FALSE, <<Probe(n)>>) /\ restarts = 0 /\ UNCHANGED subset
    BY <1>1 DEF Start
  <2>2. \A m \in Node : probeState'[m] \in {probeState[m], "PROBING"}
    BY <1>1 DEF Start, TypeOK
  <2>3. Keeps
    BY <2>1, <2>2 DEF Keeps
  <2>4. \A x \in Elements(<<Probe(n)>>) : GoodMail(Peer(n), x)'
    <3>1. Elements(<<Probe(n)>>) = {Probe(n)}
      BY DEF Elements
    <3>2. Peer(Peer(n)) = n
      BY Peers
    <3>3. Probe(n).op = "PROBE" /\ Probe(n).cap = Capability[n]
      BY DEF Probe, Envelope
    <3> QED
      BY <3>1, <3>2, <3>3 DEF GoodMail
  <2>5. MailInv'
    BY <1>k, <1>e, <2>1, <2>3, <2>4, Delivery
  <2>6. ASSUME NEW m \in Node PROVE Knows(m)'
    <3>1. session'[m] \in {session[m], "SENT", "FAILED"}
      BY <1>1 DEF Start, TypeOK
    <3>2. result'[m] \in {result[m], "NONE", "FAILED", "ERROR"}
      BY <1>1 DEF Start, TypeOK
    <3>3. probeState'[m] = "NEGOTIATED" => Agreed'
      BY <1>k, <2>1, <2>2, <2>3, AgreedKept DEF Knows
    <3> QED
      BY <1>k, <2>1, <2>3, <3>1, <3>2, <3>3, KnowsKept
  <2> QED
    BY <2>5, <2>6
<1>q. ASSUME UNCHANGED <<cpu, session, result, restarts>>
      PROVE  Keeps /\ \A m \in Node : Knows(m)'
  <2>1. Keeps
    BY <1>q DEF Keeps
  <2>2. restarts = 0
    BY <1>q
  <2> QED
    BY <1>q, <1>k, <2>1, <2>2 DEF Knows, Agreed
<1>2. ASSUME NEW n \in Node, SendSync(n) PROVE MailInv' /\ \A m \in Node : Knows(m)'
  <2>1. /\ session[n] = "ACKED" /\ Transfer(n, FALSE, <<SyncCommit>>)
        /\ UNCHANGED <<cpu, session, result, restarts>>
    BY <1>2 DEF SendSync
  <2>2. \A x \in Elements(<<SyncCommit>>) : GoodMail(Peer(n), x)'
    <3>1. Elements(<<SyncCommit>>) = {SyncCommit} /\ SyncCommit.op = "SYNC_COMMIT"
      BY DEF Elements, SyncCommit, Envelope
    <3>2. Agreed /\ probeState[n] # "IDLE"
      BY <2>1, <1>k DEF Knows
    <3>3. Agreed' /\ probeState'[n] # "IDLE" /\ Peer(Peer(n)) = n
      BY <3>2, <2>1, Peers DEF Agreed
    <3> QED
      BY <3>1, <3>3 DEF GoodMail
  <2>3. restarts = 0
    BY <2>1
  <2>4. Keeps /\ \A m \in Node : Knows(m)'
    BY <2>1, <1>q
  <2>5. MailInv'
    BY <1>k, <1>e, <2>1, <2>2, <2>3, <2>4, Delivery
  <2> QED
    BY <2>4, <2>5
<1>3. ASSUME NEW n \in Node, Post(n) PROVE MailInv' /\ \A m \in Node : Knows(m)'
  <2>1. PICK op \in Posted : Transfer(n, FALSE, <<Envelope(op, {})>>)
    BY <1>3 DEF Post
  <2>2. <<Envelope(op, {})>> \in Seq(Envelopes) /\ op \in OtherOps
    BY EnvelopeType, ProbeAssumption
  <2>3. \A x \in Elements(<<Envelope(op, {})>>) : GoodMail(Peer(n), x)'
    <3>1. Elements(<<Envelope(op, {})>>) = {Envelope(op, {})} /\ Envelope(op, {}).op = op
      BY DEF Elements, Envelope
    <3> QED
      BY <3>1, <2>2 DEF GoodMail, OtherOps
  <2>4. UNCHANGED <<cpu, session, result, restarts>> /\ restarts = 0
    BY <1>3 DEF Post
  <2>5. Keeps /\ \A m \in Node : Knows(m)'
    BY <2>4, <1>q
  <2>6. MailInv'
    BY <1>k, <2>1, <2>2, <2>3, <2>4, <2>5, Delivery
  <2> QED
    BY <2>5, <2>6
<1>h. ASSUME NEW n \in Node, restarts = 0, rx[n] # <<>>, NEW es \in Seq(Envelopes),
             Handle(n, Head(rx[n])), Transfer(n, TRUE, es),
             \A x \in Elements(es) : GoodMail(Peer(n), x)',
             NEW s, session' = [session EXCEPT ![n] = s],
             s \in {session[n], NextSession(n, Head(rx[n])), "FAILED"},
             NEW r, result' = [result EXCEPT ![n] = r],
             \/ r \in {result[n], "NONE", "FAILED", "ERROR"}
             \/ r = "OK" /\ NextSession(n, Head(rx[n])) = "SYNCED"
      PROVE  MailInv' /\ \A m \in Node : Knows(m)'
  <2> DEFINE e == Head(rx[n])
  <2>1. e \in Envelopes /\ GoodMail(n, e)
    BY <1>h, <1>k, HeadWaits DEF MailInv
  <2>2. Keeps /\ probeState'[Peer(n)] = probeState[Peer(n)]
    BY <1>h, <2>1, HandleKeeps
  <2>3. Node = {n, Peer(n)} /\ Peer(n) \in Node /\ Peer(n) # n
    BY Peers
  <2>4. MailInv'
    BY <1>h, <1>k, <2>2, Delivery
  <2>5. session'[n] = s /\ result'[n] = r
    BY <1>h DEF TypeOK
  <2>6. Knows(n)'
    BY <1>h, <1>k, <2>1, <2>5, KnowsHandled
  <2>7. session'[Peer(n)] = session[Peer(n)] /\ result'[Peer(n)] = result[Peer(n)]
    BY <1>h, <2>3 DEF TypeOK
  <2>8. probeState'[Peer(n)] = "NEGOTIATED" => Agreed'
    BY <1>h, <1>k, <2>2, <2>3, AgreedKept DEF Knows
  <2>9. Knows(Peer(n))'
    BY <1>h, <1>k, <2>2, <2>3, <2>7, <2>8, KnowsKept
  <2> QED
    BY <2>3, <2>4, <2>6, <2>9
<1>a. ASSUME NEW n \in Node, restarts = 0, rx[n] # <<>>, Handle(n, Head(rx[n]))
      PROVE  /\ Answer(n, Head(rx[n])) \in Seq(Envelopes)
             /\ \A x \in Elements(Answer(n, Head(rx[n]))) : GoodMail(Peer(n), x)'
  <2>1. Head(rx[n]) \in Envelopes /\ GoodMail(n, Head(rx[n]))
    BY <1>a, <1>k, HeadWaits DEF MailInv
  <2> QED
    BY <1>a, <2>1, AnswerFacts, AnswerGood
<1>u. ASSUME NEW n \in Node, NEW s, UseAttempt(n, s)
      PROVE  \E t \in {s, "FAILED"}, r \in {result[n], "FAILED"} :
               session' = [session EXCEPT ![n] = t] /\ result' = [result EXCEPT ![n] = r]
  <2>1. CASE attempts[n] = 1
    BY <2>1, <1>u DEF UseAttempt
  <2>2. CASE attempts[n] # 1
    BY <2>2, <1>u DEF UseAttempt
  <2> QED
    BY <2>1, <2>2
<1>4. ASSUME NEW n \in Node, Serve(n) PROVE MailInv' /\ \A m \in Node : Knows(m)'
  <2> DEFINE e == Head(rx[n])
  <2>1. /\ rx[n] # <<>> /\ Handle(n, e) /\ Transfer(n, TRUE, Answer(n, e)) /\ restarts = 0
        /\ session' = [session EXCEPT ![n] = NextSession(n, e)]
        /\ result' = [result EXCEPT ![n] = result[n]]
    BY <1>4 DEF Serve, TypeOK
  <2> QED
    BY <2>1, <1>a, <1>h
<1>5. ASSUME NEW n \in Node, PollNothing(n) PROVE MailInv' /\ \A m \in Node : Knows(m)'
  <2>1. UseAttempt(n, session[n]) /\ UNCHANGED <<cpu, rx>> /\ restarts = 0
    BY <1>5 DEF PollNothing
  <2>2. Keeps
    BY <2>1 DEF Keeps
  <2>3. MailInv'
    BY <2>1, <1>k DEF MailInv, Waiting, GoodMail, Agreed
  <2>4. ASSUME NEW m \in Node PROVE Knows(m)'
    <3>0. PICK t \in {session[n], "FAILED"}, r \in {result[n], "FAILED"} :
            session' = [session EXCEPT ![n] = t] /\ result' = [result EXCEPT ![n] = r]
      BY <2>1, <1>u
    <3>1. session'[m] \in {session[m], "SENT", "FAILED"}
      BY <3>0 DEF TypeOK
    <3>2. result'[m] \in {result[m], "NONE", "FAILED", "ERROR"}
      BY <3>0 DEF TypeOK
    <3>3. probeState'[m] = "NEGOTIATED" => Agreed'
      BY <2>1, <1>k DEF Knows, Agreed
    <3> QED
      BY <2>1, <2>2, <1>k, <3>1, <3>2, <3>3, KnowsKept
  <2> QED
    BY <2>3, <2>4
<1>6. ASSUME NEW n \in Node, PollRefused(n) PROVE MailInv' /\ \A m \in Node : Knows(m)'
  <2>1. /\ rx[n] # <<>> /\ Transfer(n, TRUE, <<>>) /\ Return(n, session[n], "ERROR")
        /\ UNCHANGED cpu /\ restarts = 0
    BY <1>6 DEF PollRefused
  <2>2. Keeps
    BY <2>1 DEF Keeps
  <2>3. <<>> \in Seq(Envelopes) /\ Elements(<<>>) = {}
    BY DEF Elements
  <2>4. MailInv'
    BY <2>1, <2>2, <2>3, <1>k, Delivery
  <2>5. ASSUME NEW m \in Node PROVE Knows(m)'
    <3>1. session'[m] = session[m] /\ result'[m] \in {result[m], "NONE", "FAILED", "ERROR"}
      BY <2>1 DEF Return, TypeOK
    <3>2. probeState'[m] = "NEGOTIATED" => Agreed'
      BY <2>1, <1>k DEF Knows, Agreed
    <3> QED
      BY <2>1, <2>2, <1>k, <3>1, <3>2, KnowsKept
  <2> QED
    BY <2>4, <2>5
<1>7. ASSUME NEW n \in Node, PollCommit(n) PROVE MailInv' /\ \A m \in Node : Knows(m)'
  <2> DEFINE e == Head(rx[n])
             es == Answer(n, e) \o <<SyncCommit>>
  <2>1. /\ rx[n] # <<>> /\ Handle(n, e) /\ NextSession(n, e) = "ACKED"
        /\ Transfer(n, TRUE, es) /\ restarts = 0
        /\ Return(n, "ACKED", "ERROR") \/ UseAttempt(n, "ACKED")
    BY <1>7 DEF PollCommit
  <2>2. e \in Envelopes /\ GoodMail(n, e)
    BY <2>1, <1>k, HeadWaits DEF MailInv
  <2>3. es \in Seq(Envelopes) /\ Elements(es) \subseteq Elements(Answer(n, e)) \cup {SyncCommit}
    BY <2>2, AnswerAndCommit
  <2>4. GoodMail(Peer(n), SyncCommit)'
    <3>1. e.op = "PROBE_ACK" \/ session[n] = "ACKED"
      BY <2>1 DEF NextSession
    <3>2. Keeps /\ (e.op = "PROBE_ACK" => Agreed' /\ probeState'[n] # "IDLE")
      BY <2>1, <2>2, HandleKeeps
    <3>3. Agreed' /\ probeState'[n] # "IDLE"
      BY <3>1, <3>2, <2>1, <1>k, AgreedKept DEF Knows, Keeps
    <3>4. Peer(Peer(n)) = n /\ SyncCommit.op = "SYNC_COMMIT"
      BY Peers DEF SyncCommit, Envelope
    <3> QED
      BY <3>3, <3>4 DEF GoodMail
  <2>5. \A x \in Elements(es) : GoodMail(Peer(n), x)'
    BY <2>1, <2>3, <2>4, <1>a
  <2>6. PICK t \in {"ACKED", "FAILED"}, r \in {result[n], "FAILED", "ERROR"} :
          session' = [session EXCEPT ![n] = t] /\ result' = [result EXCEPT ![n] = r]
    BY <2>1, <1>u DEF Return
  <2> HIDE DEF es
  <2> QED
    BY <2>1, <2>3, <2>5, <2>6, <1>h
<1>8. ASSUME NEW n \in Node, PollSynced(n) PROVE MailInv' /\ \A m \in Node : Knows(m)'
  <2> DEFINE e == Head(rx[n])
  <2>1. /\ rx[n] # <<>> /\ Handle(n, e) /\ Transfer(n, TRUE, Answer(n, e)) /\ restarts = 0
        /\ NextSession(n, e) = "SYNCED"
        /\ session' = [session EXCEPT ![n] = "SYNCED"] /\ result' = [result EXCEPT ![n] = "OK"]
    BY <1>8 DEF PollSynced, Return
  <2> QED
    BY <2>1, <1>a, <1>h
<1>9. ASSUME NEW n \in Node, PollOther(n) PROVE MailInv' /\ \A m \in Node : Knows(m)'
  <2> DEFINE e == Head(rx[n])
  <2>1. /\ rx[n] # <<>> /\ Handle(n, e) /\ Transfer(n, TRUE, Answer(n, e)) /\ restarts = 0
        /\ UseAttempt(n, session[n])
    BY <1>9 DEF PollOther
  <2>2. PICK t \in {session[n], "FAILED"}, r \in {result[n], "FAILED"} :
          session' = [session EXCEPT ![n] = t] /\ result' = [result EXCEPT ![n] = r]
    BY <2>1, <1>u
  <2> QED
    BY <2>1, <2>2, <1>a, <1>h
<1>10. ASSUME NEW n \in Node, Lose(n) PROVE MailInv' /\ \A m \in Node : Knows(m)'
  <2>1. /\ rx[n] # <<>> /\ rx' = [rx EXCEPT ![n] = Tail(@)] /\ restarts = 0
        /\ UNCHANGED <<cpu, session, result, restarts>>
    BY <1>10 DEF Lose
  <2>2. rx[n] \in Seq(Envelopes)
    BY DEF TypeOK
  <2>3. /\ Len(Tail(rx[n])) = Len(rx[n]) - 1 /\ Len(rx[n]) \in Nat
        /\ \A i \in 1..Len(Tail(rx[n])) : Tail(rx[n])[i] = rx[n][i + 1]
    BY <2>1, <2>2
  <2>4. \A m \in Node : rx'[m] = IF m = n THEN Tail(rx[n]) ELSE rx[m]
    BY <2>1 DEF TypeOK
  <2>5. ASSUME NEW m \in Node, NEW x \in Waiting(m)' PROVE x \in Waiting(m)
    <3>1. PICK i \in 1..Len(rx'[m]) : x = rx'[m][i]
      BY <2>5 DEF Waiting
    <3>2. CASE m = n
      <4>1. i \in 1..Len(Tail(rx[n])) /\ x = Tail(rx[n])[i]
        BY <3>1, <3>2, <2>4
      <4>2. i + 1 \in 1..Len(rx[n]) /\ x = rx[n][i + 1]
        BY <4>1, <2>3
      <4> QED
        BY <4>2, <3>2 DEF Waiting
    <3>3. CASE m # n
      BY <3>1, <3>3, <2>4 DEF Waiting
    <3> QED
      BY <3>2, <3>3
  <2>6. Keeps /\ \A m \in Node : Knows(m)'
    BY <2>1, <1>q
  <2>7. MailInv'
    BY <2>1, <2>5, <2>6, <1>k, MailKept DEF MailInv
  <2> QED
    BY <2>6, <2>7
<1>11. CASE UNCHANGED vars
  <2>1. UNCHANGED <<cpu, session, result, restarts, rx>>
    BY <1>11 DEF vars
  <2>2. MailInv'
    BY <2>1, <1>k DEF MailInv, Waiting, GoodMail, Agreed
  <2> QED
    BY <2>1, <2>2, <1>q
<1> QED
  BY <1>0, <1>1, <1>2, <1>3, <1>4, <1>5, <1>6, <1>7, <1>8, <1>9, <1>10, <1>11 DEF Next, Poll

LEMMA AgreeInvariant == Spec => [](TypeOK /\ AgreeInv)
<1> QED
  BY TypeInit, TypeStep, AgreeInit, AgreeStep, PTL DEF Spec

\* Whatever the capabilities, the sizes of the buffers, the attempts and the
\* losses, and however handshakes cross and repeat: two nodes of which neither
\* restarts never act on different instruction subsets.
THEOREM CommittedNodesAgree == Spec => []CommittedAgree
<1>1. AgreeInv => CommittedAgree
  <2> SUFFICES ASSUME AgreeInv, restarts = 0, NEW n \in Node
               PROVE  /\ probeState[n] = "NEGOTIATED" \/ session[n] \in {"ACKED", "SYNCED"} \/ result[n] = "OK" =>
                           subset[n] = Common(n) /\ subset[Peer(n)] = Common(n)
                      /\ session[n] = "SYNCED" \/ result[n] = "OK" => probeState[Peer(n)] # "IDLE"
    BY DEF CommittedAgree
  <2>1. Knows(n)
    BY DEF AgreeInv
  <2>2. Peer(n) \in Node /\ Common(Peer(n)) = Common(n)
    BY Peers
  <2> QED
    BY <2>1, <2>2 DEF Knows, Agreed
<1> QED
  BY <1>1, AgreeInvariant, PTL

-----------------------------------------------------------------------------
(* Why a handshake that waits for nothing has committed: as long as nothing *)
(* is lost or refused, what a node waits for is on its way.                 *)

\* An envelope with this code waits at node m.
Comes(m, op) == \E e \in Waiting(m) : e.op = op

\* A node that has sent PROBE and got no answer: the PROBE, or its answer, is on the
\* way.  One that has committed and polls: its SYNC_COMMIT is, or the peer has left
\* IDLE for good.
WaitsFor(m) ==
  /\ session[m] = "SENT" \/ probeState[m] = "PROBING" =>
       Comes(Peer(m), "PROBE") \/ Comes(m, "PROBE_ACK")
  /\ session[m] = "ACKED" /\ attempts[m] > 0 =>
       /\ probeState[m] = "NEGOTIATED"
       /\ probeState[Peer(m)] # "IDLE" \/ Comes(Peer(m), "SYNC_COMMIT")

WaitInv == ~missed /\ restarts = 0 => \A m \in Node : WaitsFor(m)

\* Unless something is refused, all that is sent arrives, and nothing goes but the
\* envelope that is taken.
LEMMA TransferAll ==
  ASSUME TypeOK, NEW n \in Node, NEW taken \in BOOLEAN, taken => rx[n] # <<>>,
         NEW es \in Seq(Envelopes), Transfer(n, taken, es), ~missed'
  PROVE  /\ ~missed
         /\ Elements(es) \subseteq Waiting(Peer(n))'
         /\ Waiting(Peer(n)) \subseteq Waiting(Peer(n))'
         /\ Waiting(n) \subseteq Waiting(n)' \cup (IF taken THEN {Head(rx[n])} ELSE {})
<1>1. Peer(n) \in Node /\ Peer(n) # n /\ Node = {n, Peer(n)}
  BY Peers
<1>2. rx \in [Node -> Seq(Envelopes)] /\ missed \in BOOLEAN
      /\ \A m \in Node : Len(rx[m]) <= BufSlots
  BY DEF TypeOK
<1>3. Room(n) \in Nat
  BY <1>1, <1>2, ProbeAssumption DEF Room
<1> DEFINE fits == UpTo(Room(n), es)
<1>4. /\ fits \in Seq(Envelopes) /\ Len(fits) <= Len(es)
      /\ \A i \in 1..Len(fits) : fits[i] = es[i]
  BY <1>3, UpToFacts
<1> DEFINE q == IF taken THEN [rx EXCEPT ![n] = Tail(@)] ELSE rx
<1>5. q \in [Node -> Seq(Envelopes)] /\ q[Peer(n)] = rx[Peer(n)]
      /\ q[n] = IF taken THEN Tail(rx[n]) ELSE rx[n]
  <2>1. CASE taken
    <3>1. Tail(rx[n]) \in Seq(Envelopes)
      BY <1>2, <2>1
    <3> QED
      BY <3>1, <2>1, <1>1, <1>2
  <2>2. CASE ~taken
    BY <2>2, <1>1, <1>2
  <2> QED
    BY <2>1, <2>2
<1>6. rx' = [q EXCEPT ![Peer(n)] = @ \o fits] /\ missed' = (missed \/ Len(es) > Len(fits))
  BY DEF Transfer
<1> HIDE DEF q, fits
<1>7. rx'[n] = q[n] /\ rx'[Peer(n)] = rx[Peer(n)] \o fits
  BY <1>1, <1>5, <1>6
<1>8. ~missed /\ Len(fits) = Len(es)
  <2>1. ~missed /\ ~(Len(es) > Len(fits))
    BY <1>6
  <2>2. Len(es) \in Nat /\ Len(fits) \in Nat
    BY <1>4
  <2> QED
    BY <2>1, <2>2, <1>4
<1>9. /\ Len(rx'[Peer(n)]) = Len(rx[Peer(n)]) + Len(es)
      /\ Len(rx[Peer(n)]) \in Nat /\ Len(es) \in Nat
      /\ \A i \in 1..Len(rx[Peer(n)]) : rx'[Peer(n)][i] = rx[Peer(n)][i]
      /\ \A i \in 1..Len(es) : rx'[Peer(n)][Len(rx[Peer(n)]) + i] = es[i]
  <2> DEFINE r == rx[Peer(n)]
  <2>1. r \in Seq(Envelopes) /\ fits \in Seq(Envelopes)
    BY <1>1, <1>2, <1>4
  <2> HIDE DEF r
  <2>2. /\ Len(r \o fits) = Len(r) + Len(fits) /\ Len(r) \in Nat /\ Len(es) \in Nat
        /\ \A i \in 1..(Len(r) + Len(fits)) :
             (r \o fits)[i] = IF i <= Len(r) THEN r[i] ELSE fits[i - Len(r)]
    BY <2>1, ConcatProperties
  <2>3. \A i \in 1..Len(r) : (r \o fits)[i] = r[i]
    BY <2>2, <1>8
  <2>4. ASSUME NEW i \in 1..Len(es) PROVE (r \o fits)[Len(r) + i] = es[i]
    <3>1. Len(r) + i \in 1..(Len(r) + Len(fits)) /\ ~(Len(r) + i <= Len(r))
          /\ (Len(r) + i) - Len(r) = i
      BY <2>2, <1>8
    <3> QED
      BY <3>1, <2>2, <1>4, <1>8
  <2> QED
    BY <2>2, <2>3, <2>4, <1>7, <1>8 DEF r
<1>10. Elements(es) \subseteq Waiting(Peer(n))'
  <2> SUFFICES ASSUME NEW i \in 1..Len(es)
               PROVE  \E j \in 1..Len(rx'[Peer(n)]) : rx'[Peer(n)][j] = es[i]
    BY DEF Elements, Waiting
  <2>1. Len(rx[Peer(n)]) + i \in 1..Len(rx'[Peer(n)])
    BY <1>9
  <2> QED
    BY <2>1, <1>9
<1>11. Waiting(Peer(n)) \subseteq Waiting(Peer(n))'
  <2> SUFFICES ASSUME NEW i \in 1..Len(rx[Peer(n)])
               PROVE  \E j \in 1..Len(rx'[Peer(n)]) : rx'[Peer(n)][j] = rx[Peer(n)][i]
    BY DEF Waiting
  <2>1. i \in 1..Len(rx'[Peer(n)])
    BY <1>9
  <2> QED
    BY <2>1, <1>9
<1>12. Waiting(n) \subseteq Waiting(n)' \cup (IF taken THEN {Head(rx[n])} ELSE {})
  <2>1. CASE ~taken
    BY <2>1, <1>5, <1>7 DEF Waiting
  <2>2. CASE taken
    <3>0. SUFFICES ASSUME NEW x \in Waiting(n), x # Head(rx[n])
                   PROVE  x \in Waiting(n)'
      BY <2>2
    <3> PICK i \in 1..Len(rx[n]) : x = rx[n][i]
      BY DEF Waiting
    <3>1. rx[n] \in Seq(Envelopes) /\ rx[n] # <<>> /\ rx'[n] = Tail(rx[n])
      BY <2>2, <1>2, <1>5, <1>7
    <3>2. /\ Len(Tail(rx[n])) = Len(rx[n]) - 1 /\ Len(rx[n]) \in Nat /\ Head(rx[n]) = rx[n][1]
          /\ \A j \in 1..Len(Tail(rx[n])) : Tail(rx[n])[j] = rx[n][j + 1]
      BY <3>1
    <3>3. i - 1 \in 1..Len(Tail(rx[n])) /\ Tail(rx[n])[i - 1] = rx[n][i]
      BY <3>0, <3>2
    <3> QED
      BY <3>1, <3>3 DEF Waiting
  <2> QED
    BY <2>1, <2>2
<1> QED
  BY <1>8, <1>10, <1>11, <1>12

\* What waits goes on waiting, or was taken.
LEMMA ComesOn ==
  ASSUME TypeOK, NEW n \in Node, NEW taken \in BOOLEAN, taken => rx[n] # <<>>,
         NEW es \in Seq(Envelopes), Transfer(n, taken, es), ~missed', NEW op
  PROVE  /\ Comes(Peer(n), op) => Comes(Peer(n), op)'
         /\ Comes(n, op) => Comes(n, op)' \/ (taken /\ Head(rx[n]).op = op)
         /\ \A x \in Elements(es) : x.op = op => Comes(Peer(n), op)'
<1>1. /\ Elements(es) \subseteq Waiting(Peer(n))'
      /\ Waiting(Peer(n)) \subseteq Waiting(Peer(n))'
      /\ Waiting(n) \subseteq Waiting(n)' \cup (IF taken THEN {Head(rx[n])} ELSE {})
  BY TransferAll
<1> QED
  BY <1>1 DEF Comes

\* The answer to a PROBE is an acknowledgement, whatever the node's state.
LEMMA ProbeAnswered ==
  ASSUME NEW n \in Node, NEW e \in Envelopes, e.op = "PROBE"
  PROVE  \E x \in Elements(Answer(n, e)) : x.op = "PROBE_ACK"
<1>1. Answer(n, e) = <<ProbeAck(n)>>
  BY DEF Answer
<1>2. Elements(Answer(n, e)) = {ProbeAck(n)} /\ ProbeAck(n).op = "PROBE_ACK"
  BY <1>1 DEF Elements, ProbeAck, Envelope
<1> QED
  BY <1>2

LEMMA WaitInit == Init => WaitInv
  BY DEF Init, WaitInv, WaitsFor

\* A step that takes an envelope, sends its answer and perhaps a SYNC_COMMIT, and
\* moves the session on.
LEMMA WaitTaken ==
  ASSUME TypeOK, ~missed', \A m \in Node : WaitsFor(m),
         NEW n \in Node, rx[n] # <<>>, Handle(n, Head(rx[n])),
         NEW es \in Seq(Envelopes), Transfer(n, TRUE, es),
         Elements(Answer(n, Head(rx[n]))) \subseteq Elements(es),
         NEW s, session' = [session EXCEPT ![n] = s],
         s = "SENT" => session[n] = "SENT" /\ Head(rx[n]).op # "PROBE_ACK",
         NEW a, attempts' = [attempts EXCEPT ![n] = a],
         s = "ACKED" /\ a > 0 => /\ SyncCommit \in Elements(es)
                                 /\ \/ Head(rx[n]).op = "PROBE_ACK"
                                    \/ session[n] = "ACKED" /\ attempts[n] > 0
  PROVE  \A m \in Node : WaitsFor(m)'
<1> DEFINE e == Head(rx[n])
           p == Peer(n)
<1>1. p \in Node /\ p # n /\ Peer(p) = n /\ Node = {n, p}
  BY Peers
<1>2. e \in Envelopes
  BY HeadWaits
<1>3. /\ session'[n] = s /\ session'[p] = session[p]
      /\ attempts'[n] = a /\ attempts'[p] = attempts[p]
  BY <1>1 DEF TypeOK
<1>4. /\ probeState'[p] = probeState[p]
      /\ probeState'[n] = IF e.op \in {"PROBE_ACK", "SYNC_COMMIT"} THEN "NEGOTIATED"
                          ELSE probeState[n]
  BY <1>1 DEF Handle, TypeOK
<1>5. \A op : /\ Comes(p, op) => Comes(p, op)'
              /\ Comes(n, op) => Comes(n, op)' \/ e.op = op
              /\ \A x \in Elements(es) : x.op = op => Comes(p, op)'
  BY ComesOn
<1>6. SyncCommit.op = "SYNC_COMMIT"
  BY DEF SyncCommit, Envelope
<1> HIDE DEF p, e
<1>7. WaitsFor(n) /\ WaitsFor(p)
  BY <1>1
<1>8. WaitsFor(n)'
  <2>1. ASSUME session'[n] = "SENT" \/ probeState'[n] = "PROBING"
        PROVE  Comes(p, "PROBE")' \/ Comes(n, "PROBE_ACK")'
    <3>1. e.op # "PROBE_ACK" /\ (session[n] = "SENT" \/ probeState[n] = "PROBING")
      BY <2>1, <1>3, <1>4 DEF e
    <3>2. Comes(p, "PROBE") \/ Comes(n, "PROBE_ACK")
      BY <3>1, <1>7 DEF WaitsFor, p
    <3> QED
      BY <3>1, <3>2, <1>5
  <2>2. ASSUME session'[n] = "ACKED" /\ attempts'[n] > 0
        PROVE  probeState'[n] = "NEGOTIATED" /\ Comes(p, "SYNC_COMMIT")'
    <3>1. SyncCommit \in Elements(es)
          /\ (e.op = "PROBE_ACK" \/ (session[n] = "ACKED" /\ attempts[n] > 0))
      BY <2>2, <1>3 DEF e
    <3>2. probeState'[n] = "NEGOTIATED"
      BY <3>1, <1>4, <1>7 DEF WaitsFor
    <3> QED
      BY <3>1, <3>2, <1>5, <1>6
  <2> QED
    BY <2>1, <2>2 DEF WaitsFor, p
<1>9. WaitsFor(p)'
  <2>1. ASSUME session'[p] = "SENT" \/ probeState'[p] = "PROBING"
        PROVE  Comes(n, "PROBE")' \/ Comes(p, "PROBE_ACK")'
    <3>1. Comes(n, "PROBE") \/ Comes(p, "PROBE_ACK")
      BY <2>1, <1>1, <1>3, <1>4, <1>7 DEF WaitsFor
    <3>2. e.op = "PROBE" => Comes(p, "PROBE_ACK")'
      BY <1>2, <1>5, ProbeAnswered DEF e
    <3> QED
      BY <3>1, <3>2, <1>5
  <2>2. ASSUME session'[p] = "ACKED" /\ attempts'[p] > 0
        PROVE  /\ probeState'[p] = "NEGOTIATED"
               /\ probeState'[n] # "IDLE" \/ Comes(n, "SYNC_COMMIT")'
    <3>1. /\ probeState[p] = "NEGOTIATED"
          /\ probeState[n] # "IDLE" \/ Comes(n, "SYNC_COMMIT")
      BY <2>2, <1>1, <1>3, <1>7 DEF WaitsFor
    <3> QED
      BY <3>1, <1>4, <1>5
  <2> QED
    BY <2>1, <2>2, <1>1 DEF WaitsFor
<1> QED
  BY <1>1, <1>8, <1>9

\* A step in which a node sends of its own accord, or nothing is sent at all: what
\* waits goes on waiting, and no node begins to wait but for what it sends.
LEMMA WaitSent ==
  ASSUME TypeOK, ~missed', \A m \in Node : WaitsFor(m),
         NEW n \in Node, NEW es \in Seq(Envelopes), Transfer(n, FALSE, es),
         \A m \in Node \ {n} : UNCHANGED <<probeState[m], session[m], attempts[m]>>,
         \/ /\ UNCHANGED probeState[n]
            /\ session'[n] = "SENT" => session[n] = "SENT"
            /\ session'[n] = "ACKED" /\ attempts'[n] > 0 => session[n] = "ACKED" /\ attempts[n] > 0
         \/ /\ Probe(n) \in Elements(es) /\ session'[n] = "SENT"
            /\ probeState'[n] # "IDLE"
  PROVE  \A m \in Node : WaitsFor(m)'
<1> DEFINE p == Peer(n)
<1>1. p \in Node /\ p # n /\ Peer(p) = n /\ Node = {n, p}
  BY Peers
<1>2. \A op : /\ Comes(p, op) => Comes(p, op)'
              /\ Comes(n, op) => Comes(n, op)'
              /\ \A x \in Elements(es) : x.op = op => Comes(p, op)'
  BY ComesOn
<1>3. Probe(n).op = "PROBE"
  BY DEF Probe, Envelope
<1> HIDE DEF p
<1>4. WaitsFor(n) /\ WaitsFor(p) /\ UNCHANGED <<probeState[p], session[p], attempts[p]>>
  BY <1>1
<1>5. WaitsFor(n)'
  <2>1. CASE /\ UNCHANGED probeState[n]
             /\ session'[n] = "SENT" => session[n] = "SENT"
             /\ session'[n] = "ACKED" /\ attempts'[n] > 0 => session[n] = "ACKED" /\ attempts[n] > 0
    BY <2>1, <1>2, <1>4 DEF WaitsFor, p
  <2>2. CASE Probe(n) \in Elements(es) /\ session'[n] = "SENT"
    BY <2>2, <1>2, <1>3 DEF WaitsFor, p
  <2> QED
    BY <2>1, <2>2
<1>6. WaitsFor(p)'
  BY <1>1, <1>2, <1>4 DEF WaitsFor
<1> QED
  BY <1>1, <1>5, <1>6

LEMMA WaitStep == TypeOK /\ WaitInv /\ [Next]_vars => WaitInv'
<1> SUFFICES ASSUME TypeOK, WaitInv, [Next]_vars, ~missed', restarts' = 0
             PROVE  \A m \in Node : WaitsFor(m)'
  BY DEF WaitInv
<1> USE DEF counters, cpu
<1>e. \A m \in Node : <<Probe(m)>> \in Seq(Envelopes) /\ <<SyncCommit>> \in Seq(Envelopes)
  BY EnvelopeType
<1>s. ASSUME NEW x PROVE Elements(<<x>>) = {x}
  BY DEF Elements
<1>0. CASE \E n \in Node : Restart(n)
  <2>1. restarts' = restarts + 1 /\ restarts \in Nat
    BY <1>0 DEF Restart, TypeOK
  <2> QED
    BY <2>1
<1>k. ASSUME restarts = 0, ~missed PROVE \A m \in Node : WaitsFor(m)
  BY <1>k DEF WaitInv
<1>t. ASSUME NEW n \in Node, NEW taken \in BOOLEAN, taken => rx[n] # <<>>,
             NEW es \in Seq(Envelopes), Transfer(n, taken, es), restarts = 0
      PROVE  \A m \in Node : WaitsFor(m)
  BY <1>t, <1>k, TransferAll
<1>1. ASSUME NEW n \in Node, NEW polls \in {0, MaxAttempts}, Start(n, polls)
      PROVE  \A m \in Node : WaitsFor(m)'
  <2>1. Transfer(n, FALSE, <<Probe(n)>>) /\ restarts = 0
    BY <1>1 DEF Start
  <2>2. \A m \in Node : WaitsFor(m)
    BY <2>1, <1>e, <1>t
  <2>3. \A m \in Node \ {n} : UNCHANGED <<probeState[m], session[m], attempts[m]>>
    BY <1>1 DEF Start, TypeOK
  <2>4. CASE Room(n) = 0
    <3>1. UNCHANGED <<probeState, session, attempts>>
      BY <1>1, <2>4 DEF Start
    <3> QED
      BY <3>1, <2>1, <2>2, <2>3, <1>e, WaitSent
  <2>5. CASE Room(n) # 0
    <3>1. session'[n] = "SENT" /\ probeState'[n] # "IDLE"
      BY <1>1, <2>5 DEF Start, TypeOK
    <3>2. Probe(n) \in Elements(<<Probe(n)>>)
      BY <1>s
    <3> QED
      BY <3>1, <3>2, <2>1, <2>2, <2>3, <1>e, WaitSent
  <2> QED
    BY <2>4, <2>5
<1>2. ASSUME NEW n \in Node, SendSync(n) PROVE \A m \in Node : WaitsFor(m)'
  <2>1. Transfer(n, FALSE, <<SyncCommit>>) /\ restarts = 0
        /\ UNCHANGED <<probeState, session, attempts>>
    BY <1>2 DEF SendSync
  <2>2. \A m \in Node : WaitsFor(m)
    BY <2>1, <1>e, <1>t
  <2> QED
    BY <2>1, <2>2, <1>e, WaitSent
<1>3. ASSUME NEW n \in Node, Post(n) PROVE \A m \in Node : WaitsFor(m)'
  <2>1. PICK op \in Posted : Transfer(n, FALSE, <<Envelope(op, {})>>)
    BY <1>3 DEF Post
  <2>2. restarts = 0 /\ UNCHANGED <<probeState, session, attempts>>
    BY <1>3 DEF Post
  <2>3. <<Envelope(op, {})>> \in Seq(Envelopes)
    BY EnvelopeType, ProbeAssumption
  <2>4. \A m \in Node : WaitsFor(m)
    BY <2>1, <2>2, <2>3, <1>t
  <2> QED
    BY <2>1, <2>2, <2>3, <2>4, WaitSent
<1>a. ASSUME NEW n \in Node, rx[n] # <<>>
      PROVE  Head(rx[n]) \in Envelopes /\ Answer(n, Head(rx[n])) \in Seq(Envelopes)
  BY <1>a, HeadWaits, AnswerFacts
<1>f. ASSUME NEW n \in Node, rx[n] # <<>>, Transfer(n, TRUE, Answer(n, Head(rx[n])))
      PROVE  ~Unsent(n, Head(rx[n]))
  <2> DEFINE es == Answer(n, Head(rx[n]))
  <2>1. es \in Seq(Envelopes) /\ Room(n) \in Nat
    <3>1. Peer(n) \in Node
      BY Peers
    <3> QED
      BY <1>f, <1>a, <3>1, ProbeAssumption DEF Room, TypeOK
  <2>2. ~(Len(es) > Len(UpTo(Room(n), es)))
    BY <1>f DEF Transfer
  <2>3. Len(UpTo(Room(n), es)) <= Room(n) /\ UpTo(Room(n), es) \in Seq(Envelopes)
    BY <2>1, UpToFacts
  <2> HIDE DEF es
  <2>4. Len(es) \in Nat /\ Len(UpTo(Room(n), es)) \in Nat
    BY <2>1, <2>3
  <2>5. ~(Len(es) > Room(n))
    BY <2>1, <2>2, <2>3, <2>4
  <2> QED
    BY <2>5 DEF Unsent, es
<1>u. ASSUME NEW n \in Node, NEW s, attempts[n] > 0, UseAttempt(n, s)
      PROVE  \E t \in {s, "FAILED"} :
               /\ session' = [session EXCEPT ![n] = t]
               /\ attempts' = [attempts EXCEPT ![n] = attempts[n] - 1]
  <2>1. attempts' = [attempts EXCEPT ![n] = attempts[n] - 1]
    BY <1>u DEF UseAttempt
  <2>2. session' = [session EXCEPT ![n] = IF attempts[n] = 1 THEN "FAILED" ELSE s]
    BY <1>u DEF UseAttempt
  <2> QED
    BY <2>1, <2>2
<1>4. ASSUME NEW n \in Node, Serve(n) PROVE \A m \in Node : WaitsFor(m)'
  <2> DEFINE e == Head(rx[n])
             es == Answer(n, e)
             s == NextSession(n, e)
  <2>1. /\ rx[n] # <<>> /\ Handle(n, e) /\ Transfer(n, TRUE, es) /\ restarts = 0
        /\ session' = [session EXCEPT ![n] = s] /\ attempts[n] = 0 /\ UNCHANGED attempts
    BY <1>4 DEF Serve
  <2>2. es \in Seq(Envelopes) /\ ~Unsent(n, e)
    BY <2>1, <1>a, <1>f
  <2>3. \A m \in Node : WaitsFor(m)
    BY <2>1, <2>2, <1>t
  <2>4. attempts' = [attempts EXCEPT ![n] = 0]
    BY <2>1 DEF TypeOK
  <2>5. s = "SENT" => session[n] = "SENT" /\ e.op # "PROBE_ACK"
    BY <2>2 DEF NextSession, Refused
  <2>6. ~(0 > 0)
    OBVIOUS
  <2> HIDE DEF es, s
  <2> QED
    BY <2>1, <2>2, <2>3, <2>4, <2>5, <2>6, WaitTaken DEF es
<1>5. ASSUME NEW n \in Node, PollNothing(n) PROVE \A m \in Node : WaitsFor(m)'
  <2>1. /\ attempts[n] > 0 /\ UseAttempt(n, session[n]) /\ restarts = 0
        /\ UNCHANGED <<probeState, rx, missed>>
    BY <1>5 DEF PollNothing
  <2>2. \A m \in Node : WaitsFor(m)
    BY <2>1, <1>k
  <2>3. PICK t \in {session[n], "FAILED"} :
          /\ session' = [session EXCEPT ![n] = t]
          /\ attempts' = [attempts EXCEPT ![n] = attempts[n] - 1]
    BY <2>1, <1>u
  <2>4. \A m \in Node : /\ session'[m] \in {session[m], "FAILED"}
                        /\ attempts'[m] > 0 => attempts[m] > 0
    BY <2>1, <2>3, ProbeAssumption DEF TypeOK
  <2>5. \A m \in Node : \A op : Comes(m, op)' <=> Comes(m, op)
    BY <2>1 DEF Comes, Waiting
  <2>6. probeState' = probeState
    BY <2>1
  <2> QED
    BY <2>2, <2>4, <2>5, <2>6, Peers DEF WaitsFor
<1>6. ASSUME NEW n \in Node, PollRefused(n) PROVE \A m \in Node : WaitsFor(m)'
  <2> DEFINE e == Head(rx[n])
  <2>1. /\ rx[n] # <<>> /\ e.op = "GAUGE_INVOKE" /\ Transfer(n, TRUE, <<>>) /\ restarts = 0
        /\ session' = [session EXCEPT ![n] = session[n]]
        /\ attempts' = [attempts EXCEPT ![n] = 0] /\ UNCHANGED cpu
    BY <1>6 DEF PollRefused, Refused, Return
  <2>2. Answer(n, e) = <<>> /\ <<>> \in Seq(Envelopes)
    BY <2>1 DEF Answer
  <2>3. Handle(n, e)
    BY <2>1 DEF Handle
  <2>4. \A m \in Node : WaitsFor(m)
    BY <2>1, <2>2, <1>t
  <2>5. ~(0 > 0) /\ e.op # "PROBE_ACK"
    BY <2>1
  <2> HIDE DEF e
  <2> QED
    BY <2>1, <2>2, <2>3, <2>4, <2>5, WaitTaken DEF e
<1>7. ASSUME NEW n \in Node, PollCommit(n) PROVE \A m \in Node : WaitsFor(m)'
  <2> DEFINE e == Head(rx[n])
             es == Answer(n, e) \o <<SyncCommit>>
  <2>1. /\ rx[n] # <<>> /\ Handle(n, e) /\ ~Refused(e) /\ ~Unsent(n, e)
        /\ NextSession(n, e) = "ACKED" /\ Transfer(n, TRUE, es) /\ restarts = 0
        /\ (Return(n, "ACKED", "ERROR") \/ UseAttempt(n, "ACKED")) /\ attempts[n] > 0
    BY <1>7 DEF PollCommit
  <2>2. /\ es \in Seq(Envelopes) /\ Elements(Answer(n, e)) \subseteq Elements(es)
        /\ SyncCommit \in Elements(es)
    <3>1. Answer(n, e) \in Seq(Envelopes) /\ SyncCommit \in Envelopes
      BY <2>1, <1>a, EnvelopeType
    <3>2. /\ es \in Seq(Envelopes) /\ Len(es) = Len(Answer(n, e)) + 1
          /\ es[Len(Answer(n, e)) + 1] = SyncCommit
          /\ \A i \in 1..Len(Answer(n, e)) : es[i] = Answer(n, e)[i]
      BY <3>1, <1>e
    <3>3. Len(Answer(n, e)) \in Nat
      BY <3>1
    <3>4. /\ Len(Answer(n, e)) + 1 \in 1..Len(es)
          /\ \A i \in 1..Len(Answer(n, e)) : i \in 1..Len(es)
      BY <3>2, <3>3
    <3> HIDE DEF es
    <3> QED
      BY <3>2, <3>4 DEF Elements
  <2>3. \A m \in Node : WaitsFor(m)
    BY <2>1, <2>2, <1>t
  <2>4. e.op = "PROBE_ACK" \/ session[n] = "ACKED"
    BY <2>1 DEF NextSession
  <2>5. attempts[n] > 0
    BY <1>7 DEF PollCommit
  <2>6. PICK t \in {"ACKED", "FAILED"}, a \in {0, attempts[n] - 1} :
          session' = [session EXCEPT ![n] = t] /\ attempts' = [attempts EXCEPT ![n] = a]
    BY <2>1, <1>u DEF Return
  <2> HIDE DEF es, e
  <2> QED
    BY <2>1, <2>2, <2>3, <2>4, <2>5, <2>6, WaitTaken DEF e
<1>8. ASSUME NEW n \in Node, PollSynced(n) PROVE \A m \in Node : WaitsFor(m)'
  <2> DEFINE e == Head(rx[n])
             es == Answer(n, e)
  <2>1. /\ rx[n] # <<>> /\ Handle(n, e) /\ Transfer(n, TRUE, es) /\ restarts = 0
        /\ session' = [session EXCEPT ![n] = "SYNCED"]
        /\ attempts' = [attempts EXCEPT ![n] = 0]
    BY <1>8 DEF PollSynced, Return
  <2>2. es \in Seq(Envelopes)
    BY <2>1, <1>a
  <2>3. \A m \in Node : WaitsFor(m)
    BY <2>1, <2>2, <1>t
  <2>4. "SYNCED" # "SENT" /\ "SYNCED" # "ACKED"
    OBVIOUS
  <2> HIDE DEF es, e
  <2> QED
    BY <2>1, <2>2, <2>3, <2>4, WaitTaken DEF es, e
<1>9. ASSUME NEW n \in Node, PollOther(n) PROVE \A m \in Node : WaitsFor(m)'
  <2> DEFINE e == Head(rx[n])
             es == Answer(n, e)
  <2>1. /\ rx[n] # <<>> /\ ~Refused(e) /\ Handle(n, e) /\ Transfer(n, TRUE, es)
        /\ restarts = 0 /\ UseAttempt(n, session[n]) /\ attempts[n] > 0
        /\ Unsent(n, e) \/ NextSession(n, e) \notin {"ACKED", "SYNCED"}
    BY <1>9 DEF PollOther
  <2>2. es \in Seq(Envelopes) /\ ~Unsent(n, e)
    BY <2>1, <1>a, <1>f
  <2>3. \A m \in Node : WaitsFor(m)
    BY <2>1, <2>2, <1>t
  <2>4. session[n] # "ACKED" /\ e.op # "PROBE_ACK"
    BY <2>1, <2>2 DEF NextSession
  <2>5. PICK t \in {session[n], "FAILED"} :
          /\ session' = [session EXCEPT ![n] = t]
          /\ attempts' = [attempts EXCEPT ![n] = attempts[n] - 1]
    BY <2>1, <1>u
  <2> HIDE DEF es, e
  <2> QED
    BY <2>1, <2>2, <2>3, <2>4, <2>5, WaitTaken DEF es, e
<1>10. ASSUME NEW n \in Node, Lose(n) PROVE FALSE
  BY <1>10 DEF Lose
<1>11. CASE UNCHANGED vars
  <2>1. UNCHANGED <<probeState, session, attempts, rx, missed, restarts>>
    BY <1>11 DEF vars
  <2> QED
    BY <2>1, <1>k DEF WaitsFor, Comes, Waiting
<1> QED
  BY <1>0, <1>1, <1>2, <1>3, <1>4, <1>5, <1>6, <1>7, <1>8, <1>9, <1>10, <1>11 DEF Next, Poll

LEMMA WaitInvariant == Spec => [](TypeOK /\ WaitInv)
  BY TypeInit, TypeStep, WaitInit, WaitStep, PTL DEF Spec

\* The only way for a handshake to wait for nothing, if no envelope is lost or
\* refused and no node restarts, is that both nodes have committed: whatever else
\* they send, however handshakes cross and repeat, for buffers of any size.
THEOREM StuckHandshakesHaveCommitted == Spec => []StuckOnlyIfCommitted
<1>1. ASSUME TypeOK, WaitInv PROVE StuckOnlyIfCommitted
  <2> SUFFICES ASSUME ~missed, restarts = 0, Quiet, NEW n \in Node,
                      session[n] = "SENT" \/ (session[n] = "ACKED" /\ attempts[n] > 0)
               PROVE  session[n] = "ACKED" /\ \A m \in Node : probeState[m] = "NEGOTIATED"
    BY DEF StuckOnlyIfCommitted
  <2>1. \A m \in Node : WaitsFor(m)
    BY <1>1 DEF WaitInv
  <2>2. \A m \in Node : \A op : ~Comes(m, op)
    <3>1. \A m \in Node : 1..Len(rx[m]) = {}
      BY DEF Quiet
    <3> QED
      BY <3>1 DEF Comes, Waiting
  <2>3. Peer(n) \in Node /\ Node = {n, Peer(n)} /\ Peer(Peer(n)) = n
    BY Peers
  <2>4. session[n] # "SENT" /\ \A m \in Node : probeState[m] # "PROBING"
    BY <2>1, <2>2, Peers DEF WaitsFor
  <2>5. probeState[n] = "NEGOTIATED" /\ probeState[Peer(n)] # "IDLE"
    BY <2>1, <2>2, <2>3, <2>4 DEF WaitsFor
  <2>6. probeState[Peer(n)] \in {"IDLE", "PROBING", "NEGOTIATED"}
    BY <1>1, <2>3 DEF TypeOK
  <2> QED
    BY <2>3, <2>4, <2>5, <2>6
<1> QED
  BY <1>1, WaitInvariant, PTL

-----------------------------------------------------------------------------
(* The traffic wears down.  Every step but a call or a restart, which the    *)
(* bounds count, lowers the first of these that it changes: the nodes that   *)
(* have not committed, the polls that are left, the load of the two queues.  *)

\* The places of the envelopes in s that will be answered whatever the state: by
\* a PROBE_ACK or a NOP, which are not answered themselves.
Answerable(s) == {i \in 1..Len(s) : s[i].op \in {"PROBE", "SEAL"}}

\* The envelopes of s and the answers that they will call for.
Load(s) == Len(s) + Cardinality(Answerable(s))

Uncommitted == {n \in Node : probeState[n] # "NEGOTIATED"}

\* A call of an application, or a restart.
External ==
  \/ calls < calls' /\ calls' <= MaxCalls
  \/ restarts < restarts' /\ restarts' <= MaxRestarts

Commits == Uncommitted' \subseteq Uncommitted /\ Uncommitted' # Uncommitted

UsesPoll ==
  /\ Uncommitted' = Uncommitted
  /\ \A m \in Node : attempts'[m] <= attempts[m]
  /\ \E m \in Node : attempts'[m] < attempts[m]

Unloads ==
  /\ Uncommitted' = Uncommitted /\ attempts' = attempts
  /\ \E m \in Node : Load(rx'[m]) + Load(rx'[Peer(m)]) < Load(rx[m]) + Load(rx[Peer(m)])

\* No envelope waits that the dispatcher would send back as it is.
NoSend == \A n \in Node : \A e \in Waiting(n) : e.op # "SEND"

WearsDown == NoSend => External \/ Commits \/ UsesPoll \/ Unloads

\* Places and number of the answerable envelopes of a queue.
LEMMA AnswerableFinite ==
  ASSUME NEW s \in Seq(Envelopes)
  PROVE  IsFiniteSet(Answerable(s)) /\ Cardinality(Answerable(s)) \in Nat /\ Load(s) \in Nat
<1>1. Len(s) \in Nat
  OBVIOUS
<1>2. IsFiniteSet(1..Len(s))
  BY <1>1, FS_Interval
<1>3. Answerable(s) \in SUBSET (1..Len(s))
  BY DEF Answerable
<1>4. IsFiniteSet(Answerable(s))
  BY <1>2, <1>3, FS_Subset
<1>5. Cardinality(Answerable(s)) \in Nat
  BY <1>4, FS_CardinalityType
<1> QED
  BY <1>1, <1>4, <1>5 DEF Load

\* A queue without its head: the other envelopes move up by one place.
LEMMA LoadOfTail ==
  ASSUME NEW s \in Seq(Envelopes), s # <<>>
  PROVE  Load(Tail(s)) = Load(s) - (IF Head(s).op \in {"PROBE", "SEAL"} THEN 2 ELSE 1)
<1> DEFINE t == Tail(s)
           S == Answerable(t)
           T == Answerable(s) \ {1}
           f == [i \in S |-> i + 1]
<1>1. /\ t \in Seq(Envelopes) /\ Len(t) = Len(s) - 1 /\ Len(s) \in Nat \ {0}
      /\ \A i \in 1..Len(t) : t[i] = s[i + 1]
      /\ Head(s) = s[1]
  OBVIOUS
<1>2. /\ IsFiniteSet(S) /\ Cardinality(S) \in Nat
      /\ IsFiniteSet(Answerable(s)) /\ Cardinality(Answerable(s)) \in Nat
  BY <1>1, AnswerableFinite
<1>3. \A i \in S : i \in Int /\ i + 1 \in T
  <2> SUFFICES ASSUME NEW i \in S PROVE i \in Int /\ i + 1 \in T
    OBVIOUS
  <2>1. i \in 1..Len(t) /\ t[i].op \in {"PROBE", "SEAL"}
    BY DEF Answerable
  <2>2. i + 1 \in 1..Len(s) /\ i + 1 # 1 /\ s[i + 1].op \in {"PROBE", "SEAL"}
    BY <2>1, <1>1
  <2> QED
    BY <2>1, <2>2 DEF Answerable
<1>4. \A j \in T : j - 1 \in S /\ (j - 1) + 1 = j
  <2> SUFFICES ASSUME NEW j \in T PROVE j - 1 \in S /\ (j - 1) + 1 = j
    OBVIOUS
  <2>1. j \in 1..Len(s) /\ j # 1 /\ s[j].op \in {"PROBE", "SEAL"}
    BY DEF Answerable
  <2>2. j - 1 \in 1..Len(t) /\ (j - 1) + 1 = j
    BY <2>1, <1>1
  <2>3. t[j - 1] = s[j]
    BY <2>2, <1>1
  <2> QED
    BY <2>1, <2>2, <2>3 DEF Answerable
<1> HIDE DEF S, T
<1>5. f \in Bijection(S, T)
  <2>1. f \in [S -> T] /\ \A i, k \in S : f[i] = f[k] => i = k
    BY <1>3
  <2>2. \A j \in T : \E i \in S : f[i] = j
    BY <1>4
  <2> QED
    BY <2>1, <2>2 DEF Bijection, Injection, IsInjective, Surjection
<1>6. Cardinality(T) = Cardinality(S)
  BY <1>2, <1>5, FS_Bijection DEF ExistsBijection
<1>7. Cardinality(T) = IF 1 \in Answerable(s) THEN Cardinality(Answerable(s)) - 1
                       ELSE Cardinality(Answerable(s))
  BY <1>2, FS_RemoveElement DEF T
<1>8. 1 \in Answerable(s) <=> Head(s).op \in {"PROBE", "SEAL"}
  BY <1>1 DEF Answerable
<1>9. Load(t) = Len(t) + Cardinality(S) /\ Load(s) = Len(s) + Cardinality(Answerable(s))
  BY DEF Load, S
<1>10. Len(t) \in Nat /\ Len(t) = Len(s) - 1 /\ Len(s) \in Nat
  BY <1>1
<1> HIDE DEF t
<1>11. CASE 1 \in Answerable(s)
  <2>1. Cardinality(S) = Cardinality(Answerable(s)) - 1
    BY <1>6, <1>7, <1>11
  <2>2. Load(t) = Load(s) - 2
    BY <1>2, <1>9, <1>10, <2>1
  <2> QED
    BY <2>2, <1>8, <1>11 DEF t
<1>12. CASE 1 \notin Answerable(s)
  <2>1. Cardinality(S) = Cardinality(Answerable(s))
    BY <1>6, <1>7, <1>12
  <2>2. Load(t) = Load(s) - 1
    BY <1>2, <1>9, <1>10, <2>1
  <2> QED
    BY <2>2, <1>8, <1>12 DEF t
<1> QED
  BY <1>11, <1>12

\* What cannot be answered adds no more than its own length.
LEMMA LoadOfMore ==
  ASSUME NEW s \in Seq(Envelopes), NEW t \in Seq(Envelopes),
         \A x \in Elements(t) : x.op \notin {"PROBE", "SEAL"}
  PROVE  Load(s \o t) = Load(s) + Len(t)
<1>1. /\ Len(s) \in Nat /\ Len(t) \in Nat /\ Len(s \o t) = Len(s) + Len(t)
      /\ \A i \in 1..Len(s) : (s \o t)[i] = s[i]
      /\ \A i \in 1..Len(s) + Len(t) : i \notin 1..Len(s) =>
           i - Len(s) \in 1..Len(t) /\ (s \o t)[i] = t[i - Len(s)]
  OBVIOUS
<1>2. \A i \in 1..Len(t) : t[i].op \notin {"PROBE", "SEAL"}
  BY DEF Elements
<1>3. ASSUME NEW i \in 1..Len(s \o t), (s \o t)[i].op \in {"PROBE", "SEAL"}
      PROVE  i \in 1..Len(s)
  BY <1>1, <1>2, <1>3
<1>4. \A i \in 1..Len(s) : i \in 1..Len(s \o t)
  BY <1>1
<1>5. Answerable(s \o t) = Answerable(s)
  BY <1>1, <1>3, <1>4 DEF Answerable
<1>6. Cardinality(Answerable(s)) \in Nat
  BY AnswerableFinite
<1> QED
  BY <1>1, <1>5, <1>6 DEF Load

\* Node n takes an envelope and answers it, if at all, once, with one that will
\* not be answered: if it answers, what it took was answerable, so the load falls.
LEMMA TakenUnloads ==
  ASSUME TypeOK, NEW n \in Node, rx[n] # <<>>, NEW es \in Seq(Envelopes), Len(es) <= 1,
         Transfer(n, TRUE, es), \A x \in Elements(es) : x.op \notin {"PROBE", "SEAL"},
         es # <<>> => Head(rx[n]).op \in {"PROBE", "SEAL"}
  PROVE  Load(rx'[n]) + Load(rx'[Peer(n)]) < Load(rx[n]) + Load(rx[Peer(n)])
<1>1. Peer(n) \in Node /\ Peer(n) # n
  BY Peers
<1>2. /\ rx \in [Node -> Seq(Envelopes)] /\ \A m \in Node : Len(rx[m]) <= BufSlots
      /\ rx[n] \in Seq(Envelopes) /\ rx[Peer(n)] \in Seq(Envelopes)
  BY <1>1 DEF TypeOK
<1>3. Room(n) \in Nat
  BY <1>1, <1>2, ProbeAssumption DEF Room
<1> DEFINE fits == UpTo(Room(n), es)
<1>4. /\ fits \in Seq(Envelopes) /\ Len(fits) <= Len(es)
      /\ \A i \in 1..Len(fits) : fits[i] = es[i]
      /\ Len(fits) \in Nat /\ Len(es) \in Nat
  <2>1. /\ fits \in Seq(Envelopes) /\ Len(fits) <= Len(es)
        /\ \A i \in 1..Len(fits) : fits[i] = es[i]
    BY <1>3, UpToFacts
  <2> HIDE DEF fits
  <2> QED
    BY <2>1
<1>5. rx' = [[rx EXCEPT ![n] = Tail(@)] EXCEPT ![Peer(n)] = @ \o fits]
  BY DEF Transfer
<1> HIDE DEF fits
<1>6. rx'[n] = Tail(rx[n]) /\ rx'[Peer(n)] = rx[Peer(n)] \o fits
  BY <1>1, <1>2, <1>5
<1>7. \A x \in Elements(fits) : x.op \notin {"PROBE", "SEAL"}
  <2>1. \A i \in 1..Len(fits) : i \in 1..Len(es)
    BY <1>4
  <2>2. Elements(fits) \subseteq Elements(es)
    BY <2>1, <1>4 DEF Elements
  <2> QED
    BY <2>2
<1>8. Load(rx'[Peer(n)]) = Load(rx[Peer(n)]) + Len(fits)
  BY <1>2, <1>4, <1>6, <1>7, LoadOfMore
<1>9. Load(rx'[n]) = Load(rx[n]) - (IF Head(rx[n]).op \in {"PROBE", "SEAL"} THEN 2 ELSE 1)
  BY <1>2, <1>6, LoadOfTail
<1>10. Load(rx[n]) \in Nat /\ Load(rx[Peer(n)]) \in Nat
  BY <1>2, AnswerableFinite
<1>11. Len(fits) <= 1 /\ (Head(rx[n]).op \notin {"PROBE", "SEAL"} => Len(fits) = 0)
  <2>1. es = <<>> => Len(es) = 0
    OBVIOUS
  <2> QED
    BY <2>1, <1>4
<1> QED
  BY <1>4, <1>8, <1>9, <1>10, <1>11

\* How an answer, that of a SEND apart, relates to what it answers.
LEMMA AnswerEnds ==
  ASSUME NEW n \in Node, NEW e \in Envelopes, e.op # "SEND"
  PROVE  /\ Len(Answer(n, e)) <= 1
         /\ \A x \in Elements(Answer(n, e)) : x.op \notin {"PROBE", "SEAL"}
         /\ Answer(n, e) # <<>> =>
              \/ e.op \in {"PROBE", "SEAL"}
              \/ e.op = "SYNC_COMMIT" /\ probeState[n] # "NEGOTIATED"
<1>1. \A x : Len(<<x>>) = 1 /\ Elements(<<x>>) = {x}
  BY DEF Elements
<1>2. Len(<<>>) = 0 /\ Elements(<<>>) = {}
  BY DEF Elements
<1>3. /\ ProbeAck(n).op = "PROBE_ACK" /\ SyncCommit.op = "SYNC_COMMIT"
      /\ Envelope("NOP", {}).op = "NOP"
  BY DEF ProbeAck, SyncCommit, Envelope
<1>4. CASE e.op = "PROBE"
  <2>1. Answer(n, e) = <<ProbeAck(n)>>
    BY <1>4 DEF Answer
  <2> QED
    BY <2>1, <1>1, <1>3, <1>4
<1>5. CASE e.op = "SYNC_COMMIT" /\ probeState[n] # "NEGOTIATED"
  <2>1. Answer(n, e) = <<SyncCommit>>
    BY <1>5 DEF Answer
  <2> QED
    BY <2>1, <1>1, <1>3, <1>5
<1>6. CASE e.op = "SEAL"
  <2>1. Answer(n, e) = <<Envelope("NOP", {})>>
    BY <1>6 DEF Answer
  <2> QED
    BY <2>1, <1>1, <1>3, <1>6
<1>7. CASE ~(\/ e.op = "PROBE" \/ (e.op = "SYNC_COMMIT" /\ probeState[n] # "NEGOTIATED")
             \/ e.op = "SEAL")
  <2>1. Answer(n, e) = <<>>
    BY <1>7 DEF Answer
  <2> QED
    BY <2>1, <1>2
<1> QED
  BY <1>4, <1>5, <1>6, <1>7

\* A handler commits its node or leaves the commitments as they are.
LEMMA HandleCommits ==
  ASSUME TypeOK, NEW n \in Node, NEW e \in Envelopes, Handle(n, e)
  PROVE  /\ Commits \/ Uncommitted' = Uncommitted
         /\ e.op = "SYNC_COMMIT" /\ probeState[n] # "NEGOTIATED" => Commits
<1>1. CASE e.op \in {"PROBE_ACK", "SYNC_COMMIT"}
  <2>1. probeState' = [probeState EXCEPT ![n] = "NEGOTIATED"]
    BY <1>1 DEF Handle
  <2>2. Uncommitted' = Uncommitted \ {n}
    BY <2>1 DEF Uncommitted, TypeOK
  <2>3. n \in Uncommitted <=> probeState[n] # "NEGOTIATED"
    BY DEF Uncommitted
  <2> QED
    BY <2>2, <2>3 DEF Commits
<1>2. CASE e.op \notin {"PROBE_ACK", "SYNC_COMMIT"}
  <2>1. probeState' = probeState
    BY <1>2 DEF Handle
  <2> QED
    BY <2>1, <1>2 DEF Uncommitted
<1> QED
  BY <1>1, <1>2

\* Every poll uses up an attempt, or ends the handshake.
LEMMA PollUses ==
  ASSUME TypeOK, NEW n \in Node, attempts[n] > 0,
         attempts' \in {[attempts EXCEPT ![n] = @ - 1], [attempts EXCEPT ![n] = 0]},
         Commits \/ Uncommitted' = Uncommitted
  PROVE  Commits \/ UsesPoll
<1>1. \A m \in Node : attempts[m] \in Nat
  BY ProbeAssumption DEF TypeOK
<1>2. PICK k \in {attempts[n] - 1, 0} : attempts' = [attempts EXCEPT ![n] = k]
  OBVIOUS
<1>3. k < attempts[n] /\ k <= attempts[n]
  BY <1>1
<1>4. attempts'[n] = k /\ \A m \in Node : m # n => attempts'[m] = attempts[m]
  BY <1>2 DEF TypeOK
<1>5. ASSUME NEW m \in Node PROVE attempts'[m] <= attempts[m]
  BY <1>1, <1>3, <1>4
<1> QED
  BY <1>3, <1>4, <1>5 DEF UsesPoll

\* While no SEND waits, every step is one of the four.
LEMMA WearStep == TypeOK /\ Next => WearsDown
<1> SUFFICES ASSUME TypeOK, Next, NoSend PROVE External \/ Commits \/ UsesPoll \/ Unloads
  BY DEF WearsDown
<1> USE DEF counters, cpu
<1>n. calls \in Nat /\ restarts \in Nat /\ MaxCalls \in Nat /\ MaxRestarts \in Nat
  BY ProbeAssumption DEF TypeOK
<1>c. ASSUME calls < MaxCalls, calls' = calls + 1 PROVE External
  BY <1>c, <1>n DEF External
<1>h. ASSUME NEW n \in Node, rx[n] # <<>>
      PROVE  Head(rx[n]) \in Envelopes /\ Head(rx[n]).op # "SEND"
  BY <1>h, HeadWaits DEF NoSend
<1>1. ASSUME NEW n \in Node, NEW polls, Start(n, polls) PROVE External
  BY <1>1, <1>c DEF Start
<1>2. ASSUME NEW n \in Node, SendSync(n) \/ Post(n) PROVE External
  BY <1>2, <1>c DEF SendSync, Post
<1>3. ASSUME NEW n \in Node, Serve(n) PROVE Commits \/ Unloads
  <2> DEFINE e == Head(rx[n])
             es == Answer(n, e)
  <2>1. /\ rx[n] # <<>> /\ attempts' = attempts
        /\ Handle(n, e) /\ Transfer(n, TRUE, es)
    BY <1>3 DEF Serve
  <2>2. e \in Envelopes /\ e.op # "SEND"
    BY <2>1, <1>h
  <2> HIDE DEF e
  <2>3. Commits \/ Uncommitted' = Uncommitted
    BY <2>1, <2>2, HandleCommits
  <2>4. CASE Uncommitted' = Uncommitted
    <3>1. ~(e.op = "SYNC_COMMIT" /\ probeState[n] # "NEGOTIATED")
      BY <2>1, <2>2, <2>4, HandleCommits DEF Commits
    <3>2. /\ es \in Seq(Envelopes) /\ Len(es) <= 1
          /\ \A x \in Elements(es) : x.op \notin {"PROBE", "SEAL"}
          /\ es # <<>> => e.op \in {"PROBE", "SEAL"}
      BY <2>2, <3>1, AnswerEnds, AnswerFacts
    <3> HIDE DEF es
    <3>3. Load(rx'[n]) + Load(rx'[Peer(n)]) < Load(rx[n]) + Load(rx[Peer(n)])
      BY <2>1, <3>2, TakenUnloads DEF e
    <3> QED
      BY <2>1, <2>4, <3>3 DEF Unloads
  <2> QED
    BY <2>3, <2>4
<1>4. ASSUME NEW n \in Node, Poll(n) PROVE Commits \/ UsesPoll
  <2>1. attempts[n] > 0
    BY <1>4 DEF Poll, PollNothing, PollRefused, PollCommit, PollSynced, PollOther
  <2>2. attempts' \in {[attempts EXCEPT ![n] = @ - 1], [attempts EXCEPT ![n] = 0]}
    BY <1>4 DEF Poll, PollNothing, PollRefused, PollCommit, PollSynced, PollOther,
                UseAttempt, Return
  <2>3. CASE PollNothing(n) \/ PollRefused(n)
    <3>1. Uncommitted' = Uncommitted
      BY <2>3 DEF PollNothing, PollRefused, Uncommitted
    <3> QED
      BY <2>1, <2>2, <3>1, PollUses
  <2>4. CASE PollCommit(n) \/ PollSynced(n) \/ PollOther(n)
    <3>1. rx[n] # <<>> /\ Handle(n, Head(rx[n]))
      BY <2>4 DEF PollCommit, PollSynced, PollOther
    <3>2. Commits \/ Uncommitted' = Uncommitted
      BY <3>1, <1>h, HandleCommits
    <3> QED
      BY <2>1, <2>2, <3>2, PollUses
  <2> QED
    BY <1>4, <2>3, <2>4 DEF Poll
<1>5. ASSUME NEW n \in Node, Lose(n) PROVE Unloads
  <2>1. /\ rx[n] # <<>> /\ rx' = [rx EXCEPT ![n] = Tail(@)]
        /\ probeState' = probeState /\ attempts' = attempts
    BY <1>5 DEF Lose
  <2>2. Peer(n) \in Node /\ Peer(n) # n
    BY Peers
  <2>3. rx[n] \in Seq(Envelopes) /\ rx[Peer(n)] \in Seq(Envelopes)
    BY <2>2 DEF TypeOK
  <2>4. rx'[n] = Tail(rx[n]) /\ rx'[Peer(n)] = rx[Peer(n)]
    BY <2>1, <2>2 DEF TypeOK
  <2>5. Load(rx[n]) \in Nat /\ Load(rx[Peer(n)]) \in Nat
    BY <2>3, AnswerableFinite
  <2>6. Load(rx'[n]) < Load(rx[n])
    BY <2>1, <2>3, <2>4, <2>5, LoadOfTail
  <2>7. Load(rx'[n]) + Load(rx'[Peer(n)]) < Load(rx[n]) + Load(rx[Peer(n)])
    BY <2>1, <2>3, <2>4, <2>5, LoadOfTail
  <2> QED
    BY <2>1, <2>7 DEF Unloads, Uncommitted
<1>6. ASSUME NEW n \in Node, Restart(n) PROVE External
  BY <1>6, <1>n DEF Restart, External
<1> QED
  BY <1>1, <1>2, <1>3, <1>4, <1>5, <1>6 DEF Next

\* Whatever the capabilities and the buffers, two nodes between which no SEND is on
\* its way do not answer each other for ever: every step that is not a new call or
\* a restart commits a node for good, uses up a poll, or takes from the queues
\* more than it adds.  This is why Quiesces holds, and only a SEND is excluded:
\* the dispatcher sends it back, and the peer's does the same.
THEOREM TrafficWearsDown == Spec => [][WearsDown]_vars
<1>1. TypeOK /\ [Next]_vars => [WearsDown]_vars
  BY WearStep
<1> QED
  BY <1>1, TypeCorrect, PTL DEF Spec

\* If no application posts a SEND then none is ever on its way: the handlers make
\* none of anything else.
LEMMA NoSendStep ==
  ASSUME "SEND" \notin Posted
  PROVE  TypeOK /\ NoSend /\ [Next]_vars => NoSend'
<1> SUFFICES ASSUME TypeOK, NoSend, [Next]_vars PROVE NoSend'
  OBVIOUS
<1> USE DEF counters, cpu
<1>t. ASSUME NEW n \in Node, NEW taken \in BOOLEAN, taken => rx[n] # <<>>,
             NEW es \in Seq(Envelopes), Transfer(n, taken, es),
             \A x \in Elements(es) : x.op # "SEND"
      PROVE  NoSend'
  <2>1. /\ Waiting(n)' \subseteq Waiting(n)
        /\ Waiting(Peer(n))' \subseteq Waiting(Peer(n)) \cup Elements(es)
    BY <1>t, TransferFacts
  <2>2. Peer(n) \in Node /\ Node = {n, Peer(n)}
    BY Peers
  <2>3. \A e \in Waiting(n)' \cup Waiting(Peer(n))' : e.op # "SEND"
    BY <1>t, <2>1, <2>2 DEF NoSend
  <2> QED
    BY <2>2, <2>3 DEF NoSend
<1>e. \A m \in Node : <<Probe(m)>> \in Seq(Envelopes) /\ <<SyncCommit>> \in Seq(Envelopes)
  BY EnvelopeType
<1>s. \A x : Elements(<<x>>) = {x}
  BY DEF Elements
<1>n. <<>> \in Seq(Envelopes) /\ Elements(<<>>) = {}
  BY DEF Elements
<1>0. CASE UNCHANGED vars
  BY <1>0 DEF vars, NoSend, Waiting
<1>1. ASSUME NEW n \in Node, NEW polls, Start(n, polls) PROVE NoSend'
  <2>1. Transfer(n, FALSE, <<Probe(n)>>) /\ Probe(n).op # "SEND"
    BY <1>1 DEF Start, Probe, Envelope
  <2>2. \A x \in Elements(<<Probe(n)>>) : x.op # "SEND"
    BY <2>1, <1>s
  <2>3. <<Probe(n)>> \in Seq(Envelopes)
    BY <1>e
  <2> QED
    BY <2>1, <2>2, <2>3, <1>t
<1>2. ASSUME NEW n \in Node, SendSync(n) PROVE NoSend'
  <2>1. Transfer(n, FALSE, <<SyncCommit>>) /\ SyncCommit.op # "SEND"
    BY <1>2 DEF SendSync, SyncCommit, Envelope
  <2>2. \A x \in Elements(<<SyncCommit>>) : x.op # "SEND"
    BY <2>1, <1>s
  <2>3. <<SyncCommit>> \in Seq(Envelopes)
    BY <1>e
  <2> QED
    BY <2>1, <2>2, <2>3, <1>t
<1>3. ASSUME NEW n \in Node, Post(n) PROVE NoSend'
  <2>1. PICK op \in Posted : Transfer(n, FALSE, <<Envelope(op, {})>>)
    BY <1>3 DEF Post
  <2>2. /\ <<Envelope(op, {})>> \in Seq(Envelopes)
        /\ Envelope(op, {}).op # "SEND"
    BY EnvelopeType, ProbeAssumption DEF Envelope
  <2>3. \A x \in Elements(<<Envelope(op, {})>>) : x.op # "SEND"
    BY <2>2, <1>s
  <2> QED
    BY <2>1, <2>2, <2>3, <1>t
<1>h. ASSUME NEW n \in Node, rx[n] # <<>>
      PROVE  /\ Answer(n, Head(rx[n])) \in Seq(Envelopes)
             /\ Answer(n, Head(rx[n])) \o <<SyncCommit>> \in Seq(Envelopes)
             /\ \A x \in Elements(Answer(n, Head(rx[n]))) : x.op # "SEND"
             /\ \A x \in Elements(Answer(n, Head(rx[n])) \o <<SyncCommit>>) : x.op # "SEND"
  <2> DEFINE e == Head(rx[n])
  <2>1. e \in Envelopes /\ e.op # "SEND"
    BY <1>h, HeadWaits DEF NoSend
  <2> HIDE DEF e
  <2>2. /\ Answer(n, e) \in Seq(Envelopes)
        /\ Answer(n, e) \o <<SyncCommit>> \in Seq(Envelopes)
        /\ Elements(Answer(n, e) \o <<SyncCommit>>) \subseteq Elements(Answer(n, e)) \cup {SyncCommit}
    BY <2>1, AnswerFacts, AnswerAndCommit
  <2>3. SyncCommit.op # "SEND"
    BY DEF SyncCommit, Envelope
  <2>4. \A x \in Elements(Answer(n, e)) : x.op # "SEND"
    <3>1. /\ ProbeAck(n).op # "SEND" /\ Envelope("NOP", {}).op # "SEND"
      BY DEF ProbeAck, Envelope
    <3> QED
      BY <2>1, <2>3, <3>1, <1>s, <1>n DEF Answer
  <2> QED
    BY <2>2, <2>3, <2>4 DEF e
<1>4. ASSUME NEW n \in Node, Serve(n) PROVE NoSend'
  <2>1. rx[n] # <<>> /\ Transfer(n, TRUE, Answer(n, Head(rx[n])))
    BY <1>4 DEF Serve
  <2> QED
    BY <2>1, <1>h, <1>t
<1>5. ASSUME NEW n \in Node, PollNothing(n) PROVE NoSend'
  BY <1>5 DEF PollNothing, NoSend, Waiting
<1>6. ASSUME NEW n \in Node, PollRefused(n) PROVE NoSend'
  <2>1. rx[n] # <<>> /\ Transfer(n, TRUE, <<>>)
    BY <1>6 DEF PollRefused
  <2> QED
    BY <2>1, <1>n, <1>t
<1>7. ASSUME NEW n \in Node, PollCommit(n) PROVE NoSend'
  <2>1. rx[n] # <<>> /\ Transfer(n, TRUE, Answer(n, Head(rx[n])) \o <<SyncCommit>>)
    BY <1>7 DEF PollCommit
  <2> QED
    BY <2>1, <1>h, <1>t
<1>8. ASSUME NEW n \in Node, PollSynced(n) \/ PollOther(n) PROVE NoSend'
  <2>1. rx[n] # <<>> /\ Transfer(n, TRUE, Answer(n, Head(rx[n])))
    BY <1>8 DEF PollSynced, PollOther
  <2> QED
    BY <2>1, <1>h, <1>t
<1>9. ASSUME NEW n \in Node, Lose(n) \/ Restart(n) PROVE NoSend'
  <2>1. rx[n] \in Seq(Envelopes) /\ rx \in [Node -> Seq(Envelopes)]
    BY DEF TypeOK
  <2>2. \A m \in Node \ {n} : rx'[m] = rx[m]
    BY <1>9, <2>1 DEF Lose, Restart
  <2>3. Waiting(n)' \subseteq Waiting(n)
    <3>1. CASE Lose(n)
      <4>1. rx'[n] = Tail(rx[n]) /\ rx[n] # <<>>
        BY <3>1, <2>1 DEF Lose
      <4>2. /\ \A i \in 1..Len(Tail(rx[n])) : Tail(rx[n])[i] = rx[n][i + 1]
            /\ Len(Tail(rx[n])) = Len(rx[n]) - 1 /\ Len(rx[n]) \in Nat
        BY <2>1, <4>1
      <4>3. \A i \in 1..Len(Tail(rx[n])) : i + 1 \in 1..Len(rx[n])
        BY <4>2
      <4> QED
        BY <4>1, <4>2, <4>3 DEF Waiting
    <3>2. CASE Restart(n)
      <4>1. rx'[n] = <<>> /\ 1..Len(<<>>) = {}
        BY <3>2, <2>1 DEF Restart
      <4> QED
        BY <4>1 DEF Waiting
    <3> QED
      BY <1>9, <3>1, <3>2
  <2>4. \A m \in Node \ {n} : Waiting(m)' = Waiting(m)
    BY <2>2 DEF Waiting
  <2> QED
    BY <2>3, <2>4 DEF NoSend
<1> QED
  BY <1>0, <1>1, <1>2, <1>3, <1>4, <1>5, <1>6, <1>7, <1>8, <1>9 DEF Next, Poll

LEMMA NoSendWaits == "SEND" \notin Posted => (Spec => []NoSend)
<1> SUFFICES ASSUME "SEND" \notin Posted PROVE Spec => []NoSend
  OBVIOUS
<1>1. Init => NoSend
  <2> SUFFICES ASSUME Init PROVE NoSend
    OBVIOUS
  <2>1. \A m \in Node : 1..Len(rx[m]) = {}
    BY DEF Init
  <2> QED
    BY <2>1 DEF NoSend, Waiting
<1> QED
  BY <1>1, NoSendStep, TypeCorrect, PTL DEF Spec

\* So the handshake and all traffic without SEND wears down; the only way for two
\* nodes to exchange envelopes for ever is that an application posts a SEND.
THEOREM OnlySendKeepsGoing ==
  "SEND" \notin Posted => (Spec => [][External \/ Commits \/ UsesPoll \/ Unloads]_vars)
<1> SUFFICES ASSUME "SEND" \notin Posted
             PROVE  Spec => [][External \/ Commits \/ UsesPoll \/ Unloads]_vars
  OBVIOUS
<1>1. Spec => []NoSend
  BY NoSendWaits
<1>2. NoSend /\ [WearsDown]_vars => [External \/ Commits \/ UsesPoll \/ Unloads]_vars
  BY DEF WearsDown
<1> QED
  BY <1>1, <1>2, TrafficWearsDown, PTL

=============================================================================
