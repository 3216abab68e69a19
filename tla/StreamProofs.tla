---------------------------- MODULE StreamProofs ----------------------------
(***************************************************************************)
(* Proofs about Stream: what the run `parser' checks with seven bytes of   *)
(* payload holds for any preheader of the kind assumed, any size of the    *)
(* envelope, any payloads, and however many bytes are lost or injected.    *)
(***************************************************************************)
EXTENDS Stream, SequenceTheorems, TLAPS

-----------------------------------------------------------------------------
(* The inductive invariant. *)

\* s begins with the first k bytes of f.
Begins(s, k, f) == \A i \in 1..k : s[i] = f[i]

\* The state says how much of an envelope is in the buffer.
ParserInv ==
  /\ state \in {"WAITING", "HEADER", "PAYLOAD", "COMPLETE"}
  /\ state = "WAITING" => buffer = <<>>
  /\ state = "HEADER" =>
       /\ matched = Len(buffer) /\ 0 < Len(buffer) /\ Len(buffer) < HeaderLen
       /\ Begins(buffer, Len(buffer), Header)
  /\ state = "PAYLOAD" =>
       /\ HeaderLen <= Len(buffer) /\ Len(buffer) < EnvSize
       /\ Begins(buffer, HeaderLen, Header)

\* The line and the injection stand before a byte that is there.
LineInv ==
  /\ line = <<>> => off = 0
  /\ line # <<>> => off < Len(Head(line))
  /\ inj # <<>> => injOff < Len(inj)

\* The parser is k bytes into f.
Aligned(f, k) ==
  /\ k = 0 => state = "WAITING"
  /\ 0 < k => /\ Len(buffer) = k /\ Begins(buffer, k, f)
              /\ state = IF k < HeaderLen THEN "HEADER" ELSE "PAYLOAD"

\* The parser is where the line is, or the injection.
Synced ==
  /\ intact
  /\ inj # <<>> => off = 0 /\ Aligned(inj, injOff)
  /\ inj = <<>> /\ off = 0 => state \in {"WAITING", "COMPLETE"}
  /\ inj = <<>> /\ off > 0 => Aligned(Head(line), off)

OrderInv == ~disturbed => Synced /\ Envelopes = fed

Inv == TypeOK /\ ParserInv /\ LineInv /\ OrderInv

-----------------------------------------------------------------------------
(* Facts about the data. *)

LEMMA Sizes ==
  /\ HeaderLen \in Nat /\ HeaderLen > 1 /\ EnvSize \in Nat /\ EnvSize > HeaderLen
  /\ \A i \in 1..HeaderLen : Header[i] \in Byte
  /\ Header[1] \in Byte
<1>1. /\ Header \in Seq(Byte) /\ HeaderLen > 1 /\ EnvSize \in Nat /\ EnvSize > HeaderLen
  BY StreamAssumption
<1>2. HeaderLen \in Nat /\ \A i \in 1..HeaderLen : Header[i] \in Byte
  BY <1>1 DEF HeaderLen
<1> QED
  BY <1>1, <1>2

\* A frame is as long as an envelope and begins with the preheader.
LEMMA FrameFacts ==
  ASSUME NEW f \in Frames
  PROVE  /\ f \in Seq(Byte) /\ Len(f) = EnvSize /\ f # <<>>
         /\ \A i \in 1..EnvSize : f[i] \in Byte
         /\ Begins(f, HeaderLen, Header)
<1>1. f \in Seq(Byte) /\ Len(f) = EnvSize /\ \A i \in 1..HeaderLen : f[i] = Header[i]
  BY StreamAssumption
<1>2. f # <<>> /\ \A i \in 1..EnvSize : f[i] \in Byte
  BY <1>1, Sizes
<1> QED
  BY <1>1, <1>2 DEF Begins

\* Noise is a single byte that does not begin a preheader.
LEMMA NoiseFacts ==
  ASSUME NEW b \in Noise
  PROVE  b \in Byte /\ b # Header[1] /\ <<b>> \notin Frames /\ Len(<<b>>) = 1 /\ <<b>>[1] = b
<1>1. b \in Byte /\ b # Header[1]
  BY StreamAssumption
<1>2. \A f \in Frames : Len(f) # 1
  BY FrameFacts, Sizes
<1>3. Len(<<b>>) = 1 /\ <<b>>[1] = b
  OBVIOUS
<1>4. <<b>> \notin Frames
  BY <1>2, <1>3
<1> QED
  BY <1>1, <1>3, <1>4

\* One more byte.
LEMMA AppendFacts ==
  ASSUME NEW s \in Seq(Byte), NEW b \in Byte
  PROVE  /\ Append(s, b) \in Seq(Byte) /\ Len(Append(s, b)) = Len(s) + 1 /\ Len(s) \in Nat
         /\ \A i \in 1..Len(s) : Append(s, b)[i] = s[i]
         /\ Append(s, b)[Len(s) + 1] = b
  OBVIOUS

\* One more byte of f.
LEMMA BeginsMore ==
  ASSUME NEW s \in Seq(Byte), NEW b \in Byte, NEW f, Begins(s, Len(s), f), b = f[Len(s) + 1]
  PROVE  Begins(Append(s, b), Len(s) + 1, f)
<1>1. /\ \A i \in 1..Len(s) : Append(s, b)[i] = s[i]
      /\ Append(s, b)[Len(s) + 1] = b /\ Len(s) \in Nat
  BY AppendFacts
<1>2. \A i \in 1..(Len(s) + 1) : i \in 1..Len(s) \/ i = Len(s) + 1
  BY <1>1
<1> QED
  BY <1>1, <1>2 DEF Begins

\* What omi_env_validate tests, byte by byte.
LEMMA ValidateFacts ==
  ASSUME NEW e \in Seq(Byte), HeaderLen <= Len(e), Begins(e, HeaderLen, Header)
  PROVE  Validate(e)
<1>1. HeaderLen \in 0..Len(e) /\ HeaderLen = Len(Header) /\ Header \in Seq(Byte) /\ HeaderLen \in Nat
  BY Sizes, StreamAssumption DEF HeaderLen
<1>2. /\ SubSeq(e, 1, HeaderLen) \in Seq(Byte) /\ Len(SubSeq(e, 1, HeaderLen)) = HeaderLen
      /\ \A i \in 1..HeaderLen : SubSeq(e, 1, HeaderLen)[i] = e[i]
  BY <1>1
<1>3. \A i \in 1..HeaderLen : SubSeq(e, 1, HeaderLen)[i] = Header[i]
  BY <1>2 DEF Begins
<1> DEFINE p == SubSeq(e, 1, HeaderLen)
<1>4. p \in Seq(Byte) /\ Header \in Seq(Byte) /\ Len(p) = Len(Header)
      /\ \A i \in 1..Len(p) : p[i] = Header[i]
  BY <1>1, <1>2, <1>3
<1> HIDE DEF p
<1>5. p = Header
  BY <1>4, SeqEqual
<1> QED
  BY <1>5 DEF p, Validate

-----------------------------------------------------------------------------
(* stream_push_byte. *)

States == {"WAITING", "HEADER", "PAYLOAD", "COMPLETE", "INVALID"}

\* The parser's own part of TypeOK.
ParserType ==
  /\ state \in States
  /\ buffer \in Seq(Byte) /\ Len(buffer) <= EnvSize
  /\ matched \in 0..HeaderLen
  /\ envelope \in Seq(Byte) /\ runs \in Nat
  /\ auto \in BOOLEAN /\ vm \in BOOLEAN

\* A buffer of one byte.
LEMMA OneByte ==
  ASSUME NEW b \in Byte, b = Header[1]
  PROVE  <<b>> \in Seq(Byte) /\ Len(<<b>>) = 1 /\ Begins(<<b>>, 1, Header)
<1>1. <<b>> \in Seq(Byte) /\ Len(<<b>>) = 1 /\ <<b>>[1] = b
  OBVIOUS
<1>2. \A i \in 1..1 : i = 1
  OBVIOUS
<1> QED
  BY <1>1, <1>2 DEF Begins

\* Whatever byte is pushed, the parser's state goes on saying what is in the
\* buffer; in particular it does not become INVALID.
LEMMA PushKeeps ==
  ASSUME ParserType, ParserInv, NEW b \in Byte, Push(b)
  PROVE  ParserType' /\ ParserInv'
<1> DEFINE a == Append(buffer, b)
<1>a. /\ a \in Seq(Byte) /\ Len(a) = Len(buffer) + 1 /\ Len(buffer) \in Nat
      /\ \A i \in 1..Len(buffer) : a[i] = buffer[i]
  BY AppendFacts DEF ParserType
<1>s. HeaderLen \in Nat /\ HeaderLen > 1 /\ EnvSize \in Nat /\ EnvSize > HeaderLen
  BY Sizes
<1>e. <<>> \in Seq(Byte) /\ Len(<<>>) = 0
  OBVIOUS
<1> HIDE DEF a
<1>1. CASE PushWaiting(b)
  <2>1. CASE b = Header[1]
    <3>1. state' = "HEADER" /\ buffer' = <<b>> /\ matched' = 1 /\ UNCHANGED <<envelope, auto, vm, runs>>
      BY <1>1, <2>1 DEF PushWaiting
    <3>2. buffer' \in Seq(Byte) /\ Len(buffer') = 1 /\ Begins(buffer', 1, Header)
      BY <3>1, <2>1, OneByte
    <3> QED
      BY <3>1, <3>2, <1>s DEF ParserType, ParserInv, States
  <2>2. CASE b # Header[1]
    <3>1. UNCHANGED <<state, buffer, matched, envelope, auto, vm, runs>>
      BY <1>1, <2>2 DEF PushWaiting
    <3> QED
      BY <3>1 DEF ParserType, ParserInv, Begins
  <2> QED
    BY <2>1, <2>2
<1>2. CASE PushHeader(b)
  <2>0. /\ state = "HEADER" /\ matched = Len(buffer) /\ 0 < Len(buffer) /\ Len(buffer) < HeaderLen
        /\ Begins(buffer, Len(buffer), Header) /\ buffer \in Seq(Byte)
        /\ UNCHANGED <<envelope, auto, vm, runs>>
    BY <1>2 DEF PushHeader, ParserInv, ParserType
  <2>1. CASE b = Header[Len(buffer) + 1]
    <3>1. /\ buffer' = a /\ matched' = matched + 1
          /\ state' = IF Len(buffer) + 1 < HeaderLen THEN "HEADER"
                      ELSE IF matched + 1 = HeaderLen THEN "PAYLOAD" ELSE "INVALID"
      BY <1>2, <2>1 DEF PushHeader, a
    <3>2. Begins(a, Len(buffer) + 1, Header)
      BY <2>0, <2>1, BeginsMore DEF a
    <3>3. CASE Len(buffer) + 1 < HeaderLen
      <4>1. state' = "HEADER"
        BY <3>1, <3>3
      <4> QED
        BY <2>0, <3>1, <3>2, <3>3, <4>1, <1>a, <1>s DEF ParserType, ParserInv, States
    <3>4. CASE Len(buffer) + 1 >= HeaderLen
      <4>1. Len(buffer) + 1 = HeaderLen
        BY <3>4, <2>0, <1>a, <1>s
      <4>2. state' = "PAYLOAD" /\ ~(Len(buffer) + 1 < HeaderLen)
        BY <3>1, <2>0, <4>1, <1>s
      <4> QED
        BY <2>0, <3>1, <3>2, <4>1, <4>2, <1>a, <1>s DEF ParserType, ParserInv, States
    <3> QED
      BY <3>3, <3>4, <1>a, <1>s
  <2>2. CASE b # Header[Len(buffer) + 1] /\ b = Header[1]
    <3>1. buffer' = <<b>> /\ matched' = 1 /\ UNCHANGED state
      BY <1>2, <2>2 DEF PushHeader
    <3>2. buffer' \in Seq(Byte) /\ Len(buffer') = 1 /\ Begins(buffer', 1, Header)
      BY <3>1, <2>2, OneByte
    <3> QED
      BY <2>0, <3>1, <3>2, <1>s DEF ParserType, ParserInv, States
  <2>3. CASE b # Header[Len(buffer) + 1] /\ b # Header[1]
    <3>1. state' = "WAITING" /\ buffer' = <<>> /\ matched' = 0
      BY <1>2, <2>3 DEF PushHeader
    <3> QED
      BY <2>0, <3>1, <1>e, <1>s DEF ParserType, ParserInv, States
  <2> QED
    BY <2>1, <2>2, <2>3
<1>3. CASE PushPayload(b)
  <2>0. /\ state = "PAYLOAD" /\ HeaderLen <= Len(buffer) /\ Len(buffer) < EnvSize
        /\ Begins(buffer, HeaderLen, Header) /\ buffer' = a /\ UNCHANGED <<matched, auto, vm>>
    BY <1>3 DEF PushPayload, ParserInv, a
  <2>1. Begins(a, HeaderLen, Header) /\ HeaderLen <= Len(a) /\ Len(a) <= EnvSize
    <3>1. \A i \in 1..HeaderLen : i \in 1..Len(buffer)
      BY <2>0, <1>a, <1>s
    <3> QED
      BY <3>1, <2>0, <1>a, <1>s DEF Begins
  <2>2. Validate(a)
    BY <2>1, <1>a, ValidateFacts
  <2>3. CASE Len(buffer) + 1 = EnvSize
    <3>1. envelope' = a /\ state' = "COMPLETE" /\ runs' \in {runs, runs + 1}
      BY <1>3, <2>2, <2>3 DEF PushPayload, a
    <3> QED
      BY <2>0, <2>1, <3>1, <1>a DEF ParserType, ParserInv, States
  <2>4. CASE Len(buffer) + 1 # EnvSize
    <3>1. UNCHANGED <<envelope, state, runs>>
      BY <1>3, <2>4 DEF PushPayload
    <3>2. Len(a) < EnvSize
      BY <2>4, <2>0, <1>a, <1>s
    <3> QED
      BY <2>0, <2>1, <3>1, <3>2, <1>a DEF ParserType, ParserInv, States
  <2> QED
    BY <2>3, <2>4
<1>4. CASE PushIgnored(b)
  BY <1>4 DEF PushIgnored, parser, ParserType, ParserInv, Begins
<1> QED
  BY <1>1, <1>2, <1>3, <1>4 DEF Push

\* A parser that is k bytes into a frame is k + 1 bytes into it after the next
\* byte of it; the last byte completes exactly that frame.
LEMMA PushAligned ==
  ASSUME ParserType, ParserInv, NEW f \in Frames, NEW k \in 0..(EnvSize - 1), Aligned(f, k),
         Push(f[k + 1])
  PROVE  /\ k + 1 < EnvSize => Aligned(f, k + 1)'
         /\ k + 1 = EnvSize => state' = "COMPLETE" /\ envelope' = f
         /\ state # "COMPLETE" /\ (k + 1 < EnvSize => state' # "COMPLETE")
<1> DEFINE b == f[k + 1]
           a == Append(buffer, b)
<1>s. HeaderLen \in Nat /\ HeaderLen > 1 /\ EnvSize \in Nat /\ EnvSize > HeaderLen
  BY Sizes
<1>b. b \in Byte /\ k \in Nat /\ Len(f) = EnvSize /\ f \in Seq(Byte) /\ Begins(f, HeaderLen, Header)
  <2>1. k + 1 \in 1..EnvSize
    BY <1>s
  <2> QED
    BY <2>1, <1>s, FrameFacts
<1>1. CASE k = 0
  <2>1. state = "WAITING" /\ b = Header[1]
    BY <1>1, <1>b, <1>s DEF Aligned, Begins
  <2>2. PushWaiting(b)
    BY <2>1 DEF Push, PushWaiting, PushHeader, PushPayload, PushIgnored
  <2>3. state' = "HEADER" /\ buffer' = <<b>>
    BY <2>1, <2>2 DEF PushWaiting
  <2>4. Len(<<b>>) = 1 /\ Begins(<<b>>, 1, f)
    <3>1. \A i \in 1..1 : i = 1
      OBVIOUS
    <3> QED
      BY <3>1, <1>1 DEF Begins
  <2>5. Aligned(f, 1)'
    BY <2>3, <2>4, <1>s DEF Aligned
  <2> QED
    BY <1>1, <2>1, <2>3, <2>5, <1>s
<1>2. CASE 0 < k
  <2>1. /\ Len(buffer) = k /\ Begins(buffer, k, f) /\ buffer \in Seq(Byte)
        /\ state = IF k < HeaderLen THEN "HEADER" ELSE "PAYLOAD"
    BY <1>2 DEF Aligned, ParserType
  <2>2. a \in Seq(Byte) /\ Len(a) = k + 1 /\ Begins(a, k + 1, f)
    BY <2>1, <1>b, AppendFacts, BeginsMore
  <2>3. CASE k < HeaderLen
    <3>1. state = "HEADER" /\ matched = k
      BY <2>1, <2>3 DEF ParserInv
    <3>2. PushHeader(b)
      BY <3>1 DEF Push, PushWaiting, PushHeader, PushPayload, PushIgnored
    <3>3. b = Header[Len(buffer) + 1]
      <4>1. k + 1 \in 1..HeaderLen
        BY <2>3, <1>b, <1>s
      <4> QED
        BY <4>1, <2>1, <1>b DEF Begins
    <3>4. /\ buffer' = a
          /\ state' = IF k + 1 < HeaderLen THEN "HEADER"
                      ELSE IF k + 1 = HeaderLen THEN "PAYLOAD" ELSE "INVALID"
      BY <3>1, <3>2, <3>3, <2>1 DEF PushHeader
    <3>5. state' = IF k + 1 < HeaderLen THEN "HEADER" ELSE "PAYLOAD"
      BY <3>4, <2>3, <1>b, <1>s
    <3>6. Aligned(f, k + 1)' /\ k + 1 < EnvSize
      BY <3>4, <3>5, <2>2, <2>3, <1>b, <1>s DEF Aligned
    <3> QED
      BY <3>1, <3>5, <3>6, <1>b, <1>s
  <2>4. CASE ~(k < HeaderLen)
    <3>1. state = "PAYLOAD"
      BY <2>1, <2>4
    <3>2. PushPayload(b)
      BY <3>1 DEF Push, PushWaiting, PushHeader, PushPayload, PushIgnored
    <3>3. CASE k + 1 = EnvSize
      <4>1. Begins(a, HeaderLen, Header) /\ HeaderLen <= Len(a)
        <5>1. \A i \in 1..HeaderLen : i \in 1..(k + 1)
          BY <2>4, <1>b, <1>s
        <5> QED
          BY <5>1, <2>2, <2>4, <1>b, <1>s DEF Begins
      <4>2. Validate(a)
        BY <4>1, <2>2, ValidateFacts
      <4>3. envelope' = a /\ state' = "COMPLETE"
        BY <3>2, <3>3, <4>2, <2>1 DEF PushPayload
      <4>4. a = f
        <5>1. Len(a) = Len(f) /\ \A i \in 1..Len(a) : a[i] = f[i]
          BY <2>2, <3>3, <1>b DEF Begins
        <5> HIDE DEF a
        <5> QED
          BY <5>1, <2>2, <1>b, SeqEqual
      <4> QED
        BY <4>3, <4>4, <3>1, <3>3, <1>s
    <3>4. CASE k + 1 # EnvSize
      <4>1. buffer' = a /\ state' = "PAYLOAD"
        BY <3>1, <3>2, <3>4, <2>1 DEF PushPayload
      <4>2. Aligned(f, k + 1)'
        BY <4>1, <2>2, <2>4, <1>b, <1>s DEF Aligned
      <4> QED
        BY <3>1, <3>4, <4>1, <4>2
    <3> QED
      BY <3>3, <3>4
  <2> QED
    BY <2>3, <2>4
<1> QED
  BY <1>1, <1>2, <1>b

-----------------------------------------------------------------------------
(* The serial line. *)

Pieces == Frames \cup {<<b>> : b \in Noise}

\* What is on the line is never empty.
LEMMA PieceFacts ==
  ASSUME NEW f \in Pieces
  PROVE  /\ f \in Seq(Byte) /\ 0 < Len(f) /\ Len(f) \in Nat /\ Len(f) <= EnvSize
         /\ f \in Frames \/ \E b \in Noise : f = <<b>>
<1>1. CASE f \in Frames
  BY <1>1, FrameFacts, Sizes
<1>2. CASE f \notin Frames
  <2>1. PICK b \in Noise : f = <<b>>
    BY <1>2 DEF Pieces
  <2>0. b \in Byte /\ Len(<<b>>) = 1
    BY NoiseFacts
  <2>2. b \in Byte /\ Len(<<b>>) = 1 /\ <<b>> \in Seq(Byte)
    BY <2>0
  <2> QED
    BY <2>1, <2>2, Sizes
<1> QED
  BY <1>1, <1>2

LEMMA HeadFacts ==
  ASSUME TypeOK, LineInv, line # <<>>
  PROVE  /\ Head(line) \in Pieces /\ Tail(line) \in Seq(Pieces)
         /\ off \in Nat /\ off + 1 \in 1..Len(Head(line))
         /\ Head(line)[off + 1] \in Byte
<1>1. line \in Seq(Pieces) /\ off \in Nat /\ off < Len(Head(line))
  BY DEF TypeOK, LineInv, Pieces
<1>2. Head(line) \in Pieces /\ Tail(line) \in Seq(Pieces)
  BY <1>1
<1>3. Head(line) \in Seq(Byte) /\ Len(Head(line)) \in Nat
  BY <1>2, PieceFacts
<1>4. off + 1 \in 1..Len(Head(line))
  BY <1>1, <1>3
<1> QED
  BY <1>1, <1>2, <1>3, <1>4

\* The line goes on to a byte that is there, or is empty.
LEMMA AdvanceFacts ==
  ASSUME TypeOK, LineInv, line # <<>>, NEW ok \in BOOLEAN, Advance(ok)
  PROVE  /\ line' \in Seq(Pieces) /\ off' \in Nat /\ intact' \in BOOLEAN /\ fed' \in Seq(Frames)
         /\ line' = <<>> => off' = 0
         /\ line' # <<>> => off' < Len(Head(line'))
<1>1. /\ Head(line) \in Pieces /\ Tail(line) \in Seq(Pieces) /\ off \in Nat
      /\ line \in Seq(Pieces) /\ fed \in Seq(Frames)
  BY HeadFacts DEF TypeOK, Pieces
<1>2. CASE off + 1 < Len(Head(line))
  BY <1>1, <1>2 DEF Advance
<1>3. CASE ~(off + 1 < Len(Head(line)))
  <2>1. /\ off' = 0 /\ intact' = TRUE /\ line' = Tail(line)
        /\ fed' = IF ok /\ Head(line) \in Frames THEN Append(fed, Head(line)) ELSE fed
    BY <1>3 DEF Advance
  <2>2. fed' \in Seq(Frames)
    BY <1>1, <2>1
  <2>3. line' # <<>> => Head(line') \in Pieces
    BY <1>1, <2>1
  <2>4. line' # <<>> => 0 < Len(Head(line'))
    BY <2>3, PieceFacts
  <2> QED
    BY <1>1, <2>1, <2>2, <2>4
<1> QED
  BY <1>2, <1>3

-----------------------------------------------------------------------------
(* The events of the host. *)

Envs == [i \in DOMAIN popped |-> popped[i].env]

LEMMA EnvsType ==
  ASSUME NEW p \in Seq(Event)
  PROVE  /\ [i \in DOMAIN p |-> p[i].env] \in Seq(Seq(Byte))
         /\ Len([i \in DOMAIN p |-> p[i].env]) = Len(p)
<1>1. /\ DOMAIN p = 1..Len(p) /\ Len(p) \in Nat
      /\ \A i \in 1..Len(p) : p[i].env \in Seq(Byte)
  <2>1. /\ DOMAIN p = 1..Len(p) /\ Len(p) \in Nat
        /\ \A i \in 1..Len(p) : p[i] \in Event
    OBVIOUS
  <2>2. \A v \in Event : v.env \in Seq(Byte)
    BY DEF Event
  <2> QED
    BY <2>1, <2>2
<1>2. [i \in DOMAIN p |-> p[i].env] = [i \in 1..Len(p) |-> p[i].env]
  BY <1>1
<1> QED
  BY <1>1, <1>2

\* The events popped before, and the one that is waiting, if any.
LEMMA Joined ==
  ASSUME NEW e \in Seq(Seq(Byte)), NEW x
  PROVE  e \o <<>> = e /\ (x \in Seq(Byte) => e \o <<x>> = Append(e, x))
  BY ConcatEmptySeq, AppendIsConcat

LEMMA EnvelopesNow ==
  ASSUME TypeOK
  PROVE  /\ state # "COMPLETE" => Envelopes = Envs
         /\ state = "COMPLETE" => Envelopes = Append(Envs, envelope)
<1>1. Envs \in Seq(Seq(Byte)) /\ envelope \in Seq(Byte)
  BY EnvsType DEF TypeOK, Envs
<1>2. Envelopes = Envs \o (IF state = "COMPLETE" THEN <<envelope>> ELSE <<>>)
  BY DEF Envelopes, Envs
<1> QED
  BY <1>1, <1>2, Joined

\* The same of the state after a step.
LEMMA EnvelopesAfter ==
  ASSUME TypeOK'
  PROVE  /\ state' # "COMPLETE" => Envelopes' = Envs'
         /\ state' = "COMPLETE" => Envelopes' = Append(Envs', envelope')
<1>1. Envs' \in Seq(Seq(Byte)) /\ envelope' \in Seq(Byte)
  BY EnvsType DEF TypeOK, Envs
<1>2. Envelopes' = Envs' \o (IF state' = "COMPLETE" THEN <<envelope'>> ELSE <<>>)
  BY DEF Envelopes, Envs
<1> QED
  BY <1>1, <1>2, Joined

-----------------------------------------------------------------------------
(* The invariant holds at first, and every step keeps it. *)

\* The rest of TypeOK.
HostType ==
  /\ line \in Seq(Pieces) /\ off \in Nat
  /\ inj \in Frames \cup {<<>>} /\ injOff \in Nat
  /\ popped \in Seq(Event) /\ fed \in Seq(Frames)
  /\ disturbed \in BOOLEAN /\ intact \in BOOLEAN /\ whole \in 0..2

LEMMA TypeParts ==
  /\ TypeOK <=> ParserType /\ HostType
  /\ TypeOK' <=> ParserType' /\ HostType'
  BY DEF TypeOK, ParserType, HostType, States, Pieces

LEMMA InvInit == Init => Inv
<1> SUFFICES ASSUME Init PROVE Inv
  OBVIOUS
<1>0. <<>> \in Seq(Byte) /\ <<>> \in Seq(Pieces) /\ <<>> \in Seq(Event) /\ <<>> \in Seq(Frames)
      /\ Len(<<>>) = 0
  OBVIOUS
<1>1. ParserType
  BY <1>0, Sizes DEF Init, ParserType, States
<1>2. HostType
  <2>1. line = <<>> /\ off = 0 /\ inj = <<>> /\ injOff = 0 /\ popped = <<>> /\ fed = <<>>
        /\ disturbed = FALSE /\ intact = TRUE /\ whole = 0
    BY DEF Init
  <2>2. whole \in 0..2 /\ off \in Nat /\ injOff \in Nat
    BY <2>1
  <2>3. line \in Seq(Pieces) /\ popped \in Seq(Event) /\ fed \in Seq(Frames)
    BY <2>1, <1>0
  <2>4. disturbed \in BOOLEAN /\ intact \in BOOLEAN /\ inj \in Frames \cup {<<>>}
    BY <2>1
  <2> QED
    BY <2>2, <2>3, <2>4 DEF HostType
<1>3. TypeOK
  BY <1>1, <1>2, TypeParts
<1>4. ParserInv /\ LineInv
  BY DEF Init, ParserInv, LineInv
<1>5. OrderInv
  <2>1. Envelopes = Envs
    BY <1>3, EnvelopesNow DEF Init
  <2>2. Envs = <<>>
    <3>1. Envs \in Seq(Seq(Byte)) /\ Len(Envs) = Len(popped) /\ popped = <<>>
      BY <1>0, EnvsType DEF Init, Envs
    <3> QED
      BY <3>1, EmptySeq
  <2> QED
    BY <2>1, <2>2 DEF Init, OrderInv, Synced
<1> QED
  BY <1>3, <1>4, <1>5 DEF Inv

\* A state of the parser that stays, and events that stay.
LEMMA SameEnvelopes ==
  ASSUME UNCHANGED <<state, envelope, popped>>
  PROVE  Envelopes' = Envelopes
  BY DEF Envelopes

LEMMA SameAligned ==
  ASSUME NEW f, NEW k, UNCHANGED <<state, buffer>>
  PROVE  Aligned(f, k) => Aligned(f, k)'
  BY DEF Aligned, Begins

-----------------------------------------------------------------------------
(* Steps of a parser that is where the line is: it stays there, and the     *)
(* host gets a frame when the last byte of it is pushed, and at no other    *)
(* time.                                                                    *)

HandsOut ==
  \/ UNCHANGED fed /\ Envelopes' = Envelopes
  \/ \E f \in Frames : fed' = Append(fed, f) /\ Envelopes' = Append(Envelopes, f)

\* A frame on the line behind the one that is being read changes nothing.
LEMMA SendSynced ==
  ASSUME TypeOK, LineInv, Synced, Send
  PROVE  Synced' /\ HandsOut
<1>1. HostType
  BY TypeParts
<1>2. PICK f \in Pieces : line' = Append(line, f)
  BY DEF Send, Pieces
<1>3. UNCHANGED <<state, buffer, envelope, off, inj, injOff, popped, fed, intact>>
  BY DEF Send, parser
<1>4. line # <<>> => Head(line') = Head(line)
  <2>1. line \in Seq(Pieces)
    BY <1>1 DEF HostType
  <2> QED
    BY <2>1, <1>2
<1>5. off > 0 => line # <<>>
  BY <1>1 DEF LineInv, HostType
<1> QED
  BY <1>3, <1>4, <1>5, SameEnvelopes, SameAligned DEF Synced, HandsOut

\* A byte from the line: inside a frame the parser stays aligned with it, its
\* last byte completes it, and noise between frames is passed over.
LEMMA PushSerialSynced ==
  ASSUME TypeOK, ParserInv, LineInv, Synced, PushSerial, TypeOK'
  PROVE  Synced' /\ HandsOut
<1>1. ParserType /\ HostType
  BY TypeParts
<1>2. /\ line # <<>> /\ inj = <<>> /\ state # "COMPLETE"
      /\ Push(Head(line)[off + 1]) /\ Advance(intact)
      /\ UNCHANGED <<inj, injOff, popped, disturbed>>
  BY DEF PushSerial
<1>f. PICK f \in Pieces : f = Head(line)
  BY <1>2, HeadFacts
<1>k. PICK k \in Nat : k = off
  BY <1>2, HeadFacts
<1>3. k + 1 \in 1..Len(f) /\ f[k + 1] \in Byte /\ Push(f[k + 1])
  BY <1>2, <1>f, <1>k, HeadFacts
<1>4. /\ intact = TRUE
      /\ k = 0 => state = "WAITING"
      /\ k > 0 => Aligned(f, k)
  BY <1>1, <1>2, <1>f, <1>k DEF Synced, HostType
<1>5. Aligned(f, k)
  BY <1>4 DEF Aligned
<1>6. Envs' = Envelopes
  BY <1>2, EnvelopesNow DEF Envs
<1>7. CASE f \in Frames
  <2>1. Len(f) = EnvSize /\ EnvSize \in Nat
    BY <1>7, FrameFacts, Sizes
  <2>2. k \in 0..(EnvSize - 1)
    BY <2>1, <1>3
  <2>3. /\ k + 1 < EnvSize => Aligned(f, k + 1)'
        /\ k + 1 = EnvSize => state' = "COMPLETE" /\ envelope' = f
        /\ k + 1 < EnvSize => state' # "COMPLETE"
    BY <2>2, <1>1, <1>3, <1>5, <1>7, PushAligned
  <2>4. CASE k + 1 < EnvSize
    <3>1. off' = k + 1 /\ intact' = TRUE /\ line' = line /\ fed' = fed
      BY <2>4, <2>1, <1>2, <1>4, <1>f, <1>k DEF Advance
    <3>2. Envelopes' = Envelopes
      BY <2>3, <2>4, <1>6, EnvelopesAfter
    <3>3. Aligned(Head(line), off)'
      <4>1. Head(line)' = f /\ off' = k + 1
        BY <3>1, <1>f
      <4> QED
        BY <4>1, <2>3, <2>4 DEF Aligned, Begins
    <3>4. off' # 0 /\ inj' = <<>>
      BY <3>1, <1>2
    <3> QED
      BY <3>1, <3>2, <3>3, <3>4 DEF Synced, HandsOut
  <2>5. CASE k + 1 = EnvSize
    <3>1. off' = 0 /\ intact' = TRUE /\ fed' = Append(fed, f)
      <4>1. ~(off + 1 < Len(Head(line)))
        BY <2>5, <2>1, <1>f, <1>k
      <4> QED
        BY <4>1, <1>2, <1>4, <1>7, <1>f DEF Advance
    <3>2. Envelopes' = Append(Envelopes, f)
      BY <2>3, <2>5, <1>6, EnvelopesAfter
    <3> QED
      BY <3>1, <3>2, <2>3, <2>5, <1>2, <1>7 DEF Synced, HandsOut
  <2> QED
    BY <2>1, <2>2, <2>4, <2>5
<1>8. CASE f \notin Frames
  <2>1. PICK b \in Noise : f = <<b>>
    BY <1>8, PieceFacts
  <2>2. Len(<<b>>) = 1 /\ <<b>>[1] = b /\ b # Header[1]
    BY NoiseFacts
  <2>3. Len(f) = 1 /\ f[1] = b
    BY <2>1, <2>2
  <2>4. k = 0
    BY <2>3, <1>3
  <2>5. state = "WAITING" /\ Push(b)
    BY <2>3, <2>4, <1>3, <1>4
  <2>6. state' = "WAITING"
    BY <2>2, <2>5 DEF Push, PushWaiting, PushHeader, PushPayload, PushIgnored
  <2>7. off' = 0 /\ intact' = TRUE /\ fed' = fed
    <3>0. ~(k + 1 < Len(f))
      BY <2>3, <2>4
    <3>1. ~(off + 1 < Len(Head(line)))
      BY <3>0, <1>f, <1>k
    <3> QED
      BY <3>1, <1>2, <1>8, <1>f DEF Advance
  <2>8. Envelopes' = Envelopes
    BY <2>6, <1>6, EnvelopesAfter
  <2> QED
    BY <2>6, <2>7, <2>8, <1>2 DEF Synced, HandsOut
<1> QED
  BY <1>7, <1>8

\* An injection that begins between two frames.
LEMMA InjectSynced ==
  ASSUME Synced, Inject, off = 0, state = "WAITING"
  PROVE  Synced' /\ HandsOut
<1>1. /\ inj = <<>> /\ inj' \in Frames /\ injOff' = 0
      /\ UNCHANGED <<state, buffer, envelope, line, off, popped, fed>>
  BY DEF Inject, parser
<1>2. UNCHANGED intact
  BY DEF Inject
<1>3. Envelopes' = Envelopes
  BY <1>1, SameEnvelopes
<1>4. Aligned(inj, injOff)'
  BY <1>1 DEF Aligned
<1>5. inj' # <<>>
  BY <1>1, FrameFacts
<1> QED
  BY <1>1, <1>2, <1>3, <1>4, <1>5 DEF Synced, HandsOut

\* A byte of the injected frame: the parser stays aligned with it as with one
\* from the line.
LEMMA PushInjectedSynced ==
  ASSUME TypeOK, ParserInv, LineInv, Synced, PushInjected, TypeOK'
  PROVE  Synced' /\ HandsOut
<1>1. ParserType /\ HostType
  BY TypeParts
<1>2. /\ inj # <<>> /\ Push(inj[injOff + 1])
      /\ UNCHANGED <<line, off, popped, intact>>
  BY DEF PushInjected
<1>f. PICK f \in Frames : f = inj
  BY <1>1, <1>2 DEF HostType
<1>k. PICK k \in Nat : k = injOff
  BY <1>1 DEF HostType
<1>l. Len(f) = EnvSize /\ EnvSize \in Nat /\ f # <<>>
  BY FrameFacts, Sizes
<1>3. k \in 0..(EnvSize - 1) /\ Push(f[k + 1])
  <2>1. k < EnvSize
    BY <1>2, <1>f, <1>k, <1>l DEF LineInv
  <2> QED
    BY <2>1, <1>2, <1>f, <1>k, <1>l
<1>4. intact /\ off = 0 /\ Aligned(f, k)
  BY <1>2, <1>f, <1>k DEF Synced
<1>5. /\ k + 1 < EnvSize => Aligned(f, k + 1)'
      /\ k + 1 = EnvSize => state' = "COMPLETE" /\ envelope' = f
      /\ state # "COMPLETE" /\ (k + 1 < EnvSize => state' # "COMPLETE")
  BY <1>1, <1>3, <1>4, PushAligned
<1>6. Envs' = Envelopes
  BY <1>2, <1>5, EnvelopesNow DEF Envs
<1>7. CASE k + 1 < EnvSize
  <2>1. injOff' = k + 1 /\ inj' = f /\ fed' = fed
    BY <1>7, <1>l, <1>f, <1>k DEF PushInjected
  <2>2. Aligned(inj, injOff)'
    BY <2>1, <1>5, <1>7 DEF Aligned, Begins
  <2>3. Envelopes' = Envelopes
    BY <1>5, <1>6, <1>7, EnvelopesAfter
  <2> QED
    BY <2>1, <2>2, <2>3, <1>2, <1>4, <1>l DEF Synced, HandsOut
<1>8. CASE ~(k + 1 < EnvSize)
  <2>0. k + 1 = EnvSize
    BY <1>8, <1>3, <1>l
  <2>1. injOff' = 0 /\ inj' = <<>> /\ fed' = Append(fed, f)
    BY <1>8, <1>l, <1>f, <1>k DEF PushInjected
  <2>2. Envelopes' = Append(Envelopes, f)
    BY <2>0, <1>5, <1>6, EnvelopesAfter
  <2> QED
    BY <2>0, <2>1, <2>2, <1>2, <1>4, <1>5 DEF Synced, HandsOut
<1> QED
  BY <1>7, <1>8

LEMMA ExecuteSynced ==
  ASSUME Synced, Execute
  PROVE  Synced' /\ HandsOut
<1>1. UNCHANGED <<state, buffer, envelope, line, off, inj, injOff, popped, fed, intact>>
  BY DEF Execute
<1> QED
  BY <1>1, SameEnvelopes DEF Synced, HandsOut, Aligned, Begins

\* The envelope becomes an event; the host has it either way.
LEMMA PopEnvelopes ==
  ASSUME TypeOK, Pop, TypeOK'
  PROVE  Envelopes' = Envelopes
<1>1. ParserType /\ HostType
  BY TypeParts
<1>2. /\ state = "COMPLETE" /\ state' = "WAITING"
      /\ popped' = Append(popped, [env |-> envelope, runs |-> runs])
  BY DEF Pop
<1>4. [env |-> envelope, runs |-> runs] \in Event /\ popped \in Seq(Event)
  BY <1>1 DEF Event, ParserType, HostType
<1>7. Envs' = Append(Envs, envelope)
  <2>1. PICK p \in Seq(Event) : p = popped
    BY <1>4
  <2>2. PICK v \in Event : v = [env |-> envelope, runs |-> runs]
    BY <1>4
  <2>3. /\ Append(p, v) \in Seq(Event) /\ Len(Append(p, v)) = Len(p) + 1 /\ Len(p) \in Nat
        /\ DOMAIN Append(p, v) = 1..(Len(p) + 1) /\ DOMAIN p = 1..Len(p)
        /\ \A i \in 1..Len(p) : Append(p, v)[i] = p[i]
        /\ Append(p, v)[Len(p) + 1] = v
    OBVIOUS
  <2> DEFINE e == [i \in DOMAIN p |-> p[i].env]
             g == [i \in DOMAIN Append(p, v) |-> Append(p, v)[i].env]
  <2>4. /\ e \in Seq(Seq(Byte)) /\ Len(e) = Len(p)
        /\ g \in Seq(Seq(Byte)) /\ Len(g) = Len(p) + 1
    BY <2>3, EnvsType
  <2>5. /\ \A i \in 1..Len(p) : g[i] = e[i]
        /\ g[Len(p) + 1] = v.env
    BY <2>3
  <2>6. Envs = e /\ Envs' = g /\ v.env = envelope
    BY <2>1, <2>2, <1>2 DEF Envs
  <2> HIDE DEF e, g
  <2>7. PICK x \in Seq(Byte) : x = v.env
    BY DEF Event
  <2>8. /\ Append(e, x) \in Seq(Seq(Byte)) /\ Len(Append(e, x)) = Len(e) + 1
        /\ \A i \in 1..Len(e) : Append(e, x)[i] = e[i]
        /\ Append(e, x)[Len(e) + 1] = x
    BY <2>4
  <2>9. Len(g) = Len(Append(e, x)) /\ \A i \in 1..Len(g) : g[i] = Append(e, x)[i]
    <3>1. \A i \in 1..Len(g) : i \in 1..Len(p) \/ i = Len(p) + 1
      BY <2>4, <2>3
    <3> QED
      BY <3>1, <2>4, <2>5, <2>7, <2>8
  <2>10. g = Append(e, x)
    BY <2>4, <2>8, <2>9, SeqEqual
  <2> QED
    BY <2>6, <2>7, <2>10
<1> QED
  BY <1>2, <1>7, EnvelopesNow, EnvelopesAfter

LEMMA PopSynced ==
  ASSUME TypeOK, Synced, Pop, TypeOK'
  PROVE  Synced' /\ HandsOut
<1>1. /\ inj = <<>> /\ state = "COMPLETE" /\ state' = "WAITING"
      /\ UNCHANGED <<line, off, inj, injOff, fed, intact>>
  BY DEF Pop
<1>2. off = 0
  BY <1>1 DEF Synced, Aligned, TypeOK
<1> QED
  BY <1>1, <1>2, PopEnvelopes DEF Synced, HandsOut

\* Whatever keeps the parser where the line is keeps the order.
LEMMA OrderKept ==
  ASSUME OrderInv, ~disturbed => Synced' /\ HandsOut, disturbed' = disturbed
  PROVE  OrderInv'
  BY DEF OrderInv, HandsOut

-----------------------------------------------------------------------------
(* The steps, whatever has been disturbed. *)

LEMMA SendStep == Inv /\ Send => Inv'
<1> SUFFICES ASSUME Inv, Send PROVE Inv'
  OBVIOUS
<1>1. /\ ParserType /\ HostType /\ ParserInv /\ LineInv /\ OrderInv
  BY TypeParts DEF Inv
<1>2. PICK f \in Pieces : line' = Append(line, f)
  BY DEF Send, Pieces
<1>3. UNCHANGED <<state, buffer, matched, envelope, auto, vm, runs, off, inj, injOff, popped,
                  fed, disturbed, intact, whole>>
  BY DEF Send, parser
<1>4. /\ line' \in Seq(Pieces) /\ line' # <<>>
      /\ line # <<>> => Head(line') = Head(line)
      /\ line = <<>> => Head(line') = f
  <2>1. line \in Seq(Pieces)
    BY <1>1 DEF HostType
  <2> QED
    BY <2>1, <1>2
<1>5. ParserType' /\ ParserInv'
  BY <1>1, <1>3 DEF ParserType, ParserInv, Begins
<1>6. HostType'
  BY <1>1, <1>3, <1>4 DEF HostType
<1>7. LineInv'
  <2>1. line = <<>> => off' < Len(Head(line'))
    BY <1>1, <1>3, <1>4, PieceFacts DEF LineInv
  <2> QED
    BY <2>1, <1>1, <1>3, <1>4 DEF LineInv
<1>8. OrderInv'
  BY <1>1, <1>3, SendSynced, OrderKept, TypeParts DEF OrderInv
<1> QED
  BY <1>5, <1>6, <1>7, <1>8, TypeParts DEF Inv

LEMMA PushSerialStep == ASSUME Inv, PushSerial PROVE Inv'
<1>1. /\ TypeOK /\ ParserType /\ HostType /\ ParserInv /\ LineInv /\ OrderInv
  BY TypeParts DEF Inv
<1>2. /\ line # <<>> /\ inj = <<>> /\ state # "COMPLETE"
      /\ Push(Head(line)[off + 1]) /\ Advance(intact)
      /\ UNCHANGED <<inj, injOff, popped, disturbed>>
  BY DEF PushSerial
<1>f. PICK f \in Pieces : f = Head(line)
  BY <1>1, <1>2, HeadFacts
<1>k. PICK k \in Nat : k = off
  BY <1>1, <1>2, HeadFacts
<1>3. k + 1 \in 1..Len(f) /\ f[k + 1] \in Byte /\ Push(f[k + 1])
  BY <1>1, <1>2, <1>f, <1>k, HeadFacts
<1>4. ParserType' /\ ParserInv'
  BY <1>1, <1>3, PushKeeps
<1>5. /\ line' \in Seq(Pieces) /\ off' \in Nat /\ intact' \in BOOLEAN /\ fed' \in Seq(Frames)
      /\ line' = <<>> => off' = 0
      /\ line' # <<>> => off' < Len(Head(line'))
  <2>1. intact \in BOOLEAN
    BY <1>1 DEF HostType
  <2> QED
    BY <2>1, <1>1, <1>2, AdvanceFacts
<1>6. HostType'
  <2>1. whole' \in 0..2
    <3>1. whole \in 0..2
      BY <1>1 DEF HostType
    <3>2. whole' \in {whole, 0} \/ (whole' = whole + 1 /\ whole < 2)
      BY DEF PushSerial
    <3> QED
      BY <3>1, <3>2
  <2> QED
    BY <2>1, <1>1, <1>2, <1>5 DEF HostType
<1>7. TypeOK' /\ LineInv'
  <2>1. TypeOK'
    BY <1>4, <1>6, TypeParts
  <2>2. LineInv'
    BY <1>2, <1>5 DEF LineInv
  <2> QED
    BY <2>1, <2>2
<1>8. OrderInv'
  BY <1>1, <1>2, <1>7, PushSerialSynced, OrderKept DEF OrderInv
<1> QED
  BY <1>4, <1>7, <1>8 DEF Inv

\* A lost byte is a disturbance: nothing is claimed of the order any more.
LEMMA LoseByteStep == ASSUME Inv, LoseByte PROVE Inv'
<1>1. /\ TypeOK /\ ParserType /\ HostType /\ ParserInv /\ LineInv
  BY TypeParts DEF Inv
<1>2. /\ line # <<>> /\ Advance(FALSE) /\ disturbed' = TRUE /\ whole' = 0
      /\ UNCHANGED <<state, buffer, matched, envelope, auto, vm, runs, inj, injOff, popped>>
  BY DEF LoseByte, parser
<1>3. /\ line' \in Seq(Pieces) /\ off' \in Nat /\ intact' \in BOOLEAN /\ fed' \in Seq(Frames)
      /\ line' = <<>> => off' = 0
      /\ line' # <<>> => off' < Len(Head(line'))
  BY <1>1, <1>2, AdvanceFacts
<1>4. ParserType' /\ ParserInv'
  BY <1>1, <1>2 DEF ParserType, ParserInv, Begins
<1>5. HostType'
  <2>1. whole' \in 0..2
    BY <1>2
  <2> QED
    BY <2>1, <1>1, <1>2, <1>3 DEF HostType
<1>6. LineInv'
  BY <1>1, <1>2, <1>3 DEF LineInv
<1>7. OrderInv'
  BY <1>2 DEF OrderInv
<1> QED
  BY <1>4, <1>5, <1>6, <1>7, TypeParts DEF Inv

\* An injection begins between two frames, or is a disturbance.
LEMMA InjectStep == ASSUME Inv, Inject PROVE Inv'
<1>1. /\ ParserType /\ HostType /\ ParserInv /\ LineInv /\ OrderInv
  BY TypeParts DEF Inv
<1>2. /\ inj = <<>> /\ inj' \in Frames /\ injOff' = 0
      /\ UNCHANGED <<state, buffer, matched, envelope, auto, vm, runs, line, off, popped, fed>>
  BY DEF Inject, parser
<1>3. ParserType' /\ ParserInv'
  BY <1>1, <1>2 DEF ParserType, ParserInv, Begins
<1>4. HostType'
  <2>0. \/ disturbed' = TRUE /\ whole' = 0 /\ intact' = (intact /\ off = 0)
        \/ UNCHANGED <<disturbed, whole, intact>>
    BY DEF Inject
  <2>a. whole \in 0..2 /\ disturbed \in BOOLEAN
    BY <1>1 DEF HostType
  <2>b. whole' = 0 \/ whole' = whole
    BY <2>0
  <2>c. disturbed' = TRUE \/ disturbed' = disturbed
    BY <2>0
  <2>d. whole' \in 0..2
    BY <2>a, <2>b
  <2>1. whole' \in 0..2 /\ disturbed' \in BOOLEAN
    BY <2>a, <2>c, <2>d
  <2>3. intact' \in BOOLEAN
    <3>1. intact \in BOOLEAN /\ (intact /\ off = 0) \in BOOLEAN
      BY <1>1 DEF HostType
    <3> QED
      BY <2>0, <3>1
  <2>2. injOff' \in Nat
    BY <1>2
  <2> QED
    BY <2>1, <2>2, <2>3, <1>1, <1>2 DEF HostType
<1>5. LineInv'
  <2>1. injOff' < Len(inj')
    BY <1>2, FrameFacts, Sizes
  <2> QED
    BY <2>1, <1>1, <1>2 DEF LineInv
<1>6. OrderInv'
  <2> SUFFICES ASSUME ~disturbed' PROVE OrderInv'
    BY DEF OrderInv
  <2>1. off = 0 /\ state = "WAITING" /\ disturbed' = disturbed
    BY <1>1 DEF Inject, HostType
  <2> QED
    BY <2>1, <1>1, InjectSynced, OrderKept DEF OrderInv
<1> QED
  BY <1>3, <1>4, <1>5, <1>6, TypeParts DEF Inv

LEMMA PushInjectedStep == ASSUME Inv, PushInjected PROVE Inv'
<1>1. /\ TypeOK /\ ParserType /\ HostType /\ ParserInv /\ LineInv /\ OrderInv
  BY TypeParts DEF Inv
<1>2. /\ inj # <<>> /\ Push(inj[injOff + 1])
      /\ UNCHANGED <<line, off, popped, disturbed, intact, whole>>
  BY DEF PushInjected
<1>f. PICK f \in Frames : f = inj
  BY <1>1, <1>2 DEF HostType
<1>k. PICK k \in Nat : k = injOff
  BY <1>1 DEF HostType
<1>l. Len(f) = EnvSize /\ EnvSize \in Nat /\ f # <<>>
  BY FrameFacts, Sizes
<1>3. k \in 0..(EnvSize - 1) /\ f[k + 1] \in Byte /\ Push(f[k + 1])
  <2>1. k < EnvSize
    BY <1>1, <1>2, <1>f, <1>k, <1>l DEF LineInv
  <2>2. k + 1 \in 1..EnvSize /\ k \in 0..(EnvSize - 1)
    BY <2>1, <1>l
  <2> QED
    BY <2>2, <1>2, <1>f, <1>k, FrameFacts
<1>4. ParserType' /\ ParserInv'
  BY <1>1, <1>3, PushKeeps
<1>5. HostType' /\ LineInv'
  <2>1. CASE k + 1 < EnvSize
    <3>1. injOff' = k + 1 /\ inj' = f /\ fed' = fed
      BY <2>1, <1>l, <1>f, <1>k DEF PushInjected
    <3>2. injOff' \in Nat /\ injOff' < Len(inj')
      BY <3>1, <2>1, <1>l
    <3> QED
      BY <3>1, <3>2, <1>1, <1>2 DEF HostType, LineInv
  <2>2. CASE ~(k + 1 < EnvSize)
    <3>1. injOff' = 0 /\ inj' = <<>> /\ fed' = Append(fed, f)
      BY <2>2, <1>l, <1>f, <1>k DEF PushInjected
    <3>2. injOff' \in Nat /\ fed' \in Seq(Frames)
      BY <3>1, <1>1 DEF HostType
    <3> QED
      BY <3>1, <3>2, <1>1, <1>2 DEF HostType, LineInv
  <2> QED
    BY <2>1, <2>2
<1>6. TypeOK'
  BY <1>4, <1>5, TypeParts
<1>7. OrderInv'
  BY <1>1, <1>2, <1>6, PushInjectedSynced, OrderKept DEF OrderInv
<1> QED
  BY <1>4, <1>5, <1>6, <1>7 DEF Inv

LEMMA ExecuteStep == ASSUME Inv, Execute PROVE Inv'
<1>1. /\ ParserType /\ HostType /\ ParserInv /\ LineInv /\ OrderInv
  BY TypeParts DEF Inv
<1>2. /\ runs' = runs + 1
      /\ UNCHANGED <<state, buffer, matched, envelope, auto, vm, line, off, inj, injOff,
                     popped, fed, disturbed, intact, whole>>
  BY DEF Execute
<1>3. ParserType' /\ ParserInv'
  BY <1>1, <1>2 DEF ParserType, ParserInv, Begins
<1>4. HostType' /\ LineInv'
  BY <1>1, <1>2 DEF HostType, LineInv
<1>5. OrderInv'
  BY <1>1, <1>2, ExecuteSynced, OrderKept DEF OrderInv
<1> QED
  BY <1>3, <1>4, <1>5, TypeParts DEF Inv

\* The envelope becomes an event, and the parser is as it was at first.
LEMMA PopStep == ASSUME Inv, Pop PROVE Inv'
<1>1. /\ TypeOK /\ ParserType /\ HostType /\ ParserInv /\ LineInv /\ OrderInv
  BY TypeParts DEF Inv
<1>2. /\ inj = <<>> /\ state = "COMPLETE"
      /\ popped' = Append(popped, [env |-> envelope, runs |-> runs])
      /\ state' = "WAITING" /\ buffer' = <<>> /\ matched' = 0
      /\ envelope' = <<>> /\ runs' = 0 /\ auto' = FALSE /\ vm' = FALSE
      /\ UNCHANGED <<line, off, inj, injOff, fed, disturbed, intact, whole>>
  BY DEF Pop
<1>3. ParserType' /\ ParserInv'
  <2>1. buffer' \in Seq(Byte) /\ Len(buffer') = 0 /\ envelope' \in Seq(Byte)
    BY <1>2
  <2>2. matched' \in 0..HeaderLen /\ runs' \in Nat /\ Len(buffer') <= EnvSize
    BY <2>1, <1>2, Sizes
  <2> QED
    BY <2>1, <2>2, <1>2 DEF ParserType, ParserInv, States
<1>4. [env |-> envelope, runs |-> runs] \in Event /\ popped \in Seq(Event)
  BY <1>1 DEF Event, ParserType, HostType
<1>5. HostType' /\ LineInv'
  BY <1>1, <1>2, <1>4 DEF HostType, LineInv
<1>6. TypeOK'
  BY <1>3, <1>5, TypeParts
<1>7. OrderInv'
  BY <1>1, <1>2, <1>6, PopSynced, OrderKept DEF OrderInv
<1> QED
  BY <1>3, <1>5, <1>6, <1>7 DEF Inv

LEMMA InvStep == Inv /\ [Next]_vars => Inv'
<1> SUFFICES ASSUME Inv, [Next]_vars PROVE Inv'
  OBVIOUS
<1>1. CASE UNCHANGED vars
  BY <1>1 DEF vars, parser, counters, Inv, TypeOK, ParserInv, LineInv, OrderInv, Synced,
              Envelopes, Aligned, Begins
<1> QED
  BY <1>1, SendStep, PushSerialStep, LoseByteStep, InjectStep, PushInjectedStep, ExecuteStep,
     PopStep DEF Next

-----------------------------------------------------------------------------
(* Why no preheader passes unnoticed: in WAITING and HEADER the buffer is   *)
(* all there is, at the end of the bytes pushed, of the beginning of one.   *)

\* s ends with the first j bytes of the preheader.
Ends(s, j) == j <= Len(s) /\ \A i \in 1..j : s[Len(s) - j + i] = Header[i]

FoundInv ==
  /\ recent \in Seq(Byte) /\ Len(recent) <= HeaderLen
  /\ state \in {"WAITING", "HEADER"} =>
       \A j \in 1..HeaderLen : Ends(recent, j) <=> j = Len(buffer)

\* With one more byte, s ends with one more byte of the preheader, or with the first.
LEMMA EndsMore ==
  ASSUME NEW s \in Seq(Byte), Len(s) <= HeaderLen, NEW b \in Byte
  PROVE  /\ LastBytes(Append(s, b)) \in Seq(Byte)
         /\ Len(LastBytes(Append(s, b))) <= HeaderLen
         /\ \A j \in 1..HeaderLen :
              Ends(LastBytes(Append(s, b)), j) <=> b = Header[j] /\ (j = 1 \/ Ends(s, j - 1))
<1> DEFINE a == Append(s, b)
           r == LastBytes(a)
<1>s. HeaderLen \in Nat /\ HeaderLen > 1
  BY Sizes
<1>1. /\ a \in Seq(Byte) /\ Len(a) = Len(s) + 1 /\ Len(s) \in Nat
      /\ \A i \in 1..Len(s) : a[i] = s[i]
      /\ a[Len(s) + 1] = b
  BY AppendFacts
<1> HIDE DEF a
<1>2. /\ r \in Seq(Byte) /\ Len(r) \in Nat /\ Len(r) <= HeaderLen
      /\ Len(r) = IF Len(s) < HeaderLen THEN Len(s) + 1 ELSE HeaderLen
      /\ \A x \in 1..Len(r) : r[x] = a[Len(a) - Len(r) + x]
  <2>1. CASE Len(s) < HeaderLen
    <3>1. r = a
      BY <2>1, <1>1, <1>s DEF LastBytes
    <3>2. \A x \in 1..Len(r) : Len(a) - Len(r) + x = x
      BY <3>1, <1>1
    <3> QED
      BY <3>1, <3>2, <2>1, <1>1, <1>s
  <2>2. CASE ~(Len(s) < HeaderLen)
    <3>1. Len(s) = HeaderLen /\ Len(a) > HeaderLen /\ a # <<>>
      BY <2>2, <1>1, <1>s
    <3>2. r = Tail(a)
      BY <3>1 DEF LastBytes
    <3>3. /\ Tail(a) \in Seq(Byte) /\ Len(Tail(a)) = Len(a) - 1
          /\ \A x \in 1..Len(Tail(a)) : Tail(a)[x] = a[x + 1]
      BY <3>1, <1>1, HeadTailProperties
    <3> QED
      BY <3>1, <3>2, <3>3, <1>1, <1>s
  <2> QED
    BY <2>1, <2>2
<1> HIDE DEF r
<1>3. ASSUME NEW j \in 1..HeaderLen
      PROVE  Ends(r, j) <=> b = Header[j] /\ (j = 1 \/ Ends(s, j - 1))
  <2>1. j <= Len(r) <=> j - 1 <= Len(s)
    BY <1>1, <1>2, <1>s
  <2>2. ASSUME j <= Len(r), NEW i \in 1..j
        PROVE  r[Len(r) - j + i] = IF i = j THEN b ELSE s[Len(s) - (j - 1) + i]
    <3>1. Len(r) - j + i \in 1..Len(r)
      BY <2>2, <1>2
    <3>2. r[Len(r) - j + i] = a[Len(a) - Len(r) + (Len(r) - j + i)]
      BY <3>1, <1>2
    <3>a. j \in Nat /\ i \in Nat /\ Len(r) \in Nat /\ Len(s) \in Nat /\ Len(a) = Len(s) + 1
      BY <1>1, <1>2, <1>s
    <3>3. Len(a) - Len(r) + (Len(r) - j + i) = Len(s) - (j - 1) + i
      BY <3>a
    <3>4. r[Len(r) - j + i] = a[Len(s) - (j - 1) + i]
      BY <3>2, <3>3
    <3>5. CASE i = j
      <4>1. Len(s) - (j - 1) + i = Len(s) + 1
        BY <3>5, <1>1
      <4> QED
        BY <4>1, <3>4, <3>5, <1>1
    <3>6. CASE i # j
      <4>1. Len(s) - (j - 1) + i \in 1..Len(s)
        BY <2>1, <2>2, <3>6, <1>1
      <4> QED
        BY <4>1, <3>4, <3>6, <1>1
    <3> QED
      BY <3>5, <3>6
  <2>3. ASSUME Ends(r, j) PROVE b = Header[j] /\ (j = 1 \/ Ends(s, j - 1))
    <3>1. j <= Len(r) /\ \A i \in 1..j : r[Len(r) - j + i] = Header[i]
      BY <2>3 DEF Ends
    <3>2. b = Header[j]
      <4>1. j \in 1..j
        OBVIOUS
      <4> QED
        BY <4>1, <3>1, <2>2
    <3>3. \A i \in 1..(j - 1) : s[Len(s) - (j - 1) + i] = Header[i]
      <4>1. \A i \in 1..(j - 1) : i \in 1..j /\ i # j
        OBVIOUS
      <4> QED
        BY <4>1, <3>1, <2>2
    <3> QED
      BY <3>1, <3>2, <3>3, <2>1 DEF Ends
  <2>4. ASSUME b = Header[j], j = 1 \/ Ends(s, j - 1) PROVE Ends(r, j)
    <3>1. j - 1 <= Len(s)
      BY <2>4, <1>1 DEF Ends
    <3>2. j <= Len(r)
      BY <3>1, <2>1
    <3>3. ASSUME NEW i \in 1..j PROVE r[Len(r) - j + i] = Header[i]
      <4>1. CASE i = j
        BY <4>1, <3>2, <2>2, <2>4
      <4>2. CASE i # j
        <5>1. i \in 1..(j - 1) /\ j # 1
          BY <4>2
        <5>2. s[Len(s) - (j - 1) + i] = Header[i]
          BY <5>1, <2>4 DEF Ends
        <5> QED
          BY <4>2, <5>2, <3>2, <2>2
      <4> QED
        BY <4>1, <4>2
    <3> QED
      BY <3>2, <3>3 DEF Ends
  <2> QED
    BY <2>3, <2>4
<1> QED
  BY <1>2, <1>3 DEF a, r

\* The parser keeps what it has found: 0xFF begins a preheader and ends it, and is
\* nowhere else in it, so what a mismatch discards holds no other beginning.
LEMMA FoundPush ==
  ASSUME ParserType, ParserInv, FoundInv, NEW b \in Byte, Push(b)
  PROVE  FoundInv'
<1> DEFINE r == LastBytes(Append(recent, b))
<1>s. HeaderLen \in Nat /\ HeaderLen > 1
  BY Sizes
<1>h. \A i \in 1..HeaderLen : Header[i] = Header[1] <=> i \in {1, HeaderLen}
  BY StreamAssumption
<1>1. recent \in Seq(Byte) /\ Len(recent) <= HeaderLen
  BY DEF FoundInv
<1>2. /\ r \in Seq(Byte) /\ Len(r) <= HeaderLen
      /\ \A j \in 1..HeaderLen :
           Ends(r, j) <=> b = Header[j] /\ (j = 1 \/ Ends(recent, j - 1))
  BY <1>1, EndsMore
<1> HIDE DEF r
<1>3. CASE PushIgnored(b)
  BY <1>3 DEF PushIgnored, parser, FoundInv
<1>4. CASE PushPayload(b)
  <2>1. recent' = r /\ state' \notin {"WAITING", "HEADER"}
    BY <1>4 DEF PushPayload, r
  <2> QED
    BY <2>1, <1>2 DEF FoundInv
<1>5. CASE PushWaiting(b)
  <2>1. /\ state = "WAITING" /\ buffer = <<>> /\ recent' = r
        /\ IF b = Header[1] THEN buffer' = <<b>> ELSE UNCHANGED buffer
    BY <1>5 DEF PushWaiting, ParserInv, r
  <2>2. \A j \in 1..HeaderLen : ~Ends(recent, j)
    BY <2>1 DEF FoundInv
  <2>3. Len(buffer') = IF b = Header[1] THEN 1 ELSE 0
    BY <2>1
  <2>4. ASSUME NEW j \in 1..HeaderLen PROVE Ends(r, j) <=> j = Len(buffer')
    <3>1. CASE j = 1
      BY <3>1, <1>2, <2>3
    <3>2. CASE j # 1
      <4>1. j - 1 \in 1..HeaderLen
        BY <3>2, <1>s
      <4> QED
        BY <4>1, <3>2, <1>2, <2>2, <2>3
    <3> QED
      BY <3>1, <3>2
  <2> QED
    BY <2>1, <2>4, <1>2 DEF FoundInv
<1>6. CASE PushHeader(b)
  <2> DEFINE m == Len(buffer)
  <2>1. /\ state = "HEADER" /\ recent' = r /\ m \in 1..(HeaderLen - 1)
        /\ buffer \in Seq(Byte)
    <3>1. state = "HEADER" /\ recent' = r
      BY <1>6 DEF PushHeader, r
    <3>2. 0 < m /\ m < HeaderLen /\ buffer \in Seq(Byte)
      BY <3>1 DEF ParserInv, ParserType
    <3> QED
      BY <3>1, <3>2, <1>s
  <2>2. \A j \in 1..HeaderLen : Ends(recent, j) <=> j = m
    BY <2>1 DEF FoundInv
  <2> HIDE DEF m
  <2>3. \A j \in 2..HeaderLen : Ends(r, j) <=> b = Header[j] /\ j = m + 1
    <3> SUFFICES ASSUME NEW j \in 2..HeaderLen
                 PROVE  Ends(r, j) <=> b = Header[j] /\ j = m + 1
      OBVIOUS
    <3>1. j - 1 \in 1..HeaderLen /\ j \in 1..HeaderLen /\ j # 1
      BY <1>s
    <3>2. Ends(r, j) <=> b = Header[j] /\ Ends(recent, j - 1)
      BY <3>1, <1>2
    <3>3. Ends(recent, j - 1) <=> j - 1 = m
      BY <3>1, <2>2
    <3> QED
      BY <3>2, <3>3, <2>1
  <2>4. Ends(r, 1) <=> b = Header[1]
    <3>1. 1 \in 1..HeaderLen
      BY <1>s
    <3> QED
      BY <3>1, <1>2
  <2>5. m + 1 \in 2..HeaderLen /\ m + 1 \in 1..HeaderLen
    BY <2>1, <1>s
  <2>6. \A j \in 1..HeaderLen : j = 1 \/ j \in 2..HeaderLen
    OBVIOUS
  <2>7. CASE b = Header[m + 1]
    <3>1. buffer' = Append(buffer, b)
          /\ (state' = "HEADER" \/ state' = "WAITING" => m + 1 < HeaderLen)
      BY <2>7, <1>6 DEF PushHeader, m
    <3>2. Len(buffer') = m + 1
      BY <3>1, <2>1 DEF m
    <3>3. ASSUME m + 1 < HeaderLen, NEW j \in 1..HeaderLen
          PROVE  Ends(r, j) <=> j = Len(buffer')
      <4>1. b # Header[1]
        BY <2>5, <2>7, <3>3, <1>h, <2>1
      <4> QED
        BY <4>1, <2>1, <2>3, <2>4, <2>6, <2>7, <3>2
    <3> QED
      BY <3>1, <3>3, <2>1, <1>2 DEF FoundInv
  <2>8. CASE b # Header[m + 1] /\ b = Header[1]
    <3>1. buffer' = <<b>> /\ Len(buffer') = 1
      BY <2>8, <1>6 DEF PushHeader, m
    <3>2. \A j \in 1..HeaderLen : Ends(r, j) <=> j = 1
      BY <2>3, <2>4, <2>6, <2>8
    <3> QED
      BY <3>1, <3>2, <2>1, <1>2 DEF FoundInv
  <2>9. CASE b # Header[m + 1] /\ b # Header[1]
    <3>1. buffer' = <<>> /\ Len(buffer') = 0
      BY <2>9, <1>6 DEF PushHeader, m
    <3>2. \A j \in 1..HeaderLen : ~Ends(r, j) /\ j # 0
      BY <2>3, <2>4, <2>6, <2>9
    <3> QED
      BY <3>1, <3>2, <2>1, <1>2 DEF FoundInv
  <2> QED
    BY <2>7, <2>8, <2>9
<1> QED
  BY <1>3, <1>4, <1>5, <1>6 DEF Push

LEMMA FoundInit == Init => FoundInv
<1> SUFFICES ASSUME Init PROVE FoundInv
  OBVIOUS
<1>1. recent = <<>> /\ buffer = <<>> /\ Len(<<>>) = 0 /\ <<>> \in Seq(Byte)
  BY DEF Init
<1> QED
  BY <1>1, Sizes DEF FoundInv, Ends

LEMMA FoundStep == Inv /\ FoundInv /\ [Next]_vars => FoundInv'
<1> SUFFICES ASSUME Inv, FoundInv, [Next]_vars PROVE FoundInv'
  OBVIOUS
<1>1. TypeOK /\ ParserType /\ HostType /\ ParserInv /\ LineInv
  BY TypeParts DEF Inv
<1>2. CASE UNCHANGED <<state, buffer, recent>>
  BY <1>2 DEF FoundInv
<1>3. CASE Send \/ LoseByte \/ Inject \/ Execute \/ UNCHANGED vars
  <2>1. UNCHANGED <<state, buffer, recent>>
    BY <1>3 DEF Send, LoseByte, Inject, Execute, vars, parser
  <2> QED
    BY <2>1, <1>2
<1>4. CASE PushSerial
  <2>1. Head(line)[off + 1] \in Byte /\ Push(Head(line)[off + 1])
    BY <1>1, <1>4, HeadFacts DEF PushSerial
  <2> QED
    BY <2>1, <1>1, FoundPush
<1>5. CASE PushInjected
  <2>1. inj # <<>> /\ Push(inj[injOff + 1]) /\ inj \in Frames /\ injOff \in Nat
    BY <1>1, <1>5 DEF PushInjected, HostType
  <2>2. Len(inj) = EnvSize /\ EnvSize \in Nat /\ \A i \in 1..EnvSize : inj[i] \in Byte
    BY <2>1, FrameFacts, Sizes
  <2>3. injOff + 1 \in 1..EnvSize
    BY <2>1, <2>2, <1>1 DEF LineInv
  <2> QED
    BY <2>1, <2>2, <2>3, <1>1, FoundPush
<1>6. CASE Pop
  <2>1. recent' = <<>> /\ buffer' = <<>> /\ Len(<<>>) = 0 /\ <<>> \in Seq(Byte)
    BY <1>6 DEF Pop
  <2> QED
    BY <2>1, Sizes DEF FoundInv, Ends
<1> QED
  BY <1>3, <1>4, <1>5, <1>6 DEF Next

\* What FoundInv says in the words of the property.
LEMMA FoundBorder == Inv /\ FoundInv => HeaderFound
<1> SUFFICES ASSUME Inv, FoundInv, state \in {"WAITING", "HEADER"}
             PROVE  Len(buffer) = Border(recent) /\ recent # Header
  BY DEF HeaderFound
<1>s. HeaderLen \in Nat /\ HeaderLen > 1 /\ HeaderLen = Len(Header) /\ Header \in Seq(Byte)
  BY Sizes, StreamAssumption DEF HeaderLen
<1>1. Len(buffer) \in 0..(HeaderLen - 1)
  <2>1. state = "WAITING" => Len(buffer) = 0
    BY DEF Inv, ParserInv
  <2>2. state = "HEADER" => 0 < Len(buffer) /\ Len(buffer) < HeaderLen
    BY DEF Inv, ParserInv
  <2>3. buffer \in Seq(Byte)
    BY DEF Inv, TypeOK
  <2> QED
    BY <2>1, <2>2, <2>3, <1>s
<1>2. recent \in Seq(Byte) /\ \A j \in 1..HeaderLen : Ends(recent, j) <=> j = Len(buffer)
  BY DEF FoundInv
<1>3. recent # Header
  <2> SUFFICES ASSUME recent = Header PROVE FALSE
    OBVIOUS
  <2>1. Ends(recent, HeaderLen)
    <3>1. Len(recent) = HeaderLen
      BY <1>s
    <3>2. \A i \in 1..HeaderLen : HeaderLen - HeaderLen + i = i
      BY <1>s
    <3> QED
      BY <3>1, <3>2 DEF Ends
  <2>2. HeaderLen \in 1..HeaderLen
    BY <1>s
  <2> QED
    BY <2>1, <2>2, <1>1, <1>2
<1> DEFINE S == 0..(HeaderLen - 1)
           fits(j) == /\ j <= Len(recent)
                      /\ SubSeq(recent, Len(recent) - j + 1, Len(recent)) = SubSeq(Header, 1, j)
           P(k) == fits(k) /\ \A j \in (k + 1)..(HeaderLen - 1) : ~fits(j)
<1>4. ASSUME NEW j \in S PROVE fits(j) <=> j = 0 \/ j = Len(buffer)
  <2>1. Len(recent) \in Nat /\ j \in Nat
    BY <1>2, <1>s
  <2>2. /\ SubSeq(Header, 1, j) \in Seq(Byte) /\ Len(SubSeq(Header, 1, j)) = j
        /\ \A i \in 1..j : SubSeq(Header, 1, j)[i] = Header[i]
    BY <1>s
  <2>3. ASSUME j <= Len(recent)
        PROVE  /\ SubSeq(recent, Len(recent) - j + 1, Len(recent)) \in Seq(Byte)
               /\ Len(SubSeq(recent, Len(recent) - j + 1, Len(recent))) = j
               /\ \A i \in 1..j : SubSeq(recent, Len(recent) - j + 1, Len(recent))[i]
                                    = recent[Len(recent) - j + i]
    <3> DEFINE lo == Len(recent) - j + 1
    <3>1. lo \in Int /\ Len(recent) \in Int /\ 1 <= lo
      BY <2>1, <2>3
    <3>2. \A i \in lo..Len(recent) : recent[i] \in Byte
      BY <3>1, <1>2
    <3>3. /\ SubSeq(recent, lo, Len(recent)) \in Seq(Byte)
          /\ Len(SubSeq(recent, lo, Len(recent))) = IF lo <= Len(recent) THEN Len(recent) - lo + 1 ELSE 0
          /\ \A i \in 1..(Len(recent) - lo + 1) : SubSeq(recent, lo, Len(recent))[i] = recent[lo + i - 1]
      <4> HIDE DEF lo
      <4> QED
        BY <3>1, <3>2, SubSeqProperties
    <3>4. Len(recent) - lo + 1 = j /\ \A i \in 1..j : lo + i - 1 = Len(recent) - j + i
      BY <2>1
    <3>5. (IF lo <= Len(recent) THEN Len(recent) - lo + 1 ELSE 0) = j
      BY <2>1, <2>3
    <3> QED
      BY <3>3, <3>4, <3>5
  <2>4. fits(j) <=> Ends(recent, j)
    <3>1. CASE j <= Len(recent)
      <4>1. SubSeq(recent, Len(recent) - j + 1, Len(recent)) = SubSeq(Header, 1, j)
              <=> \A i \in 1..j : recent[Len(recent) - j + i] = Header[i]
        <5> DEFINE x == SubSeq(recent, Len(recent) - j + 1, Len(recent))
                   y == SubSeq(Header, 1, j)
        <5>1. /\ x \in Seq(Byte) /\ y \in Seq(Byte) /\ Len(x) = j /\ Len(y) = j
              /\ \A i \in 1..j : x[i] = recent[Len(recent) - j + i] /\ y[i] = Header[i]
          BY <2>2, <2>3, <3>1
        <5> HIDE DEF x, y
        <5>2. x = y <=> \A i \in 1..j : x[i] = y[i]
          BY <5>1, SeqEqual
        <5>3. x = y <=> \A i \in 1..j : recent[Len(recent) - j + i] = Header[i]
          BY <5>1, <5>2
        <5> QED
          BY <5>3 DEF x, y
      <4> QED
        BY <4>1, <3>1 DEF Ends
    <3>2. CASE ~(j <= Len(recent))
      BY <3>2 DEF Ends
    <3> QED
      BY <3>1, <3>2
  <2>5. CASE j = 0
    <3>1. Ends(recent, 0)
      BY <1>2 DEF Ends
    <3> QED
      BY <2>4, <2>5, <3>1
  <2>6. CASE j # 0
    <3>1. j \in 1..HeaderLen
      BY <2>6, <1>s
    <3> QED
      BY <3>1, <2>4, <2>6, <1>2
  <2> QED
    BY <2>5, <2>6
<1> HIDE DEF fits
<1>5. P(Len(buffer)) /\ Len(buffer) \in S
  BY <1>1, <1>4, <1>s
<1>6. ASSUME NEW k \in S, P(k) PROVE k = Len(buffer)
  <2>1. k = 0 \/ k = Len(buffer)
    BY <1>4, <1>6
  <2>2. Len(buffer) \in (k + 1)..(HeaderLen - 1) => ~fits(Len(buffer))
    BY <1>6
  <2> QED
    BY <2>1, <2>2, <1>1, <1>4, <1>5, <1>s
<1>7. Border(recent) = CHOOSE k \in S : P(k)
  BY DEF Border, fits
<1> HIDE DEF P, S
<1> QED
  BY <1>3, <1>5, <1>6, <1>7

-----------------------------------------------------------------------------
(* Recovery: a whole frame without 0xFF in its payload takes the parser to  *)
(* the end of it, in whatever state the frame found it.                     *)

\* k bytes into the frame f the parser is aligned with it, or done with an envelope,
\* or it still fills one it had begun before, or it takes the closing 0xFF of the
\* preheader of f for an opening one.
Midway(f, k) ==
  \/ Aligned(f, k)
  \/ state \in {"WAITING", "COMPLETE"}
  \/ state = "PAYLOAD" /\ HeaderLen - 1 + k <= Len(buffer)
  \/ state = "HEADER" /\ HeaderLen <= k /\ Len(buffer) = k - HeaderLen + 1

\* Of the envelopes the host has, the last is the last frame.
LastSame == Envelopes # <<>> /\ fed # <<>> /\ Envelopes[Len(Envelopes)] = fed[Len(fed)]

RecoverInv ==
  /\ intact /\ off > 0 => inj = <<>>
  /\ intact /\ off > 0 /\ Head(line) \in Frames /\ Plain(Head(line)) => Midway(Head(line), off)
  /\ whole > 0 => Synced
  /\ whole = 2 => LastSame

\* After the first byte of a frame, 0xFF, the parser is aligned with it, unless that
\* byte ended a preheader or went into an envelope.
LEMMA PushMidFirst ==
  ASSUME ParserType, ParserInv, NEW b \in Byte, b = Header[1], Push(b), state # "COMPLETE",
         NEW f \in Frames
  PROVE  Midway(f, 1)'
<1>s. HeaderLen \in Nat /\ HeaderLen > 1
  BY Sizes
<1>f. f[1] = b
  <2>1. 1 \in 1..HeaderLen
    BY <1>s
  <2> QED
    BY <2>1, FrameFacts DEF Begins
<1>1. ASSUME buffer' = <<b>>, state' = "HEADER" PROVE Aligned(f, 1)'
  <2>1. Len(<<b>>) = 1 /\ <<b>>[1] = b /\ \A i \in 1..1 : i = 1
    OBVIOUS
  <2>2. Begins(<<b>>, 1, f)
    BY <2>1, <1>f DEF Begins
  <2> QED
    BY <1>1, <2>1, <2>2, <1>s DEF Aligned
<1>2. CASE PushWaiting(b)
  BY <1>1, <1>2 DEF PushWaiting, Midway
<1>3. CASE PushHeader(b)
  <2>1. /\ state = "HEADER" /\ matched = Len(buffer) /\ Len(buffer) < HeaderLen
        /\ Len(Append(buffer, b)) = Len(buffer) + 1 /\ Len(buffer) \in Nat
    BY <1>3, AppendFacts DEF PushHeader, ParserInv, ParserType
  <2>2. CASE b = Header[Len(buffer) + 1]
    <3>1. Len(buffer) + 1 \in 1..HeaderLen /\ Len(buffer) # 0
      BY <1>3, <2>1, <1>s DEF PushHeader, ParserInv
    <3>2. Len(buffer) + 1 = HeaderLen
      BY <2>2, <3>1, <1>s, StreamAssumption
    <3>3. buffer' = Append(buffer, b) /\ state' = "PAYLOAD"
      BY <1>3, <2>1, <2>2, <3>2, <1>s DEF PushHeader
    <3>4. HeaderLen - 1 + 1 <= Len(buffer')
      BY <2>1, <3>2, <3>3
    <3> QED
      BY <3>3, <3>4 DEF Midway
  <2>3. CASE b # Header[Len(buffer) + 1]
    <3>1. buffer' = <<b>> /\ state' = "HEADER"
      BY <1>3, <2>1, <2>3 DEF PushHeader
    <3> QED
      BY <3>1, <1>1 DEF Midway
  <2> QED
    BY <2>2, <2>3
<1>4. CASE PushPayload(b)
  <2>1. /\ state = "PAYLOAD" /\ HeaderLen <= Len(buffer) /\ buffer' = Append(buffer, b)
        /\ Len(buffer') = Len(buffer) + 1 /\ Len(buffer) \in Nat
    BY <1>4, AppendFacts DEF PushPayload, ParserInv, ParserType
  <2>2. HeaderLen - 1 + 1 <= Len(buffer')
    BY <2>1, <1>s
  <2>3. state' \in {"PAYLOAD", "COMPLETE"}
    <3>1. ParserInv'
      BY PushKeeps
    <3> QED
      BY <3>1, <1>4, <2>1 DEF PushPayload, ParserInv
  <2> QED
    BY <2>2, <2>3 DEF Midway
<1>5. CASE PushIgnored(b)
  BY <1>5 DEF PushIgnored, ParserInv
<1> QED
  BY <1>2, <1>3, <1>4, <1>5 DEF Push

\* Any byte of a plain frame.
LEMMA PushMid ==
  ASSUME ParserType, ParserInv, state # "COMPLETE", NEW f \in Frames, Plain(f),
         NEW k \in 0..(EnvSize - 1), k > 0 => Midway(f, k), Push(f[k + 1])
  PROVE  Midway(f, k + 1)'
<1> DEFINE b == f[k + 1]
<1>s. HeaderLen \in Nat /\ HeaderLen > 1 /\ EnvSize \in Nat /\ EnvSize > HeaderLen
  BY Sizes
<1>b. b \in Byte /\ k \in Nat /\ k + 1 <= EnvSize /\ k + 1 \in 1..EnvSize
  <2>1. k + 1 \in 1..EnvSize
    BY <1>s
  <2> QED
    BY <2>1, <1>s, FrameFacts
<1>i. ParserInv'
  BY <1>b, PushKeeps
\* 0xFF is the first byte of f, and the last one of its preheader.
<1>h. b = Header[1] <=> k = 0 \/ k + 1 = HeaderLen
  <2>1. CASE k + 1 <= HeaderLen
    <3>1. k + 1 \in 1..HeaderLen
      BY <2>1, <1>b
    <3>2. b = Header[k + 1]
      BY <3>1, FrameFacts DEF Begins
    <3> QED
      BY <3>1, <3>2, <1>b, StreamAssumption
  <2>2. CASE ~(k + 1 <= HeaderLen)
    <3>1. k + 1 \in (HeaderLen + 1)..EnvSize
      BY <2>2, <1>b, <1>s
    <3> QED
      BY <3>1, <2>2, <1>b, <1>s DEF Plain
  <2> QED
    BY <2>1, <2>2
<1>1. CASE k = 0
  <2>1. b = Header[1] /\ k + 1 = 1
    BY <1>1, <1>h
  <2>2. Midway(f, 1)'
    BY <2>1, <1>b, PushMidFirst
  <2> QED
    BY <2>1, <2>2
<1>2. CASE k > 0 /\ Aligned(f, k)
  <2>1. /\ k + 1 < EnvSize => Aligned(f, k + 1)'
        /\ k + 1 = EnvSize => state' = "COMPLETE"
    BY <1>2, PushAligned
  <2> QED
    BY <2>1, <1>b, <1>s DEF Midway
<1>3. CASE k > 0 /\ state = "WAITING"
  <2>1. PushWaiting(b)
    BY <1>3 DEF Push, PushWaiting, PushHeader, PushPayload, PushIgnored
  <2>2. CASE b = Header[1]
    <3>1. state' = "HEADER" /\ buffer' = <<b>> /\ Len(<<b>>) = 1
      BY <2>1, <2>2 DEF PushWaiting
    <3>2. HeaderLen <= k + 1 /\ Len(buffer') = (k + 1) - HeaderLen + 1
      BY <3>1, <2>2, <1>3, <1>h, <1>s
    <3> QED
      BY <3>1, <3>2 DEF Midway
  <2>3. CASE b # Header[1]
    BY <2>1, <2>3, <1>3 DEF PushWaiting, Midway
  <2> QED
    BY <2>2, <2>3
<1>4. CASE k > 0 /\ state = "PAYLOAD" /\ HeaderLen - 1 + k <= Len(buffer)
  <2>1. PushPayload(b)
    BY <1>4 DEF Push, PushWaiting, PushHeader, PushPayload, PushIgnored
  <2>2. buffer' = Append(buffer, b) /\ Len(buffer') = Len(buffer) + 1 /\ Len(buffer) \in Nat
    BY <2>1, <1>b, AppendFacts DEF PushPayload, ParserType
  <2>3. HeaderLen - 1 + (k + 1) <= Len(buffer')
    BY <2>2, <1>4, <1>b, <1>s
  <2>4. state' \in {"PAYLOAD", "COMPLETE"}
    BY <2>1, <1>4, <1>i DEF PushPayload, ParserInv
  <2> QED
    BY <2>3, <2>4 DEF Midway
\* No byte behind the preheader of f is 0xFF: the one begun at its end is not closed.
<1>5. CASE k > 0 /\ state = "HEADER" /\ HeaderLen <= k /\ Len(buffer) = k - HeaderLen + 1
  <2>1. PushHeader(b)
    BY <1>5 DEF Push, PushWaiting, PushHeader, PushPayload, PushIgnored
  <2>2. b # Header[1]
    BY <1>5, <1>h, <1>b, <1>s
  <2>3. Len(buffer) < HeaderLen /\ Len(Append(buffer, b)) = Len(buffer) + 1 /\ Len(buffer) \in Nat
    BY <1>5, <1>b, AppendFacts DEF ParserInv, ParserType
  <2>4. CASE b = Header[Len(buffer) + 1]
    <3>1. Len(buffer) + 1 \in 1..HeaderLen
      BY <2>3, <1>s
    <3>2. Len(buffer) + 1 < HeaderLen
      BY <3>1, <2>2, <2>4, <1>s, StreamAssumption
    <3>3. buffer' = Append(buffer, b) /\ state' = "HEADER"
      BY <2>1, <2>4, <3>2 DEF PushHeader
    <3>4. HeaderLen <= k + 1 /\ Len(buffer') = (k + 1) - HeaderLen + 1
      BY <3>3, <2>3, <1>5, <1>b, <1>s
    <3> QED
      BY <3>3, <3>4 DEF Midway
  <2>5. CASE b # Header[Len(buffer) + 1]
    <3>1. state' = "WAITING"
      BY <2>1, <2>2, <2>5 DEF PushHeader
    <3> QED
      BY <3>1 DEF Midway
  <2> QED
    BY <2>4, <2>5
<1> QED
  BY <1>1, <1>2, <1>3, <1>4, <1>5, <1>b DEF Midway

\* At the end of the frame there is no room left for what the parser could still be
\* filling: its buffer would be longer than an envelope, or than the preheader.
LEMMA MidEnd ==
  ASSUME ParserType', ParserInv', NEW f, Midway(f, EnvSize)'
  PROVE  state' \in {"WAITING", "COMPLETE"}
<1>s. HeaderLen \in Nat /\ HeaderLen > 1 /\ EnvSize \in Nat /\ EnvSize > HeaderLen
  BY Sizes
<1>p. EnvSize >= 2 * HeaderLen - 1
  BY PayloadAssumption
<1>l. Len(buffer') \in Nat
  BY DEF ParserType
<1>1. state' = "PAYLOAD" => Len(buffer') < EnvSize
  BY DEF ParserInv
<1>2. state' = "HEADER" => Len(buffer') < HeaderLen
  BY DEF ParserInv
<1>3. ~Aligned(f, EnvSize)'
  BY <1>1, <1>s, <1>l DEF Aligned
<1>4. ~(state' = "PAYLOAD" /\ HeaderLen - 1 + EnvSize <= Len(buffer'))
  BY <1>1, <1>s, <1>l
<1>5. ~(state' = "HEADER" /\ Len(buffer') = EnvSize - HeaderLen + 1)
  BY <1>2, <1>s, <1>l, <1>p
<1> QED
  BY <1>3, <1>4, <1>5 DEF Midway

-----------------------------------------------------------------------------
(* The steps of the recovery. *)

\* A frame handed out as it is pushed is the last envelope and the last frame.
LEMMA LastBegun ==
  ASSUME TypeOK, NEW f \in Frames, fed' = Append(fed, f), Envelopes' = Append(Envelopes, f)
  PROVE  LastSame'
<1>1. Envelopes \in Seq(Seq(Byte)) /\ fed \in Seq(Frames)
  <2>1. Envs \in Seq(Seq(Byte)) /\ envelope \in Seq(Byte) /\ fed \in Seq(Frames)
    BY EnvsType DEF TypeOK, Envs
  <2>2. Append(Envs, envelope) \in Seq(Seq(Byte))
    <3>1. \A s \in Seq(Seq(Byte)) : \A x \in Seq(Byte) : Append(s, x) \in Seq(Seq(Byte))
      OBVIOUS
    <3> QED
      BY <2>1, <3>1
  <2>3. Envelopes \in {Envs, Append(Envs, envelope)}
    BY EnvelopesNow
  <2> QED
    BY <2>1, <2>2, <2>3
<1>2. f \in Seq(Byte)
  BY FrameFacts
<1>3. ASSUME NEW T, NEW s \in Seq(T), NEW x \in T
      PROVE  Append(s, x) # <<>> /\ Append(s, x)[Len(Append(s, x))] = x
  BY <1>3
<1>4. Envelopes' # <<>> /\ Envelopes'[Len(Envelopes')] = f
  BY <1>1, <1>2, <1>3
<1>5. fed' # <<>> /\ fed'[Len(fed')] = f
  BY <1>1, <1>3
<1> QED
  BY <1>4, <1>5 DEF LastSame

\* A step that keeps a parser where the line is, and hands out what it completes.
WholeInv ==
  /\ whole > 0 => Synced
  /\ whole = 2 => LastSame

LEMMA WholeKept ==
  ASSUME TypeOK, WholeInv, whole' = whole, whole > 0 => Synced' /\ HandsOut
  PROVE  WholeInv'
<1>1. ASSUME whole = 2 PROVE LastSame'
  <2>1. LastSame /\ HandsOut
    BY <1>1 DEF WholeInv
  <2>2. CASE UNCHANGED fed /\ Envelopes' = Envelopes
    BY <2>1, <2>2 DEF LastSame
  <2>3. CASE \E f \in Frames : fed' = Append(fed, f) /\ Envelopes' = Append(Envelopes, f)
    BY <2>3, LastBegun
  <2> QED
    BY <2>1, <2>2, <2>3 DEF HandsOut
<1> QED
  BY <1>1 DEF WholeInv

LEMMA SendRecovers == ASSUME Inv, RecoverInv, Send PROVE RecoverInv'
<1>1. TypeOK /\ HostType /\ LineInv
  BY TypeParts DEF Inv
<1>2. PICK f \in Pieces : line' = Append(line, f)
  BY DEF Send, Pieces
<1>3. UNCHANGED <<state, buffer, off, inj, intact, whole>>
  BY DEF Send, parser
<1>4. off > 0 => Head(line') = Head(line)
  <2>1. line \in Seq(Pieces) /\ (off > 0 => line # <<>>)
    BY <1>1 DEF HostType, LineInv
  <2> QED
    BY <2>1, <1>2
<1>5. WholeInv'
  BY <1>1, <1>3, SendSynced, WholeKept DEF RecoverInv, WholeInv
<1> QED
  BY <1>3, <1>4, <1>5 DEF RecoverInv, WholeInv, Midway, Aligned, Begins

\* A byte of the line.  The last byte of a plain frame that nothing disturbed leaves
\* the parser at the end of it; if the parser was at the beginning of it, too, the
\* frame is handed out.
LEMMA PushSerialRecovers == ASSUME Inv, RecoverInv, PushSerial PROVE RecoverInv'
<1>1. /\ TypeOK /\ ParserType /\ HostType /\ ParserInv /\ LineInv
      /\ TypeOK' /\ ParserType' /\ ParserInv'
  BY PushSerialStep, TypeParts DEF Inv
<1>2. /\ line # <<>> /\ inj = <<>> /\ state # "COMPLETE" /\ inj' = <<>>
      /\ Push(Head(line)[off + 1]) /\ Advance(intact)
  BY DEF PushSerial
<1>f. PICK f \in Pieces : f = Head(line)
  BY <1>1, <1>2, HeadFacts
<1>k. PICK k \in Nat : k = off
  BY <1>1, <1>2, HeadFacts
<1>3. k + 1 \in 1..Len(f) /\ f[k + 1] \in Byte /\ Push(f[k + 1])
  BY <1>1, <1>2, <1>f, <1>k, HeadFacts
<1>l. /\ EnvSize \in Nat /\ HeaderLen \in Nat /\ EnvSize > HeaderLen /\ HeaderLen > 1
      /\ f \in Frames => Len(f) = EnvSize
      /\ f \notin Frames => Len(f) = 1
  <2>1. f \notin Frames => Len(f) = 1
    BY PieceFacts, NoiseFacts
  <2> QED
    BY <2>1, FrameFacts, Sizes
<1>m. ASSUME f \in Frames, Plain(f), intact PROVE Midway(f, k + 1)'
  <2>1. k \in 0..(EnvSize - 1)
    BY <1>m, <1>3, <1>l
  <2>2. k > 0 => Midway(f, k)
    BY <1>m, <1>f, <1>k DEF RecoverInv
  <2> QED
    BY <2>1, <2>2, <1>m, <1>1, <1>2, <1>3, PushMid
<1>4. CASE k + 1 < Len(f)
  <2>1. off' = k + 1 /\ intact' = intact /\ line' = line
    BY <1>4, <1>2, <1>f, <1>k DEF Advance
  <2>2. whole' = whole
    <3>1. off + 1 < EnvSize
      BY <1>4, <1>3, <1>k, <1>l
    <3> QED
      BY <3>1 DEF PushSerial
  <2>3. WholeInv'
    BY <2>2, <1>1, PushSerialSynced, WholeKept DEF RecoverInv, WholeInv
  <2>4. Head(line') = f
    BY <2>1, <1>f
  <2>5. ASSUME intact', Head(line') \in Frames, Plain(Head(line'))
        PROVE  Midway(Head(line), off)'
    <3>1. Midway(f, k + 1)'
      BY <2>1, <2>4, <2>5, <1>m
    <3> QED
      BY <3>1, <2>1, <2>4 DEF Midway, Aligned, Begins
  <2> QED
    BY <2>3, <2>5, <1>2 DEF RecoverInv, WholeInv, Plain
<1>5. CASE ~(k + 1 < Len(f))
  <2>0. k + 1 = Len(f)
    BY <1>5, <1>3
  <2>1. off' = 0 /\ intact' = TRUE
        /\ fed' = IF intact /\ f \in Frames THEN Append(fed, f) ELSE fed
    BY <1>5, <1>2, <1>f, <1>k DEF Advance
  <2>2. WholeInv'
    <3>1. CASE whole' = whole /\ (~intact \/ f \notin Frames)
      BY <3>1, <1>1, PushSerialSynced, WholeKept DEF RecoverInv, WholeInv
    <3>2. CASE whole' = 0
      BY <3>2 DEF WholeInv
    <3>3. CASE intact /\ f \in Frames /\ Plain(f)
      <4>1. off + 1 = EnvSize
        BY <3>3, <2>0, <1>k, <1>l
      <4>2. whole' = IF whole < 2 THEN whole + 1 ELSE whole
        <5>1. ~(off + 1 < EnvSize)
          BY <4>1, <1>l
        <5> QED
          BY <3>3, <5>1, <1>f DEF PushSerial
      <4>3. Midway(f, EnvSize)'
        BY <3>3, <4>1, <1>m, <1>k
      <4>4. state' \in {"WAITING", "COMPLETE"}
        BY <4>3, <1>1, MidEnd
      <4>5. Synced'
        BY <4>4, <2>1, <1>2 DEF Synced
      <4>6. CASE whole = 0
        <5>1. whole' = 1
          BY <4>2, <4>6
        <5> QED
          BY <5>1, <4>5 DEF WholeInv
      <4>7. CASE whole # 0
        <5>1. whole > 0 /\ HandsOut
          <6>1. whole > 0
            BY <4>7, <1>1 DEF HostType
          <6> QED
            BY <6>1, <1>1, PushSerialSynced DEF RecoverInv
        <5>2. fed' = Append(fed, f) /\ fed' # fed
          <6>1. fed' = Append(fed, f) /\ fed \in Seq(Frames)
            BY <2>1, <3>3, <1>1 DEF HostType
          <6> QED
            BY <6>1, <3>3
        <5>3. PICK g \in Frames : fed' = Append(fed, g) /\ Envelopes' = Append(Envelopes, g)
          BY <5>1, <5>2 DEF HandsOut
        <5>4. LastSame'
          BY <5>3, <1>1, LastBegun
        <5> QED
          BY <5>4, <4>5 DEF WholeInv
      <4> QED
        BY <4>6, <4>7
    <3>4. CASE intact /\ f \in Frames /\ ~Plain(f)
      <4>1. ~(off + 1 < EnvSize)
        BY <3>4, <2>0, <1>k, <1>l
      <4>2. whole' = 0
        BY <3>4, <4>1, <1>f DEF PushSerial
      <4> QED
        BY <4>2 DEF WholeInv
    <3>5. ~intact \/ f \notin Frames => whole' = whole
      <4>1. f \notin Frames => off + 1 < EnvSize
        <5>1. 1 < EnvSize
          BY <1>l
        <5>2. f \notin Frames => k + 1 = 1
          BY <2>0, <1>l, Zenon
        <5> QED
          BY <5>1, <5>2, <1>k
      <4> QED
        BY <4>1 DEF PushSerial
    <3> QED
      BY <3>1, <3>3, <3>4, <3>5
  <2> QED
    BY <2>1, <2>2 DEF RecoverInv, WholeInv
<1> QED
  BY <1>4, <1>5

\* A lost byte, and an injection, start over, unless the injection is between two frames.
LEMMA LoseByteRecovers == ASSUME Inv, RecoverInv, LoseByte PROVE RecoverInv'
<1>1. whole' = 0 /\ Advance(FALSE)
  BY DEF LoseByte
<1>2. ~(intact' /\ off' > 0)
  BY <1>1 DEF Advance
<1> QED
  BY <1>1, <1>2 DEF RecoverInv

LEMMA InjectRecovers == ASSUME Inv, RecoverInv, Inject PROVE RecoverInv'
<1>1. TypeOK /\ HostType
  BY TypeParts DEF Inv
<1>2. UNCHANGED off /\ off \in Nat
  BY <1>1 DEF Inject, HostType
<1>3. CASE off > 0 \/ state # "WAITING"
  <2>1. whole' = 0 /\ intact' = (intact /\ off = 0)
    BY <1>3 DEF Inject
  <2>2. ~(intact' /\ off' > 0)
    <3>1. off > 0 => ~(off = 0)
      BY <1>2
    <3> QED
      BY <2>1, <3>1, <1>2
  <2> QED
    BY <2>1, <2>2 DEF RecoverInv
<1>4. CASE ~(off > 0 \/ state # "WAITING")
  <2>1. off = 0 /\ state = "WAITING" /\ whole' = whole
    BY <1>2, <1>4 DEF Inject
  <2>2. WholeInv'
    BY <2>1, <1>1, InjectSynced, WholeKept DEF RecoverInv, WholeInv
  <2> QED
    BY <2>1, <2>2, <1>2 DEF RecoverInv, WholeInv
<1> QED
  BY <1>3, <1>4

LEMMA PushInjectedRecovers == ASSUME Inv, RecoverInv, PushInjected PROVE RecoverInv'
<1>1. TypeOK /\ ParserInv /\ LineInv /\ TypeOK'
  BY PushInjectedStep DEF Inv
<1>2. inj # <<>> /\ UNCHANGED <<line, off, intact, whole>>
  BY DEF PushInjected
<1>3. WholeInv'
  BY <1>1, <1>2, PushInjectedSynced, WholeKept DEF RecoverInv, WholeInv
<1> QED
  BY <1>2, <1>3 DEF RecoverInv, WholeInv

LEMMA HostRecovers ==
  ASSUME Inv, RecoverInv, Execute \/ Pop \/ UNCHANGED vars PROVE RecoverInv'
<1>1. TypeOK /\ TypeOK'
  BY ExecuteStep, PopStep, InvStep DEF Inv
<1>2. UNCHANGED <<line, off, inj, intact, whole>>
  BY DEF Execute, Pop, vars
<1>3. UNCHANGED <<state, buffer>> \/ state' = "WAITING"
  BY DEF Execute, Pop, vars, parser
<1>4. Synced => Synced' /\ HandsOut
  <2>1. CASE UNCHANGED vars
    BY <2>1 DEF vars, parser, Synced, HandsOut, Envelopes, Aligned, Begins
  <2> QED
    BY <2>1, <1>1, ExecuteSynced, PopSynced
<1>5. WholeInv'
  BY <1>1, <1>2, <1>4, WholeKept DEF RecoverInv, WholeInv
<1>6. \A f : \A k : Midway(f, k) => Midway(f, k)'
  BY <1>3 DEF Midway, Aligned, Begins
<1> QED
  BY <1>2, <1>5, <1>6 DEF RecoverInv, WholeInv

LEMMA RecoverStep == Inv /\ RecoverInv /\ [Next]_vars => RecoverInv'
  BY SendRecovers, PushSerialRecovers, LoseByteRecovers, InjectRecovers, PushInjectedRecovers,
     HostRecovers DEF Next

LEMMA RecoverInit == Init => RecoverInv
  BY DEF Init, RecoverInv

-----------------------------------------------------------------------------
(* The theorems. *)

LEMMA InvHolds == Spec => []Inv
  BY InvInit, InvStep, PTL DEF Spec

\* Every field keeps its type; in particular `filled' never passes the end of
\* the buffer (stream_push_byte).
THEOREM TypeCorrect == Spec => []TypeOK
<1>1. Inv => TypeOK
  BY DEF Inv
<1> QED
  BY <1>1, InvHolds, PTL

\* The parser never gets into the state that nothing leads out of, whatever
\* bytes arrive (stream_push_byte, stream_pop_event).
THEOREM NeverStuck == Spec => []NeverInvalid
<1>1. Inv => NeverInvalid
  BY DEF Inv, ParserInv, NeverInvalid
<1> QED
  BY <1>1, InvHolds, PTL

\* Without loss and without an injection into the middle of a frame, the host
\* gets the frames that were pushed, all of them and in their order, whatever
\* is in them and between them (stream_push_byte, stream_pop_event).
THEOREM FramesInOrder == Spec => []InOrder
<1>1. Inv => InOrder
  BY DEF Inv, OrderInv, InOrder
<1> QED
  BY <1>1, InvHolds, PTL

LEMMA FoundHolds == Spec => [](Inv /\ FoundInv)
  BY InvInit, InvStep, FoundInit, FoundStep, PTL DEF Spec

\* The parser has always matched as much of a preheader as the bytes pushed allow,
\* also one that begins inside a broken one (stream_push_byte), for any preheader
\* that 0xFF opens and closes and any bytes.
THEOREM HeadersFound == Spec => []HeaderFound
  BY FoundHolds, FoundBorder, PTL

LEMMA RecoverHolds == Spec => [](Inv /\ RecoverInv)
  BY InvInit, InvStep, RecoverInit, RecoverStep, PTL DEF Spec

\* After bytes were lost, or a frame was injected into another, the next whole frame
\* without 0xFF in its payload takes the parser to where the line is, and a second one
\* in a row reaches the host (stream_push_byte), for any preheader that 0xFF opens and
\* closes, if an envelope has room for it twice, the 0xFF between the two shared.
THEOREM Resynchronised == Spec => []Resync
<1>1. Inv /\ RecoverInv => Resync
  <2> SUFFICES ASSUME Inv, RecoverInv, whole > 0, off = 0, inj = <<>>
               PROVE  /\ state \in {"WAITING", "COMPLETE"}
                      /\ whole = 2 => LastSame
    BY DEF Resync, LastSame
  <2> QED
    BY DEF RecoverInv, Synced
<1> QED
  BY <1>1, RecoverHolds, PTL

-----------------------------------------------------------------------------
(* What is dispatched: stream_pop_event hands out one event, and with it    *)
(* takes the configuration of the parser.                                   *)

\* The first envelope that the host pops has been executed, and no other has.
OnlyFirstDispatched == \A i \in DOMAIN popped : popped[i].runs > 0 <=> i = 1

\* Until the first event is popped, a complete envelope has been executed; afterwards
\* nothing can be.
DispatchInv ==
  /\ popped = <<>> => auto /\ vm /\ (state = "COMPLETE" => runs > 0)
  /\ popped # <<>> => ~vm /\ runs = 0
  /\ OnlyFirstDispatched

\* A byte executes the envelope that it completes if both are configured, and else nothing.
LEMMA PushDispatches ==
  ASSUME NEW b, Push(b), runs \in Nat
  PROVE  /\ auto' = auto /\ vm' = vm
         /\ runs' \in Nat
         /\ ~vm => runs' = runs
         /\ auto /\ vm /\ (state = "COMPLETE" => runs > 0) => (state' = "COMPLETE" => runs' > 0)
<1>1. CASE PushWaiting(b)
  BY <1>1 DEF PushWaiting
<1>2. CASE PushHeader(b)
  BY <1>2 DEF PushHeader
<1>3. CASE PushPayload(b)
  BY <1>3 DEF PushPayload
<1>4. CASE PushIgnored(b)
  BY <1>4 DEF PushIgnored, parser
<1> QED
  BY <1>1, <1>2, <1>3, <1>4 DEF Push

LEMMA PopDispatches ==
  ASSUME TypeOK, DispatchInv, Pop
  PROVE  DispatchInv'
<1> DEFINE event == [env |-> envelope, runs |-> runs]
<1>1. popped \in Seq(Event) /\ event \in Event /\ runs \in Nat
  BY DEF TypeOK, Event
<1>2. popped' = Append(popped, event)
  BY DEF Pop
<1>3. /\ DOMAIN popped' = 1..(Len(popped) + 1) /\ DOMAIN popped = 1..Len(popped)
      /\ Len(popped) \in Nat /\ popped' # <<>>
      /\ \A i \in 1..Len(popped) : popped'[i] = popped[i]
      /\ popped'[Len(popped) + 1] = event
  BY <1>1, <1>2, AppendProperties
<1>4. Len(popped) = 0 <=> popped = <<>>
  BY <1>1
<1>5. ASSUME NEW i \in DOMAIN popped'
      PROVE  popped'[i].runs > 0 <=> i = 1
  <2>1. CASE i \in 1..Len(popped)
    BY <1>3, <2>1 DEF DispatchInv, OnlyFirstDispatched
  <2>2. CASE i = Len(popped) + 1
    <3>1. popped'[i].runs = runs
      BY <1>3, <2>2
    <3>2. CASE popped = <<>>
      BY <3>1, <3>2, <1>4, <2>2 DEF DispatchInv, Pop
    <3>3. CASE popped # <<>>
      BY <3>1, <3>3, <1>1, <1>3, <1>4, <2>2 DEF DispatchInv
    <3> QED
      BY <3>2, <3>3
  <2> QED
    BY <1>3, <2>1, <2>2
<1>6. OnlyFirstDispatched'
  BY <1>5 DEF OnlyFirstDispatched
<1> QED
  BY <1>3, <1>6 DEF DispatchInv, Pop

LEMMA DispatchStep ==
  ASSUME TypeOK, DispatchInv, [Next]_vars
  PROVE  DispatchInv'
<1>1. ASSUME NEW b, Push(b), popped' = popped
      PROVE  DispatchInv'
  BY <1>1, PushDispatches DEF DispatchInv, OnlyFirstDispatched, TypeOK
<1>2. CASE PushSerial
  BY <1>1, <1>2 DEF PushSerial
<1>3. CASE PushInjected
  BY <1>1, <1>3 DEF PushInjected
<1>4. CASE Send \/ LoseByte \/ Inject
  <2>1. UNCHANGED <<state, auto, vm, runs, popped>>
    BY <1>4 DEF Send, LoseByte, Inject, parser
  <2> QED
    BY <2>1 DEF DispatchInv, OnlyFirstDispatched
<1>5. CASE Execute
  BY <1>5 DEF Execute, DispatchInv, OnlyFirstDispatched, TypeOK
<1>6. CASE UNCHANGED vars
  BY <1>6 DEF vars, parser, DispatchInv, OnlyFirstDispatched
<1> QED
  BY <1>2, <1>3, <1>4, <1>5, <1>6, PopDispatches DEF Next

\* The finding of the run `dispatch', for any bytes: of all the envelopes that come over
\* the serial line the virtual machine executes the first, and none after it, because
\* stream_pop_event ends with stream_parser_init.
THEOREM OnlyFirstRuns == Spec => []OnlyFirstDispatched
<1>1. Init => DispatchInv
  BY DEF Init, DispatchInv, OnlyFirstDispatched
<1>2. TypeOK /\ DispatchInv /\ [Next]_vars => DispatchInv'
  BY DispatchStep
<1>3. DispatchInv => OnlyFirstDispatched
  BY DEF DispatchInv
<1> QED
  BY <1>1, <1>2, <1>3, TypeCorrect, PTL DEF Spec

=============================================================================
