------------------------------- MODULE Stream -------------------------------
(***************************************************************************)
(* The stream parser (lib/stream.c) between two producers of bytes and its *)
(* host.  A serial line brings frames of EnvSize bytes, with noise between *)
(* them (the firmware logs on the same UART) and with bytes lost on the    *)
(* way; stream_inject_* pushes whole frames into the same parser; the host *)
(* pops an event as soon as it sees one (process_serial_to_mesh in         *)
(* firmware/main/main.cpp, readLoop in web/omi_web_serial.js).             *)
(*                                                                         *)
(* The first `filled' bytes of StreamParser.buffer are the sequence        *)
(* `buffer'; what is behind them is never read.                            *)
(***************************************************************************)
EXTENDS Integers, Sequences

CONSTANTS Byte,       \* the values of a byte that matter
          Header,     \* CANONICAL_PREHEADER
          EnvSize,    \* OMI_ENV_SIZE
          Frames,     \* the frames that are sent or injected
          Noise,      \* bytes of other output on the serial line
          MaxSent,    \* bound: frames and noise bytes sent
          MaxLost,    \* bound: bytes lost
          MaxInjected \* bound: frames injected

HeaderLen == Len(Header)

\* 0xFF opens the preheader and closes it, and is nowhere else in it.
ASSUME StreamAssumption ==
  /\ Header \in Seq(Byte) /\ HeaderLen > 1
  /\ \A i \in 1..HeaderLen : Header[i] = Header[1] <=> i \in {1, HeaderLen}
  /\ EnvSize \in Nat /\ EnvSize > HeaderLen
  /\ Frames \subseteq {f \in Seq(Byte) : /\ Len(f) = EnvSize
                                         /\ \A i \in 1..HeaderLen : f[i] = Header[i]}
  /\ Noise \subseteq Byte \ {Header[1]}
  /\ MaxSent \in Nat /\ MaxLost \in Nat /\ MaxInjected \in Nat

\* OMI_ENV_SIZE is 64 and the preheader 8 bytes long.  What is behind the preheader
\* is long enough that no frame ends in the middle of another one's preheader
\* which its own closing 0xFF began.
ASSUME PayloadAssumption == EnvSize >= 2 * HeaderLen - 1

VARIABLES
  state,      \* StreamState
  buffer,     \* buffer[0 .. filled - 1]
  matched,    \* gauge_match_count
  envelope,   \* the completed frame
  auto,       \* auto_dispatch
  vm,         \* whether a virtual machine is attached
  runs,       \* how often the envelope has been executed
  line,       \* what is on the serial line: frames, and noise of one byte
  off,        \* how many bytes of Head(line) are gone
  inj,        \* the frame that stream_inject_* is pushing, or <<>>
  injOff,     \* how many bytes of it are pushed
  popped,     \* the events the host has popped
  fed,        \* the frames pushed to the end with no byte missing
  disturbed,  \* a byte was lost, or a frame injected into the middle of one
  intact,     \* no disturbance in Head(line) so far
  whole,      \* plain frames pushed in a row since a disturbance, at most two
  recent,     \* the last bytes pushed since the parser was reset
  sent, lost, injected   \* counters, for the bounds

parser == <<state, buffer, matched, envelope, auto, vm, runs, recent>>
counters == <<sent, lost, injected>>
vars == <<parser, line, off, inj, injOff, popped, fed, disturbed, intact, whole, counters>>

\* What stream_parser_init leaves; the hosts then switch dispatching on.
Init ==
  /\ state = "WAITING" /\ buffer = <<>> /\ matched = 0
  /\ envelope = <<>> /\ runs = 0 /\ recent = <<>>
  /\ auto = TRUE /\ vm = TRUE
  /\ line = <<>> /\ off = 0 /\ inj = <<>> /\ injOff = 0
  /\ popped = <<>> /\ fed = <<>> /\ disturbed = FALSE /\ intact = TRUE /\ whole = 0
  /\ sent = 0 /\ lost = 0 /\ injected = 0

-----------------------------------------------------------------------------
(* stream_push_byte. *)

\* omi_env_validate: every later test follows from the first one.
Validate(e) == SubSeq(e, 1, HeaderLen) = Header

\* The last HeaderLen bytes of s.
LastBytes(s) == IF Len(s) > HeaderLen THEN Tail(s) ELSE s

PushWaiting(b) ==
  /\ state = "WAITING"
  /\ recent' = LastBytes(Append(recent, b))
  /\ IF b = Header[1]
     THEN state' = "HEADER" /\ buffer' = <<b>> /\ matched' = 1
     ELSE UNCHANGED <<state, buffer, matched>>
  /\ UNCHANGED <<envelope, auto, vm, runs>>

\* Mutant of PushHeader: a mismatch always goes back to waiting.
PushHeaderForget(b) ==
  /\ state = "HEADER"
  /\ recent' = LastBytes(Append(recent, b))
  /\ LET k == Len(buffer) + 1
     IN  IF b = Header[k]
         THEN /\ buffer' = Append(buffer, b) /\ matched' = matched + 1
              /\ state' = IF k < HeaderLen THEN "HEADER" ELSE "PAYLOAD"
         ELSE state' = "WAITING" /\ buffer' = <<>> /\ matched' = 0
  /\ UNCHANGED <<envelope, auto, vm, runs>>

\* Mutant of PushHeader: a second 0xFF leaves the count of matches.
PushHeaderStale(b) ==
  /\ state = "HEADER"
  /\ recent' = LastBytes(Append(recent, b))
  /\ LET k == Len(buffer) + 1
     IN  IF b = Header[k]
         THEN /\ buffer' = Append(buffer, b) /\ matched' = matched + 1
              /\ state' = IF k < HeaderLen THEN "HEADER"
                          ELSE IF matched + 1 = HeaderLen THEN "PAYLOAD" ELSE "INVALID"
         ELSE IF b = Header[1]
         THEN buffer' = <<b>> /\ UNCHANGED <<state, matched>>
         ELSE state' = "WAITING" /\ buffer' = <<>> /\ matched' = 0
  /\ UNCHANGED <<envelope, auto, vm, runs>>

\* Mutant of PushHeader: a mismatch is passed over.
PushHeaderOver(b) ==
  /\ state = "HEADER"
  /\ recent' = LastBytes(Append(recent, b))
  /\ LET k == Len(buffer) + 1
     IN  IF b = Header[k]
         THEN /\ buffer' = Append(buffer, b) /\ matched' = matched + 1
              /\ state' = IF k < HeaderLen THEN "HEADER" ELSE "PAYLOAD"
         ELSE UNCHANGED <<state, buffer, matched>>
  /\ UNCHANGED <<envelope, auto, vm, runs>>

\* A byte that does not continue the preheader may start another one.
PushHeader(b) ==
  /\ state = "HEADER"
  /\ recent' = LastBytes(Append(recent, b))
  /\ LET k == Len(buffer) + 1
     IN  IF b = Header[k]
         THEN /\ buffer' = Append(buffer, b) /\ matched' = matched + 1
              /\ state' = IF k < HeaderLen THEN "HEADER"
                          ELSE IF matched + 1 = HeaderLen THEN "PAYLOAD" ELSE "INVALID"
         ELSE IF b = Header[1]
         THEN buffer' = <<b>> /\ matched' = 1 /\ UNCHANGED state
         ELSE state' = "WAITING" /\ buffer' = <<>> /\ matched' = 0
  /\ UNCHANGED <<envelope, auto, vm, runs>>

\* Mutants of PushPayload: one byte too many, one byte too few.
PushPayloadPast(b) ==
  /\ state = "PAYLOAD"
  /\ buffer' = Append(buffer, b)
  /\ recent' = LastBytes(Append(recent, b))
  /\ IF Len(buffer) = EnvSize
     THEN envelope' = buffer /\ state' = "COMPLETE"
     ELSE UNCHANGED <<envelope, state>>
  /\ UNCHANGED <<runs, matched, auto, vm>>

PushPayloadShort(b) ==
  /\ state = "PAYLOAD"
  /\ buffer' = Append(buffer, b)
  /\ recent' = LastBytes(Append(recent, b))
  /\ IF Len(buffer) + 2 = EnvSize
     THEN envelope' = Append(buffer, b) /\ state' = "COMPLETE"
     ELSE UNCHANGED <<envelope, state>>
  /\ UNCHANGED <<runs, matched, auto, vm>>

\* The last byte completes the envelope, and executes it if so configured.
PushPayload(b) ==
  /\ state = "PAYLOAD"
  /\ buffer' = Append(buffer, b)
  /\ recent' = LastBytes(Append(recent, b))
  /\ IF Len(buffer) + 1 = EnvSize
     THEN /\ envelope' = Append(buffer, b)
          /\ state' = IF Validate(envelope') THEN "COMPLETE" ELSE "INVALID"
          /\ runs' = IF Validate(envelope') /\ auto /\ vm THEN runs + 1 ELSE runs
     ELSE UNCHANGED <<envelope, state, runs>>
  /\ UNCHANGED <<matched, auto, vm>>

PushIgnored(b) == state \in {"COMPLETE", "INVALID"} /\ UNCHANGED parser

Push(b) == PushWaiting(b) \/ PushHeader(b) \/ PushPayload(b) \/ PushIgnored(b)

-----------------------------------------------------------------------------
(* The serial line. *)

\* The other end writes a frame, or something else.
Send ==
  /\ sent < MaxSent /\ sent' = sent + 1
  /\ \E f \in Frames \cup {<<b>> : b \in Noise} : line' = Append(line, f)
  /\ UNCHANGED <<parser, off, inj, injOff, popped, fed, disturbed, intact, whole, lost, injected>>

\* No payload byte of f looks like the beginning of a preheader.
Plain(f) == \A i \in (HeaderLen + 1)..EnvSize : f[i] # Header[1]

\* One more byte of Head(line) is gone; the line moves on after the last one.
Advance(ok) ==
  LET f == Head(line)
  IN  IF off + 1 < Len(f)
      THEN off' = off + 1 /\ intact' = ok /\ UNCHANGED <<line, fed>>
      ELSE /\ off' = 0 /\ intact' = TRUE /\ line' = Tail(line)
           /\ fed' = IF ok /\ f \in Frames THEN Append(fed, f) ELSE fed

\* The host reads a byte.  It popped the event of the byte before, if any.
PushSerial ==
  /\ line # <<>> /\ inj = <<>> /\ state # "COMPLETE"
  /\ Push(Head(line)[off + 1])
  /\ Advance(intact)
  /\ whole' = IF ~intact \/ off + 1 < EnvSize THEN whole
              ELSE IF ~Plain(Head(line)) THEN 0
              ELSE IF whole < 2 THEN whole + 1 ELSE whole
  /\ UNCHANGED <<inj, injOff, popped, disturbed, counters>>

\* A byte is lost between the two ends.
LoseByte ==
  /\ line # <<>> /\ inj = <<>> /\ lost < MaxLost /\ lost' = lost + 1
  /\ Advance(FALSE)
  /\ disturbed' = TRUE /\ whole' = 0
  /\ UNCHANGED <<parser, inj, injOff, popped, sent, injected>>

-----------------------------------------------------------------------------
(* The host. *)

\* stream_inject_*: a frame is pushed, whatever the parser is in the middle of.
Inject ==
  /\ inj = <<>> /\ injected < MaxInjected /\ injected' = injected + 1
  /\ state # "COMPLETE"
  /\ \E f \in Frames : inj' = f
  /\ injOff' = 0
  /\ IF off > 0 \/ state # "WAITING"
     THEN disturbed' = TRUE /\ whole' = 0 /\ intact' = (intact /\ off = 0)
     ELSE UNCHANGED <<disturbed, whole, intact>>
  /\ UNCHANGED <<parser, line, off, popped, fed, sent, lost>>

\* Nothing else runs until the last byte of it is pushed.
PushInjected ==
  /\ inj # <<>>
  /\ Push(inj[injOff + 1])
  /\ IF injOff + 1 < Len(inj)
     THEN injOff' = injOff + 1 /\ UNCHANGED <<inj, fed>>
     ELSE injOff' = 0 /\ inj' = <<>> /\ fed' = Append(fed, inj)
  /\ UNCHANGED <<line, off, popped, disturbed, intact, whole, counters>>

\* stream_execute, called by the host; the parser's envelope runs once more.
Execute ==
  /\ inj = <<>> /\ state = "COMPLETE" /\ vm
  /\ runs < 2 /\ runs' = runs + 1
  /\ UNCHANGED <<state, buffer, matched, envelope, auto, vm, recent, line, off, inj, injOff,
                 popped, fed, disturbed, intact, whole, counters>>

\* stream_pop_event hands out the event and clears the whole parser, the
\* configuration included.
Pop ==
  /\ inj = <<>> /\ state = "COMPLETE"
  /\ popped' = Append(popped, [env |-> envelope, runs |-> runs])
  /\ state' = "WAITING" /\ buffer' = <<>> /\ matched' = 0
  /\ envelope' = <<>> /\ runs' = 0 /\ recent' = <<>>
  /\ auto' = FALSE /\ vm' = FALSE
  /\ UNCHANGED <<line, off, inj, injOff, fed, disturbed, intact, whole, counters>>

-----------------------------------------------------------------------------
Next == Send \/ PushSerial \/ LoseByte \/ Inject \/ PushInjected \/ Execute \/ Pop

Spec == Init /\ [][Next]_vars

-----------------------------------------------------------------------------
(* Properties. *)

Event == [env: Seq(Byte), runs: Nat]

\* The parser's fields are of their types, and `filled' never passes the end
\* of the buffer.
TypeOK ==
  /\ state \in {"WAITING", "HEADER", "PAYLOAD", "COMPLETE", "INVALID"}
  /\ buffer \in Seq(Byte) /\ Len(buffer) <= EnvSize
  /\ matched \in 0..HeaderLen
  /\ envelope \in Seq(Byte) /\ runs \in Nat
  /\ auto \in BOOLEAN /\ vm \in BOOLEAN
  /\ line \in Seq(Frames \cup {<<b>> : b \in Noise}) /\ off \in Nat
  /\ inj \in Frames \cup {<<>>} /\ injOff \in Nat
  /\ popped \in Seq(Event) /\ fed \in Seq(Frames)
  /\ disturbed \in BOOLEAN /\ intact \in BOOLEAN /\ whole \in 0..2

\* Whatever bytes arrive, lost, mixed or noise, the parser never gets into
\* INVALID, where it would ignore every byte from then on (nothing resets it
\* there: stream_pop_event refuses).  The count of matches and the fill level
\* never drift apart, and an envelope always starts with the preheader.
NeverInvalid == state # "INVALID"

\* How many bytes at the end of s are the beginning of the preheader: the
\* longest such prefix, short of the whole.
Border(s) ==
  CHOOSE k \in 0..(HeaderLen - 1) :
    LET fits(j) == j <= Len(s) /\ SubSeq(s, Len(s) - j + 1, Len(s)) = SubSeq(Header, 1, j)
    IN  fits(k) /\ \A j \in (k + 1)..(HeaderLen - 1) : ~fits(j)

\* No preheader passes unnoticed while the parser looks for one: it has
\* matched as much of it as the bytes before allow, also when a preheader
\* begins inside a broken one.
HeaderFound ==
  state \in {"WAITING", "HEADER"} => Len(buffer) = Border(recent) /\ recent # Header

\* The envelopes the host has, or is about to pop.
Envelopes ==
  [i \in DOMAIN popped |-> popped[i].env] \o (IF state = "COMPLETE" THEN <<envelope>> ELSE <<>>)

\* As long as no byte is lost and no frame is injected into the middle of
\* another, the host gets exactly the frames that were pushed, in that order,
\* whatever noise is between them and whatever bytes they contain.
InOrder == ~disturbed => Envelopes = fed

\* The parser recovers from any disturbance: after a whole frame whose payload does
\* not contain 0xFF it is where the line is, and of two such frames in a row the host
\* has the second.  (The first may still be eaten into.)
Resync ==
  whole > 0 /\ off = 0 /\ inj = <<>> =>
    /\ state \in {"WAITING", "COMPLETE"}
    /\ whole = 2 => Envelopes # <<>> /\ Envelopes[Len(Envelopes)] = fed[Len(fed)]

\* What firmware/README.md says: completed envelopes are dispatched.
EveryEnvelopeDispatched == \A i \in DOMAIN popped : popped[i].runs > 0

=============================================================================
