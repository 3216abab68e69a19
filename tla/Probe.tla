-------------------------------- MODULE Probe --------------------------------
(***************************************************************************)
(* The probe handshake (lib/omi_probe.c) with the dispatch handlers it     *)
(* runs (lib/omi_dispatch.c), between two nodes joined by a transport that *)
(* keeps envelopes in order (lib/omi_transport_sim.c), or loses some (a    *)
(* radio).                                                                 *)
(*                                                                         *)
(* A node is one thread: it either runs omi_probe_handshake, one poll      *)
(* after another, or serves what arrives.  Both take one envelope and      *)
(* dispatch it without waiting; that is one step here.  A capability is a  *)
(* set of bits, and the instruction subset the intersection of two.        *)
(***************************************************************************)
EXTENDS Integers, Sequences

CONSTANTS Node,        \* the two nodes
          Initiators,  \* those that start handshakes
          Capability,  \* OMI_CPU.capability of each
          Posted,      \* operation codes of the other traffic
          BufSlots,    \* OMI_SIM_BUF_SIZE / OMI_ENV_SIZE
          MaxAttempts, \* OMI_PROBE_MAX_ATTEMPTS
          MaxCalls,    \* bound: calls that send of their own accord
          MaxLost,     \* bound: envelopes lost
          MaxRestarts  \* bound: restarts

\* The handlers that matter besides the handshake's: one that sends nothing
\* (NOP, and all that only touch registers), one that answers with a NOP (SEAL,
\* and ROUTE with the empty bitboard), one that sends the envelope back (SEND),
\* one that refuses (a gauge code above 127).
OtherOps == {"NOP", "SEAL", "SEND", "GAUGE_INVOKE"}

ASSUME ProbeAssumption ==
  /\ \E m, n \in Node : m # n /\ Node = {m, n}
  /\ \A n \in Node : Capability[n] # {}
  /\ Initiators \subseteq Node /\ Posted \subseteq OtherOps
  /\ BufSlots \in Nat \ {0} /\ MaxAttempts \in Nat \ {0}
  /\ MaxCalls \in Nat /\ MaxLost \in Nat /\ MaxRestarts \in Nat

Peer(n) == CHOOSE m \in Node : m # n

\* What two nodes can both execute.
Common(n) == Capability[n] \cap Capability[Peer(n)]

VARIABLES
  probeState,  \* OMI_CPU.probe_state
  peerCap,     \* OMI_CPU.peer_capability
  subset,      \* OMI_CPU.isa_subset
  session,     \* OMI_ProbeSession.state
  attempts,    \* polls that omi_probe_handshake has left; 0 when it does not run
  result,      \* what the last omi_probe_handshake returned
  rx,          \* the envelopes that wait at each node
  missed,      \* an envelope was lost or refused
  calls, lost, restarts   \* counters, for the bounds

cpu == <<probeState, peerCap, subset>>
counters == <<calls, lost, restarts>>
vars == <<cpu, session, attempts, result, rx, missed, counters>>

\* init_cpu, omi_probe_init and omi_transport_sim_init.
Init ==
  /\ probeState = [n \in Node |-> "IDLE"]
  /\ peerCap = [n \in Node |-> {}] /\ subset = [n \in Node |-> {}]
  /\ session = [n \in Node |-> "IDLE"]
  /\ attempts = [n \in Node |-> 0] /\ result = [n \in Node |-> "NONE"]
  /\ rx = [n \in Node |-> <<>>]
  /\ missed = FALSE /\ calls = 0 /\ lost = 0 /\ restarts = 0

-----------------------------------------------------------------------------
(* The transport. *)

Envelope(op, cap) == [op |-> op, cap |-> cap]
Probe(n) == Envelope("PROBE", Capability[n])
ProbeAck(n) == Envelope("PROBE_ACK", Capability[n])
SyncCommit == Envelope("SYNC_COMMIT", {})

\* How many envelopes still fit at the other node.
Room(n) == BufSlots - Len(rx[Peer(n)])

\* The first k of es, or all of them.
UpTo(k, es) == SubSeq(es, 1, IF k < Len(es) THEN k ELSE Len(es))

\* Mutant of Transfer: the buffer is tested before the envelope is counted in.
TransferPast(n, taken, es) ==
  LET q == IF taken THEN [rx EXCEPT ![n] = Tail(@)] ELSE rx
      fits == UpTo(Room(n) + 1, es)
  IN  rx' = [q EXCEPT ![Peer(n)] = @ \o fits] /\ missed' = (missed \/ Len(es) > Len(fits))

\* Node n takes its next envelope, if `taken', and sends es to the other node;
\* omi_transport_send_envelope fails (-3) when the buffer is full.
Transfer(n, taken, es) ==
  LET q == IF taken THEN [rx EXCEPT ![n] = Tail(@)] ELSE rx
      fits == UpTo(Room(n), es)
  IN  rx' = [q EXCEPT ![Peer(n)] = @ \o fits] /\ missed' = (missed \/ Len(es) > Len(fits))

-----------------------------------------------------------------------------
(* omi_dispatch_execute. *)

\* Mutant of Answer: a SYNC_COMMIT is always answered.
AnswerAlways(n, e) ==
  CASE e.op = "PROBE" -> <<ProbeAck(n)>>
    [] e.op = "SYNC_COMMIT" -> <<SyncCommit>>
    [] e.op = "SEAL" -> <<Envelope("NOP", {})>>
    [] e.op = "SEND" -> <<e>>
    [] OTHER -> <<>>

\* Mutant of Answer: a NEGOTIATED node does not answer PROBE either.
AnswerOnce(n, e) ==
  CASE e.op = "PROBE" /\ probeState[n] # "NEGOTIATED" -> <<ProbeAck(n)>>
    [] e.op = "SYNC_COMMIT" /\ probeState[n] # "NEGOTIATED" -> <<SyncCommit>>
    [] e.op = "SEAL" -> <<Envelope("NOP", {})>>
    [] e.op = "SEND" -> <<e>>
    [] OTHER -> <<>>

\* What the handler leaves in tx_buffer.  A node that is already NEGOTIATED
\* does not answer SYNC_COMMIT.
Answer(n, e) ==
  CASE e.op = "PROBE" -> <<ProbeAck(n)>>
    [] e.op = "SYNC_COMMIT" /\ probeState[n] # "NEGOTIATED" -> <<SyncCommit>>
    [] e.op = "SEAL" -> <<Envelope("NOP", {})>>
    [] e.op = "SEND" -> <<e>>
    [] OTHER -> <<>>

\* Mutant of Handle: a PROBE stores the capability, and not the intersection.
HandleNoSubset(n, e) ==
  /\ probeState' = IF e.op \in {"PROBE_ACK", "SYNC_COMMIT"}
                   THEN [probeState EXCEPT ![n] = "NEGOTIATED"] ELSE probeState
  /\ IF e.op \in {"PROBE", "PROBE_ACK"}
     THEN /\ peerCap' = [peerCap EXCEPT ![n] = e.cap]
          /\ subset' = IF e.op = "PROBE" THEN subset
                       ELSE [subset EXCEPT ![n] = Capability[n] \cap e.cap]
     ELSE UNCHANGED <<peerCap, subset>>

\* What the handler leaves in the CPU.
Handle(n, e) ==
  /\ probeState' = IF e.op \in {"PROBE_ACK", "SYNC_COMMIT"}
                   THEN [probeState EXCEPT ![n] = "NEGOTIATED"] ELSE probeState
  /\ IF e.op \in {"PROBE", "PROBE_ACK"}
     THEN /\ peerCap' = [peerCap EXCEPT ![n] = e.cap]
          /\ subset' = [subset EXCEPT ![n] = Capability[n] \cap e.cap]
     ELSE UNCHANGED <<peerCap, subset>>

-----------------------------------------------------------------------------
(* recv_and_dispatch, which omi_probe_serve and omi_probe_poll run. *)

Refused(e) == e.op = "GAUGE_INVOKE"

\* The answer does not fit into the peer's buffer.
Unsent(n, e) == Len(Answer(n, e)) > Room(n)

\* The session follows the envelope once it is dispatched and answered.
NextSession(n, e) ==
  CASE Refused(e) \/ Unsent(n, e) -> session[n]
    [] e.op = "PROBE_ACK" -> "ACKED"
    [] e.op = "SYNC_COMMIT" -> "SYNCED"
    [] OTHER -> session[n]

\* A node that runs no handshake takes the next envelope.
Serve(n) ==
  /\ attempts[n] = 0 /\ rx[n] # <<>>
  /\ LET e == Head(rx[n])
     IN  /\ Handle(n, e)
         /\ Transfer(n, TRUE, Answer(n, e))
         /\ session' = [session EXCEPT ![n] = NextSession(n, e)]
  /\ UNCHANGED <<attempts, result, counters>>

-----------------------------------------------------------------------------
(* The initiator. *)

\* omi_probe_start, by itself (its caller then polls and commits: SendSync,
\* Serve) or as the beginning of omi_probe_handshake.
Start(n, polls) ==
  /\ n \in Initiators /\ attempts[n] = 0 /\ calls < MaxCalls /\ calls' = calls + 1
  /\ Transfer(n, FALSE, <<Probe(n)>>)
  /\ IF Room(n) = 0
     THEN UNCHANGED <<session, probeState, attempts>>
     ELSE /\ session' = [session EXCEPT ![n] = "SENT"]
          /\ probeState' = [probeState EXCEPT ![n] = "PROBING"]
          /\ attempts' = [attempts EXCEPT ![n] = polls]
  /\ result' = [result EXCEPT ![n] = IF polls > 0 /\ Room(n) = 0 THEN "ERROR" ELSE "NONE"]
  /\ UNCHANGED <<peerCap, subset, lost, restarts>>

\* omi_probe_send_sync, called when the peer has answered.
SendSync(n) ==
  /\ attempts[n] = 0 /\ session[n] = "ACKED"
  /\ calls < MaxCalls /\ calls' = calls + 1
  /\ Transfer(n, FALSE, <<SyncCommit>>)
  /\ UNCHANGED <<cpu, session, attempts, result, lost, restarts>>

\* The peer's stream carries other envelopes too.
Post(n) ==
  /\ attempts[n] = 0 /\ calls < MaxCalls /\ calls' = calls + 1
  /\ \E op \in Posted : Transfer(n, FALSE, <<Envelope(op, {})>>)
  /\ UNCHANGED <<cpu, session, attempts, result, lost, restarts>>

\* One attempt is used up; the last one fails the session (-4).
UseAttempt(n, s) ==
  /\ attempts' = [attempts EXCEPT ![n] = @ - 1]
  /\ session' = [session EXCEPT ![n] = IF attempts[n] = 1 THEN "FAILED" ELSE s]
  /\ result' = [result EXCEPT ![n] = IF attempts[n] = 1 THEN "FAILED" ELSE @]

Return(n, s, r) ==
  /\ attempts' = [attempts EXCEPT ![n] = 0]
  /\ session' = [session EXCEPT ![n] = s]
  /\ result' = [result EXCEPT ![n] = r]

\* Nothing has arrived (-3): polls do not wait.
PollNothing(n) ==
  /\ attempts[n] > 0 /\ rx[n] = <<>>
  /\ UseAttempt(n, session[n])
  /\ UNCHANGED <<cpu, rx, missed, counters>>

\* A handler refuses: the handshake returns its code.
PollRefused(n) ==
  /\ attempts[n] > 0 /\ rx[n] # <<>> /\ Refused(Head(rx[n]))
  /\ Transfer(n, TRUE, <<>>)
  /\ Return(n, session[n], "ERROR")
  /\ UNCHANGED <<cpu, counters>>

\* The session is ACKED after this envelope, whichever it was: commit.
PollCommit(n) ==
  /\ attempts[n] > 0 /\ rx[n] # <<>>
  /\ LET e == Head(rx[n])
     IN  /\ ~Refused(e) /\ ~Unsent(n, e) /\ NextSession(n, e) = "ACKED"
         /\ Handle(n, e)
         /\ Transfer(n, TRUE, Answer(n, e) \o <<SyncCommit>>)
  /\ IF Len(Answer(n, Head(rx[n]))) = Room(n)
     THEN Return(n, "ACKED", "ERROR")
     ELSE UseAttempt(n, "ACKED")
  /\ UNCHANGED counters

\* Both sides have committed: success.
PollSynced(n) ==
  /\ attempts[n] > 0 /\ rx[n] # <<>>
  /\ LET e == Head(rx[n])
     IN  /\ ~Refused(e) /\ ~Unsent(n, e) /\ NextSession(n, e) = "SYNCED"
         /\ Handle(n, e)
         /\ Transfer(n, TRUE, Answer(n, e))
  /\ Return(n, "SYNCED", "OK")
  /\ UNCHANGED counters

\* Any other envelope; or its answer cannot be sent, which gives -3 again and
\* is taken for "nothing has arrived".
PollOther(n) ==
  /\ attempts[n] > 0 /\ rx[n] # <<>>
  /\ LET e == Head(rx[n])
     IN  /\ ~Refused(e) /\ (Unsent(n, e) \/ NextSession(n, e) \notin {"ACKED", "SYNCED"})
         /\ Handle(n, e)
         /\ Transfer(n, TRUE, Answer(n, e))
  /\ UseAttempt(n, session[n])
  /\ UNCHANGED counters

Poll(n) ==
  PollNothing(n) \/ PollRefused(n) \/ PollCommit(n) \/ PollSynced(n) \/ PollOther(n)

-----------------------------------------------------------------------------
(* The medium and the nodes' power. *)

Lose(n) ==
  /\ lost < MaxLost /\ lost' = lost + 1
  /\ rx[n] # <<>> /\ rx' = [rx EXCEPT ![n] = Tail(@)] /\ missed' = TRUE
  /\ UNCHANGED <<cpu, session, attempts, result, calls, restarts>>

\* What node n sent before is still on its way to the other.
Restart(n) ==
  /\ restarts < MaxRestarts /\ restarts' = restarts + 1
  /\ probeState' = [probeState EXCEPT ![n] = "IDLE"]
  /\ peerCap' = [peerCap EXCEPT ![n] = {}] /\ subset' = [subset EXCEPT ![n] = {}]
  /\ session' = [session EXCEPT ![n] = "IDLE"]
  /\ attempts' = [attempts EXCEPT ![n] = 0] /\ result' = [result EXCEPT ![n] = "NONE"]
  /\ rx' = [rx EXCEPT ![n] = <<>>]
  /\ UNCHANGED <<missed, calls, lost>>

-----------------------------------------------------------------------------
Next ==
  \E n \in Node :
    \/ Start(n, 0) \/ Start(n, MaxAttempts)
    \/ SendSync(n) \/ Post(n) \/ Serve(n) \/ Poll(n)
    \/ Lose(n) \/ Restart(n)

Spec == Init /\ [][Next]_vars

\* Each node's loop keeps taking what arrives.
FairSpec == Spec /\ \A n \in Node : WF_vars(Serve(n)) /\ WF_vars(Poll(n))

-----------------------------------------------------------------------------
(* Properties. *)

Bits == UNION {Capability[n] : n \in Node}
Envelopes == [op: OtherOps \cup {"PROBE", "PROBE_ACK", "SYNC_COMMIT"}, cap: SUBSET Bits]

\* The fields are of their types, and no buffer holds more than it can.
TypeOK ==
  /\ probeState \in [Node -> {"IDLE", "PROBING", "NEGOTIATED"}]
  /\ peerCap \in [Node -> SUBSET Bits] /\ subset \in [Node -> SUBSET Bits]
  /\ session \in [Node -> {"IDLE", "SENT", "ACKED", "SYNCED", "FAILED"}]
  /\ attempts \in [Node -> 0..MaxAttempts]
  /\ result \in [Node -> {"NONE", "OK", "FAILED", "ERROR"}]
  /\ rx \in [Node -> Seq(Envelopes)] /\ \A n \in Node : Len(rx[n]) <= BufSlots
  /\ missed \in BOOLEAN /\ calls \in Nat /\ lost \in Nat /\ restarts \in Nat

\* As long as no node restarts: a node that is NEGOTIATED, or whose handshake
\* got as far as ACKED, has the same instruction subset as its peer, the
\* intersection of both capabilities; a SYNCED one knows that its peer takes
\* part too.  Lost envelopes, full buffers, repeated and crossing handshakes,
\* and answers to an earlier handshake do not change that.
CommittedAgree ==
  restarts = 0 =>
    \A n \in Node :
      /\ probeState[n] = "NEGOTIATED" \/ session[n] \in {"ACKED", "SYNCED"} \/ result[n] = "OK" =>
           subset[n] = Common(n) /\ subset[Peer(n)] = Common(n)
      /\ session[n] = "SYNCED" \/ result[n] = "OK" => probeState[Peer(n)] # "IDLE"

Quiet == \A n \in Node : rx[n] = <<>>

\* A handshake for which nothing is on its way any more, without any envelope
\* having been lost, waits only because both nodes have committed already:
\* it will fail (-4), and yet nothing is left to agree on.
StuckOnlyIfCommitted ==
  ~missed /\ restarts = 0 /\ Quiet =>
    \A n \in Node :
      session[n] = "SENT" \/ (session[n] = "ACKED" /\ attempts[n] > 0) =>
        session[n] = "ACKED" /\ \A m \in Node : probeState[m] = "NEGOTIATED"

\* The two nodes do not answer each other's answers for ever: a SYNC_COMMIT is
\* answered by another, which a NEGOTIATED node must not answer again.
Quiesces == <>[]Quiet

\* What .opencode/plans/spectrum-modem-isa-phases.md draws: the SYNC_COMMIT of
\* an initiator that waits is answered, so something is on its way to it as
\* long as nothing was lost.
CommitAnswered ==
  ~missed /\ restarts = 0 /\ Quiet =>
    \A n \in Node : ~(session[n] = "ACKED" /\ attempts[n] > 0)

=============================================================================
