------------------------------- MODULE Radio -------------------------------
(***************************************************************************)
(* The SX1262 driver of the firmware (firmware/main/omi_sx1262.cpp) below  *)
(* its transport (omi_esp_transport.cpp): three operations that command    *)
(* the chip and then poll its interrupt flags until one they wait for is   *)
(* there or the polls are used up.                                         *)
(*                                                                         *)
(* The host is one thread, so at most one operation is under way; the chip *)
(* runs by itself between any two steps of it.  What the chip does is      *)
(* external.  It ends an operation in its own time or never, and then      *)
(* raises a flag or none: at most those that the driver has enabled.       *)
(***************************************************************************)
EXTENDS Integers

CONSTANTS
  Chunks,    \* 64-byte chunks of what the host sends; a mesh envelope is one
  TxPolls,   \* polls of the waits for a transmission and for the channel
  RxPolls,   \* polls of the wait for a frame
  MaxCalls,  \* bound: calls of send
  MaxHeard   \* bound: frames on the air

ASSUME RadioAssumption ==
  /\ Chunks \in Nat \ {0} /\ TxPolls \in Nat \ {0} /\ RxPolls \in Nat \ {0}
  /\ MaxCalls \in Nat /\ MaxHeard \in Nat

VARIABLES
  (* the chip *)
  chip,       \* what it is doing
  irq,        \* the interrupt flags that are up
  enabled,    \* those that may go up
  buffer,     \* its data buffer, shared by both directions: one frame or chunk
  sending,    \* what the transmission under way will have sent when it ends whole
  (* the driver *)
  pc,         \* the operation under way and how far it is
  seen,       \* the local irq: the flags of the last poll
  polls,      \* the local timeout: polls that are left
  txEnable, rxEnable,  \* the two pins of the antenna switch
  calls,      \* the number of the last call of send
  chunk,      \* the chunk that call has come to
  (* histories, for the properties *)
  heard,      \* number of frames that have come in
  onAir,      \* chunks that have gone out whole
  sent,       \* calls of send that returned the length
  refused,    \* calls of send that returned -3
  blind,      \* calls of send in which a transmission was never seen to end
  delivered   \* what recv has returned

chipVars == <<chip, irq, enabled, buffer, sending, heard, onAir>>
pins     == <<txEnable, rxEnable>>
returns  == <<sent, refused, blind, delivered>>
vars     == <<chipVars, pc, seen, polls, pins, calls, chunk, returns>>

Flag == {"CAD_DONE", "CAD_DETECTED", "TX_DONE", "RX_DONE", "TIMEOUT"}
CadFlags == {"CAD_DONE", "CAD_DETECTED"}
Mode == {"standby", "cad", "tx", "rx"}

Own(n, k) == <<"own", n, k>>   \* chunk k of the n-th call of send
Air(n)    == <<"air", n>>      \* the n-th frame that came in
Nothing   == <<>>

Owned   == {Own(n, k) : n \in 1..MaxCalls, k \in 1..Chunks}
Heard   == {Air(n) : n \in 1..heard}
Content == {Nothing} \cup Owned \cup {Air(n) : n \in 1..MaxHeard}

\* What omi_esp_transport_create leaves: a chip in standby, both pins low.  The
\* flags of the channel check are enabled here and never again.
Init ==
  /\ chip = "standby" /\ irq = {} /\ enabled = CadFlags
  /\ buffer = Nothing /\ sending = Nothing
  /\ pc = "idle" /\ seen = {} /\ polls = 0
  /\ txEnable = FALSE /\ rxEnable = FALSE
  /\ calls = 0 /\ chunk = 1
  /\ heard = 0 /\ onAir = {} /\ sent = {} /\ refused = {} /\ blind = {} /\ delivered = {}

-----------------------------------------------------------------------------
(* The wait that the three operations share. *)

\* The flags that end the wait of an operation.
Awaited(op) ==
  CASE op = "cad" -> {"CAD_DONE"}
    [] op = "tx"  -> {"TX_DONE"}
    [] op = "rx"  -> {"RX_DONE", "TIMEOUT"}

\* The operation op begins to wait.
StartWait(op) ==
  /\ pc' = op
  /\ seen' = {}
  /\ polls' = IF op = "rx" THEN RxPolls ELSE TxPolls

\* An awaited flag is up, or there is no poll left.
Signalled(op) == seen \cap Awaited(op) # {}
WaitOver(op)  == pc = op /\ (Signalled(op) \/ polls = 0)

\* What the driver takes for a time-out is a count of 0.  A wait in vain leaves
\* the count at -1, since the loop decrements it once more; 0 is left by a wait
\* that its last poll ended.
TakenForTimeout(op) == Signalled(op) /\ polls = 0

\* Mutants of Poll: the loop does not look at the count; the count is taken only
\* if a flag is up.
PollUnbounded(op) ==
  /\ pc = op /\ ~Signalled(op)
  /\ seen' = irq
  /\ polls' = polls - 1
  /\ UNCHANGED <<chipVars, pc, pins, calls, chunk, returns>>

PollUncounted(op) ==
  /\ pc = op /\ ~Signalled(op) /\ polls > 0
  /\ seen' = irq
  /\ polls' = IF irq = {} THEN polls ELSE polls - 1
  /\ UNCHANGED <<chipVars, pc, pins, calls, chunk, returns>>

Poll(op) ==
  /\ pc = op /\ ~Signalled(op) /\ polls > 0
  /\ seen' = irq
  /\ polls' = polls - 1
  /\ UNCHANGED <<chipVars, pc, pins, calls, chunk, returns>>

-----------------------------------------------------------------------------
(* esp_send: listen, then transmit chunk after chunk. *)

\* A command takes the chip out of whatever it was doing.
Command(mode) == chip' = mode /\ sending' = IF mode = "tx" THEN buffer ELSE Nothing

SendCad ==
  /\ pc = "idle" /\ calls < MaxCalls
  /\ calls' = calls + 1 /\ chunk' = 1
  /\ Command("cad")
  /\ StartWait("cad")
  /\ UNCHANGED <<irq, enabled, buffer, heard, onAir, pins, returns>>

\* The channel is taken for busy if the wait was seen to end and the chip has
\* detected another sender.
ChannelBusy == ~TakenForTimeout("cad") /\ "CAD_DETECTED" \in seen

\* Mutant of CadDone: the flags are left as they are.
CadDoneUncleared ==
  /\ WaitOver("cad")
  /\ IF ChannelBusy
     THEN pc' = "idle" /\ refused' = refused \cup {calls}
     ELSE pc' = "load" /\ UNCHANGED refused
  /\ UNCHANGED <<chipVars, seen, polls, pins, calls, chunk, sent, blind, delivered>>

\* Every path through sx1262_cad clears all flags, those of others included; a
\* failure is only logged, and the frame sent anyway.
CadDone ==
  /\ WaitOver("cad")
  /\ irq' = {}
  /\ IF ChannelBusy
     THEN pc' = "idle" /\ refused' = refused \cup {calls}
     ELSE pc' = "load" /\ UNCHANGED refused
  /\ UNCHANGED <<chip, enabled, buffer, sending, heard, onAir, seen, polls, pins, calls, chunk,
                 sent, blind, delivered>>

\* sx126x_tx enables its flag and writes the chunk into the chip's buffer; a
\* transmission that is still under way is spoiled.
TxLoad ==
  /\ pc = "load"
  /\ enabled' = {"TX_DONE"}
  /\ buffer' = Own(calls, chunk)
  /\ sending' = Nothing
  /\ pc' = "fire"
  /\ UNCHANGED <<chip, irq, heard, onAir, seen, polls, pins, calls, chunk, returns>>

TxFire ==
  /\ pc = "fire"
  /\ txEnable' = TRUE
  /\ Command("tx")
  /\ StartWait("tx")
  /\ UNCHANGED <<irq, enabled, buffer, heard, onAir, rxEnable, calls, chunk, returns>>

\* Mutant of TxTimeout: the early return comes before the pin is lowered.
TxTimeoutPinHigh ==
  /\ WaitOver("tx") /\ TakenForTimeout("tx")
  /\ pc' = "idle"
  /\ UNCHANGED <<chipVars, seen, polls, pins, calls, chunk, returns>>

\* The early return clears no flag; esp_send gives up and returns -1.
TxTimeout ==
  /\ WaitOver("tx") /\ TakenForTimeout("tx")
  /\ txEnable' = FALSE
  /\ pc' = "idle"
  /\ UNCHANGED <<chipVars, seen, polls, rxEnable, calls, chunk, returns>>

TxDone ==
  /\ WaitOver("tx") /\ ~TakenForTimeout("tx")
  /\ txEnable' = FALSE
  /\ irq' = {}
  /\ blind' = IF Signalled("tx") THEN blind ELSE blind \cup {calls}
  /\ IF chunk < Chunks
     THEN pc' = "load" /\ chunk' = chunk + 1 /\ UNCHANGED sent
     ELSE pc' = "idle" /\ sent' = sent \cup {calls} /\ UNCHANGED chunk
  /\ UNCHANGED <<chip, enabled, buffer, sending, heard, onAir, seen, polls, rxEnable, calls,
                 refused, delivered>>

-----------------------------------------------------------------------------
(* esp_recv. *)

\* The flags are those that the driver means to enable.  That its command has a byte
\* too many in front, and that the bits in its header are not all the chip's, is not
\* modelled; a chip that for this reason raises none of them is one of the chips here.
RecvStart ==
  /\ pc = "idle"
  /\ enabled' = {"RX_DONE", "TIMEOUT"}
  /\ rxEnable' = TRUE
  /\ Command("rx")
  /\ StartWait("rx")
  /\ UNCHANGED <<irq, buffer, heard, onAir, txEnable, calls, chunk, returns>>

\* A frame that the last poll has seen is dropped here, with its flag.
RecvTimeout ==
  /\ WaitOver("rx") /\ ("TIMEOUT" \in seen \/ TakenForTimeout("rx"))
  /\ rxEnable' = FALSE
  /\ irq' = {}
  /\ pc' = "idle"
  /\ UNCHANGED <<chip, enabled, buffer, sending, heard, onAir, seen, polls, txEnable, calls, chunk,
                 returns>>

\* Otherwise the driver goes on to read the buffer, whether or not a frame came.
RecvDone ==
  /\ WaitOver("rx") /\ ~("TIMEOUT" \in seen \/ TakenForTimeout("rx"))
  /\ rxEnable' = FALSE
  /\ pc' = "read"
  /\ UNCHANGED <<chipVars, seen, polls, txEnable, calls, chunk, returns>>

RecvRead ==
  /\ pc = "read"
  /\ delivered' = delivered \cup {buffer}
  /\ pc' = "clear"
  /\ UNCHANGED <<chipVars, seen, polls, pins, calls, chunk, sent, refused, blind>>

\* Mutant of RecvClear: the time-out's flag is cleared in place of the frame's.
RecvClearTimeout ==
  /\ pc = "clear"
  /\ irq' = irq \ {"TIMEOUT"}
  /\ pc' = "idle"
  /\ UNCHANGED <<chip, enabled, buffer, sending, heard, onAir,
                 seen, polls, pins, calls, chunk, returns>>

\* All flags are cleared, that of a frame which came in since the read too.
RecvClear ==
  /\ pc = "clear"
  /\ irq' = {}
  /\ pc' = "idle"
  /\ UNCHANGED <<chip, enabled, buffer, sending, heard, onAir,
                 seen, polls, pins, calls, chunk, returns>>

-----------------------------------------------------------------------------
(* The chip. *)

\* Flags go up if they are enabled, or nothing does.
Raise(flags) == irq' \in {irq, irq \cup (flags \cap enabled)}

ChipSensed ==
  /\ chip = "cad"
  /\ chip' = "standby"
  /\ Raise({"CAD_DONE"}) \/ Raise(CadFlags)
  /\ UNCHANGED <<enabled, buffer, sending, heard, onAir, pc,
                 seen, polls, pins, calls, chunk, returns>>

ChipSent ==
  /\ chip = "tx"
  /\ chip' = "standby"
  /\ onAir' = onAir \cup ({sending} \ {Nothing})
  /\ sending' = Nothing
  /\ Raise({"TX_DONE"})
  /\ UNCHANGED <<enabled, buffer, heard, pc, seen, polls, pins, calls, chunk, returns>>

\* A frame comes in, in a wait or when the driver has long stopped waiting; the
\* chip may stop listening after it, or go on.
ChipHeard ==
  /\ chip = "rx" /\ heard < MaxHeard
  /\ heard' = heard + 1
  /\ buffer' = Air(heard + 1)
  /\ chip' \in {"rx", "standby"}
  /\ Raise({"RX_DONE"})
  /\ UNCHANGED <<enabled, sending, onAir, pc, seen, polls, pins, calls, chunk, returns>>

ChipTimeout ==
  /\ chip = "rx"
  /\ chip' = "standby"
  /\ Raise({"TIMEOUT"})
  /\ UNCHANGED <<enabled, buffer, sending, heard, onAir, pc,
                 seen, polls, pins, calls, chunk, returns>>

-----------------------------------------------------------------------------
Send == SendCad \/ CadDone \/ TxLoad \/ TxFire \/ TxTimeout \/ TxDone
Recv == RecvStart \/ RecvTimeout \/ RecvDone \/ RecvRead \/ RecvClear
Wait == \E op \in {"cad", "tx", "rx"} : Poll(op)
Chip == ChipSensed \/ ChipSent \/ ChipHeard \/ ChipTimeout

Next == Send \/ Recv \/ Wait \/ Chip

Spec == Init /\ [][Next]_vars

\* The host's thread keeps running; of the chip nothing is assumed.
FairSpec == Spec /\ WF_vars(Send \/ Recv \/ Wait)

-----------------------------------------------------------------------------
(* Properties. *)

TypeOK ==
  /\ chip \in Mode /\ irq \subseteq Flag /\ enabled \subseteq Flag /\ buffer \in Content
  /\ sending \in {Nothing} \cup Owned
  /\ pc \in {"idle", "cad", "load", "fire", "tx", "rx", "read", "clear"}
  /\ seen \subseteq Flag
  /\ polls \in 0..TxPolls \cup 0..RxPolls
  /\ txEnable \in BOOLEAN /\ rxEnable \in BOOLEAN
  /\ calls \in 0..MaxCalls /\ chunk \in 1..Chunks
  /\ heard \in 0..MaxHeard /\ onAir \subseteq Owned
  /\ sent \subseteq 1..calls /\ refused \subseteq 1..calls /\ blind \subseteq 1..calls
  /\ delivered \subseteq Content

\* The antenna switch: however an operation ends, by a flag, in vain, on its
\* last poll or with the channel busy, the amplifiers are off afterwards, and
\* never both on.
PinsFollow ==
  /\ txEnable => pc = "tx"
  /\ rxEnable => pc = "rx"

\* What esp_send returns is true: a frame it reports as sent has gone out whole,
\* every chunk, unless one of the waits ended in vain; one that it refuses has
\* not gone out at all.  It rests on the channel check before the first chunk,
\* which clears the TX_DONE that an early return has left behind.
ReturnIsTrue ==
  /\ \A n \in sent \ blind : \A k \in 1..Chunks : Own(n, k) \in onAir
  /\ \A n \in refused : \A k \in 1..Chunks : Own(n, k) \notin onAir

\* A frame that the chip has signalled is what the driver then reads: one that
\* came in, not the chunk it sent last, and not one recv has returned before.
\* (Without a signal the driver reads the buffer all the same, and returns any
\* of these once more.)
FreshIfSignalled ==
  pc = "read" /\ "RX_DONE" \in seen => buffer \in Heard \ delivered

\* The host's loop gets its thread back from every call, although the chip may
\* never answer.
Returns == pc # "idle" ~> pc = "idle"

=============================================================================
