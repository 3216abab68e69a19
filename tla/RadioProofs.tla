---------------------------- MODULE RadioProofs ----------------------------
(***************************************************************************)
(* Proofs about Radio: for any number of chunks, polls, calls and frames,  *)
(* and a chip that ends its operations when it likes or never, the pins,   *)
(* what send reports and what a signalled reception reads are right.       *)
(***************************************************************************)
EXTENDS Radio, TLAPS

-----------------------------------------------------------------------------
(* The inductive invariant. *)

Transmitting == pc \in {"load", "fire", "tx"}

\* The chip does not listen while the host sends, and the call under way has not
\* returned.
Underway ==
  /\ pc \in {"cad", "load", "fire", "tx"} =>
       chip # "rx" /\ calls > 0 /\ calls \notin sent /\ calls \notin refused
  /\ pc = "cad" => chip # "tx" /\ chunk = 1
  /\ pc = "fire" => buffer = Own(calls, chunk)

\* What has gone out, or is about to, comes from a call that was not refused, and
\* not from one that still listens.
Admitted ==
  \A n \in 1..MaxCalls, k \in 1..Chunks :
    Own(n, k) \in onAir \/ Own(n, k) = sending =>
      n <= calls /\ n \notin refused /\ (pc = "cad" => n # calls)

\* As long as every wait of a call has seen the transmission end, the chunks it has
\* passed have gone out, and TX_DONE is up or has been seen only for the current one.
Progress ==
  Transmitting /\ calls \notin blind =>
    /\ \A k \in 1..Chunks : k < chunk => Own(calls, k) \in onAir
    /\ pc \in {"load", "fire"} => chip # "tx" /\ "TX_DONE" \notin irq
    /\ pc = "tx" /\ chip = "tx" =>
         sending = Own(calls, chunk) /\ "TX_DONE" \notin irq \cup seen
    /\ pc = "tx" /\ "TX_DONE" \in irq \cup seen => Own(calls, chunk) \in onAir

\* The buffer and what has been delivered come from frames that have come in.  While
\* RX_DONE is up the buffer holds a new one, until it is read.
Reading ==
  /\ \A n \in 1..MaxHeard : Air(n) \in delivered \/ Air(n) = buffer => n <= heard
  /\ "RX_DONE" \in irq => pc = "clear" \/ (~Transmitting /\ buffer \in Heard \ delivered)
  /\ pc \in {"rx", "read"} /\ "RX_DONE" \in seen => buffer \in Heard \ delivered

Inv == /\ TypeOK /\ PinsFollow /\ ReturnIsTrue
       /\ Underway /\ Admitted /\ Progress /\ Reading

-----------------------------------------------------------------------------
(* Facts about the data. *)

\* Chunks and frames are told apart by their numbers.
LEMMA Distinct ==
  /\ \A n, k, m, j : Own(n, k) = Own(m, j) <=> n = m /\ k = j
  /\ \A n, m : Air(n) = Air(m) <=> n = m
  /\ \A n, k, m : Own(n, k) # Air(m)
  /\ \A n, k : Own(n, k) # Nothing
  /\ \A n : Air(n) # Nothing
  BY DEF Own, Air, Nothing

LEMMA Contents ==
  /\ \A n \in 1..MaxCalls, k \in 1..Chunks : Own(n, k) \in Owned
  /\ \A x \in Owned : \E n \in 1..MaxCalls, k \in 1..Chunks : x = Own(n, k)
  /\ \A n \in 1..MaxHeard : Air(n) \in Content
  /\ Nothing \in Content /\ Owned \subseteq Content
  BY DEF Owned, Content

-----------------------------------------------------------------------------
(* Each step keeps the invariant, whatever the chip does between two steps. *)

\* A poll copies the flags, and one that finds RX_DONE has found a new frame.
LEMMA PollKeeps ==
  ASSUME Inv, NEW op \in {"cad", "tx", "rx"}, Poll(op)
  PROVE  Inv'
<1>1. TypeOK'
  BY RadioAssumption
     DEF Inv, TypeOK, Flag, Mode, CadFlags, Poll, Signalled, Awaited, chipVars, pins, returns
<1>2. PinsFollow'
  BY DEF Inv, PinsFollow, Poll, Signalled, Awaited, chipVars, pins, returns
<1>3. ReturnIsTrue'
  BY DEF Inv, ReturnIsTrue, Poll, Signalled, Awaited, chipVars, pins, returns
<1>4. Underway'
  BY DEF Inv, Underway, Poll, Signalled, Awaited, chipVars, pins, returns
<1>5. Admitted'
  BY DEF Inv, Admitted, Poll, Signalled, Awaited, chipVars, pins, returns
<1>6. Progress'
  BY DEF Inv, Progress, Transmitting, Poll, Signalled, Awaited, chipVars, pins, returns
<1>7. Reading'
  BY DEF Inv, Reading, Transmitting, Heard, Poll, Signalled, Awaited, chipVars, pins, returns
<1> QED BY <1>1, <1>2, <1>3, <1>4, <1>5, <1>6, <1>7 DEF Inv

\* The call begins with a number that nothing on the air has.
LEMMA SendCadKeeps ==
  ASSUME Inv, SendCad
  PROVE  Inv'
<1>1. TypeOK'
  BY RadioAssumption
     DEF Inv, TypeOK, Flag, Mode, CadFlags, SendCad, StartWait, Command, pins, returns
<1>2. PinsFollow'
  BY DEF Inv, PinsFollow, SendCad, StartWait, Command, pins, returns
<1>3. ReturnIsTrue'
  BY DEF Inv, ReturnIsTrue, SendCad, StartWait, Command, pins, returns
<1>4. Underway'
  BY DEF Inv, TypeOK, Underway, SendCad, StartWait, Command, pins, returns
<1>5. Admitted'
  BY Distinct DEF Inv, TypeOK, Admitted, SendCad, StartWait, Command, pins, returns
<1>6. Progress'
  BY DEF Inv, Progress, Transmitting, SendCad, StartWait, Command, pins, returns
<1>7. Reading'
  BY DEF Inv, Reading, Transmitting, Heard, SendCad, StartWait, Command, pins, returns
<1> QED BY <1>1, <1>2, <1>3, <1>4, <1>5, <1>6, <1>7 DEF Inv

\* The channel check leaves no flag up; a refused call has put nothing on the air.
LEMMA CadDoneKeeps ==
  ASSUME Inv, CadDone
  PROVE  Inv'
<1>1. TypeOK'
  <2>1. pc' \in {"idle", "load"} /\ (refused' = refused \/ refused' = refused \cup {calls})
    BY DEF CadDone
  <2>2. calls \in 1..calls
    BY DEF Inv, TypeOK, Underway, CadDone, WaitOver
  <2>3. refused' \subseteq 1..calls
    BY <2>1, <2>2 DEF Inv, TypeOK
  <2> QED BY <2>1, <2>3 DEF Inv, TypeOK, CadDone, pins
<1>2. PinsFollow'
  BY DEF Inv, PinsFollow, CadDone, WaitOver, pins
<1>3. ReturnIsTrue'
  <2>1. /\ pc = "cad" /\ onAir' = onAir /\ sent' = sent /\ blind' = blind
        /\ refused' = refused \/ refused' = refused \cup {calls}
    BY DEF CadDone, WaitOver
  <2>2. calls \in 1..MaxCalls
    BY RadioAssumption, <2>1 DEF Inv, TypeOK, Underway
  <2>3. \A k \in 1..Chunks : Own(calls, k) \notin onAir
    BY <2>1, <2>2 DEF Inv, Admitted
  <2> QED BY <2>1, <2>3 DEF Inv, ReturnIsTrue
<1>4. Underway'
  BY DEF Inv, Underway, CadDone, WaitOver, pins
<1>5. Admitted'
  BY DEF Inv, Admitted, CadDone, WaitOver, pins
<1>6. Progress'
  <2>1. pc = "cad" /\ calls' = calls /\ blind' = blind /\ irq' = {} /\ chip' = chip
          /\ pc' \in {"idle", "load"} /\ chunk' = chunk /\ chunk = 1
    BY DEF CadDone, WaitOver, Inv, Underway
  <2> QED BY <2>1 DEF Inv, Underway, Progress, Transmitting
<1>7. Reading'
  BY DEF Inv, Reading, Transmitting, Heard, CadDone, WaitOver, pins
<1> QED BY <1>1, <1>2, <1>3, <1>4, <1>5, <1>6, <1>7 DEF Inv

\* Loading a chunk ends the transmission before it.
LEMMA TxLoadKeeps ==
  ASSUME Inv, TxLoad
  PROVE  Inv'
<1>1. TypeOK'
  BY RadioAssumption, Contents
     DEF Inv, TypeOK, Underway, Flag, Mode, CadFlags, TxLoad, pins, returns
<1>2. PinsFollow'
  BY DEF Inv, PinsFollow, TxLoad, pins, returns
<1>3. ReturnIsTrue'
  BY DEF Inv, ReturnIsTrue, TxLoad, pins, returns
<1>4. Underway'
  BY DEF Inv, Underway, TxLoad, pins, returns
<1>5. Admitted'
  BY Distinct DEF Inv, TypeOK, Admitted, TxLoad, pins, returns
<1>6. Progress'
  BY DEF Inv, Progress, Transmitting, TxLoad, pins, returns
<1>7. Reading'
  BY Distinct DEF Inv, TypeOK, Reading, Transmitting, Heard, TxLoad, pins, returns
<1> QED BY <1>1, <1>2, <1>3, <1>4, <1>5, <1>6, <1>7 DEF Inv

LEMMA TxFireKeeps ==
  ASSUME Inv, TxFire
  PROVE  Inv'
<1>1. TypeOK'
  BY RadioAssumption, Contents
     DEF Inv, TypeOK, Underway, Flag, Mode, CadFlags, TxFire, StartWait, Command, returns
<1>2. PinsFollow'
  BY DEF Inv, PinsFollow, TxFire, StartWait, Command, returns
<1>3. ReturnIsTrue'
  BY DEF Inv, ReturnIsTrue, TxFire, StartWait, Command, returns
<1>4. Underway'
  BY DEF Inv, Underway, TxFire, StartWait, Command, returns
<1>5. Admitted'
  BY Distinct DEF Inv, TypeOK, Underway, Admitted, TxFire, StartWait, Command, returns
<1>6. Progress'
  BY DEF Inv, TypeOK, Underway, Progress, Transmitting, TxFire, StartWait, Command, returns
<1>7. Reading'
  BY DEF Inv, Reading, Transmitting, Heard, TxFire, StartWait, Command, returns
<1> QED BY <1>1, <1>2, <1>3, <1>4, <1>5, <1>6, <1>7 DEF Inv

LEMMA TxTimeoutKeeps ==
  ASSUME Inv, TxTimeout
  PROVE  Inv'
<1>1. TypeOK'
  BY DEF Inv, TypeOK, Flag, Mode, CadFlags, TxTimeout, WaitOver, chipVars, returns
<1>2. PinsFollow'
  BY DEF Inv, PinsFollow, TxTimeout, WaitOver, chipVars, returns
<1>3. ReturnIsTrue'
  BY DEF Inv, ReturnIsTrue, TxTimeout, WaitOver, chipVars, returns
<1>4. Underway'
  BY DEF Inv, Underway, TxTimeout, WaitOver, chipVars, returns
<1>5. Admitted'
  BY DEF Inv, Admitted, TxTimeout, WaitOver, chipVars, returns
<1>6. Progress'
  BY DEF Inv, Progress, Transmitting, TxTimeout, WaitOver, chipVars, returns
<1>7. Reading'
  BY DEF Inv, Reading, Transmitting, Heard, TxTimeout, WaitOver, chipVars, returns
<1> QED BY <1>1, <1>2, <1>3, <1>4, <1>5, <1>6, <1>7 DEF Inv

\* A wait that was seen to end has put its chunk on the air.
LEMMA TxDoneKeeps ==
  ASSUME Inv, TxDone
  PROVE  Inv'
<1>1. TypeOK'
  <2>1. /\ pc' \in {"idle", "load"}
        /\ sent' = sent \/ sent' = sent \cup {calls}
        /\ blind' = blind \/ blind' = blind \cup {calls}
    BY DEF TxDone
  <2>2. chunk' \in 1..Chunks
    BY RadioAssumption DEF Inv, TypeOK, TxDone
  <2>3. calls \in 1..calls
    BY DEF Inv, TypeOK, Underway, TxDone, WaitOver
  <2>4. sent' \subseteq 1..calls /\ blind' \subseteq 1..calls
    BY <2>1, <2>3 DEF Inv, TypeOK
  <2> QED BY <2>1, <2>2, <2>4 DEF Inv, TypeOK, TxDone
<1>2. PinsFollow'
  BY DEF Inv, PinsFollow, TxDone, WaitOver, Signalled, Awaited
<1>3. ReturnIsTrue'
  <2>1. /\ pc = "tx" /\ onAir' = onAir /\ refused' = refused
        /\ blind \subseteq blind' /\ (calls \notin blind' => "TX_DONE" \in seen)
    BY DEF TxDone, WaitOver, Signalled, Awaited
  <2>2. ASSUME NEW n \in sent' \ blind', NEW k \in 1..Chunks
        PROVE  Own(n, k) \in onAir
    <3>1. CASE n \in sent
      BY <2>1, <2>2, <3>1 DEF Inv, ReturnIsTrue
    <3>2. CASE n \notin sent
      <4>1. n = calls /\ chunk = Chunks /\ calls \notin blind
        BY <2>1, <2>2, <3>2, RadioAssumption DEF TxDone, Inv, TypeOK
      <4>2. k < chunk \/ k = chunk
        BY <4>1, RadioAssumption
      <4> QED BY <2>1, <2>2, <4>1, <4>2 DEF Inv, Progress, Transmitting
    <3> QED BY <3>1, <3>2
  <2> QED BY <2>1, <2>2 DEF Inv, ReturnIsTrue
<1>4. Underway'
  BY DEF Inv, Underway, TxDone, WaitOver, Signalled, Awaited
<1>5. Admitted'
  BY DEF Inv, Admitted, TxDone, WaitOver, Signalled, Awaited
<1>6. Progress'
  BY DEF Inv, TypeOK, Progress, Transmitting, TxDone, WaitOver, Signalled, Awaited
<1>7. Reading'
  BY DEF Inv, Reading, Transmitting, Heard, TxDone, WaitOver, Signalled, Awaited
<1> QED BY <1>1, <1>2, <1>3, <1>4, <1>5, <1>6, <1>7 DEF Inv

LEMMA RecvStartKeeps ==
  ASSUME Inv, RecvStart
  PROVE  Inv'
<1>1. TypeOK'
  BY RadioAssumption DEF Inv, TypeOK, Flag, Mode, CadFlags, RecvStart, StartWait, Command, returns
<1>2. PinsFollow'
  BY DEF Inv, PinsFollow, RecvStart, StartWait, Command, returns
<1>3. ReturnIsTrue'
  BY DEF Inv, ReturnIsTrue, RecvStart, StartWait, Command, returns
<1>4. Underway'
  BY DEF Inv, Underway, RecvStart, StartWait, Command, returns
<1>5. Admitted'
  BY Distinct DEF Inv, TypeOK, Admitted, RecvStart, StartWait, Command, returns
<1>6. Progress'
  BY DEF Inv, Progress, Transmitting, RecvStart, StartWait, Command, returns
<1>7. Reading'
  BY DEF Inv, Reading, Transmitting, Heard, RecvStart, StartWait, Command, returns
<1> QED BY <1>1, <1>2, <1>3, <1>4, <1>5, <1>6, <1>7 DEF Inv

LEMMA RecvTimeoutKeeps ==
  ASSUME Inv, RecvTimeout
  PROVE  Inv'
<1>1. TypeOK'
  BY DEF Inv, TypeOK, Flag, Mode, CadFlags, RecvTimeout, WaitOver, returns
<1>2. PinsFollow'
  BY DEF Inv, PinsFollow, RecvTimeout, WaitOver, returns
<1>3. ReturnIsTrue'
  BY DEF Inv, ReturnIsTrue, RecvTimeout, WaitOver, returns
<1>4. Underway'
  BY DEF Inv, Underway, RecvTimeout, WaitOver, returns
<1>5. Admitted'
  BY DEF Inv, Admitted, RecvTimeout, WaitOver, returns
<1>6. Progress'
  BY DEF Inv, Progress, Transmitting, RecvTimeout, WaitOver, returns
<1>7. Reading'
  BY DEF Inv, Reading, Transmitting, Heard, RecvTimeout, WaitOver, returns
<1> QED BY <1>1, <1>2, <1>3, <1>4, <1>5, <1>6, <1>7 DEF Inv

LEMMA RecvDoneKeeps ==
  ASSUME Inv, RecvDone
  PROVE  Inv'
<1>1. TypeOK'
  BY DEF Inv, TypeOK, Flag, Mode, CadFlags, RecvDone, WaitOver, chipVars, returns
<1>2. PinsFollow'
  BY DEF Inv, PinsFollow, RecvDone, WaitOver, chipVars, returns
<1>3. ReturnIsTrue'
  BY DEF Inv, ReturnIsTrue, RecvDone, WaitOver, chipVars, returns
<1>4. Underway'
  BY DEF Inv, Underway, RecvDone, WaitOver, chipVars, returns
<1>5. Admitted'
  BY DEF Inv, Admitted, RecvDone, WaitOver, chipVars, returns
<1>6. Progress'
  BY DEF Inv, Progress, Transmitting, RecvDone, WaitOver, chipVars, returns
<1>7. Reading'
  BY DEF Inv, Reading, Transmitting, Heard, RecvDone, WaitOver, chipVars, returns
<1> QED BY <1>1, <1>2, <1>3, <1>4, <1>5, <1>6, <1>7 DEF Inv

\* The frame that was new is one that has been delivered.
LEMMA RecvReadKeeps ==
  ASSUME Inv, RecvRead
  PROVE  Inv'
<1>1. TypeOK'
  BY DEF Inv, TypeOK, Flag, Mode, CadFlags, RecvRead, chipVars, pins
<1>2. PinsFollow'
  BY DEF Inv, PinsFollow, RecvRead, chipVars, pins
<1>3. ReturnIsTrue'
  BY DEF Inv, ReturnIsTrue, RecvRead, chipVars, pins
<1>4. Underway'
  BY DEF Inv, Underway, RecvRead, chipVars, pins
<1>5. Admitted'
  BY DEF Inv, Admitted, RecvRead, chipVars, pins
<1>6. Progress'
  BY DEF Inv, Progress, Transmitting, RecvRead, chipVars, pins
<1>7. Reading'
  BY DEF Inv, Reading, Transmitting, Heard, RecvRead, chipVars, pins
<1> QED BY <1>1, <1>2, <1>3, <1>4, <1>5, <1>6, <1>7 DEF Inv

LEMMA RecvClearKeeps ==
  ASSUME Inv, RecvClear
  PROVE  Inv'
<1>1. TypeOK'
  BY DEF Inv, TypeOK, Flag, Mode, CadFlags, RecvClear, pins, returns
<1>2. PinsFollow'
  BY DEF Inv, PinsFollow, RecvClear, pins, returns
<1>3. ReturnIsTrue'
  BY DEF Inv, ReturnIsTrue, RecvClear, pins, returns
<1>4. Underway'
  BY DEF Inv, Underway, RecvClear, pins, returns
<1>5. Admitted'
  BY DEF Inv, Admitted, RecvClear, pins, returns
<1>6. Progress'
  BY DEF Inv, Progress, Transmitting, RecvClear, pins, returns
<1>7. Reading'
  BY DEF Inv, Reading, Transmitting, Heard, RecvClear, pins, returns
<1> QED BY <1>1, <1>2, <1>3, <1>4, <1>5, <1>6, <1>7 DEF Inv

LEMMA ChipSensedKeeps ==
  ASSUME Inv, ChipSensed
  PROVE  Inv'
<1>1. TypeOK'
  BY DEF Inv, TypeOK, Flag, Mode, CadFlags, ChipSensed, Raise, pins, returns
<1>2. PinsFollow'
  BY DEF Inv, PinsFollow, ChipSensed, Raise, CadFlags, pins, returns
<1>3. ReturnIsTrue'
  BY DEF Inv, ReturnIsTrue, ChipSensed, Raise, CadFlags, pins, returns
<1>4. Underway'
  BY DEF Inv, Underway, ChipSensed, Raise, CadFlags, pins, returns
<1>5. Admitted'
  BY DEF Inv, Admitted, ChipSensed, Raise, CadFlags, pins, returns
<1>6. Progress'
  BY DEF Inv, Progress, Transmitting, ChipSensed, Raise, CadFlags, pins, returns
<1>7. Reading'
  BY DEF Inv, Reading, Transmitting, Heard, ChipSensed, Raise, CadFlags, pins, returns
<1> QED BY <1>1, <1>2, <1>3, <1>4, <1>5, <1>6, <1>7 DEF Inv

\* What goes on the air is the chunk of a call that was not refused.
LEMMA ChipSentKeeps ==
  ASSUME Inv, ChipSent
  PROVE  Inv'
<1>1. TypeOK'
  BY DEF Inv, TypeOK, Flag, Mode, CadFlags, ChipSent, Raise, pins, returns
<1>2. PinsFollow'
  BY DEF Inv, PinsFollow, ChipSent, Raise, pins, returns
<1>3. ReturnIsTrue'
  BY RadioAssumption DEF Inv, TypeOK, Admitted, ReturnIsTrue, ChipSent, Raise, pins, returns
<1>4. Underway'
  BY DEF Inv, Underway, ChipSent, Raise, pins, returns
<1>5. Admitted'
  BY Distinct DEF Inv, TypeOK, Admitted, ChipSent, Raise, pins, returns
<1>6. Progress'
  BY Distinct DEF Inv, TypeOK, Progress, Transmitting, ChipSent, Raise, pins, returns
<1>7. Reading'
  BY DEF Inv, Reading, Transmitting, Heard, ChipSent, Raise, pins, returns
<1> QED BY <1>1, <1>2, <1>3, <1>4, <1>5, <1>6, <1>7 DEF Inv

\* A frame that comes in is in the buffer, and is new.
LEMMA ChipHeardKeeps ==
  ASSUME Inv, ChipHeard
  PROVE  Inv'
<1>1. TypeOK'
  BY RadioAssumption, Contents
     DEF Inv, TypeOK, Flag, Mode, CadFlags, ChipHeard, Raise, pins, returns
<1>2. PinsFollow'
  BY DEF Inv, PinsFollow, ChipHeard, Raise, pins, returns
<1>3. ReturnIsTrue'
  BY DEF Inv, ReturnIsTrue, ChipHeard, Raise, pins, returns
<1>4. Underway'
  BY DEF Inv, Underway, ChipHeard, Raise, pins, returns
<1>5. Admitted'
  BY DEF Inv, Admitted, ChipHeard, Raise, pins, returns
<1>6. Progress'
  BY DEF Inv, Progress, Transmitting, ChipHeard, Raise, pins, returns
<1>7. Reading'
  BY RadioAssumption, Distinct
     DEF Inv, TypeOK, Underway, Reading, Transmitting, Heard, ChipHeard, Raise, pins, returns
<1> QED BY <1>1, <1>2, <1>3, <1>4, <1>5, <1>6, <1>7 DEF Inv

LEMMA ChipTimeoutKeeps ==
  ASSUME Inv, ChipTimeout
  PROVE  Inv'
<1>1. TypeOK'
  BY DEF Inv, TypeOK, Flag, Mode, CadFlags, ChipTimeout, Raise, pins, returns
<1>2. PinsFollow'
  BY DEF Inv, PinsFollow, ChipTimeout, Raise, pins, returns
<1>3. ReturnIsTrue'
  BY DEF Inv, ReturnIsTrue, ChipTimeout, Raise, pins, returns
<1>4. Underway'
  BY DEF Inv, Underway, ChipTimeout, Raise, pins, returns
<1>5. Admitted'
  BY DEF Inv, Admitted, ChipTimeout, Raise, pins, returns
<1>6. Progress'
  BY DEF Inv, Progress, Transmitting, ChipTimeout, Raise, pins, returns
<1>7. Reading'
  BY DEF Inv, Reading, Transmitting, Heard, ChipTimeout, Raise, pins, returns
<1> QED BY <1>1, <1>2, <1>3, <1>4, <1>5, <1>6, <1>7 DEF Inv

LEMMA Initially ==
  ASSUME Init
  PROVE  Inv
<1>1. TypeOK
  <2>1. 0 \in 0..TxPolls /\ 1 \in 1..Chunks /\ 0 \in 0..MaxCalls /\ 0 \in 0..MaxHeard
    BY RadioAssumption
  <2>2. chip \in Mode /\ enabled \subseteq Flag
    BY DEF Init, Mode, Flag, CadFlags
  <2> QED BY <2>1, <2>2, Contents DEF Init, TypeOK
<1>2. PinsFollow /\ ReturnIsTrue /\ Underway
  BY DEF Init, PinsFollow, ReturnIsTrue, Underway
<1>3. Admitted /\ Progress /\ Reading
  BY Distinct DEF Init, Admitted, Progress, Reading, Transmitting, CadFlags
<1> QED BY <1>1, <1>2, <1>3 DEF Inv

LEMMA EveryStep ==
  ASSUME Inv, [Next]_vars
  PROVE  Inv'
<1>1. CASE Send
  BY <1>1, SendCadKeeps, CadDoneKeeps, TxLoadKeeps, TxFireKeeps, TxTimeoutKeeps, TxDoneKeeps
     DEF Send
<1>2. CASE Recv
  BY <1>2, RecvStartKeeps, RecvTimeoutKeeps, RecvDoneKeeps, RecvReadKeeps, RecvClearKeeps
     DEF Recv
<1>3. CASE Wait
  BY <1>3, PollKeeps DEF Wait
<1>4. CASE Chip
  BY <1>4, ChipSensedKeeps, ChipSentKeeps, ChipHeardKeeps, ChipTimeoutKeeps DEF Chip
<1>5. CASE UNCHANGED vars
  BY <1>5 DEF vars, chipVars, pins, returns, Inv, TypeOK, PinsFollow, ReturnIsTrue, Underway,
              Admitted, Progress, Reading, Transmitting, Heard
<1> QED BY <1>1, <1>2, <1>3, <1>4, <1>5 DEF Next

-----------------------------------------------------------------------------
(* The theorems. *)

\* The invariant holds in every state.
THEOREM Invariance == Spec => []Inv
<1>1. Init => Inv
  BY Initially
<1>2. Inv /\ [Next]_vars => Inv'
  BY EveryStep
<1> QED BY <1>1, <1>2, PTL DEF Spec

\* Waits count down to 0 and no further, and every field keeps its range.
THEOREM TypeCorrect == Spec => []TypeOK
<1>1. Inv => TypeOK
  BY DEF Inv
<1> QED BY <1>1, Invariance, PTL

\* Whatever exit an operation takes, both amplifiers are off afterwards.
THEOREM AmplifiersFollow == Spec => []PinsFollow
<1>1. Inv => PinsFollow
  BY DEF Inv
<1> QED BY <1>1, Invariance, PTL

\* What send reports of a frame, sent or refused, is so, unless a wait was in vain.
THEOREM ReturnsAreTrue == Spec => []ReturnIsTrue
<1>1. Inv => ReturnIsTrue
  BY DEF Inv
<1> QED BY <1>1, Invariance, PTL

\* After a signal recv reads a frame that came in and was not read before.
THEOREM SignalledFramesAreFresh == Spec => []FreshIfSignalled
<1>1. Inv => FreshIfSignalled
  BY DEF Inv, Reading, FreshIfSignalled
<1> QED BY <1>1, Invariance, PTL

-----------------------------------------------------------------------------
(* Every call returns: how many steps of the host are left of it. *)

\* A chunk is loaded, fired, waited for and done with.
ChunkSteps == TxPolls + 3
ChunksLeft(k) == k * ChunkSteps

StepsLeft ==
  CASE pc = "idle"  -> 0
    [] pc = "cad"   -> ChunksLeft(Chunks - chunk + 1) + polls + 1
    [] pc = "load"  -> ChunksLeft(Chunks - chunk + 1)
    [] pc = "fire"  -> ChunksLeft(Chunks - chunk + 1) - 1
    [] pc = "tx"    -> ChunksLeft(Chunks - chunk) + polls + 1
    [] pc = "rx"    -> polls + 3
    [] pc = "read"  -> 2
    [] pc = "clear" -> 1

\* A call of send needs no more steps than the channel check and its chunks take, one of
\* recv no more than its wait, the reading and the clearing.
CallBounded ==
  /\ StepsLeft \in Nat
  /\ StepsLeft = 0 <=> pc = "idle"
  /\ pc \in {"cad", "load", "fire", "tx"} => StepsLeft <= TxPolls + 1 + ChunksLeft(Chunks)
  /\ pc \in {"rx", "read", "clear"} => StepsLeft <= RxPolls + 3

\* Whatever the host does in a call brings its end nearer, and nothing that the chip does
\* puts it off.
CallProgress ==
  pc # "idle" => StepsLeft' < StepsLeft \/ (Chip /\ StepsLeft' = StepsLeft)

\* A wait has no more polls left than it began with.
WaitsFit ==
  /\ pc \in {"cad", "tx"} => polls <= TxPolls
  /\ pc = "rx" => polls <= RxPolls

\* One more chunk is that many more steps.
LEMMA OneMoreChunk ==
  ASSUME NEW k \in Nat
  PROVE  /\ ChunkSteps \in Nat /\ ChunkSteps = TxPolls + 3
         /\ ChunksLeft(k) \in Nat
         /\ ChunksLeft(k + 1) = ChunksLeft(k) + ChunkSteps
<1>1. ChunkSteps \in Nat /\ ChunkSteps = TxPolls + 3
  BY RadioAssumption DEF ChunkSteps
<1>2. \A T \in Nat : k * T \in Nat /\ (k + 1) * T = k * T + T
  OBVIOUS
<1> QED BY <1>1, <1>2 DEF ChunksLeft

\* Fewer chunks do not take more steps.
LEMMA FewerChunks ==
  ASSUME NEW j \in Nat, NEW k \in Nat, j <= k
  PROVE  ChunksLeft(j) <= ChunksLeft(k)
<1>1. \A d \in Nat, T \in Nat : d * T \in Nat /\ (j + d) * T = j * T + d * T
  OBVIOUS
<1>2. PICK d \in Nat : k = j + d
  <2>1. k - j \in Nat /\ k = j + (k - j)
    OBVIOUS
  <2> QED BY <2>1
<1>3. ChunksLeft(k) = ChunksLeft(j) + d * ChunkSteps /\ d * ChunkSteps \in Nat
  BY <1>1, <1>2, OneMoreChunk DEF ChunksLeft
<1>4. ChunksLeft(j) \in Nat
  BY OneMoreChunk
<1> QED BY <1>3, <1>4

\* What is left after the chunk under way, and with it.
LEMMA ChunkUnderWay ==
  ASSUME TypeOK
  PROVE  /\ chunk \in 1..Chunks /\ Chunks \in Nat /\ TxPolls \in Nat /\ RxPolls \in Nat
         /\ polls \in Nat
         /\ ChunksLeft(Chunks - chunk) \in Nat
         /\ ChunksLeft(Chunks - chunk + 1) = ChunksLeft(Chunks - chunk) + TxPolls + 3
         /\ ChunksLeft(Chunks - chunk + 1) <= ChunksLeft(Chunks)
<1>1. /\ chunk \in 1..Chunks /\ Chunks \in Nat /\ TxPolls \in Nat /\ RxPolls \in Nat
      /\ polls \in Nat
  BY RadioAssumption DEF TypeOK
<1>2. Chunks - chunk \in Nat /\ Chunks - chunk + 1 \in Nat /\ Chunks - chunk + 1 <= Chunks
  BY <1>1
<1>3. ChunksLeft(Chunks - chunk + 1) <= ChunksLeft(Chunks)
  BY <1>1, <1>2, FewerChunks
<1>4. /\ ChunksLeft(Chunks - chunk) \in Nat
      /\ ChunksLeft(Chunks - chunk + 1) = ChunksLeft(Chunks - chunk) + (TxPolls + 3)
  BY <1>2, OneMoreChunk
<1> QED BY <1>1, <1>3, <1>4

LEMMA WaitsFitStep ==
  ASSUME TypeOK, WaitsFit, [Next]_vars
  PROVE  WaitsFit'
<1>1. CASE Send
  BY <1>1, RadioAssumption
     DEF WaitsFit, TypeOK, Send, SendCad, CadDone, TxLoad, TxFire, TxTimeout, TxDone, StartWait
<1>2. CASE Recv
  BY <1>2, RadioAssumption
     DEF WaitsFit, TypeOK, Recv, RecvStart, RecvTimeout, RecvDone, RecvRead, RecvClear, StartWait
<1>3. CASE Wait
  <2>1. PICK op \in {"cad", "tx", "rx"} : Poll(op)
    BY <1>3 DEF Wait
  <2>2. pc' = pc /\ polls' = polls - 1 /\ polls \in Nat /\ TxPolls \in Nat /\ RxPolls \in Nat
    BY <2>1, ChunkUnderWay DEF Poll
  <2> QED BY <2>2 DEF WaitsFit
<1>4. CASE Chip
  BY <1>4 DEF WaitsFit, Chip, ChipSensed, ChipSent, ChipHeard, ChipTimeout
<1>5. CASE UNCHANGED vars
  BY <1>5 DEF WaitsFit, vars
<1> QED BY <1>1, <1>2, <1>3, <1>4, <1>5 DEF Next

LEMMA BoundedByWaits ==
  ASSUME TypeOK, WaitsFit
  PROVE  CallBounded
<1> DEFINE Rest == ChunksLeft(Chunks - chunk)
           More == ChunksLeft(Chunks - chunk + 1)
           All  == ChunksLeft(Chunks)
<1>1. /\ TxPolls \in Nat /\ RxPolls \in Nat /\ polls \in Nat
      /\ Rest \in Nat /\ More = Rest + TxPolls + 3 /\ More <= All
  BY ChunkUnderWay
<1>2. All \in Nat
  BY ChunkUnderWay, OneMoreChunk
<1>3. pc \in {"idle", "cad", "load", "fire", "tx", "rx", "read", "clear"}
  BY DEF TypeOK
<1>4. StepsLeft = CASE pc = "idle"  -> 0
                    [] pc = "cad"   -> More + polls + 1
                    [] pc = "load"  -> More
                    [] pc = "fire"  -> More - 1
                    [] pc = "tx"    -> Rest + polls + 1
                    [] pc = "rx"    -> polls + 3
                    [] pc = "read"  -> 2
                    [] pc = "clear" -> 1
  BY DEF StepsLeft
<1> HIDE DEF Rest, More, All
<1>5. CASE pc \in {"idle", "rx", "read", "clear"}
  BY <1>1, <1>2, <1>4, <1>5 DEF WaitsFit, CallBounded
<1>6. CASE pc \in {"cad", "load", "fire", "tx"}
  BY <1>1, <1>2, <1>4, <1>6 DEF WaitsFit, CallBounded, All
<1> QED BY <1>3, <1>5, <1>6

LEMMA StepNearsReturn ==
  ASSUME TypeOK, TypeOK', [Next]_vars
  PROVE  CallProgress \/ UNCHANGED vars
<1> SUFFICES ASSUME pc # "idle", Next
             PROVE  StepsLeft' < StepsLeft \/ (Chip /\ StepsLeft' = StepsLeft)
  BY DEF CallProgress
<1> DEFINE Rest == ChunksLeft(Chunks - chunk)
           More == ChunksLeft(Chunks - chunk + 1)
<1>1. /\ chunk \in 1..Chunks /\ Chunks \in Nat /\ TxPolls \in Nat /\ polls \in Nat
      /\ Rest \in Nat /\ More = Rest + TxPolls + 3
  BY ChunkUnderWay
<1>2. polls' \in Nat
  BY RadioAssumption DEF TypeOK
<1>3. CASE Wait
  <2>1. PICK op \in {"cad", "tx", "rx"} : Poll(op)
    BY <1>3 DEF Wait
  <2>2. pc \in {"cad", "tx", "rx"} /\ pc' = pc /\ polls' = polls - 1 /\ chunk' = chunk
    BY <2>1 DEF Poll
  <2>3. /\ StepsLeft  = CASE pc = "cad" -> More + polls + 1
                          [] pc = "tx" -> Rest + polls + 1
                          [] pc = "rx" -> polls + 3
        /\ StepsLeft' = CASE pc = "cad" -> More + polls' + 1
                          [] pc = "tx" -> Rest + polls' + 1
                          [] pc = "rx" -> polls' + 3
    BY <2>2 DEF StepsLeft
  <2> HIDE DEF Rest, More
  <2> QED BY <1>1, <2>2, <2>3
<1>4. CASE CadDone
  <2>1. pc = "cad" /\ pc' \in {"idle", "load"} /\ chunk' = chunk
    BY <1>4 DEF CadDone, WaitOver
  <2>2. StepsLeft = More + polls + 1 /\ StepsLeft' = IF pc' = "idle" THEN 0 ELSE More
    BY <2>1 DEF StepsLeft
  <2> HIDE DEF Rest, More
  <2> QED BY <1>1, <2>2
<1>5. CASE TxLoad
  <2>1. pc = "load" /\ pc' = "fire" /\ chunk' = chunk
    BY <1>5 DEF TxLoad
  <2>2. StepsLeft = More /\ StepsLeft' = More - 1
    BY <2>1 DEF StepsLeft
  <2> HIDE DEF Rest, More
  <2> QED BY <1>1, <2>2
<1>6. CASE TxFire
  <2>1. pc = "fire" /\ pc' = "tx" /\ chunk' = chunk /\ polls' = TxPolls
    BY <1>6 DEF TxFire, StartWait
  <2>2. StepsLeft = More - 1 /\ StepsLeft' = Rest + TxPolls + 1
    BY <2>1 DEF StepsLeft
  <2> HIDE DEF Rest, More
  <2> QED BY <1>1, <2>2
<1>7. CASE TxTimeout \/ TxDone
  <2>1. pc = "tx" /\ (pc' = "idle" \/ (pc' = "load" /\ chunk' = chunk + 1 /\ chunk < Chunks))
    BY <1>7 DEF TxTimeout, TxDone, WaitOver
  <2>2. StepsLeft = Rest + polls + 1
    BY <2>1 DEF StepsLeft
  <2>3. StepsLeft' = 0 \/ StepsLeft' = Rest
    <3>1. CASE pc' = "idle"
      BY <3>1 DEF StepsLeft
    <3>2. CASE pc' = "load" /\ chunk' = chunk + 1
      <4>1. Chunks - chunk' + 1 = Chunks - chunk
        BY <1>1, <3>2
      <4> QED BY <3>2, <4>1 DEF StepsLeft
    <3> QED BY <2>1, <3>1, <3>2
  <2> HIDE DEF Rest, More
  <2> QED BY <1>1, <2>2, <2>3
<1>8. CASE Recv
  <2>1. \/ pc = "rx" /\ pc' \in {"idle", "read"}
        \/ pc = "read" /\ pc' = "clear"
        \/ pc = "clear" /\ pc' = "idle"
    BY <1>8 DEF Recv, RecvStart, RecvTimeout, RecvDone, RecvRead, RecvClear, WaitOver
  <2> QED BY <1>1, <2>1 DEF StepsLeft
<1>9. CASE Chip
  <2>1. pc' = pc /\ chunk' = chunk /\ polls' = polls
    BY <1>9 DEF Chip, ChipSensed, ChipSent, ChipHeard, ChipTimeout
  <2> QED BY <1>9, <2>1 DEF StepsLeft
<1> QED BY <1>3, <1>4, <1>5, <1>6, <1>7, <1>8, <1>9 DEF Next, Send, SendCad

LEMMA WaitsHold == Spec => [](TypeOK /\ WaitsFit)
<1>1. Init => WaitsFit
  BY DEF Init, WaitsFit
<1>2. TypeOK /\ WaitsFit /\ [Next]_vars => WaitsFit'
  BY WaitsFitStep
<1> QED BY <1>1, <1>2, TypeCorrect, PTL DEF Spec

\* A call of esp_send takes at most TxPolls + 1 steps for the channel check and
\* TxPolls + 3 for each chunk, one of esp_recv at most RxPolls + 3, chip or no chip.
THEOREM CallsAreBounded == Spec => []CallBounded
  BY WaitsHold, BoundedByWaits, PTL

\* The waits of omi_sx1262.cpp end by themselves: each step of the host in a call takes
\* one of the steps that are left of it, and no flag that the chip raises, in time, too
\* late or never, adds one.  A host that keeps running therefore gets back from every call.
THEOREM CallsComeToAnEnd == Spec => [][CallProgress]_vars
<1>1. TypeOK /\ TypeOK' /\ [Next]_vars => [CallProgress]_vars
  BY StepNearsReturn
<1> QED BY <1>1, TypeCorrect, PTL DEF Spec

=============================================================================
