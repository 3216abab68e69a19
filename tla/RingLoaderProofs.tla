-------------------------- MODULE RingLoaderProofs --------------------------
(***************************************************************************)
(* Proofs about RingLoader: what the run `viewer' checks of three calls of *)
(* the page holds for any number of calls, sockets, sources and loops.     *)
(***************************************************************************)
EXTENDS RingLoader, SequenceTheorems, FiniteSetTheorems, TLAPS

\* As many loops as are told apart, and one of them at least while polling is on:
\* StartLoop starts one unless there are MaxLoops, and a loop ends only in Wake and
\* only when polling is off.
LoopsOK ==
  /\ fetching + sleeping <= MaxLoops
  /\ polling => fetching + sleeping > 0

Inv == TypeOK /\ LoopsOK /\ NeverDeaf /\ OnlyEventsLeak

-----------------------------------------------------------------------------
(* What the methods have in common. *)

\* close() of the socket held: it is on its way to be closed, whatever it was; the
\* others are as they were, and every close event is still to come.
LEMMA ClosedSockets ==
  ASSUME TypeOK
  PROVE  /\ SocketsAfterClose \in Seq(SocketState)
         /\ Len(SocketsAfterClose) = Len(sockets)
         /\ \A s \in 1..Len(sockets) :
              IF s = ws THEN SocketsAfterClose[s] \in {"failing", "closing"}
                        ELSE SocketsAfterClose[s] = sockets[s]
<1>1. sockets \in Seq(SocketState) /\ DOMAIN sockets = 1..Len(sockets)
  BY DEF TypeOK
<1>2. \A s \in 1..Len(sockets) : sockets[s] \in SocketState
  BY <1>1
<1>3. ASSUME NEW s \in 1..Len(sockets)
      PROVE  /\ SocketsAfterClose[s] \in SocketState
             /\ IF s = ws THEN SocketsAfterClose[s] \in {"failing", "closing"}
                          ELSE SocketsAfterClose[s] = sockets[s]
  <2>1. SocketsAfterClose[s] = IF s = ws THEN AfterClose(sockets[s]) ELSE sockets[s]
    BY <1>1 DEF SocketsAfterClose
  <2>2. CASE s = ws
    <3>1. sockets[s] \in {"connecting", "open"}
      BY <2>2, <1>1 DEF TypeOK, None
    <3>2. AfterClose(sockets[s]) \in {"failing", "closing"}
      BY <3>1 DEF AfterClose
    <3> QED
      BY <2>1, <2>2, <3>2 DEF SocketState
  <2>3. CASE s # ws
    BY <2>1, <2>3, <1>2
  <2> QED
    BY <2>2, <2>3
<1>4. SocketsAfterClose = [s \in 1..Len(sockets) |-> SocketsAfterClose[s]]
  BY <1>1 DEF SocketsAfterClose
<1>5. SocketsAfterClose \in [1..Len(sockets) -> SocketState]
  BY <1>3, <1>4
<1> QED
  BY <1>1, <1>3, <1>5

\* close() of the source held: it is closed, and the others are as they were.
LEMMA ClosedSources ==
  ASSUME TypeOK
  PROVE  /\ SourcesAfterClose \in Seq(SourceState)
         /\ Len(SourcesAfterClose) = Len(sources)
         /\ \A e \in 1..Len(sources) :
              SourcesAfterClose[e] = IF e = sse THEN "closed" ELSE sources[e]
<1>1. sources \in Seq(SourceState) /\ DOMAIN sources = 1..Len(sources)
  BY DEF TypeOK
<1>2. \A e \in 1..Len(sources) : sources[e] \in SourceState
  BY <1>1
<1>3. SourcesAfterClose \in [1..Len(sources) -> SourceState]
  BY <1>1, <1>2 DEF SourcesAfterClose, SourceState
<1> QED
  BY <1>1, <1>3 DEF SourcesAfterClose

\* A new source takes the place of the one held, which is closed.
LEMMA RenewedSource ==
  ASSUME TypeOK, OnlyEventsLeak, RenewSource
  PROVE  /\ sources' \in Seq(SourceState) /\ sse' \in DOMAIN sources'
         /\ sources'[sse'] = "live" /\ ~polling'
         /\ (Live # {})'
         /\ \A e \in Live' \ {sse'} : <<"sse", e>> \in dropped
<1>1. /\ SourcesAfterClose \in Seq(SourceState)
      /\ Len(SourcesAfterClose) = Len(sources)
      /\ \A e \in 1..Len(sources) :
           SourcesAfterClose[e] = IF e = sse THEN "closed" ELSE sources[e]
  BY ClosedSources
<1>2. sources' = Append(SourcesAfterClose, "live") /\ sse' = Len(sources) + 1 /\ ~polling'
  BY DEF RenewSource
<1>3. Len(sources) \in Nat /\ DOMAIN sources = 1..Len(sources)
  BY DEF TypeOK
<1>4. "live" \in SourceState
  BY DEF SourceState
<1>5. /\ sources' \in Seq(SourceState) /\ DOMAIN sources' = 1..(Len(sources) + 1)
      /\ sources'[Len(sources) + 1] = "live"
      /\ \A e \in 1..Len(sources) : sources'[e] = SourcesAfterClose[e]
  BY <1>1, <1>2, <1>3, <1>4, AppendProperties
<1>6. sse' \in DOMAIN sources' /\ sources'[sse'] = "live"
  BY <1>2, <1>3, <1>5
<1>7. ASSUME NEW e \in Live' \ {sse'}
      PROVE  <<"sse", e>> \in dropped
  <2>1. e \in 1..Len(sources) /\ sources'[e] = "live"
    BY <1>2, <1>3, <1>5 DEF Live
  <2>2. sources[e] = "live" /\ e # sse
    BY <2>1, <1>1, <1>5
  <2> QED
    BY <2>1, <2>2, <1>3 DEF OnlyEventsLeak, Live
<1> QED
  BY <1>2, <1>5, <1>6, <1>7 DEF Live

\* The same of disconnect, and of connectWS: the source is closed and forgotten.
LEMMA ForgottenSource ==
  ASSUME TypeOK, OnlyEventsLeak, sources' = SourcesAfterClose, sse' = None
  PROVE  /\ sources' \in Seq(SourceState)
         /\ \A e \in Live' \ {sse'} : <<"sse", e>> \in dropped
<1>1. /\ SourcesAfterClose \in Seq(SourceState)
      /\ Len(SourcesAfterClose) = Len(sources)
      /\ \A e \in 1..Len(sources) :
           SourcesAfterClose[e] = IF e = sse THEN "closed" ELSE sources[e]
  BY ClosedSources
<1>2. DOMAIN sources = 1..Len(sources) /\ DOMAIN sources' = 1..Len(sources)
  BY <1>1 DEF TypeOK
<1>3. ASSUME NEW e \in Live'
      PROVE  <<"sse", e>> \in dropped
  <2>1. e \in 1..Len(sources) /\ sources[e] = "live" /\ e # sse
    BY <1>1, <1>2 DEF Live
  <2> QED
    BY <2>1, <1>2 DEF OnlyEventsLeak, Live
<1> QED
  BY <1>1, <1>3

\* Nothing is up and unheld but what a handler let go of, when the socket is closed
\* and forgotten.
LEMMA ForgottenSocket ==
  ASSUME TypeOK, OnlyEventsLeak, sockets' = SocketsAfterClose
  PROVE  /\ sockets' \in Seq(SocketState)
         /\ \A s \in DOMAIN sockets' :
              sockets'[s] \in {"connecting", "open"} => <<"ws", s>> \in dropped
<1>1. /\ SocketsAfterClose \in Seq(SocketState)
      /\ Len(SocketsAfterClose) = Len(sockets)
      /\ \A s \in 1..Len(sockets) :
           IF s = ws THEN SocketsAfterClose[s] \in {"failing", "closing"}
                     ELSE SocketsAfterClose[s] = sockets[s]
  BY ClosedSockets
<1>2. DOMAIN sockets = 1..Len(sockets) /\ DOMAIN sockets' = 1..Len(sockets)
  BY <1>1 DEF TypeOK
<1>3. ASSUME NEW s \in DOMAIN sockets', sockets'[s] \in {"connecting", "open"}
      PROVE  <<"ws", s>> \in dropped
  <2>1. s # ws /\ sockets[s] = sockets'[s]
    BY <1>1, <1>2, <1>3
  <2> QED
    BY <2>1, <1>2, <1>3 DEF OnlyEventsLeak
<1> QED
  BY <1>1, <1>3

\* However many loops there are already, after StartLoop polling is on and one runs.
LEMMA StartedLoop ==
  ASSUME TypeOK, LoopsOK, StartLoop
  PROVE  /\ fetching' \in 0..MaxLoops /\ sleeping' \in 0..MaxLoops /\ polling'
         /\ LoopsOK'
  BY RingAssumption DEF TypeOK, LoopsOK, StartLoop

-----------------------------------------------------------------------------
(* The steps. *)

LEMMA InitInv == Init => Inv
<1> SUFFICES ASSUME Init PROVE Inv
  OBVIOUS
<1>1. TypeOK
  <2>1. <<>> \in Seq(SocketState) /\ <<>> \in Seq(SourceState)
    OBVIOUS
  <2>2. 0 \in 0..MaxLoops
    BY RingAssumption
  <2> QED
    BY <2>1, <2>2 DEF Init, TypeOK
<1>2. LoopsOK
  BY RingAssumption DEF Init, LoopsOK
<1>3. DOMAIN sockets = {} /\ DOMAIN sources = {} /\ ~wanted
  BY DEF Init
<1>4. NeverDeaf /\ OnlyEventsLeak
  BY <1>3 DEF NeverDeaf, OnlyEventsLeak, Live
<1> QED
  BY <1>1, <1>2, <1>4 DEF Inv

\* The new socket is pending; the one held before is closed.
LEMMA ConnectWSStep == Inv /\ ConnectWS => Inv'
<1> SUFFICES ASSUME Inv, ConnectWS PROVE Inv'
  OBVIOUS
<1> USE DEF Inv
<1>1. /\ sources' \in Seq(SourceState)
      /\ \A e \in Live' \ {sse'} : <<"sse", e>> \in dropped
  BY ForgottenSource DEF ConnectWS
<1>2. /\ SocketsAfterClose \in Seq(SocketState)
      /\ Len(SocketsAfterClose) = Len(sockets)
      /\ \A s \in 1..Len(sockets) :
           IF s = ws THEN SocketsAfterClose[s] \in {"failing", "closing"}
                     ELSE SocketsAfterClose[s] = sockets[s]
  BY ClosedSockets
<1>3. Len(sockets) \in Nat /\ DOMAIN sockets = 1..Len(sockets)
  BY DEF TypeOK
<1>4. sockets' = Append(SocketsAfterClose, "connecting") /\ ws' = Len(sockets) + 1
  BY DEF ConnectWS
<1>5. "connecting" \in SocketState
  BY DEF SocketState
<1>6. /\ sockets' \in Seq(SocketState) /\ DOMAIN sockets' = 1..(Len(sockets) + 1)
      /\ sockets'[Len(sockets) + 1] = "connecting"
      /\ \A s \in 1..Len(sockets) : sockets'[s] = SocketsAfterClose[s]
  BY <1>2, <1>3, <1>4, <1>5, AppendProperties
<1>7. ws' \in DOMAIN sockets' /\ sockets'[ws'] = "connecting"
  BY <1>3, <1>4, <1>6
<1>8. TypeOK'
  BY <1>1, <1>6, <1>7 DEF TypeOK, ConnectWS, Call, None, loops
<1>9. LoopsOK'
  BY DEF LoopsOK, ConnectWS, loops
<1>10. NeverDeaf'
  BY <1>7 DEF NeverDeaf, Pending
<1>11. ASSUME NEW s \in DOMAIN sockets', s # ws', sockets'[s] \in {"connecting", "open"}
       PROVE  <<"ws", s>> \in dropped'
  <2>1. s \in 1..Len(sockets)
    BY <1>3, <1>4, <1>6, <1>11
  <2>2. s # ws /\ sockets[s] = sockets'[s]
    BY <2>1, <1>2, <1>6, <1>11
  <2> QED
    BY <2>1, <2>2, <1>3, <1>11 DEF OnlyEventsLeak, ConnectWS, Call
<1>12. OnlyEventsLeak'
  BY <1>1, <1>11 DEF OnlyEventsLeak, ConnectWS, Call
<1> QED
  BY <1>8, <1>9, <1>10, <1>12

\* The new source is live; the socket and the source held before are closed.
LEMMA ConnectSSEStep == Inv /\ ConnectSSE => Inv'
<1> SUFFICES ASSUME Inv, ConnectSSE PROVE Inv'
  OBVIOUS
<1> USE DEF Inv
<1>1. /\ sources' \in Seq(SourceState) /\ sse' \in DOMAIN sources'
      /\ sources'[sse'] = "live" /\ ~polling' /\ Live' # {}
      /\ \A e \in Live' \ {sse'} : <<"sse", e>> \in dropped
  BY RenewedSource DEF ConnectSSE
<1>2. /\ sockets' \in Seq(SocketState)
      /\ \A s \in DOMAIN sockets' :
           sockets'[s] \in {"connecting", "open"} => <<"ws", s>> \in dropped
  BY ForgottenSocket DEF ConnectSSE
<1>3. polling' = FALSE
  BY DEF ConnectSSE, RenewSource
<1>4. TypeOK'
  BY <1>1, <1>2, <1>3 DEF TypeOK, ConnectSSE, Call, loops
<1>5. LoopsOK' /\ NeverDeaf'
  BY <1>1 DEF LoopsOK, NeverDeaf, ConnectSSE, loops
<1>6. OnlyEventsLeak'
  BY <1>1, <1>2 DEF OnlyEventsLeak, ConnectSSE, Call
<1> QED
  BY <1>4, <1>5, <1>6

LEMMA PollFrameStep == Inv /\ PollFrame => Inv'
<1> SUFFICES ASSUME Inv, PollFrame PROVE Inv'
  OBVIOUS
<1> USE DEF Inv
<1>1. fetching' \in 0..MaxLoops /\ sleeping' \in 0..MaxLoops /\ polling' /\ LoopsOK'
  BY StartedLoop DEF PollFrame
<1>2. polling' = TRUE
  BY DEF PollFrame, StartLoop
<1>3. TypeOK'
  BY <1>1, <1>2 DEF TypeOK, PollFrame, Call
<1>4. NeverDeaf'
  BY <1>1 DEF NeverDeaf, LoopsOK
<1>5. OnlyEventsLeak'
  BY DEF OnlyEventsLeak, PollFrame, Call, Live
<1> QED
  BY <1>1, <1>3, <1>4, <1>5

LEMMA StopPollingStep == Inv /\ StopPolling => Inv'
  BY DEF Inv, StopPolling, Call, TypeOK, LoopsOK, NeverDeaf, OnlyEventsLeak, Live, loops

LEMMA DisconnectStep == Inv /\ Disconnect => Inv'
<1> SUFFICES ASSUME Inv, Disconnect PROVE Inv'
  OBVIOUS
<1> USE DEF Inv
<1>1. /\ sources' \in Seq(SourceState)
      /\ \A e \in Live' \ {sse'} : <<"sse", e>> \in dropped
  BY ForgottenSource DEF Disconnect
<1>2. /\ sockets' \in Seq(SocketState)
      /\ \A s \in DOMAIN sockets' :
           sockets'[s] \in {"connecting", "open"} => <<"ws", s>> \in dropped
  BY ForgottenSocket DEF Disconnect
<1>3. TypeOK'
  BY <1>1, <1>2 DEF TypeOK, Disconnect, Call, loops
<1>4. LoopsOK' /\ NeverDeaf'
  BY DEF LoopsOK, NeverDeaf, Disconnect, Call, loops
<1>5. OnlyEventsLeak'
  BY <1>1, <1>2 DEF OnlyEventsLeak, Disconnect, Call
<1> QED
  BY <1>3, <1>4, <1>5

\* One socket changes its state, and what is held stays or is forgotten.
LEMMA OneSocket ==
  ASSUME TypeOK, NEW s \in DOMAIN sockets, NEW state \in SocketState,
         sockets' = [sockets EXCEPT ![s] = state]
  PROVE  /\ sockets' \in Seq(SocketState) /\ DOMAIN sockets' = DOMAIN sockets
         /\ sockets'[s] = state
         /\ \A t \in DOMAIN sockets : t # s => sockets'[t] = sockets[t]
<1>1. sockets \in Seq(SocketState) /\ DOMAIN sockets = 1..Len(sockets)
  BY DEF TypeOK
<1> QED
  BY <1>1, ExceptSeq

LEMMA SocketOpensStep ==
  ASSUME Inv, NEW s \in DOMAIN sockets, SocketOpens(s)
  PROVE  Inv'
<1> USE DEF Inv
<1>1. /\ sockets' \in Seq(SocketState) /\ DOMAIN sockets' = DOMAIN sockets
      /\ sockets'[s] = "open"
      /\ \A t \in DOMAIN sockets : t # s => sockets'[t] = sockets[t]
  BY OneSocket DEF SocketOpens, SocketState
<1>2. sockets[s] = "connecting" /\ UNCHANGED <<ws, sse, polling, lastFrame, sources,
                                               fetching, sleeping, wanted, heard, dropped>>
  BY DEF SocketOpens, loops, history
<1>3. TypeOK'
  BY <1>1, <1>2 DEF TypeOK
<1>4. s \in Pending'
  BY <1>1 DEF Pending
<1>5. LoopsOK' /\ NeverDeaf'
  BY <1>2, <1>4 DEF LoopsOK, NeverDeaf
<1>6. OnlyEventsLeak'
  BY <1>1, <1>2 DEF OnlyEventsLeak, Live
<1> QED
  BY <1>3, <1>5, <1>6

LEMMA SocketMessageStep ==
  ASSUME Inv, NEW s \in DOMAIN sockets, NEW frame \in Frame, SocketMessage(s, frame)
  PROVE  Inv'
  BY DEF Inv, SocketMessage, Emit, TypeOK, LoopsOK, NeverDeaf, OnlyEventsLeak, Pending, Live,
         loops, history

\* The socket held, if it is another, is let go of; the source that takes over is live.
LEMMA SocketClosesStep ==
  ASSUME Inv, NEW s \in DOMAIN sockets, SocketCloses(s)
  PROVE  Inv'
<1> USE DEF Inv
<1>1. /\ sources' \in Seq(SourceState) /\ sse' \in DOMAIN sources'
      /\ sources'[sse'] = "live" /\ ~polling' /\ Live' # {}
      /\ \A e \in Live' \ {sse'} : <<"sse", e>> \in dropped
  BY RenewedSource DEF SocketCloses
<1>2. /\ sockets' \in Seq(SocketState) /\ DOMAIN sockets' = DOMAIN sockets
      /\ sockets'[s] = "closed"
      /\ \A t \in DOMAIN sockets : t # s => sockets'[t] = sockets[t]
  BY OneSocket DEF SocketCloses, SocketState
<1>3. /\ ws' = None /\ dropped' = dropped \cup {<<"ws", ws>>} /\ polling' = FALSE
      /\ UNCHANGED <<lastFrame, fetching, sleeping, wanted, heard>>
  BY DEF SocketCloses, RenewSource, loops, history
<1>4. TypeOK'
  BY <1>1, <1>2, <1>3 DEF TypeOK
<1>5. LoopsOK' /\ NeverDeaf'
  BY <1>1, <1>3 DEF LoopsOK, NeverDeaf
<1>6. OnlyEventsLeak'
  BY <1>1, <1>2, <1>3 DEF OnlyEventsLeak
<1> QED
  BY <1>4, <1>5, <1>6

\* The socket held is closed as well as the one that fails.
LEMMA SocketFailsStep ==
  ASSUME Inv, NEW s \in DOMAIN sockets, SocketFails(s)
  PROVE  Inv'
<1> USE DEF Inv
<1>1. /\ sources' \in Seq(SourceState) /\ sse' \in DOMAIN sources'
      /\ sources'[sse'] = "live" /\ ~polling' /\ Live' # {}
      /\ \A e \in Live' \ {sse'} : <<"sse", e>> \in dropped
  BY RenewedSource DEF SocketFails
<1>2. /\ SocketsAfterClose \in Seq(SocketState)
      /\ Len(SocketsAfterClose) = Len(sockets)
      /\ \A t \in 1..Len(sockets) :
           IF t = ws THEN SocketsAfterClose[t] \in {"failing", "closing"}
                     ELSE SocketsAfterClose[t] = sockets[t]
  BY ClosedSockets
<1>3. sockets' = [SocketsAfterClose EXCEPT ![s] = "closed"] /\ ws' = None /\ polling' = FALSE
      /\ UNCHANGED <<lastFrame, fetching, sleeping, wanted, heard, dropped>>
  BY DEF SocketFails, RenewSource, loops, history
<1>4. DOMAIN sockets = 1..Len(sockets)
  BY DEF TypeOK
<1>5. "closed" \in SocketState
  BY DEF SocketState
<1>6. /\ sockets' \in Seq(SocketState) /\ Len(sockets') = Len(sockets)
      /\ \A t \in 1..Len(sockets) :
           sockets'[t] = IF t = s THEN "closed" ELSE SocketsAfterClose[t]
  BY <1>2, <1>3, <1>4, <1>5, ExceptSeq
<1>7. DOMAIN sockets' = 1..Len(sockets)
  BY <1>6
<1>8. TypeOK'
  BY <1>1, <1>3, <1>6 DEF TypeOK
<1>9. LoopsOK' /\ NeverDeaf'
  BY <1>1, <1>3 DEF LoopsOK, NeverDeaf
<1>10. ASSUME NEW t \in DOMAIN sockets', sockets'[t] \in {"connecting", "open"}
       PROVE  <<"ws", t>> \in dropped'
  <2>1. t \in 1..Len(sockets) /\ t # s /\ sockets'[t] = SocketsAfterClose[t]
    BY <1>6, <1>7, <1>10
  <2>2. t # ws /\ sockets[t] = sockets'[t]
    BY <2>1, <1>2, <1>10
  <2> QED
    BY <2>1, <2>2, <1>3, <1>4, <1>10 DEF OnlyEventsLeak
<1>11. OnlyEventsLeak'
  BY <1>1, <1>3, <1>10 DEF OnlyEventsLeak
<1> QED
  BY <1>8, <1>9, <1>11

LEMMA SourceMessageStep ==
  ASSUME Inv, NEW e \in DOMAIN sources, NEW frame \in Frame, SourceMessage(e, frame)
  PROVE  Inv'
  BY DEF Inv, SourceMessage, Emit, TypeOK, LoopsOK, NeverDeaf, OnlyEventsLeak, Pending, Live,
         loops, history

\* The source held is let go of; a loop runs from now on.
LEMMA SourceErrorStep ==
  ASSUME Inv, NEW e \in DOMAIN sources, SourceError(e)
  PROVE  Inv'
<1> USE DEF Inv
<1>1. fetching' \in 0..MaxLoops /\ sleeping' \in 0..MaxLoops /\ polling' /\ LoopsOK'
  BY StartedLoop DEF SourceError
<1>2. /\ sse' = None /\ dropped' = dropped \cup {<<"sse", sse>>} /\ polling' = TRUE
      /\ UNCHANGED <<ws, lastFrame, sockets, wanted, heard>>
  BY DEF SourceError, StartLoop, history
<1>3. sources \in Seq(SourceState) /\ DOMAIN sources = 1..Len(sources)
  BY DEF TypeOK
<1>4. /\ sources' \in Seq(SourceState) /\ DOMAIN sources' = DOMAIN sources
      /\ \A f \in DOMAIN sources : sources'[f] \in {sources[f], "closed"}
  <2>1. CASE sources' = sources
    BY <2>1, <1>3
  <2>2. CASE sources' = [sources EXCEPT ![e] = "closed"]
    <3>1. "closed" \in SourceState
      BY DEF SourceState
    <3> QED
      BY <2>2, <3>1, <1>3, ExceptSeq
  <2> QED
    BY <2>1, <2>2 DEF SourceError
<1>5. TypeOK'
  BY <1>1, <1>2, <1>4 DEF TypeOK
<1>6. NeverDeaf'
  BY <1>1 DEF NeverDeaf, LoopsOK
<1>7. OnlyEventsLeak'
  BY <1>2, <1>4 DEF OnlyEventsLeak, Live
<1> QED
  BY <1>1, <1>5, <1>6, <1>7

\* An answer, or none, makes of a fetch a sleep.
LEMMA FetchStep ==
  ASSUME Inv, FetchFails \/ \E frame \in Frame : FetchAnswered(frame)
  PROVE  Inv'
<1> USE DEF Inv
<1>1. /\ fetching > 0 /\ fetching' = fetching - 1 /\ sleeping' = sleeping + 1
      /\ UNCHANGED <<ws, sse, polling, sockets, sources, wanted, dropped>>
      /\ lastFrame' \in {None} \cup Frame /\ heard' \in BOOLEAN
  BY DEF FetchFails, FetchAnswered, Emit, history, TypeOK
<1>2. /\ fetching' \in 0..MaxLoops /\ sleeping' \in 0..MaxLoops
      /\ fetching' + sleeping' = fetching + sleeping
  BY <1>1, RingAssumption DEF TypeOK, LoopsOK
<1>3. TypeOK' /\ LoopsOK'
  BY <1>1, <1>2 DEF TypeOK, LoopsOK
<1>4. NeverDeaf'
  BY <1>1, <1>2 DEF NeverDeaf, Pending, Live
<1>5. OnlyEventsLeak'
  BY <1>1 DEF OnlyEventsLeak, Live
<1> QED
  BY <1>3, <1>4, <1>5

\* A loop ends only when polling is off.
LEMMA WakeStep == Inv /\ Wake => Inv'
<1> SUFFICES ASSUME Inv, Wake PROVE Inv'
  OBVIOUS
<1> USE DEF Inv
<1>1. TypeOK' /\ LoopsOK'
  BY RingAssumption DEF Wake, TypeOK, LoopsOK, history
<1>2. NeverDeaf'
  BY DEF Wake, NeverDeaf, Pending, Live, TypeOK, history
<1>3. OnlyEventsLeak'
  BY DEF Wake, OnlyEventsLeak, Live
<1> QED
  BY <1>1, <1>2, <1>3

LEMMA NextInv == Inv /\ [Next]_vars => Inv'
<1> SUFFICES ASSUME Inv, [Next]_vars PROVE Inv'
  OBVIOUS
<1>1. CASE Page
  BY <1>1, ConnectWSStep, ConnectSSEStep, PollFrameStep, StopPollingStep, DisconnectStep
     DEF Page
<1>2. ASSUME NEW s \in DOMAIN sockets,
             \/ SocketOpens(s) \/ SocketCloses(s) \/ SocketFails(s)
             \/ \E frame \in Frame : SocketMessage(s, frame)
      PROVE  Inv'
  BY <1>2, SocketOpensStep, SocketClosesStep, SocketFailsStep, SocketMessageStep
<1>3. ASSUME NEW e \in DOMAIN sources,
             SourceError(e) \/ \E frame \in Frame : SourceMessage(e, frame)
      PROVE  Inv'
  BY <1>3, SourceErrorStep, SourceMessageStep
<1>4. CASE FetchFails \/ \E frame \in Frame : FetchAnswered(frame)
  BY <1>4, FetchStep
<1>5. CASE Wake
  BY <1>5, WakeStep
<1>6. CASE UNCHANGED vars
  BY <1>6 DEF vars, Inv, TypeOK, LoopsOK, NeverDeaf, OnlyEventsLeak, Pending, Live
<1> QED
  BY <1>1, <1>2, <1>3, <1>4, <1>5, <1>6 DEF Next

-----------------------------------------------------------------------------
(* The theorems. *)

LEMMA SpecInv == Spec => []Inv
  BY InitInv, NextInv, PTL DEF Spec

\* What the loader holds is a socket or a source it has made and not closed, and
\* loops are never more than are told apart, for any number of calls of the page.
THEOREM RingTyped == Spec => []TypeOK
<1>1. Inv => TypeOK
  BY DEF Inv
<1> QED
  BY <1>1, SpecInv, PTL

\* A page that wants frames always has a way for them to come, whatever fails or
\* closes in whichever order (the handlers onclose, onerror and pollFrame).
THEOREM RingNeverDeaf == Spec => []NeverDeaf
<1>1. Inv => NeverDeaf
  BY DEF Inv
<1> QED
  BY <1>1, SpecInv, PTL

\* Only the handlers that forget what is held without closing it let go of a
\* connection that is up; no call of the page and no fallback does.
THEOREM RingOnlyEventsLeak == Spec => []OnlyEventsLeak
<1>1. Inv => OnlyEventsLeak
  BY DEF Inv
<1> QED
  BY <1>1, SpecInv, PTL

-----------------------------------------------------------------------------
(* Connections do not multiply. *)

\* Each call of the page pays for one connection: the socket it makes, until that has
\* closed, and then the source that the end of the socket makes; or a source.
ConnectionsBounded ==
  /\ Len(sockets) <= calls
  /\ Len(sources) + Cardinality(Pending) <= calls

\* No socket is closed, by an event, that close() is called on.
LEMMA PendingAfterClose ==
  ASSUME TypeOK
  PROVE  /\ DOMAIN SocketsAfterClose = DOMAIN sockets
         /\ Len(SocketsAfterClose) = Len(sockets)
         /\ SocketsAfterClose \in Seq(SocketState)
         /\ \A s \in DOMAIN sockets : SocketsAfterClose[s] # "closed" <=> s \in Pending
<1>1. sockets \in Seq(SocketState) /\ DOMAIN sockets = 1..Len(sockets)
  BY DEF TypeOK
<1>2. /\ SocketsAfterClose \in Seq(SocketState)
      /\ Len(SocketsAfterClose) = Len(sockets)
      /\ \A s \in 1..Len(sockets) :
           IF s = ws THEN SocketsAfterClose[s] \in {"failing", "closing"}
                     ELSE SocketsAfterClose[s] = sockets[s]
  BY ClosedSockets
<1>3. \A s \in 1..Len(sockets) : s = ws => sockets[s] # "closed"
  BY <1>1 DEF TypeOK, None
<1> QED
  BY <1>1, <1>2, <1>3 DEF Pending

LEMMA SourcesCounted ==
  ASSUME TypeOK
  PROVE  /\ Len(sources) \in Nat
         /\ sources' = SourcesAfterClose => Len(sources') = Len(sources)
         /\ RenewSource => Len(sources') = Len(sources) + 1
         /\ \A e \in DOMAIN sources :
              sources' = [sources EXCEPT ![e] = "closed"] => Len(sources') = Len(sources)
<1>1. sources \in Seq(SourceState) /\ SourcesAfterClose \in Seq(SourceState)
      /\ Len(SourcesAfterClose) = Len(sources)
  BY ClosedSources DEF TypeOK
<1>2. RenewSource => Len(sources') = Len(sources) + 1
  BY <1>1, AppendProperties DEF RenewSource, SourceState
<1>3. ASSUME NEW e \in DOMAIN sources, sources' = [sources EXCEPT ![e] = "closed"]
      PROVE  Len(sources') = Len(sources)
  <2>1. "closed" \in SourceState
    BY DEF SourceState
  <2> QED
    BY <1>1, <1>3, <2>1, ExceptSeq
<1> QED
  BY <1>1, <1>2, <1>3

\* What a step does to the numbers of connections.
Steady(more) ==
  /\ calls' = calls + more /\ Len(sockets') = Len(sockets) /\ Pending' = Pending
  /\ Len(sources') \in {Len(sources), Len(sources) + more}

SocketMade ==
  /\ calls' = calls + 1 /\ Len(sockets') = Len(sockets) + 1 /\ Len(sources') = Len(sources)
  /\ Pending' = Pending \cup {Len(sockets) + 1}

SocketGivesWay ==
  /\ calls' = calls /\ Len(sockets') = Len(sockets) /\ Len(sources') = Len(sources) + 1
  /\ \E s \in Pending : Pending' = Pending \ {s}

LEMMA CallsCount ==
  ASSUME TypeOK, calls \in Nat, Page
  PROVE  Steady(1) \/ SocketMade
<1>1. calls' = calls + 1
  BY DEF Page, ConnectWS, ConnectSSE, PollFrame, StopPolling, Disconnect, Call
<1>2. CASE ConnectWS
  <2>1. sockets' = Append(SocketsAfterClose, "connecting") /\ Len(sources') = Len(sources)
    BY <1>2, SourcesCounted DEF ConnectWS
  <2>2. /\ Len(sockets') = Len(sockets) + 1
        /\ \A s \in 1..Len(sockets) : sockets'[s] = SocketsAfterClose[s]
        /\ sockets'[Len(sockets) + 1] = "connecting"
        /\ DOMAIN sockets' = 1..(Len(sockets) + 1) /\ DOMAIN sockets = 1..Len(sockets)
        /\ Len(sockets) \in Nat
    BY <2>1, PendingAfterClose, AppendProperties DEF SocketState, TypeOK
  <2>3. Pending' = Pending \cup {Len(sockets) + 1}
    <3>1. \A s \in 1..(Len(sockets) + 1) : s \in 1..Len(sockets) \/ s = Len(sockets) + 1
      BY <2>2
    <3> QED
      BY <2>2, <3>1, PendingAfterClose DEF Pending
  <2> QED
    BY <1>1, <2>1, <2>2, <2>3 DEF SocketMade
<1>3. CASE ConnectSSE \/ Disconnect
  <2>1. sockets' = SocketsAfterClose
    BY <1>3 DEF ConnectSSE, Disconnect
  <2>2. Pending' = Pending /\ Len(sockets') = Len(sockets)
    BY <2>1, PendingAfterClose DEF Pending
  <2>3. Len(sources') \in {Len(sources), Len(sources) + 1}
    BY <1>3, SourcesCounted DEF ConnectSSE, Disconnect
  <2> QED
    BY <1>1, <2>2, <2>3 DEF Steady
<1>4. CASE PollFrame \/ StopPolling
  BY <1>1, <1>4 DEF PollFrame, StopPolling, Steady, Pending
<1> QED
  BY <1>2, <1>3, <1>4 DEF Page

\* A socket that closes or fails leaves its place to a source.
LEMMA SocketEventsCount ==
  ASSUME TypeOK, calls \in Nat, NEW s \in DOMAIN sockets,
         SocketCloses(s) \/ SocketFails(s)
  PROVE  SocketGivesWay
<1>1. calls' = calls /\ RenewSource
  BY DEF SocketCloses, SocketFails, history
<1>2. s \in Pending
  BY DEF SocketCloses, SocketFails, Pending
<1>3. sockets \in Seq(SocketState) /\ DOMAIN sockets = 1..Len(sockets) /\ "closed" \in SocketState
  BY DEF TypeOK, SocketState
<1>4. CASE SocketCloses(s)
  <2>1. /\ Len(sockets') = Len(sockets) /\ DOMAIN sockets' = DOMAIN sockets
        /\ \A t \in DOMAIN sockets : sockets'[t] = IF t = s THEN "closed" ELSE sockets[t]
    BY <1>3, <1>4, ExceptSeq DEF SocketCloses
  <2>2. Pending' = Pending \ {s}
    BY <2>1 DEF Pending
  <2> QED
    BY <1>1, <1>2, <2>1, <2>2, SourcesCounted DEF SocketGivesWay
<1>5. CASE SocketFails(s)
  <2>1. /\ Len(sockets') = Len(sockets) /\ DOMAIN sockets' = DOMAIN sockets
        /\ \A t \in DOMAIN sockets :
             sockets'[t] = IF t = s THEN "closed" ELSE SocketsAfterClose[t]
    BY <1>3, <1>5, PendingAfterClose, ExceptSeq DEF SocketFails
  <2>2. Pending' = Pending \ {s}
    BY <2>1, PendingAfterClose DEF Pending
  <2> QED
    BY <1>1, <1>2, <2>1, <2>2, SourcesCounted DEF SocketGivesWay
<1> QED
  BY <1>4, <1>5

\* A socket that opens is as pending as before; messages and errors of a source, and
\* the loops, make nothing.
LEMMA OtherEventsCount ==
  ASSUME TypeOK, calls \in Nat,
         \/ \E s \in DOMAIN sockets :
              SocketOpens(s) \/ \E frame \in Frame : SocketMessage(s, frame)
         \/ \E e \in DOMAIN sources :
              SourceError(e) \/ \E frame \in Frame : SourceMessage(e, frame)
         \/ \E frame \in Frame : FetchAnswered(frame)
         \/ FetchFails \/ Wake
  PROVE  Steady(0)
<1>1. sockets \in Seq(SocketState) /\ DOMAIN sockets = 1..Len(sockets) /\ Len(sources) \in Nat
  BY SourcesCounted DEF TypeOK
<1>2. ASSUME NEW s \in DOMAIN sockets, SocketOpens(s)
      PROVE  Steady(0)
  <2>1. "open" \in SocketState
    BY DEF SocketState
  <2>2. /\ Len(sockets') = Len(sockets) /\ DOMAIN sockets' = DOMAIN sockets
        /\ \A t \in DOMAIN sockets : sockets'[t] = IF t = s THEN "open" ELSE sockets[t]
    BY <1>1, <1>2, <2>1, ExceptSeq DEF SocketOpens
  <2>3. Pending' = Pending
    BY <1>2, <2>2 DEF Pending, SocketOpens
  <2> QED
    BY <1>1, <1>2, <2>2, <2>3 DEF Steady, SocketOpens, history
<1>3. ASSUME NEW e \in DOMAIN sources, SourceError(e)
      PROVE  Steady(0)
  <2>1. Len(sources') = Len(sources)
    BY <1>3, SourcesCounted DEF SourceError
  <2> QED
    BY <1>1, <1>3, <2>1 DEF Steady, SourceError, Pending, history
<1>4. CASE \/ \E s \in DOMAIN sockets, frame \in Frame : SocketMessage(s, frame)
           \/ \E e \in DOMAIN sources, frame \in Frame : SourceMessage(e, frame)
           \/ \E frame \in Frame : FetchAnswered(frame)
           \/ FetchFails \/ Wake
  BY <1>1, <1>4 DEF Steady, SocketMessage, SourceMessage, FetchAnswered, FetchFails, Wake, Pending,
                    history
<1> QED
  BY <1>2, <1>3, <1>4

LEMMA PendingFinite ==
  ASSUME TypeOK
  PROVE  IsFiniteSet(Pending) /\ Cardinality(Pending) \in Nat
<1>1. Pending \subseteq 1..Len(sockets) /\ Len(sockets) \in Nat
  BY DEF TypeOK, Pending
<1>2. IsFiniteSet(1..Len(sockets))
  BY <1>1, FS_Interval
<1> QED
  BY <1>1, <1>2, FS_Subset, FS_CardinalityType

LEMMA ConnectionsStep ==
  ASSUME TypeOK, calls \in Nat, ConnectionsBounded, [Next]_vars
  PROVE  calls' \in Nat /\ ConnectionsBounded'
<1>1. /\ IsFiniteSet(Pending) /\ Cardinality(Pending) \in Nat
      /\ Len(sockets) \in Nat /\ Len(sources) \in Nat
  BY PendingFinite DEF TypeOK
<1>2. Steady(0) \/ Steady(1) \/ SocketMade \/ SocketGivesWay
  <2>1. CASE Page
    BY <2>1, CallsCount
  <2>2. CASE \E s \in DOMAIN sockets : SocketCloses(s) \/ SocketFails(s)
    BY <2>2, SocketEventsCount
  <2>3. CASE UNCHANGED vars
    BY <1>1, <2>3 DEF vars, Steady, Pending
  <2> QED
    BY <2>1, <2>2, <2>3, OtherEventsCount DEF Next
<1>3. CASE Steady(0) \/ Steady(1)
  BY <1>1, <1>3 DEF Steady, ConnectionsBounded
<1>4. CASE SocketMade
  <2>1. Cardinality(Pending \cup {Len(sockets) + 1}) \in {Cardinality(Pending), Cardinality(Pending) + 1}
    BY <1>1, FS_AddElement
  <2> QED
    BY <1>1, <1>4, <2>1 DEF SocketMade, ConnectionsBounded
<1>5. CASE SocketGivesWay
  <2>1. Cardinality(Pending') = Cardinality(Pending) - 1
    BY <1>1, <1>5, FS_RemoveElement DEF SocketGivesWay
  <2> QED
    BY <1>1, <1>5, <2>1 DEF SocketGivesWay, ConnectionsBounded
<1> QED
  BY <1>2, <1>3, <1>4, <1>5

\* A call of the page brings about one connection at most at a time, whatever fails:
\* onclose and onerror put a source in the place of a socket that has ended, and never
\* one more.  So the sockets and sources that Fairness speaks of are all there are.
THEOREM RingConnectionsBounded == Spec => []ConnectionsBounded
<1>1. Init => calls \in Nat /\ ConnectionsBounded
  <2>1. Init => calls = 0 /\ Len(sockets) = 0 /\ Len(sources) = 0 /\ Pending = {}
    BY DEF Init, Pending
  <2> QED
    BY <2>1, FS_EmptySet DEF ConnectionsBounded
<1>2. TypeOK /\ calls \in Nat /\ ConnectionsBounded /\ [Next]_vars
        => (calls \in Nat /\ ConnectionsBounded)'
  BY ConnectionsStep
<1> QED
  BY <1>1, <1>2, RingTyped, PTL DEF Spec

-----------------------------------------------------------------------------
(* The way down: what FallsBack takes from the code, besides fairness.       *)

\* What a socket in a state may still be in: it never gets younger.
StillTo(state) ==
  CASE state = "connecting" -> {"connecting", "open", "failing", "closed"}
    [] state = "open" -> {"open", "closing", "closed"}
    [] OTHER -> {state, "closed"}

Polls == polling /\ fetching + sleeping > 0

\* Between two calls of the page no socket is made and each one only ages, and a
\* frame that has come is not forgotten.  When the sockets are done with, so they
\* stay, and sources only close; a source that closes leaves a polling loop, and
\* no event of any other stops the loops that go on.
FallbackProgress ==
  calls' = calls =>
    /\ Len(sockets') = Len(sockets)
    /\ \A s \in DOMAIN sockets : sockets'[s] \in StillTo(sockets[s])
    /\ wanted' = wanted /\ (heard => heard')
    /\ Pending = {} =>
         Pending' = {} /\ Live' \subseteq Live /\ (Polls \/ Live' # Live => Polls')

LEMMA CallsCounted == Spec => [](calls \in Nat)
<1>1. Init => calls \in Nat
  BY DEF Init
<1>2. calls \in Nat /\ [Next]_vars => (calls \in Nat)'
  BY DEF Next, Page, ConnectWS, ConnectSSE, PollFrame, StopPolling, Disconnect, Call, vars,
         SocketOpens, SocketCloses, SocketFails, SocketMessage, SourceError, SourceMessage,
         FetchAnswered, FetchFails, Wake, history
<1> QED
  BY <1>1, <1>2, PTL DEF Spec

\* Only the states of sockets change, and of those only some, downwards.
LEMMA SocketsAge ==
  ASSUME TypeOK, NEW s \in DOMAIN sockets,
         SocketOpens(s) \/ SocketCloses(s) \/ SocketFails(s)
  PROVE  /\ Len(sockets') = Len(sockets)
         /\ \A t \in DOMAIN sockets : sockets'[t] \in StillTo(sockets[t])
         /\ Pending # {}
<1>1. /\ sockets \in Seq(SocketState) /\ s \in 1..Len(sockets) /\ Len(sockets) \in Nat
      /\ \A t \in DOMAIN sockets : sockets[t] \in SocketState
      /\ DOMAIN sockets = 1..Len(sockets)
  BY DEF TypeOK
<1>2. s \in Pending
  BY DEF Pending, SocketOpens, SocketCloses, SocketFails
<1>3. \A state \in SocketState : state \in StillTo(state) /\ "closed" \in StillTo(state)
  BY DEF SocketState, StillTo
<1>4. CASE SocketOpens(s)
  <2>1. sockets' = [sockets EXCEPT ![s] = "open"] /\ sockets[s] = "connecting"
    BY <1>4 DEF SocketOpens
  <2>2. sockets' \in Seq(SocketState) /\ DOMAIN sockets' = DOMAIN sockets
    BY <2>1, OneSocket DEF SocketState
  <2>3. Len(sockets') = Len(sockets)
    BY <2>2, <1>1
  <2>4. "open" \in StillTo("connecting")
    BY DEF StillTo
  <2> QED
    BY <1>1, <1>2, <1>3, <2>1, <2>3, <2>4
<1>5. CASE SocketCloses(s)
  <2>1. sockets' = [sockets EXCEPT ![s] = "closed"]
    BY <1>5 DEF SocketCloses
  <2>2. sockets' \in Seq(SocketState) /\ DOMAIN sockets' = DOMAIN sockets
    BY <2>1, OneSocket DEF SocketState
  <2>3. Len(sockets') = Len(sockets)
    BY <2>2, <1>1
  <2> QED
    BY <1>1, <1>2, <1>3, <2>1, <2>3
<1>6. CASE SocketFails(s)
  <2>1. sockets' = [SocketsAfterClose EXCEPT ![s] = "closed"]
    BY <1>6 DEF SocketFails
  <2>2. /\ DOMAIN SocketsAfterClose = DOMAIN sockets /\ SocketsAfterClose \in Seq(SocketState)
        /\ Len(SocketsAfterClose) = Len(sockets)
    BY PendingAfterClose
  <2>3. ASSUME NEW t \in DOMAIN sockets PROVE SocketsAfterClose[t] \in StillTo(sockets[t])
    <3>1. SocketsAfterClose[t] \in {sockets[t], AfterClose(sockets[t])}
      BY DEF SocketsAfterClose
    <3>2. \A state \in SocketState : AfterClose(state) \in StillTo(state)
      BY DEF SocketState, StillTo, AfterClose
    <3> QED
      BY <1>1, <1>3, <3>1, <3>2
  <2> DEFINE after == SocketsAfterClose
  <2>4. after \in Seq(SocketState) /\ Len(after) = Len(sockets) /\ DOMAIN after = DOMAIN sockets
    BY <2>2
  <2>5. sockets' = [after EXCEPT ![s] = "closed"]
    BY <2>1
  <2>6. \A t \in DOMAIN sockets : after[t] \in StillTo(sockets[t])
    BY <2>3
  <2> HIDE DEF after
  <2>7. sockets' \in Seq(SocketState) /\ DOMAIN sockets' = DOMAIN after
    BY <1>1, <2>4, <2>5 DEF SocketState
  <2>8. Len(sockets') = Len(sockets)
    BY <1>1, <2>4, <2>7
  <2>9. \A t \in DOMAIN sockets : sockets'[t] = after[t] \/ sockets'[t] = "closed"
    BY <2>4, <2>5
  <2> QED
    BY <1>1, <1>2, <1>3, <2>6, <2>8, <2>9
<1> QED
  BY <1>4, <1>5, <1>6

LEMMA FallbackStep == Inv /\ calls \in Nat /\ Next => FallbackProgress
<1> SUFFICES ASSUME TypeOK, LoopsOK, calls \in Nat, Next, calls' = calls
             PROVE  /\ Len(sockets') = Len(sockets)
                    /\ \A s \in DOMAIN sockets : sockets'[s] \in StillTo(sockets[s])
                    /\ wanted' = wanted /\ (heard => heard')
                    /\ Pending = {} =>
                         Pending' = {} /\ Live' \subseteq Live /\ (Polls \/ Live' # Live => Polls')
  BY DEF FallbackProgress, Inv
<1>1. ~Page
  <2>1. Page => calls' = calls + 1
    BY DEF Page, ConnectWS, ConnectSSE, PollFrame, StopPolling, Disconnect, Call
  <2> QED
    BY <2>1
<1>2. ASSUME NEW s \in DOMAIN sockets, SocketOpens(s) \/ SocketCloses(s) \/ SocketFails(s)
      PROVE  /\ Len(sockets') = Len(sockets)
             /\ \A t \in DOMAIN sockets : sockets'[t] \in StillTo(sockets[t])
             /\ wanted' = wanted /\ (heard => heard')
             /\ Pending # {}
  BY <1>2, SocketsAge DEF SocketOpens, SocketCloses, SocketFails, history
<1>3. \A s \in DOMAIN sockets : sockets[s] \in StillTo(sockets[s])
  <2>1. \A s \in DOMAIN sockets : sockets[s] \in SocketState
    BY DEF TypeOK
  <2> QED
    BY <2>1 DEF SocketState, StillTo
<1>4. CASE \E s \in DOMAIN sockets, frame \in Frame : SocketMessage(s, frame)
  BY <1>3, <1>4 DEF SocketMessage, Emit, history, loops, Pending, Live, Polls
<1>5. ASSUME NEW e \in DOMAIN sources, SourceError(e)
      PROVE  /\ UNCHANGED <<sockets, wanted, heard>>
             /\ Live' \subseteq Live /\ Polls'
  <2>1. /\ sources' \in {sources, [sources EXCEPT ![e] = "closed"]}
        /\ StartLoop /\ UNCHANGED <<sockets, wanted, heard>>
    BY <1>5 DEF SourceError, history
  <2>2. Live' \subseteq Live
    BY <2>1 DEF Live, TypeOK
  <2>3. Polls'
    BY <2>1, RingAssumption DEF StartLoop, Polls, TypeOK
  <2> QED
    BY <2>1, <2>2, <2>3
<1>6. CASE \E e \in DOMAIN sources, frame \in Frame : SourceMessage(e, frame)
  BY <1>3, <1>6 DEF SourceMessage, Emit, history, loops, Pending, Live, Polls
<1>7. CASE FetchFails \/ \E frame \in Frame : FetchAnswered(frame)
  <2>1. /\ UNCHANGED <<sockets, sources, polling, wanted>> /\ (heard => heard')
        /\ fetching' = fetching - 1 /\ sleeping' = sleeping + 1
    BY <1>7 DEF FetchFails, FetchAnswered, Emit, history
  <2>2. fetching' + sleeping' = fetching + sleeping
    BY <2>1 DEF TypeOK
  <2> QED
    BY <1>3, <2>1, <2>2 DEF Pending, Live, Polls
<1>8. CASE Wake
  <2>1. /\ UNCHANGED <<sockets, sources, polling, wanted, heard>>
        /\ sleeping' = sleeping - 1 /\ (polling => fetching' = fetching + 1)
    BY <1>8 DEF Wake, history
  <2>2. polling => fetching' + sleeping' = fetching + sleeping
    BY <2>1 DEF TypeOK
  <2> QED
    BY <1>3, <2>1, <2>2 DEF Pending, Live, Polls
<1> QED
  BY <1>1, <1>2, <1>3, <1>4, <1>5, <1>6, <1>7, <1>8 DEF Next, Pending

\* For any number of calls and connections: as long as the page makes no new call,
\* its sockets only age, and once they are done with, its sources only close and
\* leave it polling, which no late event stops.  With NeverDeaf and the fairness of
\* the browser this is why a page that wants frames ends with a connection that
\* works or with a loop that is answered.
THEOREM RingFallbackAdvances == Spec => [][FallbackProgress]_vars
<1>1. Inv /\ calls \in Nat /\ [Next]_vars => [FallbackProgress]_vars
  BY FallbackStep
<1> QED
  BY <1>1, SpecInv, CallsCounted, PTL DEF Spec

=============================================================================
