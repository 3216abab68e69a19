----------------------------- MODULE RingLoader -----------------------------
(***************************************************************************)
(* The loader of the ring viewer (web/viewer/ring-loader.js): frames come  *)
(* through a WebSocket, else through an EventSource, else by polling.  A   *)
(* step is one call of the page or one task of the browser; the handlers   *)
(* speak of "the" socket and "the" source, which may be another than the   *)
(* one they were installed on.                                             *)
(***************************************************************************)
EXTENDS Integers, Sequences, FiniteSets

CONSTANTS
  Frame,      \* what the server may send
  MaxCalls,   \* bound on the calls of the page
  MaxLoops    \* bound on the polling loops that are told apart

ASSUME RingAssumption == MaxCalls \in Nat /\ MaxLoops \in Nat \ {0} /\ Frame # {}

VARIABLES
  ws, sse,           \* this._ws and this._sseSource: an index below, or None
  polling,           \* this._polling
  lastFrame,         \* this.lastFrame
  sockets,           \* every WebSocket ever made, by its state
  sources,           \* every EventSource ever made
  fetching, sleeping,  \* the calls of pollFrame that wait for an answer, or for a timer
  serves,            \* what the server offers, besides polling
  (* histories, for the bounds and the properties *)
  calls,             \* calls of the page
  wanted,            \* the last call asked for frames
  heard,             \* a frame has come since
  dropped            \* sockets and sources that a handler has let go of, not closed

vars == <<ws, sse, polling, lastFrame, sockets, sources, fetching, sleeping, serves,
          calls, wanted, heard, dropped>>
history == <<calls, wanted>>
loops   == <<fetching, sleeping>>

None == 0

\* A socket that is closed while it connects fails; until its events have come it
\* is not closed.
SocketState == {"connecting", "open", "closing", "failing", "closed"}
SourceState == {"live", "closed"}

Pending == {s \in DOMAIN sockets : sockets[s] # "closed"}
Live    == {e \in DOMAIN sources : sources[e] = "live"}

Init ==
  /\ ws = None /\ sse = None /\ polling = FALSE /\ lastFrame = None
  /\ sockets = <<>> /\ sources = <<>> /\ fetching = 0 /\ sleeping = 0
  /\ serves \in SUBSET {"ws", "sse"}
  /\ calls = 0 /\ wanted = FALSE /\ heard = FALSE /\ dropped = {}

-----------------------------------------------------------------------------
(* What the methods have in common. *)

\* close() of the socket held, and of the source held.
AfterClose(state) ==
  CASE state = "connecting" -> "failing"
    [] state = "open" -> "closing"
    [] OTHER -> state
SocketsAfterClose ==
  [s \in DOMAIN sockets |-> IF s = ws THEN AfterClose(sockets[s]) ELSE sockets[s]]
SourcesAfterClose == [e \in DOMAIN sources |-> IF e = sse THEN "closed" ELSE sources[e]]

\* What the handlers do to the source: disconnect, and a new one.
\* Mutants: what is there already is not closed; the new one is, too.
RenewSourceOnly ==
  /\ sources' = Append(sources, "live") /\ sse' = Len(sources) + 1 /\ polling' = FALSE
RenewSourceThenDisconnect ==
  /\ sources' = Append(SourcesAfterClose, "closed") /\ sse' = None /\ polling' = FALSE
RenewSource ==
  /\ sources' = Append(SourcesAfterClose, "live") /\ sse' = Len(sources) + 1 /\ polling' = FALSE

\* Another loop; more than MaxLoops are as good as MaxLoops.
StartLoop ==
  /\ polling' = TRUE
  /\ fetching' = IF fetching + sleeping < MaxLoops THEN fetching + 1 ELSE fetching
  /\ UNCHANGED sleeping

Emit(frame) == lastFrame' = frame /\ heard' = TRUE

-----------------------------------------------------------------------------
(* The page. *)

Call(asks) ==
  /\ calls < MaxCalls /\ calls' = calls + 1 /\ wanted' = asks /\ heard' = FALSE
  /\ UNCHANGED <<lastFrame, serves, dropped>>

ConnectWS ==
  /\ Call(TRUE)
  /\ polling' = FALSE
  /\ sources' = SourcesAfterClose /\ sse' = None
  /\ sockets' = Append(SocketsAfterClose, "connecting") /\ ws' = Len(sockets) + 1
  /\ UNCHANGED loops

ConnectSSE ==
  /\ Call(TRUE)
  /\ RenewSource
  /\ sockets' = SocketsAfterClose /\ ws' = None
  /\ UNCHANGED loops

PollFrame ==
  /\ Call(TRUE)
  /\ StartLoop
  /\ UNCHANGED <<ws, sse, sockets, sources>>

StopPolling ==
  /\ Call(FALSE)
  /\ polling' = FALSE
  /\ UNCHANGED <<ws, sse, sockets, sources, loops>>

Disconnect ==
  /\ Call(FALSE)
  /\ polling' = FALSE
  /\ sources' = SourcesAfterClose /\ sse' = None
  /\ sockets' = SocketsAfterClose /\ ws' = None
  /\ UNCHANGED loops

-----------------------------------------------------------------------------
(* Tasks of a socket. *)

SocketOpens(s) ==
  /\ sockets[s] = "connecting" /\ "ws" \in serves
  /\ sockets' = [sockets EXCEPT ![s] = "open"]
  /\ UNCHANGED <<ws, sse, polling, lastFrame, sources, loops, serves, history, heard, dropped>>

SocketMessage(s, frame) ==
  /\ sockets[s] = "open" /\ Emit(frame)
  /\ UNCHANGED <<ws, sse, polling, sockets, sources, loops, serves, history, dropped>>

\* Mutant of SocketCloses: the socket held is kept.
SocketClosesHeld(s) ==
  /\ sockets[s] \in {"open", "closing"}
  /\ sockets' = [sockets EXCEPT ![s] = "closed"] /\ ws' = ws
  /\ dropped' = dropped
  /\ RenewSource
  /\ UNCHANGED <<lastFrame, loops, serves, history, heard>>

\* onclose forgets the socket held, which need not be s, and does not close it.
SocketCloses(s) ==
  /\ sockets[s] \in {"open", "closing"}
  /\ sockets' = [sockets EXCEPT ![s] = "closed"] /\ ws' = None
  /\ dropped' = dropped \cup {<<"ws", ws>>}
  /\ RenewSource
  /\ UNCHANGED <<lastFrame, loops, serves, history, heard>>

\* A failure is an error event and then, in the same task, a close event.  onerror
\* closes the socket held, or ends in an exception if there is none; the source
\* that it opens is closed by onclose, before it has connected.
SocketFails(s) ==
  /\ sockets[s] # "closed"
  /\ sockets' = [SocketsAfterClose EXCEPT ![s] = "closed"] /\ ws' = None
  /\ RenewSource
  /\ UNCHANGED <<lastFrame, loops, serves, history, heard, dropped>>

(* Tasks of a source. *)

SourceMessage(e, frame) ==
  /\ sources[e] = "live" /\ "sse" \in serves /\ Emit(frame)
  /\ UNCHANGED <<ws, sse, polling, sockets, sources, loops, serves, history, dropped>>

\* Mutant of SourceError: the browser is trusted to connect the source again.
SourceErrorTrusting(e) ==
  /\ sources[e] = "live"
  /\ sources' \in {sources, [sources EXCEPT ![e] = "closed"]} /\ sse' = None
  /\ dropped' = dropped \cup {<<"sse", sse>>}
  /\ UNCHANGED <<ws, polling, lastFrame, sockets, loops, serves, history, heard>>

\* onerror forgets the source held, which need not be e.  The browser connects e
\* again by itself, or gives up.
SourceError(e) ==
  /\ sources[e] = "live"
  /\ sources' \in {sources, [sources EXCEPT ![e] = "closed"]} /\ sse' = None
  /\ dropped' = dropped \cup {<<"sse", sse>>}
  /\ StartLoop
  /\ UNCHANGED <<ws, lastFrame, sockets, serves, history, heard>>

(* The polling loops. *)

\* An answer is emitted whether or not polling has been stopped meanwhile.
FetchAnswered(frame) ==
  /\ fetching > 0 /\ fetching' = fetching - 1 /\ sleeping' = sleeping + 1
  /\ Emit(frame)
  /\ UNCHANGED <<ws, sse, polling, sockets, sources, serves, history, dropped>>

FetchFails ==
  /\ fetching > 0 /\ fetching' = fetching - 1 /\ sleeping' = sleeping + 1
  /\ UNCHANGED <<ws, sse, polling, lastFrame, sockets, sources, serves, history, heard, dropped>>

\* A loop that was stopped while it slept goes on if polling has begun again.
Wake ==
  /\ sleeping > 0 /\ sleeping' = sleeping - 1
  /\ fetching' = IF polling THEN fetching + 1 ELSE fetching
  /\ UNCHANGED <<ws, sse, polling, lastFrame, sockets, sources, serves, history, heard, dropped>>

-----------------------------------------------------------------------------
Page == ConnectWS \/ ConnectSSE \/ PollFrame \/ StopPolling \/ Disconnect

Next ==
  \/ Page
  \/ \E s \in DOMAIN sockets :
       \/ SocketOpens(s) \/ SocketCloses(s) \/ SocketFails(s)
       \/ \E frame \in Frame : SocketMessage(s, frame)
  \/ \E e \in DOMAIN sources :
       SourceError(e) \/ \E frame \in Frame : SourceMessage(e, frame)
  \/ \E frame \in Frame : FetchAnswered(frame)
  \/ FetchFails \/ Wake

Spec == Init /\ [][Next]_vars

\* A call of the page makes a socket or a source, and the end of a socket a source:
\* there are no more than MaxCalls of either.
\* The browser runs every task that is due; a server sends a frame to whom it has
\* let in, and now and then answers a request for one.
SomeMessage(s)   == \E frame \in Frame : SocketMessage(s, frame)
SomeEvent(e)     == \E frame \in Frame : SourceMessage(e, frame)
SomeAnswer       == \E frame \in Frame : FetchAnswered(frame)
Settles(s)       == sockets[s] \notin {"open", "closed"}
                      /\ (SocketOpens(s) \/ SocketCloses(s) \/ SocketFails(s))
Refused(e)       == "sse" \notin serves /\ SourceError(e)

Fairness ==
  /\ \A s \in 1..MaxCalls :
       /\ WF_vars(s \in DOMAIN sockets /\ Settles(s))
       /\ WF_vars(s \in DOMAIN sockets /\ SomeMessage(s))
  /\ \A e \in 1..MaxCalls :
       /\ WF_vars(e \in DOMAIN sources /\ Refused(e))
       /\ WF_vars(e \in DOMAIN sources /\ SomeEvent(e))
  /\ SF_vars(SomeAnswer) /\ WF_vars(Wake)

FairSpec == Spec /\ Fairness

-----------------------------------------------------------------------------
(* Properties. *)

TypeOK ==
  /\ sockets \in Seq(SocketState) /\ sources \in Seq(SourceState)
  /\ ws \in {None} \cup DOMAIN sockets /\ sse \in {None} \cup DOMAIN sources
  /\ fetching \in 0..MaxLoops /\ sleeping \in 0..MaxLoops
  /\ polling \in BOOLEAN /\ wanted \in BOOLEAN /\ heard \in BOOLEAN
  /\ lastFrame \in {None} \cup Frame
  \* What is held has not been closed: a close that has been seen is forgotten.
  /\ ws # None => sockets[ws] \in {"connecting", "open"}
  /\ sse # None => sources[sse] = "live"

\* As long as frames are wanted there is a way for them to come: a socket whose
\* events are still to be handled, a source that the browser keeps up, or a loop
\* that goes on.  Events of sockets and sources given up long ago may stop the
\* polling, or let go of the connection that works, but they leave another.
NeverDeaf ==
  wanted => Pending # {} \/ Live # {} \/ (polling /\ fetching + sleeping > 0)

\* A connection that is up and no longer held, so that disconnect cannot close it,
\* was let go of by the handler of an event: no call and no fallback loses one.
OnlyEventsLeak ==
  /\ \A s \in DOMAIN sockets :
       s # ws /\ sockets[s] \in {"connecting", "open"} => <<"ws", s>> \in dropped
  /\ \A e \in Live \ {sse} : <<"sse", e>> \in dropped

\* Whatever the server offers, and whichever connections fail in whichever order, a
\* page that wants frames hears one.
FallsBack == wanted /\ ~heard ~> heard \/ ~wanted

=============================================================================
