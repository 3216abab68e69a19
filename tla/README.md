# Verification of omi-isa

TLA+ specifications of the parts of omi-isa that keep state between calls and talk to each
other, TLC configurations that check them on small instances, and proofs, checked by TLAPS, of
what must hold for instances of any size.

## The system

omi-isa moves 64-byte envelopes between small nodes. An envelope begins with an 8-byte preheader
and carries an operation code, a target and a payload. A node is one thread: the ESP32 firmware's
`app_main`, a browser tab, or a test program, each calling the C library.

| Part | State | Operations | Talks to |
|---|---|---|---|
| Mesh (`lib/omi_mesh.c`) | route table, send queue, dead letters, sequence numbers, pending request | `send`, `recv`, `available` (which ticks), route count | a transport below it, the host above |
| Stream parser (`lib/stream.c`) | parser state, buffer, match count, envelope, host configuration | `stream_push_byte`, `pop_event`, `execute`, `inject_*` | a serial line, the dispatcher, the host |
| Probe (`lib/omi_probe.c`) | session state; in the CPU: probe state, capabilities, instruction subset | `start`, `poll`, `serve`, `send_sync`, `handshake` | a transport, the dispatcher |
| Dispatch (`lib/omi_dispatch.c`) | a table of handlers | `execute`, `set` | CPU, gauge table |
| Transports (`omi_transport*.c`, `firmware/main/omi_esp_transport.cpp`, `omi_sx1262.cpp`) | receive buffer; radio and interrupt state | `send`, `recv`, `available`, `flush` | each other, the radio |
| CPU (`lib/cpu.c`, `boot.c`, `sector.c`, `loader.c`) | registers, flags, mode, memory | `step`, `run`, system calls | dispatcher, sectors |
| Gauges (`lib/gauge_exec.c`), envelope codec (`lib/omienv.c`) | bindings; none | bind, unbind, eval; parse, validate, bit boards | dispatcher |
| Omion, receipts, omicron, orbit, sense, projective geometry | small arrays, or nothing | add, resolve, remove; walk; tables | the CPU |
| Compiler (`lexer.c` ... `compiler.c`) | tokens, code buffer, register counter | compile | the tool chain |
| Firmware loop (`firmware/main/main.cpp`) | the above, joined | serial to mesh, mesh to serial | all of them |
| Web (`web/*.js`, `web/omi_web_bridge.c`, `web/viewer/`) | connection, read loop, polling | connect, disconnect, inject, show | parser, server |

What makes it hard: nodes interleave and overhear each other; frames are lost, and overtaken by
newer ones; routes and queue entries expire while they are being used; sequence numbers are small
and restart at 0; the parser sees bytes that were lost or mixed; handshakes cross; every buffer is
an array of fixed size. `PROJECT.json` lists each of these at its line, with the properties
that cover it.

## Modules

| Module | What it is |
|---|---|
| `MeshTable` | The route table as pure operators: lookup, learning from an update, expiry |
| `Compaction` | What the retry loop and the dead-letter array do with a sequence: keep some, fit the rest |
| `Mesh` | The nodes, the medium, the queues, the handlers. EXTENDS both |
| `Stream` | The parser between a serial line, injected frames and its host |
| `Probe` | The handshake between two nodes, with the dispatcher's answers |
| `Radio` | The SX1262 driver and the transport above it, with a chip that runs by itself |
| `PrefixMap`, `Omion` | A map from prefixes to next hops, and the array of slots that implements it |
| `Isa`, `Machine` | The words and operation codes, and the machine that runs a program |
| `Compiler`, `Cpu` | Code for a tree, and the machine with the programs that `main()` gives it |
| `Gauge` | The gauge table, its handlers, and the walk that `gauge_exec_eval` makes through it |
| `RingLoader` | The viewer's connections to a server, in a browser |
| `MCMesh`, `MCStream`, `MCProbe` | Instances for TLC |
| `MCLocal` | `Cpu`, `Omion` and `Gauge`, the libraries that need no network, side by side |
| `MeshProofs` | Lemmas about the operators of `MeshTable` and `Compaction`, and the theorems about `Mesh` |
| `StreamProofs`, `ProbeProofs`, `RadioProofs`, `RingLoaderProofs`, `MachineProofs`, `GaugeProofs` | The theorems about `Stream`, `Probe`, `Radio`, `RingLoader`, `Machine` and `Gauge` |
| `OmionProofs` | The theorems about `Omion`, and that it implements `PrefixMap` |

Operators called "Mutant of ..." are deliberate errors; no specification uses them. Each shows
that the property it is listed with in `PROJECT.json` can fail.

### Mesh

A node's `OMI_MeshTransport` is the record of functions `table`, `queue`, `dead` and the scalar
fields; the medium is a sequence of frames per node, to which a transmission appends a copy for
everyone in range. One action is one call from the host: `Send` (by its outcomes `SendBroadcast`,
`SendToSelf`, `SendRouted`, `SendQueued`, `SendUpdate`), `Recv` (by marker and by outcome), `Tick` for
`available`, which expires routes, floods, retries the queue and compacts it in one step, and
`GetRouteCount`. A call is atomic because a node is one thread and its calls share nothing with
another node but the medium. Time is the age of each entry: `Elapse` makes them older by one
unit, and a bound on the age stands for every age beyond the timeout.

`mesh_send` believes a route update of its own host as it believes a received one (`omi_mesh.c:281`), of any
origin and with any adverts, and then floods its table: `SendUpdate`. What hosts may hand in is the constant
`HostUpdate`, and it is no rare thing: the firmware hands every serial envelope to the mesh (`main.cpp:76`), and
a SYNC_COMMIT has the marker of an update in `orientation[0]` (`omi_probe.c:38`), so that it becomes a route to
node 0. An advert of that route (`Zero`) ends the relation for its reader (`Ended`, `omi_mesh.c:69`). The history
`handed` keeps what a node has taken over from its own host, which is never an update of its own. Nothing can
make what a host says true, so the three properties of sound routes name it: a next hop is in range, or is one
that this node's own host has named (`NextHopHeard`); a number was reached by its destination, or some host
has handed in this very number for it (`SeqnoSound`); a metric is no smaller than the distance, or some host
has named the destination (`MetricSound`). So a false next hop never spreads, while false numbers and metrics do, and
spoil nothing about other destinations.

Abstractions: an envelope is the record of the bytes the mesh reads and writes; the payload is its
identity and a count of the transmissions behind it, which exist for the properties only. The
RSSI and the dead letter's copies of addresses are left out, since nothing reads them. Receivers tell frames apart
by `orientation[0]`, where `mesh_send` leaves a payload what its host wrote: one with the byte 4 or 5 would be taken
for a request or a reply. The payloads of `Msg` are assumed to have another byte there (with 1 they are updates).

### Stream

The parser's fields are variables, bytes are the values of the real preheader and of a few
payloads; a frame is shortened to 15 bytes. `Push` is `stream_push_byte`, in its four cases.
The line holds frames and noise; losing a byte is an action at any position. The host pops an
event as soon as there is one, as `process_serial_to_mesh` and the browser's read loop do, so
`PushSerial` waits while an event is there. `Inject` pushes a frame byte by byte with nothing in
between, whatever the parser was doing.

### Probe

`Start`, `SendSync` and `Serve` are the calls a host can make one by one, as
`test/test_radio_vm.c` does; `Start(n, MaxAttempts)` followed by `Poll` is
`omi_probe_handshake`, one poll a step, by its outcomes. A capability is a set of bits. The
answer of a handler is a sequence of at most one envelope; the other handlers fall into four
classes by what they answer. `Transfer` is the simulated transport: in order, with a bounded
buffer that refuses; `Lose` makes it a radio. `Restart` clears the node and its receive buffer
and leaves what it sent.

### Radio

One action per step of the driver between two commands to the chip: the channel check, the buffer,
the transmission, the poll of the interrupt flags, the read, the clearing. `polls` is the local
counter of a wait, `seen` the flags its last poll found. A wait tests its counter and then takes one
from it, so one that ends in vain leaves it at -1 and the test for 0 behind it is true only when the
flag came with the very last poll: such a success is taken for a time-out (`TakenForTimeout`), and a
wait in vain for the end of the transmission (a call that had one is `blind`).

The chip is external and may do what its interface allows: end an operation in its own time or never,
raise the flag that is due if it is enabled, or not, keep listening after a frame or not. The flags are those
that the driver means: that its command to enable them begins with a byte too many, and that the bits in its
header are not all the chip's (`omi_sx1262.cpp:76-86`), is not modelled, except as a chip that raises none. Both directions
share one buffer. The properties say what the host may rely on: the antenna pins are down whenever no
operation is under way (`PinsFollow`); a send that was not blind and returns the length has put every
chunk on the air, and a refused one none (`ReturnIsTrue`); a reception that was signalled hands over a
frame that has come in and has not been handed over before (`FreshIfSignalled`); and every call returns,
whatever the chip does (`Returns`).

### Omion and PrefixMap

`PrefixMap` is what a caller may think of: a map from prefixes to hops and a number of places used.
`Omion` is the code: an array of entries, each valid or not, scanned in order. The refinement mapping
takes the map to be the entries in use and the places to be the length of the array. It shows what the array
costs: a removed entry keeps its place, and with the array full not even an update succeeds,
since fullness is tested before the search. Among equally long prefixes that cover an address the
map leaves the choice open and the array takes the first. The map speaks of a prefix of length 0 too, which
is stored and covers no address; only `Cascade` may still answer with it, by a hint that names it.

`Cascade` asks the four layers of `omicron_resolve`. An envelope with a valid preheader always has
the same candidate of the first layer (0x1E1F modulo 9 is 7); the model lets the segments be any, as the
function does not look at the preheader.

### Machine, Compiler and Cpu

One action is one turn of the loop in `run()`: `Trap`, or the instruction's own action, or the common
one of those that compute a register (`Compute`). Words are pairs of halves (`Half`), so that an address
is the lower half of a register as in the code. `Machine` runs any program, and takes C's `^` and `|` as
parameters. `Cpu` gives it what `main()` does: a program compiled from a tree, or words as they are. `Compile` follows the recursion of the compiler with its running register
number; `Value` is the reference, the exclusive or of the atoms. `Compilable` says
for which trees the code is right (three levels, no hash of 3, code that fits), and `Readable` which
trees do not make the compiler itself follow a null pointer.

`open` and `last` are histories: the return addresses of the calls that are open, whose slots a store
may overwrite, and the last instruction. `Compiler` uses `Bitwise` and is recursive, so it and `Cpu` are
for TLC only; every behaviour of `CpuSpec` is one of `MachineSpec`, whose theorems hold for it.

### Gauge

`pending` is the C stack of `gauge_exec_eval`, in the order in which its calls will be made: a failure
returns through all of them and a success goes on with the next, so nothing else of the stack
matters. One `Eval` is one call. `Invoke` is `gauge_exec_lambda` with the opcode `GAUGE_INVOKE` above it,
`Slide` is `omicron_slide`. A handler is known by what it returns, 0 or a negative number (a positive one, which no
handler returns, would end `gauge_exec_eval` and not `omicron_slide`); a code past the table is refused by every
function and changes nothing, and is left out. The reference in `ReturnIsWhole` does not walk: it speaks of the
chains of references that begin with a code (`Chains`), and asks of every code they lead to that it is as it
should be, and that no chain is longer than the limit (`Whole`).

### RingLoader

A step is a call of the page (`connectWS`, `connectSSE`, `pollFrame`, `stopPolling`, `disconnect`) or a task
of the browser: an event of a socket or a source, an answer, a timer. A browser fires the error event of a
socket and its close event in one task, so `SocketFails` is both handlers in that order; that `onerror`
ends in an exception when no socket is held makes no difference to the state then. The handlers refer to
"the" socket and "the" source, so the events of one given up earlier act on another; every socket ever
made is kept in `sockets` for that.

## Runs

| Run | Instance | Shows |
|---|---|---|
| `routing` | 3 nodes in a line, updates, expiry, losses, a restart; the host of one end hands in a SYNC_COMMIT and a false update | the table stays within its array, has one route per destination and none to the node itself; but for exactly what the host has handed in, only next hops in range, and numbers and metrics that are sound |
| `id255` | a node 0xFF, requests and a restart | on-demand routes keep the tables unique and free of self routes, and no payload disappears but for the listed reasons |
| `live` | 3 nodes in range of each other, a payload for a neighbour, any hosts | every queued payload leaves the queue of a node whose host polls, whether or not the others do; none disappears but for the listed reasons; queues stay within their arrays; the TTL bounds the transmissions on every path |
| `multihop` (violation) | 3 nodes in a line | the relay takes the payload for its own host |
| `request` (violation) | lossless, fair | a route request is never answered |
| `parser` | 3 frames with and without 0xFF in the payload, noise, one loss, one injection | no stuck parser, no preheader missed, frames in order, recovery after two whole plain frames |
| `dispatch` (violation) | no disturbance | only the first envelope is executed |
| `agree` | calls of both nodes, a small buffer, a loss, a restart, fairness | committed nodes agree on the subset; a waiting handshake with nothing on its way has an agreement behind it; acknowledgements end |
| `commit` (violation) | one initiator, two handshakes | the second one is not answered |
| `radio` | 2 chunks, 2 polls, 2 sends, 2 frames, a chip that may never answer | the pins follow the operations, what a send returns is true, a signalled reception is fresh, every call returns |
| `local` | every tree of two levels and deeper ones; every program of three instructions from a list, in both modes; a resolver of two slots; a gauge table of three codes | code of a tree leaves its value; calls, returns and stores keep the stack; the machine stops only by HALT in the kernel or by CMP; the slots implement the map; a walk that returns 0 was a whole one |
| `viewer` | 3 calls of the page, 2 polling loops, a server that offers any subset of the ways | there is always a way for frames to come, only event handlers lose a connection, and a page that wants a frame gets one |

Bounds. Tables of one or two slots, and queues of one or two, are full after one or two operations,
so that every "full" branch is taken; with three nodes a route has two hops and a relay a
relay's neighbour. Ages stop one past the timeout. Sequence numbers are bounded by the number of
floods and by nothing else. The parser's frames are 15 bytes: seven bytes of payload
hold what looks like the rest of a preheader, with its closing 0xFF or without, and are the fewest that
`PayloadAssumption` allows (see Proofs); three frames, one lost byte and one injected frame are enough for a
disturbance in one frame, its effect in the next and the recovery after.
The handshake has 3 or 4 attempts instead of 100: enough to succeed, and few enough to fail; 4
calls allow two crossing handshakes, or two in a row, beside another envelope.

In `radio` a second chunk makes a stale flag of the first visible, a second poll makes "the last one"
differ from the others, and a second call and frame make one that is taken for an earlier one. In `local`,
memory of 16 words has seven whose stores trap in user mode, a stack that wraps after a few calls and addresses beyond it; words of
8 bits have two halves of one address each; three instructions are enough to change an address or the mode, to
call, store or compare, and to do it again in a loop. Two address bits and lengths 0 to 3 have
prefixes that cover one another, equal ones that differ behind their length, and a length that is refused; two
slots are full after two additions, one of them removed. Three gauge codes, changed twice and with a limit of
two references, have loops, shared references, failures on either side and chains of exactly the limit. In
`viewer` three calls are two connections given up and a third one; beyond two polling loops, more
behave like two (`StartLoop` saturates).

Deadlock is not checked where a bound on the environment (frames sent, calls made, time) ends
every behaviour: the system then has nothing to do.

Fairness. Whether a host calls `available` is its own choice: those of `test_mesh.c` do, and the firmware loop
(`main.cpp:133-137`) never does, which is a hazard of its own. So `TimedSpec` of `Mesh` assumes only that time
passes, and `QueueDrains` is conditional: if the host of a node keeps calling `available` (`Polled`), every
payload leaves the queue of that node, whatever the other hosts do. TLC checks it over the behaviours of hosts that poll and hosts
that do not; without the condition it is violated. `ReliableSpec`, of the violation `request`, lets all hosts poll and
receive without losses: what it assumes beyond the code is in favour of the claim that fails.
`FairSpec` of `Probe` lets each node keep taking what arrives, as the loops that serve do.
Nothing is assumed of the medium or of the calls that start something. `FairSpec` of `Radio` says that
the host's thread runs, and nothing of the chip. `FairSpec` of `RingLoader` says that the browser runs
every task that is due, that a server which let someone in sends now and then, that a source the server does not
offer is refused, and that among the answers to repeated requests some bring a frame; the page is free not
to call anything. The traffic of `agree` leaves out
SEND, which a serving node returns as it came (`omi_dispatch.c:146`): two nodes that serve each other
send it to and fro for ever, and no document says otherwise.

## What the violations say

* `multihop`: the next hop overwrites `target[0]`, the only place of the destination
  (`omi_mesh.c:300`), against the first sentence of `docs/architecture/mesh-protocol.md`.
* `request` (for any network without a node 0xFF: `RequestsStayPending`): `send_rreq` overwrites the wanted node with 0xFF (`omi_mesh.c:200`).
* `dispatch` (for any bytes: `OnlyFirstRuns`): `stream_pop_event` clears `auto_dispatch` and `vm` (`stream.c:92`), against
  `firmware/README.md`.
* `commit`: a NEGOTIATED node does not answer SYNC_COMMIT (`omi_dispatch.c:84`), against the
  diagram in `.opencode/plans/spectrum-modem-isa-phases.md`. The guard cannot simply go: without it
  acknowledgements never end (the mutant of `Quiesces` in the run `agree`).

## Proofs

Every theorem is of the form `Spec => []P`, with a state or an action (two have a hypothesis, and say so), for all values of the
constants that satisfy the module's ASSUME, and is derived from an inductive invariant, proved action by
action. The invariants that the runs check are not inductive by themselves, mostly for the same reason:
they speak of what a component holds, and not of what is on its way to it.

Liveness cannot be proved here, but what a liveness property takes from the code can: a measure, and that
no step raises it and the steps that fairness speaks of lower it. Each liveness property of the runs has such
a theorem for all constants (`QueuesRunDown`, `TrafficWearsDown`, `CallsComeToAnEnd`, `RingFallbackAdvances`), and
the walk of the gauge table, which no run checks for its end, has one too (`WalksEnd`). They are stated in the proof
modules, next to the measures; TLC agreed with each on the instance of its run before it was proved. What
remains with TLC is the last step, from the measure and the fairness to the property.

`Mesh` (`MeshProofs`, `Inv == StateOK /\ TablesOK /\ InboxOK`). A table is filled from updates, so
what holds of routes must hold of the adverts in every receive buffer: `GoodFrame(n)` says which frames
may be in the buffer of `n`, that an update comes from a node in range, that no number in it is ahead
of its destination unless a host has handed it in, and that a payload's TTL and the transmissions behind it add up to no more than it
started with. `Tables` says what a table of routes from a given set is; each
operator of `MeshTable` is shown once to lead from such a table to such a table, and `KeepProperties` and
`FitProperties` do the same for the queue and the dead letters. Theorems: `TypeCorrect`, `RoutesAreUnique`,
`NoRouteToSelf`, `NextHopsAreHeard`, `NumbersAreSound`, `HopsAreBounded`, `NoPayloadForgotten`, `MetricsAreSound`,
`LivesAreBounded`, `QueuesRunDown`, `RequestsStayPending`.
Assumed: a table of at least one route, at least one retry, a default TTL of at least one
(`TableAssumption`, `MeshAssumption`); the topology is any, also a one-sided one, and the other arrays
may have any size, and hosts may hand in any updates (`HostUpdate`). The exceptions are in the properties themselves:
what hosts have handed in, a node named 0xFF, a destination that restarted, and for `NumbersAreSound` a node that floods more than half the range of its numbers
(`MaxSeqno`), after which the comparison turns round.

`NoPayloadForgotten` keeps accounts: `Inv /\ NoneForgotten` is inductive, but only because of what is known of
compaction. For each operation a lemma says where a payload goes that was queued, buried or travelling before
(`Waits`, `Buried`, `Travels`), and for `Tick`, which does all at once, `TickSorts` says that every entry of the
queue is sent, or becomes a dead letter, or stays; `KeepsAll` and `FitOfConcat` say that
what is kept is all there and what does not fit is known. The proof failed at first for a transmission that
no node hears: there no full buffer misses a copy, and yet the payload is gone. The model now counts it as lost
(`Missed`), as the medium loses it; no instance that TLC checks has such a node.

`MetricsAreSound` is the one with a hypothesis, `Spec /\ []MetricsFit => []MetricSound`. `NearInv` says of every
route, advert and request that whoever holds it is within as many transmissions as it says of its destination;
a path is extended by one step with each transmission (`WithinStep`), or that some host has named the destination
(`Told`). The step from 255 to 0 breaks it
(`omi_mesh.c:80` adds one to a `uint8_t`), and nothing in the code keeps a metric from coming there: when a
destination is gone, two neighbours learn it from each other in turn as their routes expire, one further away
each time. `MetricsFit` says that no metric has come to the last value. It holds in all states of the run
`routing`; with `MetricMod = 3` it does not, and TLC finds `MetricSound` violated in ten states.

`QueuesRunDown` is about the time that a queued payload has left, `Life`: the units of time and the ticks until its last
retry. A step may drop entries, compact the queue and add one, so the statement is a mapping from the new
places to the old ones (`Continues`): no two from the same, none with more life than before, at most one entry new. A
unit of time shortens the lives of those that are not due, and `Tick` of those that are due and stay. With
`LivesAreBounded` nothing is in a queue for ever where time passes and the host calls `available`.
`RequestsStayPending` is the finding of the run `request` for every network without a node 0xFF: `Inv` says that what
looks like a request in a buffer asks for 0xFF, so no node answers it, no reply is ever in a buffer
(`NoReplyArrives`), and nothing but a restart ends a pending request.

`Stream` (`StreamProofs`, `Inv == TypeOK /\ ParserInv /\ LineInv /\ OrderInv`). `ParserInv`
says what each state means for the buffer, and that the two counts agree in HEADER; from it follow
`TypeCorrect` (the buffer is never overrun) and `NeverStuck`. `OrderInv` adds that an undisturbed
parser is exactly as many bytes into a frame as the line or the injection is (`Aligned`), from which
`FramesInOrder` follows at the last byte. `HeadersFound` needs the history `recent` to
say something of the parser: `FoundInv` says that, while it looks for a preheader, the latest bytes end with the
first `j` of one exactly for the `j` the buffer holds, so that nothing begun earlier or later is overlooked.
`Resynchronised` follows from `RecoverInv`: in the middle of an undamaged plain
frame the parser is level with it, or done with an envelope, or far enough into one it had begun before to complete it
by the end of the frame, or it has taken the closing 0xFF of the frame's preheader for an opening one and matches
in vain (`Midway`). Each way it is where the line is when the frame ends, and the next such frame is handed out.
Assumed: 0xFF opens and closes the preheader and is nowhere else in it, frames are of
the envelope's size and begin with the preheader, noise has no 0xFF (`StreamAssumption`), and, for `Resynchronised`
alone, an envelope has room for two preheaders that share a 0xFF (`PayloadAssumption`: 15 bytes; the code has 64).
The last came out of the proof: with a shorter payload, a parser that takes the closing 0xFF of a preheader for
an opening one may still be filling an envelope when the frame ends. `OnlyFirstRuns` is the finding of the run
`dispatch` for any bytes: `DispatchInv` says that until the first event is popped the parser is configured to execute,
and never again after it.

`Probe` (`ProbeProofs`, `AgreeInv`). A node believes in an agreement because of an envelope, so
`MailInv` says what each kind of envelope on its way tells of its sender and of both subsets, and
`Knows` what a node's own state tells of the other. Subsets and states are never taken back while no
node restarts (`Keeps`), so an envelope that was true when sent is true when it arrives, however late.
`StuckHandshakesHaveCommitted` goes by `WaitInv`: without a loss, a node that has sent PROBE has
it, or its answer, on the way, and one that has committed and polls has its SYNC_COMMIT on the way or a peer that
has left IDLE. `TrafficWearsDown` gives the measure for `Quiesces`, a lexicographic one: the nodes that have not
committed, the polls left, and the load of the two queues, in which a PROBE or a SEAL counts for two since it
brings about one more envelope, and everything else for one. A SYNC_COMMIT is answered only by a node that commits with
it, which lowers the first part and may raise the others; with the mutant that always answers there is no such measure. Only a
new call or a restart, of which there are at most `MaxCalls` and `MaxRestarts`, is outside of it, and a
SEND: it is answered by itself. `OnlySendKeepsGoing` says that nothing but a posted SEND makes one. Theorems: `TypeCorrect`,
`CommittedNodesAgree`, `StuckHandshakesHaveCommitted`, `TrafficWearsDown`, `OnlySendKeepsGoing`. Assumed: two nodes with capabilities that are not
empty, buffers and attempts of at least one (`ProbeAssumption`).

`Radio` (`RadioProofs`, `Inv == TypeOK /\ PinsFollow /\ ReturnIsTrue /\ Underway /\ Admitted /\ Progress /\
Reading`). What a send returns is decided polls after the chip did something, so the invariant has to say what
a flag means while it is up. `Progress`: as long as no wait of the call was in vain, TX_DONE is up, or
has been seen, only when the chunk of this very wait has gone out; this is what the clearing before the next
chunk is for. `Admitted`: what is on the air or about to be comes from a call that was let through.
`Reading`: RX_DONE is up only while the buffer holds a frame that has not been handed over, which holds
because every operation clears the flags before the next one may write to the buffer. `CallsComeToAnEnd` counts the
steps that a call has left (`StepsLeft`: what is left of the wait, and a full wait and three steps for each chunk to
come): every step of the host takes one, no event of the chip adds one, and `CallsAreBounded` says how many there
are at most. Theorems: `TypeCorrect`, `AmplifiersFollow`, `ReturnsAreTrue`, `SignalledFramesAreFresh`, `CallsAreBounded`,
`CallsComeToAnEnd`. Assumed: at least one chunk and one poll
(`RadioAssumption`); any number of calls and frames, and a chip that ends operations when it likes or never.

`Omion` (`OmionProofs`, `Inv == OmionTypeOK /\ UniquePrefixes`). Uniqueness is what makes the map a map, and it
is inductive because an addition looks through all slots in use before it takes a new one. The map of an array
is stated for any array (`KeysIn`, `HopsIn`), so that the array after a step is treated like the one before; one
lemma per operation says what it does to the keys and the hops, and `Masks` that comparing masked
addresses is comparing blocks. Theorems: `TypeCorrect`, `PrefixesAreUnique`, and `SlotsImplementMap`, the
refinement: every step of `Omion` is a step of `PrefixMap` or changes nothing the map shows. Assumed: the
addresses, hops and lengths are numbers and a block has at least one address (`OmionAssumption`).

`RingLoader` (`RingLoaderProofs`, `Inv == TypeOK /\ LoopsOK /\ NeverDeaf /\ OnlyEventsLeak`). `NeverDeaf` is the case
where the mechanism that keeps frames coming is another one after each event, so each handler is shown to leave
one; what it needs besides is `LoopsOK`, that polling is never on without a loop. `RingConnectionsBounded` counts:
a call pays for one connection, and the source that takes the place of a socket is the socket's (sources and unfinished
sockets together are no more than the calls), so that `Fairness`, which names the sockets and sources `1..MaxCalls`,
leaves none out. `RingFallbackAdvances` is the way down on which `FallsBack` rests: between two calls sockets only
age (`StillTo`), and when they are done with, sources only close, a closing source leaves a loop, and nothing stops the
loops any more. Theorems: `RingTyped`, `RingNeverDeaf`, `RingOnlyEventsLeak`, `RingConnectionsBounded`, `RingFallbackAdvances`, for any number of calls and connections and of loops told apart. Assumed: one
loop at least (`RingAssumption`).

`Machine` (`MachineProofs`, `TypeInv /\ StackInv`). `StackInv` adds to `StackHolds` that no more calls are open than
memory has words and none before boot, which moves the stack pointer. The argument is about the slots of the open calls:
up to a memory full of calls they are different words (`SlotsApart`), and a call or a return moves every call
by one slot (`PushMovesSlots`, `PopMovesSlots`), also where the stack wraps. Hence a store overwrites the slot of at most
one open call, and a call that of none but the oldest. Theorems: `MachineTyped`, `StackKeepsReturns`,
`ReturnsMatchCalls`, `HaltsAreMeant`, for every program. Assumed: a half-word of at least four
values, since words must have the bits of the longest rotation, a buffer of fewer words than a word counts, so that
no return address overflows (`IsaAssumption`; the code has 2^16 words in the buffer and counts to 2^32), `KernelSize`
and the first stack pointer within memory, and that `^` and `|` of words are words (`MachineAssumption`).

`Gauge` (`GaugeProofs`, `Inv == GaugeTyped /\ WalkInv /\ ReturnIsWhole`). The walk is depth first and gives up
at the first failure; the reference is a statement about all chains. `WalkInv` joins them: during a walk, all is well
exactly if every call still to be made (`Tasks`), at its depth, is whole within what is left of the limit, and the
handlers that were run and those that these calls lead to are the ones that are meant. One call keeps that, since a chain is
its first code and a chain from something that code refers to (`ChainTail`, `ChainCons`), so that a code is whole with
`n + 1` codes left if it is as it should be and what it refers to is whole with `n` (`WholeByOneMore`). Nothing is
assumed of the references; a loop is a chain of any length, and none of these is within the limit. `WalksEnd` says that a
walk ends: an evaluation takes one call away and adds calls only one level deeper, so that the numbers of calls to
be made at each depth fall in lexicographic order, and there are no more depths than the limit allows. Theorems:
`ReturnsAreWhole`, `WalksEnd`. Assumed: at least one slot and one code to slide over (`GaugeAssumption`).

## Only model-checked

* Liveness (`QueueDrains`, `Quiesces`, `Returns`, `FallsBack`), which is out of the prover's reach; the measures behind
  them are proved (see Proofs). `FallsBack` needs more than a measure, namely that among repeated answers some bring a frame;
  that rests on fairness alone.
* `CompiledValue` of `Cpu`: compiler and reference are recursive on trees, and what they compute is the bits of an
  exclusive or; the provers have neither.

## Not modelled, and the plan

What is left, in the order it is worth doing:

1. `Firmware`: the parser, the mesh and the radio of one node composed as `app_main` does. The parts
   are checked one by one; together they would show that `available()` is never called, so that queues and
   routes never age on a node (`main.cpp:133`), and that what `send` returns is dropped (`main.cpp:76`).
2. `WebSerial`: connection and disconnection of the browser's serial port. Its read loop is a host of
   `Stream` already.
3. Reads of part of an envelope in the simulated transport, and the frame check of the LoRa stub, whose
   send always fails.
4. The register effects of the dispatcher's other handlers, and the bit boards of the envelope codec: pure
   functions of one envelope.
5. The walk of `omi_orbit`, a linear map whose trace ends after at most 65536 states.

Left out for good: receipts, the tables of the projective geometry and of the sense module, the lexer, the text
assembler, sectors and the loader, which compute or format a value from one input and keep no state;
rendering and audio, which are presentation; and the command-line tools, which print.

What the models say of the code and no property is about: the channel check waits for flags that the first
transmission or reception has disabled, and then finds every channel free (`omi_sx1262.cpp:357`); a
disconnected viewer connects again, since its own close is an event like any other (`ring-loader.js:91`); the trap
of a user program's STORE compares with `KERNEL_SIZE` (`cpu.c:51`), while the kernel is `KERNEL_BASE` to `USER_BASE - 1`,
0x1000 to 0x7FFF (`cpu.h:12-14`), so that a store to 0x7000 or above goes through, and a call
in user mode writes return addresses into the kernel once its stack has grown that far (`cpu.c:106`); and a
comparison that finds "smaller" stops the machine (`cpu.c:91`). No document of the repository promises
otherwise, so none of them is listed as a finding.
