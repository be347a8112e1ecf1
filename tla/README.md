# grpctunnel: a verification project

`grpctunnel` carries gRPC in gRPC: one long-lived bidirectional stream, the
*tunnel*, is the transport of many RPCs, in the direction of the underlying
connection (a forward tunnel) or against it (a reverse tunnel). This directory
holds TLA+ modules translated from its Go source, the TLC configurations that
check them on small instances, and TLAPS proofs for every size of the
constants. `PROJECT.json` maps each definition to the lines it models and lists
the runs, the mutants, the hazards and the theorems.

## 1. Inventory

| Part | State | Operations | Shared with | What makes it correct |
|---|---|---|---|---|
| Flow control (`flow_control.go`) | sender: atomic window, wake-up channel, mutex; receiver: window, queue, unacknowledged bytes, `closed`, `cancelled` | `send`, `updateWindow`; `accept`, `dequeue`, `close`, `cancel` | the application's goroutines, both receive loops, the other end through frames and window updates | no overrun, no lost wake-up, no mutual wait, bounded queue, messages whole and in order |
| Tunnel client (`tunnel_client.go`) | channel: `streams`, `lastStreamID`, `finished`, `settings`; stream: `done`, headers, trailers, read and write state | `newStream`, `recvLoop`, `Close`; `SendMsg`, `RecvMsg`, `CloseSend`, `Header`, `Trailer`, `finishStream`, `cancelStream` | the application, the receive loop, one context goroutine for each stream | IDs in order, an end that is reported once, with its trailers and after all messages |
| Tunnel server (`tunnel_server.go`) | tunnel: `streams`, `lastSeen`; stream: `halfClosed`, `closed`, `sentHeaders`, read and write state | `serve`, `createStream`, `acceptClientFrame`, the handler's calls, `finishStream`, `halfClose` | the receive loop, the handler's goroutine, a goroutine for each close frame | the receive loop never blocks, one result for each stream, cancellation reaches the handler |
| Reverse registry (`handler.go`) | a list of all reverse tunnels and one for each affinity key, each with an index and a readiness channel | `add`, `remove`, `pick`, `waitForReady`, `openReverseTunnel`, `unregister` | one goroutine for each tunnel, whoever closes a tunnel, RPCs, waiters | no dead tunnel listed, no double close of a channel, waiters woken, fair turns |
| Reverse server (`reverse_server.go`) | `state`, `instances`, `wg` | `Serve`, `Stop`, `GracefulStop` | the application's goroutines, `serveTunnel` | after `Stop` nothing runs, `Stop` returns |
| Establishment (`establish.go`, `Start`, `Serve`, `newReverseChannel`, start of `recvLoop` and of `serve`) | timer, context, `awaitSettings`, `settings`, `useRevision` | `startEstablishment`, `done`, `release`, `waitForSettings`, `openTunnel`, `openReverseTunnel`, the first frame, `createStream`'s checks | caller, handler, two timers, receive loop, a peer of any version | an attempt ends, what is reported as established stays, the ends agree or part, nothing is left behind |
| Options (`options.go`) | sizes and timeout | `initOptions` | both ends, through settings and new-stream frames | sizes with which flow control works |
| Thread-safe wrappers, metadata, debug, generated code, test tools | see `PROJECT.json` | | | |

Frames connect the two ends of a tunnel. Within one end the receive loop calls
into the streams; streams call the transport. What is hard here: everything
that two goroutines do to one stream at the same time (its end in particular),
windows that two ends keep without seeing each other's, blocking sends in a
transport of limited capacity, and tunnels that close while they are being
registered or established. Nothing is persisted, so there is no crash recovery.
`PROJECT.json` lists every such hazard at its line.

## 2. Modules

**`FlowControl`** models one direction of one stream: the goroutines that call
`send`, the receive loop of the sending end that runs `updateWindow`, the
receive loop of the receiving end that runs `accept`, the goroutine in
`dequeue`, and the loop of `readMsgLocked` that puts chunks together. That loop
is the client's. The server's treats chunks in the same way, but it looks at the
context before `dequeue` only, and after a cancel may return an empty message
where the client's returns an error (section 4), which is modelled in `Tunnel`;
so what is said below of delivery after a cancel is said of responses. A step ends at each access to memory that
another actor uses, so `send` is five actions (`send`, `LoadWindow`,
`WakeSender`/`AbortSend`, `ReserveChunk`, `WriteChunk`) and `updateWindow` two
(`AddWindow`, `SignalSender`). Windows are numbers modulo `Uint`, as `uint32`
arithmetic is. Data is a message number with the range of bytes in the chunk.
The history variables `charged`, `returned`, `accepted`, `consumed`,
`credited` (running totals) and the `from`/`to` of frames and updates serve the
properties and the proofs; no guard reads them.

**`MessageStream`** is the abstract specification: an ordered, reliable stream
of messages which may lose some only once it has failed. `FlowControl`
implements it (`StreamSpec`, a refinement checked by TLC, liveness included).

**`FlowControlRogue`** puts the same receiver in front of a peer that ignores
windows and framing.

**`Negotiation`** holds the pure functions that the two ends settle a tunnel
with: `initOptions`, the loop of `recvLoop` that chooses a revision, and the
checks of the server's settings and of a new stream, with the sizes of the code.

**`Establishment`** models one attempt to open a tunnel of either direction,
from the call of `Start` or `Serve` through headers and settings to the first
RPCs and to the end of the tunnel: the caller with its establishment timer
(`TimerFire` and `TimerRun` are separate, since `timer.Stop` may come between),
the handler (`openTunnel`, or `openReverseTunnel` with `newReverseChannel`'s
own timer, which looks at the settings and closes the channel in two steps),
the receive loop, the goroutine that sends settings, `createStream` and the
goroutine that reports a rejection, `Close`, `InitiateShutdown`, `Stop`, the
caller's context and the network. A configuration, from which `Init` chooses,
says what the ends are: this version with any options, an older client that
does not negotiate, another implementation of the client that asks for any
window, or a peer that sends the wrong first frame, settings of any
kind, or nothing. `Header` returns the headers or, if the RPC has ended before
they came (because the handler returned, the caller's context ended or the
network failed), an error or neither: grpc-go leaves the status to `Recv` in that
case. What it returned is `respMD`, and `Start` goes on either way. IDs wrap after `MaxId`. **`EstablishmentMC`** lists the
configurations. What gRPC does (headers, the end of an RPC for its other side)
is marked external in the map.

**`Rpc`** is the abstract specification of one RPC: the server decides its
result once, the caller is told that result and nothing else, unless its own
context is done or there are too many responses, has the headers before any
response (except of a handler that goes on after its RPC has failed, section 4),
and hears of success only with or after the last. Each stream of `Tunnel`
implements it (`RpcSpec`).

**`Tunnel`** models the life of the RPCs of one tunnel, forward or reverse: the
channel and its streams at the client, the tunnel and its streams at the
server, and the two FIFO directions of the transport, each of capacity `Cap`,
on which `Send` blocks. Every goroutine is there: both receive loops, the
application's `SendMsg`/`CloseSend`/`RecvMsg`, the context goroutine and the
cancel goroutine of each client stream, the handler, the goroutine that sends
headers and close frames, `Close` and the network's failure. `finishStream` of
each end is broken into the steps other goroutines can observe. The directions
differ in how the tunnel ends: the client of a forward tunnel half-closes it in
`tearDown`; that of a reverse tunnel ends it when `openReverseTunnel` returns
(`HangUp`), and its server may half-close it (`Stop`), after which the
wrapper drops what the server sends (`stopped`). A message is one frame
here; the response direction has a window, because `SendMsg` waiting for it
while holding `writeMu` is what threatens the receive loop. Requests never wait
for window and so are not acknowledged. A receive loop that runs
`finishStream` handles no other frame until it is through (`ClientLoopFree`,
`ServerLoopFree`). A scenario, from which `Init` chooses, says the direction,
how many streams and messages there are, which sides stream in the descriptors
of the two ends (unary ends read a second time to find the end), and which
failures can happen; **`TunnelMC`** lists the scenarios.

**`ReverseChannels`** models the registry: three goroutines for each tunnel
(`openReverseTunnel`, the receive loop, the application) that add and remove
it (the constant `Closers` says which of the last two take part, `Closed` in which
tunnels), with one step for each list, since each list has its own lock; the end
of the RPC that carries a tunnel, which ends the tunnel's context before anyone
has called `close` (`StreamDone`); RPCs that pick a tunnel
through `AsChannel` or `KeyAsChannel` (`Invoke`); callers of `WaitForReady`. A
readiness channel is a number that grows when `remove` replaces it, and a flag
whether the current one is closed.

**`ReverseServer`** models `Serve`, `Stop` and `GracefulStop`, the
`WaitGroup` with its rule for `Add`, and the other end that hangs up in answer
to a half-close.

**`FlowControlProofs`**, **`FlowControlStreamProofs`**,
**`FlowControlRogueProofs`**, **`TunnelProofs`**, **`EstablishmentProofs`**,
**`NegotiationProofs`**, **`ReverseChannelsProofs`** and
**`ReverseServerProofs`** hold the theorems (section 5).

How they fit: `Negotiation` yields the sizes that `FlowControl` assumes
(`OptionsUsable`, `AcceptedSettings`), `Establishment` hands an established
tunnel to `Tunnel`, whose streams use `FlowControl` for each direction, and to
`ReverseChannels`, whose `Open` is the moment at which `newReverseChannel`
returns; `ReverseServer` calls `Serve`, whose tunnel is `Establishment`'s and
then `Tunnel`'s.

## 3. Runs

| Run | Instance | Shows |
|---|---|---|
| `flow_stream` | 2 senders, 3 messages that are empty or, with their overhead, larger than the window, revision two, window 7, chunk 3, an update size that is capped, all failures | `TypeOK`, `NeverRejected`, `NoLostWakeup`, `NoStall`, `ReaderAwake`, `FramesBounded`, `DeliveredInOrder`; every `send` returns (`SendReturns`); refinement of `MessageStream` with its liveness (`StreamSpec`) |
| `flow_rogue` | 2 rogue frames around a real message | `QueueWithinWindow`, `RogueStreamEnds` |
| `tunnel_safety` | `Bidi`: a bidirectional RPC, 1 request, 2 responses, cancel, deadline, handler error; `Rejected`: 2 RPCs created concurrently, rejection and failed creation; `Persistent`: a handler that answers although a second request has failed its RPC | `TypeOK`, `NoProtocolError`, `EndIsPublished`, `ClosedOnce`, `RpcSpec` |
| `tunnel_live` | `Mismatch`: the client streams where the server expects one request and the other way round; transport of one frame, window of one, cancel, a reader that may not read | `RpcSpec`, `StatusArrives`, `CancelArrives` |
| `tunnel_down` | an RPC on a tunnel that is closed, breaks, or both; one on a reverse tunnel whose server stops it or whose client closes it | `RpcSpec`, `TunnelEndsStreams` |
| `establish` | both directions, with and without timeouts, all failures; sizes at and below the limits; more streams than IDs; every set of revisions out of 0..3 with windows 0, 1, 5, 6 from servers, and such windows from clients; peers that send a wrong frame or none; old clients | `TypeOK`, `PeersAgree`, `StreamsCanFlow`, `EstablishedSurvives`, `ListedHasSettings`, `IdsFresh`, `AttemptEnds`, `NothingLeft` |
| `reverse_lists` | 2 tunnels of one key whose RPCs may end, one of which the application may also close, 1 waiter, 2 remembered picks | `TypeOK`, `AvailAgrees`, `Unlisted`, `Reachable`, `RoundRobin`, `ClosedLeaves`, `WaitersWoken` |
| `server_stop` | 3 `Serve`, 2 `Stop`, 1 `GracefulStop` | `TypeOK`, `StoppedForGood`, `WaitGroupUsed`, `StopReturns` |
| `tunnel_phantom`, `start_nil`, `listed_timeout`, `server_graceful` | the smallest instance that shows it | the findings of section 4 |

Larger instances of `ReverseChannels` were also explored while it was written
(three tunnels with three picks; two keys with two closing goroutines besides
the handler; millions of states; before `StreamDone` was an action) with the same
outcome; the kept run is the one
that checks safety and liveness together in about two minutes.

*Bounds.* Windows and chunks are chosen so that a message needs several chunks,
a chunk may be cut by the window, a window may be too small for the overhead
only, and the update size equals the (capped) window, which is the worst case
for stalling. `Uint` is barely larger than the window so that an addition too
many wraps. The proofs remove these bounds, and cover revision one as well, for
the safety of flow control; those of `Tunnel`, `Establishment`,
`ReverseChannels` and `ReverseServer` do the same for the numbers of streams,
frames, tunnels and calls and for the sets of scenarios and configurations. In
`Tunnel` one frame of capacity and one unit of window make everything that can
block do so. Two streams are needed only where IDs matter (`Rejected`); the
streams do not otherwise interact except through the receive loops and the
transport. `Establishment` is one attempt, since attempts share nothing before
the registry; with `MaxId` two, four calls of `newStream` go through the last
ID and beyond. The offered windows lie on both sides of the smallest usable one
of each revision (1 and 6), and so do the windows that foreign clients ask for.
Messages of four bytes need more than a window of seven with their overhead of
five, and more than two chunks. Two tunnels on a list are the fewest for which a
removal can leave the round-robin index beyond the end, and for which turns mean
anything.

*Fairness.* Weak fairness of the library's goroutines and of the transport:
the Go scheduler runs every runnable goroutine, and gRPC delivers what it has
accepted. The application is never required to send, read (except in
`flow_stream`, where messages can only be delivered to a reader), or return from
a handler. In `ReverseServer` RPCs end and the establishment timeout bounds the
opening of a tunnel; the other end hangs up when it reads the end of our half,
which is what `recvLoop` and `openReverseTunnel` do (and `tunnel_down` checks,
for `Stop`). In `Establishment` timers expire unless stopped and gRPC tells a
handler that its caller is gone; nothing makes the application call anything,
the network fail, or a silent peer answer.

*Deadlock.* All runs say `CHECK_DEADLOCK FALSE`: every bounded instance comes
to an end, and an application that stops calling is legal. That nobody waits
for ever is stated as the liveness properties instead.

## 4. Findings

* `tunnel_phantom`: `readMsgLocked` of the server checks the context before
  `dequeue` but not after it. A client-streaming handler that waits when its
  deadline passes is given an empty message nobody sent
  (`tunnel_server.go:563`; the comment at 558 promises the context's error).
* `start_nil`: if the context given to `Start` ends while it waits for settings
  (or before, so that `Header` returns nothing), `waitForSettings` returns, `est.done(nil)` finds no timeout, and `Start`
  returns a channel without settings and without an error. An RPC on it panics
  on the nil pointer at `tunnel_client.go:479` unless the receive loop has closed
  the channel by then; the comment at line 74 says that the tunnel is not
  established until the settings have come.
* `listed_timeout`: the timer of `newReverseChannel` looks whether the settings
  have come and then closes the channel (`tunnel_client.go:95-98`), without
  anything that keeps `recvLoop` from storing them in between. The handler may
  have listed and announced the tunnel, and `Serve` have reported it as started,
  when the timer closes it; `timer.Stop` does not stop a function that runs. The
  test `TestEstablishmentTimeout_DoesNotAffectEstablishedTunnel` says "Both
  tunnels should still work well after the timeout" (`establish_test.go:132`).
  What does hold is `EstablishedSurvives`: nothing of the kind for the caller's
  timer, and for the handler's only if it had looked before the settings came.
* `server_graceful`: `GracefulStop` documents that "the server stops after all
  existing operations complete", but it ends no tunnel, so it returns only if
  the other end hangs up or `Stop` is called (`reverse_server.go:191`).

Four remarks that have no run of their own. A `Start` whose RPC ends before the
headers (a cancelled context, a failed network) may be given neither headers nor
an error, and `recvLoop` then closes the channel with the advice to upgrade the
peer, which may be this very version (`tunnel_client.go:520`): the exception in
`PeersAgree`. A handler that goes on after its stream
was cancelled can write responses after the close frame (`tunnel_server.go:483`),
which `tunnel.proto:151` rules out; the client ignores them (`NoProtocolError`
and `RpcSpec` hold all the same). Such a handler's response can also come before
the headers, although `tunnel.proto:140` says "If headers are sent at all, they
must be sent before any response message data": `finishStream` sets
`sentHeaders` and leaves the sending to a goroutine (`tunnel_server.go:652`), so
that `SendMsg` goes ahead of it. The caller then has a response of a failed RPC
and no headers yet, which is why `Rpc` asks for headers first only until the
RPC has failed; the scenario `Persistent` has this case. And `allocateStream`
tests `lastStreamID` before it increments it: the first ID after the largest is sent as a negative
number, which makes the server end the tunnel with a protocol error, and only
later calls fail with "all stream IDs exhausted"; no ID is used twice
(`IdsFresh`).

## 5. Proofs

`FlowControlProofs` proves, for every window, chunk and update size, every
number of messages and every set of sending goroutines, that
`FlowControl!Spec` keeps `TypeOK`, `NeverRejected`, `NoLostWakeup`, `NoStall`,
`ReaderAwake` and `FramesBounded`. It assumes `FlowAssumption`: a window of at
least `minWindowSize` (`createStream` and `recvLoop` refuse smaller ones) that
fits a `uint32`, and chunk and update sizes above zero (`initOptions`).

*The argument.* None of these invariants is inductive: they compare windows at
two ends. The proofs use running totals. At any time

    returned <= credited <= consumed <= accepted <= charged

hold, the frames in flight lie between `accepted` and `charged`, the queue
between `consumed` and `accepted`, the updates in flight between `returned`
and `credited`, each in order, without overlap. The sender's window is
`Window - (charged - returned)` and the receiver's
`Window - (accepted - credited)`. From that: a frame in flight fits the
receiver's window because everything charged fitted the sender's and
`returned <= credited`; no window wraps; and in a quiescent state the receiver
withholds less than `minUpdateSize`, which dequeue's second condition turns
into enough for the next chunk. `IInv` is the conjunction of these facts with the
lock discipline of `sender.mu` and the state of wake-ups; the theorem
`Inductive` proves it, and the others follow from it. Gaps (a frame that was
charged and lost with the tunnel, or dropped by a closed receiver) are why the
stretches need only be ordered, and are tight as long as the stream lives.

`ReverseChannelsProofs` proves, for any sets of tunnels, keys, closing
goroutines and waiters, that the registry keeps `TypeOK`, `AvailAgrees`,
`Unlisted` and `Reachable`. Two lemmas say what `add` and `remove` do to a list
(`AddList`, `RemoveList`: which tunnels are on which list afterwards, that no
tunnel is on one twice, that `avail` stays right); the inductive invariant says
at which points of `openReverseTunnel` a tunnel may be on which list
(`ListedAll`, `ListedKey`), which is why a removal by `close` at any time does no
harm and why nothing is listed at the end, and that as long as nobody has called
`close` it is where it was put (`StaysInv`). Each action then only has to show
what it does to one tunnel (`HandlerMove`, `CloseMove`, `WaiterMove`).

The round robin (`TakesTurns`, which is `RoundRobin`) has an invariant of its
own: as far back as a list is long, the picks since it last changed are what
lies before the index, going round (`Turn`). Any two of them are then different
places of a list on which no tunnel occurs twice.

`ReverseServerProofs` proves `TypeOK`, `StoppedForGood` and `WaitGroupUsed` for
any number of calls, from: `wg` counts the tunnels being served, and whoever
waits has left the active state, in which alone `wg` grows. It assumes that there
are finitely many calls of `Serve`.

`NegotiationProofs` proves of the pure functions, for every value of the
options and any settings: that two ends of this version always accept each
other (`SameVersionAgrees`), that what is accepted from any peer can carry data
(`AcceptedSettings`), and that `initOptions` yields what `FlowAssumption` asks
for (`OptionsUsable`).

`FlowControlStreamProofs` proves `DeliveredInOrder` (`InOrder`) and that
`FlowControl` implements `MessageStream` as far as safety goes
(`ImplementsStream`), from the same `FlowAssumption`. `DeliveredInOrder` says
nothing of what is on its way, so the invariant `SInv` does. Queue and frames in
flight are one sequence, the `Pipe`. Each frame in it is a part of a message that
was sent (`Genuine`) and goes on with the message of the frame before it or
starts a later one (`Chain`); the first one follows what `readMsgLocked` has put
together so far (`Assembling`), and the thread that is in `send` goes on where
the last one ends (`Joined`). As long as neither a context nor the tunnel has
ended (`Steady`), no message is left out either (`TightChain`). A closed receiver
cuts the pipe at the end of its queue, and a reader that has met a malformed
message or a cancelled receiver returns no message any more (`Reading`), which
is what keeps the pipe out of the matter from then on. In the refinement a call
of `send` is `Submit`, the step in which `readMsgLocked` completes a message is
`Deliver`, the first failure (`Failed`) is `Fail`, and all others leave what the
application sees alone.

`FlowControlRogueProofs` proves `QueueWithinWindow` (`QueueBounded`) for any
chunks that a peer may send. The running totals are no use here, since a rogue
frame is charged by nobody. What holds is the receiver's own account: the
charges of the queued items add up to `accepted - consumed`. To say that without
a sum over a sequence, the invariant asks for a function that gives the total
before each item (`Sums`).

`TunnelProofs` proves `TypeOK`, `NoProtocolError`, `EndIsPublished`,
`ClosedOnce` and the refinement `RpcSpec` (`ImplementsRpc`), for any number of
streams, any capacity of the transport and response window, and any set of
scenarios of either direction (`TunnelAssumption` only gives their types). The
inductive invariant has two kinds of parts. Those about one end: a stream is
created before anything else is done to it, and one at a time (`Creation`); who
runs the client's `finishStream` and what it has set by each step
(`Finishing`); a stream without a handler has done nothing at the server
(`Registered`); only the end of a handler can be a success (`Outcome`). And those
that connect the ends through the frames between them, without which no
property of the caller follows: new-stream frames arrive in the order of their
IDs and before the other frames of their streams (`Requests`, from which
`NoProtocolError`); there is one close frame, it carries what was decided, and
no response comes after that of a success (`Responses`); headers go before
responses unless the RPC has failed (`HeadersLead`); and what the caller has
read, what is queued and what is on its way add up to what the handler wrote as
long as the RPC may still succeed (`Counted`), which is why success is reported
only with every response. A step of one end changes only that end and one
direction of the transport, so the proof first says what each action does to the
fields that a part mentions (the lemmas named `...Fields` and `...Effect`), and
each part is then preserved by those effects. That step by step each stream is
an `Rpc` follows from the invariant in the old and in the new state.

`EstablishmentProofs` proves `TypeOK`, `PeersAgree`, `StreamsCanFlow`,
`EstablishedSurvives`, `ListedHasSettings` and `IdsFresh`, for any set of
configurations, number of streams and width of IDs. It assumes of a
configuration that an end of this version offers what this version's options
yield (`ThisVersion`). The parts of its invariant: how far caller and handler
can be when the channel exists, and that the caller's headers are the handler's
(`Attempt`); a channel of this version without headers belongs to an RPC that has
ended (`Headless`, from which the exception in `PeersAgree`); success is reported only by a `done`
that has stopped the timer, and only the timer's goroutine ends the context that
way (`Timeout`, from which the first half of `EstablishedSurvives`; the second,
an action property, says that the handler's timer never decides to close a
channel that has settings, and that nothing else reports a timeout); settings that are stored have
passed `checkSettings` and fix the revision (`Negotiated`);
`newReverseChannel` returns with settings or with a channel that is done and
stays so (`Listing`); before the settings there are no streams (`Quiet`); and
what the frames ask for and the server has accepted (`Requests`, `Accepted`),
where an ID that has wrapped around is smaller than any that was seen.
`StreamsCanFlow` takes from `AcceptedSettings` that what passed the checks can
carry data, and from `checkNewStream` the same of any window a client asks for.

So each invariant of each passing run is proved for every value of the
constants, and so are `EstablishedSurvives` and the safety of both refinements. Not provable here, and left
to TLC: liveness under fairness (`SendReturns`, the fairness of `StreamSpec`,
`RogueStreamEnds`, `StatusArrives`, `CancelArrives`, `TunnelEndsStreams`,
`AttemptEnds`, `NothingLeft`, `ClosedLeaves`, `WaitersWoken`, `StopReturns`), and
anything that needs `ENABLED` or an induction over data.

A note for whoever changes the modules: an `EXCEPT` with two changes at the same
index of a function (`![i].a = x, ![i].b = y`) is written as
`![i] = [@ EXCEPT !.a = x, !.b = y]` throughout. The two mean the same, but
tlapm 1.4.5 translates the first one wrongly, so that a proof could go through
that should not.

## 6. Not modelled

Metadata contents, codecs, credentials and call options (data that no control
depends on, except that preparing a stream may fail, which is the fault
`creds`). The parsing of `grpc-timeout`, whose product may overflow
`time.Duration`: TLC's integers have 32 bits, and with a narrower width the
outcome says nothing but the width; what a deadline does is `Tunnel`'s
`Timeout`. Peers of `Tunnel` that break the protocol once the tunnel is
established (`FlowControlRogue` has one for a single receiver, `Establishment`
some for the beginning), so the hazard that a client whose `accept` fails does
not tell the server remains without a property. The growth of `instances`, which
is memory only. A handler's own `SendHeader`: it does what `SendMsg` does before
the first response, which is an action. The acknowledgement of requests in
`Tunnel`, where only responses wait for window. The locks of the thread-safe wrappers are the reason why a
`Send` or `Recv` is one step; they are not state of a module. Tunnel metadata
accessors, debug logging, generated code and the test tools hold no protocol
state.

## 7. Plan

1. A peer inside `Tunnel` that overruns a window, for the hazard at
   `tunnel_client.go:899`.
2. Action properties from the invariants above: what is settled stays settled
   (the outcome of a stream at both ends, a stored set of settings, the state of
   a stopped server).
