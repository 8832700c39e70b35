# SignalG in TLA+

SignalG is a Go library for websocket hubs. A `Handler` upgrades HTTP requests,
keeps a `Connection` per websocket and a registry of all of them, calls the
user's hub when connections open, speak and close, sends frames to one or many
connections, closes silent ones and drains them all on shutdown. These modules
model that machinery, `TLC` checks them on small instances and `tlapm` proves their
safety properties for every instance.

## Inventory

| Part | State | Operations | What is hard | What makes it correct |
|---|---|---|---|---|
| Connection (`connection.go`) | `sendQueue`, `sendClosed`, `activeOps`, `activeHandlers`, `draining`, `opsDone`, `ctx`, the websocket, the `writeLoop` goroutine | `Send`, `SendRaw`, `Complete`, `CompleteError`, `Ping`, `Pong`, `beginHandlerOperation`, `beginDrain`, `CloseWithStatus`, the writer | senders, callbacks, writer and drain interleave under two mutexes and a channel that is replaced; write errors; a full queue | every operation is ended exactly once; frames are written in order; nothing is left in a dead queue; a finished drain is final and lost nothing; every drain finishes |
| Registry (`registry.go`) | `connections`, the user and group indexes with their shared sets, `entry.mu`, striped locks, `h.online` | `add`, `remove`, `touch`, `expired`, `addToGroup`, `removeFromGroup`, `removeFromAllGroups`, the pooled snapshots of ids, users, groups and all | lookups before a lock and use after it, sets reached through old pointers, two goroutines removing the same entry | indexes and counters agree with the registered connections; no key leaks; nested locks never block every call; a snapshot names every connection once |
| Handler (`server.go`) | `shuttingDown`, `active`, `admissionMu`, where each `ServeHTTP` is, where `Shutdown` is | `ServeHTTP`, `readLoop`, callbacks, `Shutdown` | admission against shutdown, callbacks against drain, callbacks that fail or panic, the deadline, frames read while draining, connections the heartbeat hides from the snapshot | nothing admitted late; callbacks paired; closing only what is drained; Shutdown ends, and then nothing is left |
| Heartbeat (`heartbeatLoop`, `expired`) | timer, `heartbeatWake`, `heartbeatStop`, `lastSeen` | wake, arm, sweep, stop | lost wake-ups, a stale scan, timers that start again | no wake-up lost; only silent connections expire, and they do expire in time |
| Batch (`batch_send.go`, `batch_close.go`) | jobs and results channels, workers, a pooled snapshot | the `Send…` and `Close…` methods of Handler | channel closing, cancellation half-way, reuse of the pooled slice | no send on a closed channel, no use after release, results add up, calls return |
| Frame codec (`protocol.go`) | none | validate, encode, decode, marshal | lengths at the limit of their header field | what is accepted decodes to what was sent; one frame per message |
| Payload hint and buffers (`connection.go`, `internal/bpool`) | `encodedPayloadHint`, pooled buffers | observe, size, get, put | concurrent `CompareAndSwap`; a body that outgrows its buffer; every error path returns a buffer | a buffer has one owner; the hint decays gradually |
| Dispatcher (`dispatcher.go`) | routes of the hub type, a cache of them | find and call a hub method by reflection | unknown methods, refused requests, failing methods | every invocation is answered once, in order |
| Server (`server.go`) | `http.Server`, `listener` | `Start`, `Shutdown` | `Start` against `Shutdown`; two shutdowns that wait for different requests | the port is given up; `Shutdown` ends |
| Hertz adapter, connected message, example, generated code | none | | | |

How the parts interact: `ServeHTTP` owns a connection and adds it to the registry
and removes it again; the heartbeat removes and closes connections behind its back;
batch calls take snapshots of the registry and send on or close the connections in
them; the read loop decodes frames, dispatches them to the hub and sends the
answers through the same connection; `Shutdown` takes a last snapshot under `admissionMu`, drains its connections
(`beginDrain`, `opsDone`), closes them and waits for every `ServeHTTP` through the
wait group `active`.

## Modules

| Module | Models | Correspondence |
|---|---|---|
| `Connection` | one connection | One action per critical section or channel operation. `pc[p]` is where a sender is between `beginSendOperation` and its return; `writer` is where `writeLoop` is; `drainDone` remembers whether the channel `beginDrain` returned is still `c.opsDone`. `accepted` and `written` are history variables. A frame is identified with its sender. `ws.Write` is external: it succeeds unless the websocket is closed, or fails. |
| `GracefulSend` | the promise of a connection | Only `accepted`, `written`, the phase of the drain and whether the connection broke. `Connection!Promise` is the refinement mapping. |
| `Registry` | registry and online counter | One step per operation on a `ShardMap` (a library, taken to be atomic per operation). A set of an index is a heap object, because `connectionSetFor` hands out pointers that outlive the index entry. `job[p]` says which call goroutine `p` is in and what it holds. Each key has its own stripe lock: a stripe is never held while another is taken, so sharing stripes only adds waiting. |
| `Handler` | all `ServeHTTP` calls, heartbeat, `Shutdown` | `stage[c]` is the place in `ServeHTTP`, its deferred calls included. A connection is reduced to what `Connection` establishes: a drain is complete when no callback runs and no frame is pending; `discarded` remembers which connections lost an accepted frame while their websocket was still open. Closing the context and the websocket is one step here and two in `Connection`. With `HubFails` callbacks may return an error or panic. |
| `Server` | the standalone server | Extends `Handler`: every step of a handler is a step of the server, but requests reach it only through the listener, and only `Server.Shutdown` starts its shutdown. `http.Server` is external. |
| `Heartbeat` | the heartbeat goroutine | Ages, timer and ticks. A registry change and the wake-up that follows it are two steps, and so are the scan and the removals of `expired`. |
| `Batch` | one batch send or close | First the snapshot, key by key and connection by connection, while connections come and go; then producer, workers and caller with the unbuffered `jobs` and the buffered `results`; `released` is the slice's return to the pool. |
| `Protocol` | frames | Operators only. A frame is a sequence of cells: five header fields (the four bytes of `BodyLen` are one cell), then method, id and body. The width of the length fields, the limits and what counts as valid text are constants. |
| `Exchange` | frame contents on one connection | Extends `Protocol`. Each call fills a buffer of the pool step by step, the writer puts it on the wire and gives it back; the read loop decodes, dispatches and answers. A body is its encoding, `Nil`, or a value the codec refuses. `wire`, `accepted`, `answered` and `invoked` are history variables. The queue is reduced to full, closed or taking the frame: the rest is in `Connection`. |
| `ConnectionProofs`, `RegistryProofs`, `HandlerProofs`, `ServerProofs`, `HeartbeatProofs`, `BatchProofs`, `ProtocolProofs`, `ExchangeProofs` | | Theorems about the module each is named after. `ServerProofs` uses `HandlerProofs`, `ExchangeProofs` uses `ProtocolProofs`. |
| `MC…` | | Constants of the instances. |

Operators whose name ends in `_Something` and whose comment starts with "Mutant"
are deliberately wrong variants of the definition that follows them. No
specification uses them; substituting one must make the property listed with it in
`PROJECT.json` fail.

## Runs

| Run | Instance | Shows |
|---|---|---|
| `connection` | a reader that runs callbacks and sends, a sender, queue of 2, 3 frames | Operation count exact, `opsDone` closed exactly at zero, frames conserved, nothing stranded in a closed queue, a finished drain is final, and lossless if the connection is alive. Refinement of `GracefulSend` with its liveness: every drain completes. The writer of a cancelled connection stops with an empty queue. |
| `registry_indexes` | 2 connections of one user, a group, a caller, heartbeat (3.8 million states) | No nil set is dereferenced, user sets name registered connections only, group sets only connections that joined, no empty set is leaked, and the calls under way never wait for each other in a circle. |
| `registry_online_heartbeat` (violation) | 1 connection, heartbeat | `Online` goes wrong. |
| `registry_user_lost` (violation) | 2 connections of one user | A live connection is missing from its user. |
| `registry_group_stale` (violation) | 1 connection, a group, a caller | A dead connection stays in a group. |
| `handler_safety` | 2 connections, up to 2 frames in flight each, heartbeat, callbacks that fail or panic (2.1 million states) | The wait group is exact, nothing is admitted after shutdown began, Shutdown closes only drained connections before its deadline and leaves nothing behind, callbacks are paired and `OnDisconnected` follows removal. |
| `handler_drain_loss` (violation) | 1 connection, 1 frame in flight | Shutdown reports success although an accepted frame was discarded. |
| `server` | 1 connection, heartbeat, failing callbacks, 2 calls of `Start` | `Server.Shutdown` ends without its deadline, the listener is closed for good whatever `Start` does, every handler returns. |
| `heartbeat_bounded` | 2 connections, timeout of 4 ticks, 4 arrivals and departures | No wake-up lost, expiry timely and justified, silent connections are closed. |
| `heartbeat_churn` (violation) | the same without a bound on arrivals | A silent connection is never closed. |
| `batch` | up to 3 connections that come and go, requests by ids, users, group and all with repeated, empty and unknown keys, 2 workers, cancellation at any time | The snapshot names every connection that was there throughout, once, and no stranger; no send on a closed channel, no use of the released slice, results add up, the call returns. |
| `exchange` | a sender, a reader with 2 frames from the peer, queue of 2, 6 buffers, length fields of 4 values, payloads up to 6 bytes (1.2 million states) | A buffer never has two owners; what is on the wire decodes to the calls that were accepted, in their order; every invocation is answered once, in order; no answer precedes the connected message; the hint never drops by more than one decay step. |

### What the violations show

* **Online counter.** `remove` looks its entry up, waits for `entry.mu` and does
  not look again. If the heartbeat's `expired` deletes the entry in between, both
  subtract it from `online`, which ends below the number of registered connections
  for good.
* **Lost user connection.** `connectionSetFor` returns a set that
  `removeConnectionFromIndex` of another connection of the same user then finds
  empty and takes out of the index; the `Set` that follows goes into a set that no
  lookup finds. `SendUsers` misses that connection while it lives.
* **Stale group member.** `addToGroup` looks its entry up before it waits for
  `entry.mu`; `remove` may finish first. The dead connection stays in the group.
* **Starved heartbeat.** A token of `heartbeatWake` starts the timer from scratch.
  If connections come or go more often than every half timeout, the sweep never
  runs.
* **Loss during a drain.** A message or ping that is read while the connection
  drains is refused with `ErrHandlerShuttingDown` (`server.go:791` and `:803`), which
  ends `readLoop`; the deferred `closeContext` cancels the context, the writer
  discards the frames accepted before, and each discard ends an operation. The drain
  counts as complete and `Shutdown` returns nil. `Connection` agrees: its
  `DrainLosesNothing` speaks of live contexts only.

### Bounds

Every bound is a constant. `MaxFrames` and `MaxPending` limit frames: with a queue
of 2 and 3 frames the queue fills, a sender finds it full, and a frame is in the
writer's hand while others wait. `SetIds` holds the heap objects of `Registry`: the
assumption `HeapSuffices` asks for one per key and one per goroutine, as many as can
be reachable at once, so that allocation never fails. `Buffers` bounds the buffers of
`Exchange` in use and pooled; a step that needs a new one when none is left is not
taken. `MaxReads` of 2 lets two invocations be under
way to the wire together with a sender's frame; `MaxStarts` of 2 lets `Start` run
before and after `Shutdown`. `LenSize` of 4 with limits of 3 has the boundary of the
code (256 and 255) at a size where every length occurs. `MaxChurn` of 4 lets two
connections come and go around an idle one; 0 removes the bound. A timeout of 4
ticks lets the timer fire before, at and after the moment of expiry. Two
connections and, in `Registry`, three active goroutines are what every race found
needs. `server` uses one connection because the product of two with the heartbeat is
too large for the liveness check; its safety for two is `handler_safety`. Deadlock
checking is off where a system that has finished simply has nothing left to do; in
`Registry` the invariant `NoDeadlock` takes its place.

### Fairness

* Goroutines that can run do run: weak fairness of the writer, of a `Send` that
  has begun, of `ServeHTTP`, of workers and of the heartbeat loop. `ws.Write` is
  bounded by the write timeout, which `NewHandler` normalises to a positive value.
* `Server` adds the goroutine that serves, `http.Server.Shutdown` and the end of
  `Server.Shutdown`. `http.Server.Shutdown` itself closes a
  connection that has not sent its request within some seconds, so that no request
  it waits for is outstanding for ever, also with the default `ReadHeaderTimeout` of 0.
* `Registry` and `Exchange` are checked for safety only and assume no fairness.
* Hub callbacks are assumed to return; strong fairness in `Connection`, because a
  callback may send any number of frames first. Nothing is assumed of peers, of
  the deadline of `Shutdown` or of when users call it.
* `Heartbeat` assumes that time passes and that goroutines react within a tick.

## Proofs

Every invariant and every action property of the passing runs that is not about
liveness is also a theorem, for every value of the constants. Each proof follows one
scheme: an inductive invariant `IInv`, which TLC checked on the instance of the run
first; `Init => IInv`; one step per action for `IInv /\ [Next]_vars => IInv'`; and the
property from `IInv`.

`ConnectionProofs` proves, for any finite set of senders, any queue size and any
number of frames:

* `TypeCorrect`, `OperationsCounted`, `OperationsSignalled`, `FramesConserved`,
  `QueueNotStranded`, `DrainIsLossless`: the invariants of run `connection`;
* `FramesInOrder`: the websocket sees a prefix of what was accepted, also after a
  write error;
* `DrainFinal`: the action property `DrainIsFinal`;
* `ConnectionImplementsPromise`: the refinement of the safety part of
  `GracefulSend`.

The inductive invariant `IInv` joins the types, the exact account of operations,
the meaning of `opsDone`, the state of the queue, and the stability of the drain's
channel. They need each other: that a completed drain has no operation follows
from `OpsDoneSignals` only if the drain's channel still is `opsDone`, which holds
because `CanBeginSend` admits a send on a draining connection only under a running
callback, which by `OpsAccounted` is itself an operation; so the count cannot leave
zero again. That such a drain lost nothing follows from `QueueConserved`, because
no operation means an empty queue and an idle writer, and from
`WriterLeavesCancelled`, because a live context means the writer still is in its
loop.

`HandlerProofs` proves, for any finite set of connections and any bound on the frames
in flight, with callbacks that fail or panic or not:

* `HandlerTypes`: among the types, that the wait group `active` is the number of
  requests between admission and the end of `ServeHTTP`, and only those are registered;
* `NothingAdmittedLate` (an action property), `ShutdownIsComplete`,
  `ClosesGracefully`, `DisconnectedUnregistered`, `CallbacksArePaired`.

Its `IInv` says what is known of one connection at each stage (`ConnInv`) and what
the loops of `Shutdown` have done to the part of the snapshot behind them
(`ShutdownInv`). That a drained connection stays drained while `Shutdown` goes on to
the next one is the crux: a connection of the snapshot is draining, a draining
connection starts no callback, and without a callback nothing is sent on it.
`ShutdownComplete` is the exact count: `active.Wait` returns at zero, so nobody is
serving, and only who is serving is registered.

`ServerProofs` proves `ServerImplementsHandler`: every step of the standalone server
is a step of its handler or leaves it alone; so `ServerShutdownComplete` carries the
results about `Shutdown` over to a server. (`ListenerCloses`, `HandlersReturn` and
`ShutdownTerminates`, the other properties of run `server`, are liveness.)

`RegistryProofs` proves, for any finite sets of connections, users, groups and
callers, with or without a heartbeat: `RegistryTypes` (no call dereferences a nil
set), `UserSetsNameRegistered`, `GroupSetsNameMembers`, `EmptySetsAreDeleted` and
`RegistryDeadlockFree`. The properties speak of moments when nobody holds `entry.mu`;
between them a call has changed one index and not the other, so `IInv` has to name the
call that owes the rest: `MembersInv` says that a member of a set is entitled to be in
it or that the holder of its `entry.mu` still has to take it out, `EmptyInv` that an
empty set in an index has a call about to fill it or to delete it. Both need `OneKey`,
that a set in an index belongs to one key also for those who hold an old pointer to
it, and that newly allocated sets are fresh, for which `HeapSuffices` counts keys and
goroutines. Freedom from deadlock follows from `EntryInv` and `StripeInv`: the holder
of a stripe is between two statements and can go on, and the holder of an `entry.mu`
waits only for a stripe.

`BatchProofs` proves, for any connections, requests and number of workers, and
cancellation at any time: `BatchTypes` (with the capacity of `results`),
`ClosedChannelUnused`, `SliceUnreadAfterRelease`, `EveryMatchIsCounted` and
`SnapshotIsExact`. `IInv` fixes in which order the goroutines end (`PhaseInv`), what a
worker holds at each step, and that the rest of the slice is a suffix of it
(`TailInv`). For the snapshot, `SnapshotInv` says that of the keys already visited
every connection that has stayed registered was seen, that of the key at hand it was
seen or is still ahead in the iteration, and that a total of zero means that there was
none: that last part is what makes the early return of an empty snapshot right.

`HeartbeatProofs` proves `HeartbeatTypes`, `WakeupsKept`, `ExpiryIsPrompt` and
`ExpiryIsJustified` for any set of connections, any timeout and unbounded churn.
Its invariant says what is known of the ages at each place of the loop; the key is
that while the timer runs, `calm + timer > HalfTimeout` means that it has fired
since the last token, and from then on `age + timer` stays within one and a half
timeouts.

`ProtocolProofs` proves two theorems about the operators of `Protocol`, for every
width of the length fields, every limit and every notion of valid text:

* `RoundTrip`: a frame the send path accepts decodes, and to exactly its method, id,
  kind and body. The limits on method and id must be below the number of values of
  their header fields, which is the assumption `ProtocolConstants` (255 against 256
  in the code): that is what makes `% LenSize` harmless.
* `Canonical`: a frame that decodes is the encoding of what it decodes to, and that
  passes the validation of the send path. It needs the limits to be the largest
  values of the fields, as in the code, and header cells within their width.

Both rest on where the parts of a concatenation lie (`FirstCell`, `SecondCell`,
`InnerPart`, `LastPart`) and on `DivMod` for the two fields that share a byte. Run
`exchange` uses the same operators with concrete frames.

`ExchangeProofs` proves, for any calls, any frames of the peer, any hub, any number of
senders and any queue size:

* `ExchangeTypes` and `BuffersHaveOneOwner`: `OwnInv` says it owner by owner (calls,
  queue, writer, pool), and every path of a call, the failing ones included, hands its
  buffer to one of the others;
* `WireIsWhatWasSent`: `CallInv` says what the buffer contains at each step of a call
  (header left open and names, then the body, then the header), `WireInv` that wire,
  writer and queue together hold the frames of the accepted calls in their order until
  the connection closes; `RoundTrip` then says what they decode to;
* `HintDecaysGradually` (an action property);
* `GreetedFirst` and `InvocationsGetAnswers`, from a second invariant `RInv` that
  relates the place of the read loop to what it has invoked and answered. They have a
  hypothesis, `ReaderAnswers`: `Complete`, `CompleteError` and `Pong` are exported
  methods of `Connection`, and an application that calls them itself may answer out of
  turn. With the calls of run `exchange` the hypothesis is true.

The assumptions are those of the modules on their constants, which TLC evaluates in
every run: finite sets, a positive queue size and timeout and limits that fit, all of
which the normalisation of the configuration guarantees; distinct model values; for
`Exchange` that the calls are those the methods of `Connection` can make
(`WellFormed`); and the bound `HeapSuffices`.

Only model-checked are the liveness properties (`KeepsPromise` beyond its safety part,
`WriterStops`, `ShutdownTerminates`, `ListenerCloses`, `HandlersReturn`, `IdleCloses`,
`BatchReturns`): fairness and `ENABLED` are out of the prover's reach. The properties
of the violation runs are false of the code, so there is nothing to prove of them.

## Not modelled

* The Hertz adapter forwards requests to `Handler.ServeHTTP`; the example and the
  generated code have no logic of their own.
* The body codecs (MessagePack, protobuf, JSON), `mapx`, the pools and `http.Server`
  are external: their models say only what the code relies on.
* The cache of dispatchers: `LoadOrStore` of a value that depends only on its key.
* The fields of the connected message; when it is sent is in `Handler` and
  `Exchange`.
* A hub factory that panics after `newConnection` has started the writer
  (`server.go:264`), and upgrades between `websocket.Accept` and admission that
  outlive `Shutdown`: the wait group does not cover them, and no property speaks of
  them.

A remark on the tests: `connection_test.go:14` and `:24` expect sizes that follow
from a default hint of 512, while `defaultEncodedPayloadSizeHint` is 128. The models
take the constant as a parameter.

## Plan

1. Done: `Connection` with `GracefulSend`, `Registry`, `Handler`, `Heartbeat`,
   `Batch` with the snapshots, `Protocol`, `Exchange`, `Server`; theorems for all
   their safety properties.
2. Next: what holds of the registry in place of the properties that the violation runs
   refute (how far `Online` may be off, which connections a user's set may miss), as
   invariants of their own with proofs; the parts of the liveness properties that are
   safety (that the listener, once closed, stays closed).
