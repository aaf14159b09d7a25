# Verification of Gaius

Gaius runs a Minecraft client in a web page. A browser cannot open TCP
sockets, so a **RelayNode** (`apps/bridge`) carries the game's TCP stream over
a WebSocket; a Paper plugin can take the relay's place inside the server; and
single player runs the integrated server in a Web Worker that keeps the world
in the browser's storage. This directory holds TLA+ models of the parts of that
system whose correctness depends on the order in which callbacks, sockets,
threads, storage calls and timers happen to run, the TLC configurations that
check them on small instances, and TLAPS proofs.

Contents: [Inventory](#inventory), [How the parts interact](#how-the-parts-interact),
[Plan](#plan), [Modules](#modules), [Runs](#runs), [Bounds](#bounds),
[Fairness](#fairness), [Proofs](#proofs), [Divergences found](#divergences-found),
[Hazards without a model](#hazards-without-a-model), [Not modelled](#not-modelled).

Paths are relative to `src/`. `main.js`, `registry.js` and `framed-stream.js`
are in `apps/bridge/dist`; `server-worker-bootstrap.js` (below: `bootstrap.js`)
is in `port/web/singleplayer`.

## Inventory

### RelayNode (`apps/bridge/dist`)

One Node.js process. Every callback runs to completion before the next one, so
interleaving is at callback granularity, except where a handler `await`s.

| Component | State | Operations | Hard behaviour | What makes it correct |
|---|---|---|---|---|
| Tunnel, target to browser (`main.js` 1332-1398, 1793-2027, 2086-2456; `framed-stream.js`) | the frame accumulator, three reasons to pause the TCP socket, one pending `setImmediate`, the packet phase | TCP data, drain turn, send callback, flow message, close | five handlers toggle the pause reasons; a drain may pause, yield or close halfway through its buffer | bytes leave exactly once and in order; no pause without a wakeup |
| Tunnel, browser to target (`main.js` 1191-1314, 1399-1792, 2464-2611) | client accumulator, packet phase, watermark sequence numbers, stall timer, synthetic tick, TCP write backpressure | client message, inspection turn, stall tick, `drain` event | inspection lags behind the bytes it inspects | nothing is inserted or rewritten on a stale phase |
| Client frame ready queue (`main.js` 370-466) | process-wide FIFO of tunnels, one `setImmediate` | enqueue, remove, run one turn | tunnels enqueue and remove each other's neighbours while a turn runs | each runnable tunnel is in the queue once; no starvation |
| Tunnel life cycle (`main.js` 1040-1180, 1315-1331, 2028-2085, 2440-2463, 2612-2637, 2768-2908) | tunnel leases, target routes, pending connects, idle timer | upgrade, connect message, lookup, dial, settled, close, error | the connect settles after the browser has left; messages are read after the close | every lease, route, timer and socket is released exactly once |
| Target policy and DNS cache (`main.js` 2923-2981; `policy.js`) | DNS answer cache | resolve, prune | overlapping lookups of one key | a tunnel only reaches allowed addresses |
| Local tunnels (`main.js` 3058-3254) | endpoints by session and role, frames held before pairing, wait timer | register, frame, flow, send callback, close | either side may come first, both may leave; a session id is used again while old sockets close | paired endpoints see each other's frames in order; nothing survives its session |
| Resource-pack cache (`main.js` 3660-3961, 3988-4239) | cache entries with reader counts, bytes in use, in-flight downloads, spool files | acquire, wait, download, spool, retain, release, prune | an entry is evicted while it is read; requests share a download whose leader fails | no file is removed under a reader; counts match files; waiters go on |
| Relay registration (`main.js` 2646-2748; `registry.js`) | leases with expiry, probes in flight | PUT, DELETE, heartbeat, expiry, list | a probe `await`ed by PUT spans a DELETE | capacity holds; a relay that is gone is forgotten |
| Configuration and message parsing (`config.js`, `protocol.js`) | none | parse | - | - |
| Origin proxy (`apps/bridge/cloudflare-origin-proxy/worker.js`) | none | forward a request | - | - |

### Paper plugin (`apps/server-plugin`)

`GaiusWebSocketGateway` terminates WebSockets inside the server and bridges each
one to a TCP socket of the same server. State: sessions, one relay thread each,
a readiness latch, per session `connected`, `closed`, `paused`, the socket and a
lock around its output. Hard: four threads may close a session while a fifth
opens its socket; blocking reads and writes; a plain field shared without a lock;
shutdown while connections open. Correct when nothing survives its session and
the server thread never hangs.

### Browser runtime (`port/`)

| Component | State | Hard behaviour |
|---|---|---|
| `BrowserWebSocketChannel` (Netty channel over a WebSocket, relay failover) | candidate relays and generations, outbound queue, inbound queue, slices, flow control, close and retirement | a socket's late events after failover; five queues that push back on one another; a remote close before the tail is decoded |
| `BrowserClientNetwork`, `BrowserMultiplayerRecovery` | the pump's wakeup scheduler, connection attempts, recovery claims | a wakeup lost between two owners of the pump; a stale attempt completes after a newer one started |
| `BrowserPacketScheduler` | exact count of queued packets, budgets and phase barriers | a miscount leaves every channel paused |
| `BrowserWorldgenScheduler` | slice budgets, task scopes, a suspended continuation | reentrant pulses while a continuation is suspended |
| `BrowserRenderScheduler`, `BrowserGpuBufferPoolCache` | dispatcher tokens, upload budget, pooled buffers | a dispatcher's token lost between its run and its next request |
| Worker life cycle (`bootstrap.js`, `BrowserSingleplayerClient`, `BrowserIntegratedServerMain`) | start and stop stages, pending changes, flush in flight, handles, region cache | a stop at every await of a start; a watchdog that aborts a flush others join |
| OPFS region store (`bootstrap.js` 1651-2471), `BrowserFilePersistence`, `TFileChannel` | append-only log, index, materialised copies, dirty ranges, IndexedDB rows | a crash between two writes; a refused write; migration of old rows |
| `BrowserCompressionDecoder`, `BrowserCrypto` | decoder state | - |
| Launcher page (`port/web/launcher`) | DOM, profiles | - |
| Packages (`packages/*`), class-library and Minecraft overrides, TeaVM patchers, build and smoke-test tools | - | not part of the running protocol |

## How the parts interact

```
 Java game ── BrowserWebSocketChannel ── WebSocket ── RelayNode tunnel ── TCP ── server
   ticks        BrowserConnect             flow       ServerFramePath (down)
   packets      BrowserInbound            messages    TunnelPhase     (up)
                     │                                RelayTunnel  (life cycle)
                     │                                ClientFrameScheduler (all tunnels)
                     ├── WebSocket ── Paper plugin (PaperGateway) ── TCP ── the same server
                     └── WebSocket ── local tunnel (LocalTunnel) ── WebSocket ── another browser
 launcher ── HTTP ── RelayNode proxy (ResourcePackCache)    RelayNode ── HTTP ── registry (RegistryLease)
 integrated server ── file channels ── worker storage (WorkerStorage, RegionStore) ── OPFS, IndexedDB
```

The two halves of a tunnel share the packet phase, `closeBoth` and the TCP
socket. `TunnelPhase` takes the target's frames as they arrive and
`ServerFramePath` the client's phase changes as events. The ready queue calls
back into the tunnels. The browser's inbound half drives the relay's read state
through flow messages: `ServerFramePath` obeys any, `BrowserInbound` sends them.
The worker's flushes (`WorkerStorage`) carry the changes the region store
queues; the contents of the log are `RegionStore`'s.

## Plan

Done, in the order of their importance:

1. `ServerFramePath` with its abstract specification `OrderedRelay` and its
   proofs; `ClientFrameScheduler` and `RegistryLease` with theirs
   (`RelayNode_proofs`).
2. `TunnelPhase`, and `RelayTunnel`, which composes it with the life cycle of
   the WebSocket around it, with the proofs of both.
3. `RegionStore` with its abstract specification `DurableFiles` and its proofs,
   and `WorkerStorage`, the life of the worker around the storage, with its
   proofs (`ServerHosts_proofs`).
4. `BrowserInbound` (against `OrderedRelay` as well) and `BrowserConnect`, with
   their proofs.
5. `LocalTunnel`, `PaperGateway` (`ServerHosts_proofs`) and `ResourcePackCache`
   (`RelayNode_proofs`) with their proofs.

What is left, in the order in which it would be done: the packet ledger of
several processors and the recovery of a failed connection; the DNS cache; the
dispatcher tokens of the render scheduler; local ports of the browser channel
and the Blob fallback; the rehydration mirror of the worker.

No safety property of a run is left without a theorem. What stays with TLC is
liveness (see [Proofs](#proofs)).

## Modules

### `ServerFramePath` and `OrderedRelay`

The state of one connected tunnel as seen by the relay. `Stream` is the
target's byte stream as a sequence of units; a frame is one or more units, the
last one marked, so that TCP chunks can split frames. `buf` is
`serverFrameBuffer`, `out` what `webSocket.send` accepted, `flushed` how much of
it left the socket, so `Len(out) - flushed` is `bufferedAmount`. Both sequences
hold stream positions, which is what makes loss, repetition and reordering
visible. `paused`, `clientPaused` and `hold` are `tcpPausedForWebSocket`,
`tcpPausedForClient` and `serverFrameDrainHoldingRead`; `reading` is the TCP
socket's own flowing state; `scheduled` is the pending `setImmediate`.

| Action | Code |
|---|---|
| `TcpData` (`ForwardDirect`, `AppendAndDrain`) | TCP `data` callback |
| `DrainLoopEnds`, `DrainOpaqueChunk`, `DrainOpaqueHead`, `DrainBatch`, `DrainKeepAlive`, `DrainFrame` | one disjunct each of the loop of `drainServerFrameBuffer` |
| `DrainFinally` | its `finally` block |
| `ScheduledDrain` | the `setImmediate` of `scheduleServerFrameDrain` |
| `SendCallback` | the callback of `webSocket.send` and `resumeServerFrameIfLowWater` |
| `FlowMessage` | the browser's `{"type":"flow"}` messages |
| `ClientHandshake`, `ClientEncryptionResponse`, `ClientInspection` | what the client half does to this half |
| `TargetCloses`, `TunnelFails`, `BrowserCloses`, `WebSocketClosed` | teardown |

The loop of a drain runs inside one callback. `drain` is its program counter
and every other action requires `Idle`, so the loop is cut into steps without
letting anything interleave.

Abstractions: packet contents are the kinds of frame the relay distinguishes;
the 512 KiB / 2 ms / 16-frame budget is "a frame budget, or less" (time and
bytes may run out after any frame); the flow acknowledgement the relay sends is
zero-sized; the client half's parser may be behind at any time, so a keepalive
may be forwarded where the watermark would forbid answering it.

`OrderedRelay` is what the half promises: units are taken off the stream exactly
once, in order, to be delivered or answered, until the relay is abandoned. The
refinement mapping takes `out`, what was answered and what `buf` and the socket
still hold (`ImplementsRelay`); `BrowserInbound` is checked against the same
module, with slices as units.

### `TunnelPhase`

The other half. Browser bytes go to the target in the handler that receives
them; the packets in them are inspected later, in a turn of the ready queue.
What the relay writes by itself, answers to keepalives and synthetic ticks, is
therefore written on a phase that may be old. The module holds both views: `cl`
is the client as its forwarded bytes define it, which is how the target will
decode what is inserted next; `phase`, `cbuf` and `lag` are what the relay
knows. `injected` is what the relay wrote in the last step.

| Action | Code |
|---|---|
| `ClientMessage` (`InspectLater`, `AppendClient`, `DisableInspection`) | the WebSocket `message` handler with `appendClientFrameBuffer`, `disableClientFrameParsing` and the recovery by a standalone control frame |
| `InspectionTurn` (`ProcessFrame`, `QueuedAfterTurn`) | `drainClientFrameBuffer` and `processClientFrame` |
| `ServerFrame` (`IsProxiedKeepAlive`) | the part of `drainServerFrameBuffer` that answers keepalives and recognises Start Configuration and the encryption request |
| `StallTick`, `WriteTick` | the interval of `armClientStallTimer`, `writeSyntheticPlayTick` |
| `TcpDrain` | the two `drain` listeners of the TCP socket |
| `GraceExpires` | 100 ms without client traffic |
| `ServerReads` | the target (environment) |
| `Close`, `LateMessage` | `closeBoth`; a message read after it |

Abstractions: the handshake has selected a profile before `Init`; frames are
well formed; a message holds one or two units; a turn handles one frame, because
its time budget may run out after any; target frames are handled as they arrive
(`ServerFramePath` has their buffering, which only delays them).

### `RelayTunnel`

One WebSocket from its upgrade to its end. The module EXTENDS `TunnelPhase` and
adds `ws`, the connect message, `openTcpTunnel` (`setup`, `targets`), the TCP
socket, the target's route count, the lease and the idle timer. `TunnelStep` is
a step of `TunnelPhase` while both ends are up, so every behaviour of
`RelayTunnel` is one of `TunnelPhase` with stuttering.

| Action | Code |
|---|---|
| `ConnectMessage`, `Refused` | the first message of the WebSocket and what may be wrong with it |
| `Resolved`, `DialFails`, `DialSucceeds` | `openTcpTunnel`: the lookup, each target in turn, the `then` callback |
| `TunnelStep`, `Drain` | the tunnel while it is up; the backpressure listener that resumes the WebSocket |
| `IdleTimeout`, `WebSocketError`, `BrowserCloses`, `WebSocketClose`, `TargetEnds`, `TargetClose` | the ways it ends |
| `MessageAfterClose` | messages that were under way when `closeBoth` ran |
| `CloseBoth`, `Cleanup`, `Released` | `closeBoth` and the same releases in the `close` handler, which often both run |

A lookup cannot be aborted, a dial can. `Others` tunnels of the same target keep
the route's count above zero, so that a release too many is visible. The host,
token and target checks of the connect message have one outcome, and the
client's handshake is part of the connection.

### `ClientFrameScheduler`

The queue the inspection turns run from: one `setImmediate` for all tunnels of
the process. `queue`, `ready` and `scheduled` are the array, the set and the
pending immediate; per tunnel the module keeps the number of complete frames,
whether the buffer ends inside one, and the flags that gate inspection. A turn
is one callback, cut into `TurnStarts`, `Run`, `Probe` (or `TurnFails`) and
`TurnEnds`, because its own calls reach back into the queue; no other action is
enabled between them.

| Action | Code |
|---|---|
| `Enqueue`, `RemoveReady` | `enqueueClientFrameReady`, `removeClientFrameReady` |
| `TurnStarts`, `Run`, `Probe`, `TurnFails`, `TurnEnds` | `runClientFrameReadyQueue`, the registration's `run`, `hasRunnableWork` and `onError` |
| `ScheduleDrain` | `scheduleClientFrameDrain` |
| `ClientMessage`, `RecoverInspection`, `DisableInspection`, `Close` | the callers in a tunnel |

`TunnelPhase` uses the queue through one flag, `queued`: what it assumes of the
queue is `NoLostWakeup` here.

### `RegistryLease`

The registry's lease map and the relays that keep an entry in it. A request in
progress at the registry is a record of `requests`; `awaited` says that its
relay still waits for the answer. A PUT has two stages, because the registry
awaits DNS and the relay's manifest between reading it and storing the lease;
other handlers run meanwhile. `start` numbers a relay's incarnations.

| Action | Code |
|---|---|
| `Start`, `Register`, `Timeout`, `Stop` | `startRelayRegistration`: the interval, the abort timers, `stopRelayRegistration` |
| `Crash` | the process ends without shutdown, or by the forced exit |
| `Verify` | `verifyRegistration` up to the answer of the manifest |
| `Accept`, `Reject`, `Delete` | the rest of `handleRequest` |
| `Expire`, `Prune` | the TTL and `pruneExpiredLeases` |
| `RegistryRestarts` | the lease map is in memory only |

Abstractions: the contents of a manifest and of a URL are one outcome; the TTL
is an event rather than a clock, so a lease may expire at any time after it was
renewed.

### `LocalTunnel`

Two browsers of one session id, joined by the relay (`registerLocalTunnel`).
`relay` holds the session, the state of each WebSocket and its endpoint; frames
are numbered per sender, `got` is what each socket was given and `flushed` what
has left it. Later pairs use the same id while sockets of an earlier one are
still in their close handshake; a socket that asks for a role that is taken gets
no endpoint.

| Action | Code |
|---|---|
| `Register` (`Joined`, `Paired`, `HandedOver`) | the rest of `registerLocalTunnel` after its checks: session, timer, pairing, delivery of held frames |
| `Frame`, `Flow` | the `message` handler |
| `SendCallback`, `SendFailed` | the callback of `send`, and of sends that fail as their socket dies |
| `Timeout` | the wait timer of the session |
| `BrowserCloses`, `ProtocolError`, `Dies`, `HandshakeTimeout`, `CloseEvent` | how a WebSocket ends (ws 8.21.0: a paused one reads nothing, not even a close frame) |
| `Asks`, `AsksForMore` | the browsers |

`removeEndpoint` and `closeLocalTunnelSession` are operators with the source's
names. Left out: a connect message read after the idle timer has closed its
WebSocket, which would register a closing socket.

### `ResourcePackCache`

The pack proxy of the relay: one process, and an action is what runs between two
`await`s. A request downloads at most once, so its file and its cache entry
carry its name. `order` is the LRU order of the `Map`; an expiry is a choice made
at each pruning (`Prunings`); a file is absent, there, evicted (to be removed by
its last reader) or being removed.

| Action | Code |
|---|---|
| `Arrives`, `WaitEnds` (`Acquire`) | `acquireResourcePackDownload`: cached, wait for another's download, or lead one |
| `AttemptFails`, `BackoffEnds` | `downloadResourcePackWithRetries` (requests not in `Streaming`) |
| `FetchEnds`, `SpoolOpens`, `BodyEnds`, `SpoolRemoved` | `beginStreamingResourcePack`, `spoolResponseBody`: the client is served while the body is spooled |
| `Retain`, `Evicted`, `Trimmed` | `retainCompletedResourcePack`, `evictResourcePackCacheEntry`, `pruneResourcePackCache` |
| `ServeEnds`, `ServeFails`, `SettleEnds`, `Release`, `FileRemoved` | `streamToResponse`, `disposeStream`, `releaseResourcePackDownload` |
| `ClientLeaves`, `Deadline` | `watchProxyClient`, `createResourcePackTimeoutState` |
| `Manifest` | the other caller of the pruning |

A status other than 200 and an empty body are like a pack that is too large:
served, never kept. The branch of `retainCompletedResourcePack` for an incumbent
(`main.js` 3829-3833) cannot run, which `SharedDownload` shows: it is left out.

### `RegionStore` and `DurableFiles`

The files of a world from Java's channels down to the device. `Regions` are
`.mca` files, written in place through a `TFileChannel` with dirty ranges;
`Moved` are `.mcc` files, replaced by a move. `log` is the OPFS file as a
sequence of records (`torn` while the header is not written), `appendOffset` the
worker's end of it, `flushed` what surely survives a power loss; `index`, `idb`,
`pending`, `cache`, `fileValues` and `vfile` are the other places a file may be.
One storage call runs at a time (`job`), but its steps are separate, because the
worker may be killed or the device may refuse between any two.

| Action | Code |
|---|---|
| `OpenStore` (`Scan`, `Scanned`, `Accepted`, `Applied`) | `openOpfsRegionStore`, `scanOpfsRegionStore`: records until the first that does not fit, then a truncation |
| `Migrate`, `MigrateFlush`, `MigrateDelete` | `readWorldFiles`: old IndexedDB rows are copied, flushed, deleted |
| `Stat`, `Open`, `Write`, `Truncate`, `ForceDirty`, `CloseDirty`, `CloseClean` | `BrowserFilePersistence` and `TFileChannel` |
| `Persist` (`Begin`, `PatchRecords`, `LongChain`) | `persistDirtyRanges`: a patch, or a full record when the chain is long |
| `WriteBody`, `WriteHeader`, `Succeed`, `Fail` | `appendOpfsRegion`, `appendOpfsPatch` and the end of the call |
| `Move`, `Delete`, `Tombstone` | `syncMove`, `__gaiusFsDelete` |
| `FlushPending`, `Evict` | a flush of the worker; the region cache |
| `Crash` | the worker is killed (nothing lost) or power fails (a prefix of the log remains, no shorter than `flushed`) |

`DurableFiles` states the promise: a list of versions of all files, of which a
crash keeps one; a replacement of one file adds a version; a synchronisation
forgets the older ones. `ImplementsFiles` maps the log to that list: one version
for each end at which the device may cut it.

Abstractions: writes reach the device in order (records of the first format have
no checksum, so a device that reorders writes could not be told from a good one);
generations do not wrap; `opfsDirty` is `flushed < appendOffset`; `tainted`
excludes a file whose channel was closed while its last write failed.

### `WorkerStorage`

The life of the worker: `onmessage` for the start (`startup`, `asset`,
`install`), the file callbacks, `drainPendingChanges` with its transaction, and
`requestStop` to the closed handles (`stop`, `close`, `deferred`). Values are
versions numbered by `changeVersion`. What runs between two events is one action
or a chain that `Quiet` keeps other events out of.

| Action | Code |
|---|---|
| `Start`, `AwaitPort`, `PrepareServerScript`, `StartRuntime`, `RegisterServer` | `onmessage`, `waitForStartPort`, `prepareServerScript`; Java's `registerServer` |
| `OpenDatabase`, `OpenOpfsRegionStore`, `ReadWorldFiles`, `FinishInstall` (`Cancelled`) | `installPersistentFileSystem`, with the check for a stop after each await |
| `Put`, `PutRegion`, `AppendRegion`, `DeleteRegion` | the `__gaiusFs*` callbacks, region cache and eviction |
| `FlushTimer`, `Turn`, `Commit`, `TransactionFails`, `TransactionSettles`, `BatchFails` | `scheduleFlush`, `drainPendingChanges`, `writeBatch` |
| `RequestStop`, `PollRuntime`, `ServerExits`, `ServerFlushTimesOut` | `requestStop`, `stopServerImpl` and Java's stop hooks |
| `FlushForShutdown`, `FlushWatchdog`, `SettleTimesOut`, `Flushed` | `flushForShutdown`, `flushWithWatchdog` |
| `CloseStorageHandles`, `CloseResumes`, `CloseTimesOut`, `DeferredClose`, `CloseAnswered` | `closeStorageHandles`, `closePersistentStorage`, `deferStorageCloseUntil` |

Abstractions: a region has size one and `Budget` counts regions; the cache may
evict any entry it may evict at all; the barrier stands for the generation check
of installed callbacks, which agrees with it; the log in OPFS is in
`RegionStore`.

### `PaperGateway`

Three kinds of thread beside the server's main thread: the WebSocket library's
selector, a worker per connection for its messages and whichever thread sees its
end, and the session's relay thread. An action ends where another thread can
see a difference: at a field, a lock, a blocking call.

| Action | Code |
|---|---|
| `Start`, `OnStart`, `OnStartupError`, `AwaitReady`, `CheckReady`, `SelectorEnds` | `onEnable`, the readiness latch and its timeout |
| `Disable`, `RequestShutdown`, `SnapshotSessions`, `MainCloses`, `StopLibrary`, `Join` | `onDisable`, `shutdown` |
| `OnOpen` (`MayOpen`, `Accept`), `OnMessage`, `ConnectionEnds`, `OnError`, `HandlerCloses` | the library's callbacks |
| `WorkerConnects`, `WorkerSetsFlow`, `WorkerLocks`, `WorkerWrites`, `WriteThrows` | `connect`, `setPaused`, `write` |
| `RelayCreates` to `RelayEnds` | the relay thread, the copying loop and keepalive answers |
| `Publish` | the store to the field `socket` becomes visible to other threads |
| `TryClose`, `CloseTarget` | `close()`, by whichever of the four threads |

The field `socket` is a data race: the Java memory model lets `close()` read
`null` after the relay thread has stored it. `missed` records that it did.
Assumed of the library: a connection's end is delivered after its `onOpen` has
returned. One connection, one outcome for origin, token and target; interrupts
are part of the waits; keepalive answers do not look at bytes.

### `BrowserInbound`

One connected channel in a page: WebSocket frames are queued, cut into slices by
callbacks (`scheduleSlices`), pulled by the Java pump, decoded into packets, and
handled by the client's ticks. Every queue pushes back on the one before it and
the first one on the relay. `task` is the callback that runs; microtasks precede
the next event (`Quiet`).

| Action | Code |
|---|---|
| `OnMessage`, `OnClose`, `OnError` | `deliverInbound`, `ws.onclose`, `ws.onerror` |
| `SliceCallback`, `AdmitSlice`, `SlicesEnd` | `scheduleSlices` and `pumpSlices` |
| `WakeCallback`, `FramePump`, `PumpStarts`, `Poll`, `Decode`, `DecodeCloses`, `PumpEnd` | the wakeup scheduler of `BrowserClientNetwork`, `pump`, `pollInboundScheduled`, the pipeline |
| `ClientTick` | the ledger of `BrowserPacketScheduler` counts a packet down |
| `JavaClose`, `Disconnect`, `RetireRetry` | `doClose`; `retireClosedEntry` with its retries and grace |
| `RelaySends`, `RelayTakesFlow`, `RelayCloses` | the relay (environment) |

`applyFlowControl`, `setInboundPaused`, `scheduleSlices`, `signalInbound` and
`finalizeRemoteCloseRetire` are operators with the source's names. Sizes are in
slices; budgets may run out after the first round; the channel starts connected,
with one packet processor.

### `BrowserConnect`

How the same channel finds its tunnel. A candidate is tried once, so it names its
socket and its generation; `entry` is the JavaScript entry with the states of its
sockets; frames Java writes are numbered, `got` is what each endpoint received.

| Action | Code |
|---|---|
| `Open`, `OpenRemoteCandidate`, `GoesOn` (`Dialled`, `Passed`, `Exhausted`) | `state.open`, `openRemoteCandidate` with refusing constructors |
| `PreparationTimer`, `Discovered`, `SelectionTimer`, `PreflightDone` | discovery and selection of relays |
| `CandidateTimeout`, `OnOpen`, `OnConnecting`, `OnConnected`, `OnMismatch`, `OnBytes`, `OnClose` | the callbacks of a socket, each with its generation check |
| `Write`, `Flush`, `SocketDrains` | `state.send`, `requestFlush`, `flush` |
| `JavaClose` (`Fail`, `Closed`) | `state.close`, `fail` |
| `Says` | the endpoints, which may answer late, wrongly or never |

Ranks are any order, discovered and named relays any subsets; a recently missed
plugin is a choice; a constructor that throws is chosen in `Init`.

## Runs

| Run | Question | Answer |
|---|---|---|
| `server_frame` | Does any interleaving of data, drains, send callbacks, flow messages and teardown lose, repeat or reorder a unit, or leave a pause, hold or complete frame without a wakeup; is every step one of `OrderedRelay`; is the whole stream delivered while the tunnel stays up? | No, yes, yes (293,000 states) |
| `relay_tunnel` | Is what the relay inserts, while inspection may lag by any time, a packet the target can decode in its phase; does the phase catch up, also after an overflow; is a backlog or pause left without a wakeup; does an ended tunnel leave anything behind, however late lookups, targets and messages come? | Keepalives always fit, ticks fit once inspection is caught up; nothing is stuck or left (125,000) |
| `ready_queue` | Is a tunnel with complete frames ever lost, queued twice or overtaken, whatever turns, failures and closes do; does it get its turn while others keep sending? | Never; it does (29,000) |
| `registry_lease` | Can overlapping verifications exceed the capacity; can a relay drive two requests; is a relay that is gone for good forgotten, whatever it left in progress? | No, no, yes (104,000) |
| `region_store` | Is the running index what a scan would build; do acknowledged bytes survive every kill and power loss; do the copies agree with the log; is it a store of whole-file versions? | Yes (589,000) |
| `reclaim_is_safe` | May a copy be dropped once a call has succeeded? | No: [see below](#divergences-found) |
| `worker_storage` | Is an accepted change ever lost; is a stop final and clean; is every stop answered and every change stored, with failures, slow transactions and watchdogs? | No; yes; yes (98,000) |
| `paper_gateway` | Do sockets, threads, slots or listeners outlive their session or the gateway; does a pause bind; can a blocked thread keep a closed session? | Only by the data race described below; yes; no (165,000) |
| `browser_inbound` | Does the decoder get one ordered stream; does input or a pause wait for nothing; is the tail decoded when a channel drains; is a closed channel retired? | Yes, no, yes, yes (53,000) |
| `browser_connect` | Does one tunnel carry everything in order, whatever failed over before; do attempts leave sockets or timers; does the channel give up last, and never hang? | Yes; only in the two cases described below; yes (349,000) |
| `local_tunnel` | Do roles, peers and timer agree with the live endpoints; do frames stay in order across the pairing; does nobody wait for ever? | Yes (198,000) |
| `resource_pack` | Is a file removed under a reader, or left behind; has a key one download; does anybody wait for another's client? | No, yes, no (107,000) |

A property with an exception (`missed`, `dropped`, `astray`, `told = "wrong"`,
`flush = "spinning"`, `tainted`, a phase of `PhaseCatchesUp`) states it in its
formula and its comment; the exceptions are the divergences listed below.

## Bounds

- `server_frame`: a stream of six units with a keepalive, an encryption request,
  a split frame, a Start Configuration and a byte that is no frame. Two frames
  fit below the high-water mark of 2 and one drain budget of 2, so a drain
  pauses, yields, resumes and finds a frame split between TCP chunks.
- `relay_tunnel`: a parser of five units, messages of one or two; the parser
  overflows in the middle of a packet, is restarted, and holds several packets
  behind its turn. Two targets of an SRV lookup, one other tunnel on the route.
  Configuration cycles are not bounded: the state space is finite without a
  counter.
- `ready_queue`: three tunnels, so that one can be removed between two others; a
  parser of two frames and a budget of one, so that turns yield and parsers
  overflow.
- `registry_lease`: two relays compete for one entry, with two incarnations each
  (`MaxStarts`) and two requests in progress (`MaxRequests`), enough for a PUT of
  an earlier incarnation to outlive a restart. The code bounds abandoned requests
  only by the timeout of the probe.
- `region_store`: one file of each kind, files of two cells, patch chains of one,
  two writes, one refused device call, one crash: a crash finds any prefix of any
  record of a migration, a patch, a checkpoint and a tombstone. `reclaim_is_safe`
  needs one moved file, two values, no crash.
- `worker_storage`: two regions and a file, room for one region, two changes (an
  entry rewritten while its older version is written), two failures.
- `paper_gateway`: one connection; threads, not connections, race. The capacity is
  therefore never reached.
- `browser_inbound`: two frames of no or three slices against watermarks of 2/1
  slices, 3/1 frames, 4/2 bytes and 2/0 packets: each is crossed in both
  directions. Three sizes and three frames were run once for safety (674,000
  states).
- `browser_connect`: the plugin and two relays, of which one may refuse its
  constructor; a queue of one frame, two frames written.
- `local_tunnel`: two clients and a server, so that a later pair meets the closing
  sockets of an earlier one; two client frames and one server frame against a
  limit of one held frame. Three client frames were run once for safety (364,000).
- `resource_pack`: three requests (two streamed, one buffered) for two packs, two
  entries or one unit of bytes, two attempts. The keys are interchangeable, so the
  first request asks for the first.

Runs that do not check for deadlock are those whose system may stop: a closed
tunnel, a stopped worker, a failed gateway, a retired channel, finished requests.

## Fairness

- `ServerFramePath`: `WF` for `DrainStep`, a running loop finishes. `SF` for
  `ScheduledDrain`, `SendCallback` and `TcpData`: each turn of Node's event loop
  polls all ready descriptors and runs all pending immediates, so a callback that
  is enabled again and again between other callbacks does run; the browser reads,
  so that sends complete. Nothing forces the browser to resume a stream it paused,
  or anyone to keep the tunnel up: `AllDelivered` allows for both.
- `ClientFrameScheduler`: `WF` for the turn only: a pending immediate runs, and a
  turn that began ends. None for messages, closes or switches.
- `RegistryLease`: `WF` for the handlers of each node (every handler ends, because
  its probe has a timeout), for `Expire` (time passes) and for `Prune` (its timer
  runs). Nothing makes a relay register, stop or be up.
- `WorkerStorage`: `WF` for what the worker's own thread does next and for its
  watchdogs; that a transaction ends is assumed only where a change must reach the
  database (`ChangesReachStore`), never where a stop must be answered.
- `PaperGateway`: `WF` for each thread that is not blocked; a read or a write may
  block for ever, except on a closed socket; the library ends a close handshake.
- `BrowserInbound`: `WF` for the loops of a running callback, `SF` for posted
  callbacks, which the page serves in order; the socket delivers, the game loop
  ticks. The pump at frame boundaries is not assumed.
- `BrowserConnect`: `WF` for timers, discovery (it has a timeout), preflight,
  turns of the flush and the socket's own buffer. No endpoint has to answer.
- `LocalTunnel`: `WF` for the wait timer, callbacks and ends of sockets, `SF` for
  reading flow messages; a browser that asked for a pause takes it back in the end
  (`BrowserInbound` shows that ours does). No browser has to send or to leave.
- `ResourcePackCache`: `WF` for each request's own steps: every `await` of a
  download has a deadline. No client has to read.

`TunnelPhase`, `RelayTunnel` and `RegionStore` have safety properties only.

## Proofs

`ServerFramePath_proofs` proves, for every stream, high-water mark and frame
budget, from the assumptions on the constants:

- `Typing`: `Spec => []TypeOK`;
- `InOrderDelivery` (`ExactlyOnceInOrder`), and `PauseWakeup`, `ReadGating`,
  `NoLostTurn` and `HoldReleased`, which `SomethingToCome` joins to the run's
  `NeverStuck`;
- `RefinesRelay` (`ImplementsRelay`): every step of the path is a step or a
  stutter of `OrderedRelay`.

The invariants are not inductive by themselves. `IndInv` adds
`DrainInvariant`: what is known inside a drain (the socket is open, the client
has not paused, a hold was there when the drain began, a loop that leaves
complete frames behind yielded), that a hold outside a drain has bytes and a
turn, and that framing starts over an empty buffer. The argument about order
splits `ExactlyOnceInOrder` into a run (the buffer is consecutive positions) and
a placement (the positions before it are partitioned), with one lemma for each
way a run leaves the buffer: `SendRun`, `AnswerRun`, `DropRun`.

`RelayNode_proofs` holds the proofs of three parts of a relay and of the registry
that do not touch each other. Of `ClientFrameScheduler` it proves, for any set of
tunnels, budget and high-water mark, `Typing`, `QueuedOnce`, `TurnToCome` and `NoTurnAfterClose`,
which `QueueSoundness` joins to `QueueIsSound`; `WakeupKept` (`NoLostWakeup`); and
`FirstComeFirstServed`, the action property that no waiting tunnel is overtaken.
`IndInv` adds what holds inside a turn (the current tunnel is not in the queue
when it runs, and the immediate is not pending then). The lemmas are about
queues without repetition: what appending, taking the head and removing from the
middle do to elements and positions.

Of `RegistryLease` it proves `LeaseTyping`, `Capacity` and `OneAtATime` for any
finite set of nodes, capacity and bounds. `LeaseInv` restates
`OneRequestAtATime` without counting (two awaited requests of a node are the
same) and adds that what runs has started.

`RelayTunnel_proofs` proves, for every parser limit and any number of targets
and other tunnels:

- `RelayRefinesTunnel`: `RelaySpec => Spec`, so what is proved of `TunnelPhase`
  holds of a whole connection;
- `InsertedAlwaysFits`, `PhaseAlwaysCatchesUp`, `TunnelNeverStuck` and
  `NothingIsLeft`: the four properties of `relay_tunnel`.

The invariant behind the first three relates the contents of the parser to the
phase of the client, with inspection any number of packets behind. `Leads(p, b,
r)` says that the units of the buffer take the client from a phase `p` is
`Compatible` with, through one phase per unit, to `r`; `ParserFollows` says it of
`phase`, `cbuf` and `cl.phase`, and that the buffer ends inside a packet exactly
when the client does. A message extends the path of phases at its end
(`AppendFollows`), a frame takes its first step (`FrameFollows`), and a
standalone control message begins a new path whose start the relay's phase is
compatible with (`RestartFollows`): the last is why the recovery from an overflow
is sound, and needs `LoginIsShared`, that nobody leaves the login before the
client. Where the parser is settled the path has no step, so the relay's phase
itself is compatible (`SettledFacts`), which is what keepalives and ticks rely on.
`EncryptionIsKnown` keeps ciphertext out: whoever may send the encryption
response is known to be about to. `NothingIsLeft` has its own invariant,
`LifeInv`: the route is held exactly while the socket is there.

`RegionStore_proofs` proves, for every set of regions and moved files, every file
size and every limit of a patch chain:

- `IndexSoundness` (`IndexIsSound`), if no truncation is refused;
- `AckSurvival` (`AckSurvives`), `CopiesAgreement` (`CopiesAgree`) and
  `RefinesFiles` (`ImplementsFiles`), if no record of a moved file is refused
  either.

Both hypotheses are what the code needs. A refused truncation leaves what follows
the last whole record in front of the next one; a moved file whose record is
refused lives on as a string that the index hides, which is what
`reclaim_is_safe` finds. Appending or flushing a region may fail. The invariant has
two layers. `StoreInv` is about the device
alone: every prefix of the records before the append offset is what a scan
accepts whole, at most the body of one record follows them, the running index is
the scan of the log, and the records of the call in progress have the generations
the scan will ask for. `FilesInv` is about the copies: a clean copy in TeaVM or in
the cache is what the index serves, a dirty one differs only in the cells its
channel has recorded, and the records still to be written turn what is served
into what the call will promise. A scan is a fold over the log, so the lemmas
about it (`ScannedAppend`, `WholeScan`, `TornScan`) go by induction on its length.
The library's induction theorems cannot be used, because they take an operator as
a parameter; the module instead takes the least counterexample in a set of numbers
(`NatLeast`, `NatAll`, from `NatLessThanWellFounded`) and builds the fold's
intermediate states explicitly (`Iteration`).

`LocalTunnel_proofs` proves, for every set of clients and servers and every limit
on frames, `SessionSoundness` (`SessionIsSound`) and `PairOrder`
(`PairIsOrdered`). Besides the types the invariant says that roles, peers and the
timer agree with the live endpoints (`Agreed`), and what every endpoint has sent,
holds and was given (`Ordered`): while it waits it holds everything its browser
has sent, with a peer it has sent everything on. It needs one fact that the
properties do not show: an endpoint that overran its limit is not open any more
and holds as much as it may, so that a peer that joins just then is given a gapless
beginning and no frame after it. Every way a WebSocket ends is one step about
states of the relay, `removeEndpoint`, and a lemma about it.

`BrowserInbound_proofs` proves, for every set of frame sizes that has a largest
(the relay's `maximumFrameBytes`) and every pair of watermarks, `Bounded`
(`InputIsBounded`), `TailDecoded` (`DrainedKeepsTail`), `EverythingHasTurn`
(`NeverStuck`) and `RefinesRelay` (`ImplementsRelay`). `NeverStuck` only speaks of
the moments between two events; its strengthening `Turns` says in every phase of
the page's one thread who is responsible for what is queued: a slice has a
wakeup, or the end of the loop that moved something, or the paused exact queue; a
frame that is not cut has a callback, or slices before it, or the exact queue.
`Stream` relates the queues to the received stream: what was decoded, the slices
and the frames not cut yet are its slices, one after the other. `Before` counts
slices by a recursive function, and the lemmas about it go by induction as in
`RegionStore_proofs`. For the refinement every step is one of four kinds: it
changes nothing of the hop (`Rests`), appends a frame (`Receives`), hands one slice
to the decoder (`Hands`), or ends the hop (`Stops`).

`BrowserConnect_proofs` proves, for every set of relays, queue limit and number
of frames, `NothingLeftBehind` (`NothingLeft`), `TunnelIsOne` (`OneTunnel`) and
`GivesUp` (`GivesUpLast`). Neither property of states is inductive: a late event
could do anything to a socket that the page may still use. `Inv` therefore says
which sockets it may: the last one that was dialled, and not even that one while
the entry waits for relays (`SocketsOK`, `DoneWith`, `Waiting`). `StagesOK` orders
the preparation of the relays, `TunnelOK` says that a socket carries nothing before
it is open and that an endpoint answers no sooner than it has its connect message,
`QueueOK` that the frames that wait are exactly those after the ones the tunnel has,
and `DirectTried` that the plugin had its turn first. These parts are about an entry
and what the endpoints got and said, not about the variables, because one callback
takes the entry through several: `openRemoteCandidate` is a sequence of steps that
keep sockets and queue (`Keeps`) and then a dial (`DialledFine`) or an end of the
channel (`EndsFine`). `GaveUp` carries `GivesUpLast` through the same lemmas.

Of `ResourcePackCache` `RelayNode_proofs` proves, for every set of requests and keys
and every limit on entries, bytes and attempts, `CacheSoundness` (`CacheIsSound`)
and `DownloadSharing` (`SharedDownload`). One callback takes the cache through
several states: a hit prunes and moves its entry, a finished download drops the
entry of its key, stores its own and prunes. The parts of the invariant are
therefore about a cache, the requests, the downloads and the list of downloads as
values: `RequestsOK` (what a request and its download may be at once),
`InflightOK` (a key is listed by its one download), `CountsOK` (the bytes are the
sum of the entries, the readers of a file are counted), `EntriesOK` (which files are
there, and which were evicted under a reader) and `Apart` (no entry has the key of
a download). Each helper of the code has a lemma that keeps them, and only what ends
a callback has to establish `Limits` again. The sum of the sizes is the size of a
set of pairs; that an entry's bytes come and go with it is counting (`TotalSplit`, `TotalOne`), and
what the order is without some of the entries (`WithoutFacts`) goes by induction on
its length as above.

`ServerHosts_proofs` proves the two hosts of a Minecraft server. Of `WorkerStorage`,
for every set of regions, files and backends, every budget of the cache and
every bound on changes and failures: `StorageSoundness` (`StorageIsSound`) and
`StopSoundness` (`StopIsClean`). `WorkerInv` has two layers. `DataInv` follows a
change from the queue into the batch of a flush, the transaction and the database:
what the database has is no newer than the batch, the batch no newer than the
queue (`VersionsOK`), an entry of the cache that is not dirty is stored
(`StoredOrDirty`), and only a flush that runs has a batch (`FlushOK`). None
of this holds in the middle of a callback, since the end of a transaction resumes
whoever waits for the flush, and these may start the next one; the lemmas are about
the steps of a callback, and `Drained` says at the end of each turn that nobody was
left waiting for a flush that is over. `ControlInv` says which stages of the start,
the stop and the server exclude each other, and what is closed stays closed. The
two meet in `StoppedIsClean`: the worker answers once its flush has found the queue
empty and the log clean, over storage that nobody can open again. `WaitInv` is
about what must not be forgotten: who waits for a flush or for an installation waits
for one that is under way (`WaitsAreAnswered`), and a change in the queue has a
timer or a flush (`QueuedHasTurn`), unless a flush has failed or the worker is
stopping. This much of the liveness of the storage is safety, and proved. Two
action properties follow: `StopIsFinal`, that no step changes anything once the
worker has answered "stopped", and `DatabaseAdvances`, that no transaction puts an
older version of a path over a newer one.

Of `PaperGateway`, for every finite set of connections and every capacity:
`SessionSoundness` (`SessionIsSound`) and `ShutdownLeavesNothing` (`NothingLeft`).
What the properties say of the end of a session needs, in every state before it, who
will close it. `Reached` says that whatever runs for a session is closed already or
can be found by somebody who closes it: the handler that has not returned, the map,
or the list a shutdown took from it; `SocketOK` that a socket `close` has not found
is one its own thread is about to close; `StoppingOK` that nothing enters the map
once a shutdown has emptied it; `PauseOK` that the chunk sent after a pause was the
last before the wait; `FoundOK` that a thread reads and writes a socket `close`
finds, hence that no thread of a closed session blocks in one (`NobodyBlocks`, what
`ThreadsEnd` rests on besides fairness).

Only model-checked: liveness (`AllDelivered`, `RunnableGetsTurn`,
`EventuallyForgotten`, `ThreadsEnd` and the five `Progress`), which needs fairness
and is out of the prover's reach. Every other property of the passing runs, the three
refinements among them, is proved for every value of the constants (those of
`region_store` under the two hypotheses above).
## Divergences found

One is shown by a run:

- **A refused write hides behind the region index** (`ReclaimIsSafe`).
  When the worker refuses a moved chunk file's bytes,
  `BrowserFilePersistence.java:133` stores it as a base64 string instead and
  reports success. The region index still has the older entry and is asked first,
  so a reader gets the old bytes, while the comment at `bootstrap.js` 1531 says
  that Java may reclaim its copy as soon as the call has returned true.

The others were met while modelling. The models follow the code; where a
property had to except such a case, it is named.

RelayNode:

- The tail of a stream is dropped when the target closes. The comment on the
  drain budget (`main.js` 2098-2105) says the `setImmediate` continuation still
  drains the remainder in order; the TCP `close` handler calls `closeBoth`, which
  clears the immediate and the buffer (`main.js` 1871) although the browser's
  socket could still take them.
- The read hold ends before its frames are consumed. The comments at `main.js`
  1855-1857 and 2360-2363 say it lasts until the retained bytes are drained; a
  drain that yields on its budget releases it (`main.js` 2364).
- Ticks may be sent during a reconfiguration. `port/README.md:139-142` says they
  are disabled throughout. Start Configuration (`main.js` 2301) is recognised only
  while the relay's phase is already PLAY; one that arrives between the client's
  finish packet and its inspection is forwarded unrecognised, and the inspection
  then starts the stall timer.
- A tick may be inserted inside a packet. `writeSyntheticPlayTick` (`main.js`
  1239) requires neither an empty parser nor the watermark that keepalives
  require, contrary to `apps/bridge/README.md:152-153`. `TicksFitWhenSettled` is
  what does hold.
- After an overflow of the 16 MiB parser that drops the login acknowledgement,
  the finish packet, which has the same id, is taken for it (`main.js` 1541): the
  exception in `PhaseCatchesUp`.
- `closeBoth` never resumes a WebSocket it had paused for TCP backpressure, so
  the browser's close frame is not read and the socket keeps its admission slot
  (`main.js` 1083) until ws's 30 s close timer.
- A relay that left may be listed again. `apps/bridge/README.md:140` says a lease
  is removed during normal shutdown. Shutdown aborts the PUT in progress, but the
  registry goes on verifying it (`registry.js` 122) and may store the lease after
  DELETE was answered, until the TTL runs out: `EventuallyForgotten`.
- Local tunnels are torn down by session id, not by pair: a failed send of an
  earlier pair (`main.js` 3166, 3219) closes whatever has the id now.
- After a client has sent more than may be held (1009), its endpoint stays
  registered until its close event: a peer that pairs meanwhile gets the held
  frames and later ones with a gap (`dropped` in `PairIsOrdered`).
- A role held by a socket in its close handshake is refused as a duplicate for up
  to 30 s, and pairing with such a socket tells the other client "connected".
- The idle timer of a pack's body runs on after the body is whole (`main.js`
  4019-4066): a slow client that needs more than 15 s for the spooled rest is cut
  off although it makes progress, while `apps/bridge/README.md:50-60` says that
  slow clients are decoupled.
- A spool that fails to open leaves the upstream body uncancelled.

Paper plugin:

- `close()` may read the field `socket` before the store of a socket that was
  just created is visible; that socket stays open (`missed` in `NoSocketLeft`).
  The plugin's `README.md:28-30` says that closing the WebSocket also closes a
  socket that is still connecting.

Browser:

- A remote close with a code other than 1000 pushes an error, and the next pump
  closes the channel with its queued tail, although the comment at
  `BrowserWebSocketChannel.java:473-475` says tails are drained
  (`DrainedKeepsTail` speaks of channels that end drained).
- The error of a failed entry may be lost: a retirement timer of 0 ms can delete
  the entry before `pollError`.
- With several channels, the wakeup of a close may stop on the aggregate budget.
- A wait for the preflight that a late event of an abandoned socket interrupts is
  not resumed, so the channel gives up early (2402-2412; exception of
  `GivesUpLast`); or that event dials a newly discovered relay, and the end of the
  preflight dials another beside it, leaving the first socket open (`astray`).
- A relay that attests another target is closed with code 1008, which browsers
  refuse; the exception is swallowed, the socket stays open, and its bytes reach
  the decoder while the next candidate is waited for (2594-2599). The mock in
  `browser-relay-routing-smoke.mjs` 401-418 accepts 1008.

Single player:

- Before `registerServer` has run, `stopIntegratedServer` does nothing and
  `isIntegratedServerStopped` (`BrowserIntegratedServerMain.java:1143`) returns
  true: a stop in that window flushes and closes storage while `main` goes on.
  `bootstrap.js` 1346-1348 says that both hooks prove the server stopped.
- A batch of a log that was closed unflushed makes `drainPendingChanges` spin
  (`bootstrap.js` 2283): the exception of `StopIsAnswered`.
- A refused put falls back to a string but leaves its cache entry dirty, so a
  later stop ends "failed". A failed stop is never retried, and a failed batch
  waits for the next change.
- A channel whose close failed and that is reopened for reading and closed
  reclaims the only copy; a failed truncation of a scan leaves garbage in front
  of records acknowledged later. Both are outside `RegionStore` (`tainted`, and
  `FaultKinds` of its run).

## Hazards without a model

`PROJECT.json` lists the hazards some property covers. These have none yet:

- `main.js` 2946: two lookups of one key of the DNS cache can overlap (the first
  entry expired or was pruned while its promise ran): the answer that arrives last
  overwrites the newer entry and its expiry.
- `main.js` 2976: pruning of that cache stops at the first entry whose lookup is
  in flight; one slow lookup at the head lets it grow past its limit.
- `main.js` 570: the route table is pruned only of inactive routes and gives up
  when all are active, so its bound rests on releases (`NothingLeft`).
- `main.js` 2894: a dialled socket's listeners are removed before the tunnel's own
  are attached in the `then` callback; nothing runs in between but microtasks.
- `registry.js` 130: the PUT of an earlier incarnation, abandoned but still being
  verified, may be stored after the one of the next; both name the same relay.
- `BrowserWebSocketChannel.java` 2612: Blob messages are converted asynchronously
  in a chain while ArrayBuffer messages are delivered at once, and a close may
  overtake conversions. The channel asks for ArrayBuffers.
- `BrowserPacketScheduler.java` 644: the ledgers of several processors, with
  handlers that throw, nest or run after their processor was retired. For one
  processor it is in `BrowserInbound`.
- `BrowserMultiplayerRecovery.java` 62 and 180: a retry runs later on the client
  thread, after the player may have gone elsewhere; it is claimed once per address
  and five minutes, and consumed only after being prepared.
- `BrowserRenderScheduler.java` 600-672: a dispatcher's token is queued, running
  (also while its command is suspended) or waiting for a frame, and a request that
  comes in each of them must lead to another run.
- `BrowserWorldgenScheduler.java` 711: pulses of nested callbacks while a
  generation continuation is suspended.
- `BrowserIntegratedServerMain.java` 1221-1615: the mirror that restores files
  after a reload, beside the channels that write them.

## Not modelled

See `components` in `PROJECT.json`; a note says what each module leaves out.
Besides the parts under [Hazards without a model](#hazards-without-a-model):

- `ServerFramePath`, `TunnelPhase`: malformed frames other than one byte that
  parses as none; the contents of packets; the handshake probe.
- `RelayTunnel`: the admission count of physical sockets, the pruning of routes,
  the relay's shutdown, the idle timer of local tunnels.
- `ResourcePackCache`: a disabled cache, redirects and headers, files removed when
  the process exits (one whose `open` is in progress then is not tracked, contrary
  to `README.md` 67-68 of the relay).
- `BrowserInbound`: several channels, the tokens that replace a scheduler, the
  decoder's own limit of 16 MiB. `BrowserConnect`: local ports and their claims,
  the scores that rank relays and their expiry.
- `WorkerStorage`: telemetry, LAN and distance messages, missing stop hooks.
  `RegionStore`: a session without OPFS between two with it.
- Patchers, emulation layers, build scripts, smoke tests and the launcher are
  outside the running protocol; rendering, cryptography and compression are
  computations over data the models abstract.
