# TLA+ models of holopod

These modules model the concurrent and stateful parts of holopod: the Bastion's
network-lease pool, the Bastion's firewall and chain bookkeeping, the Isolation
Runner's per-workload lifecycle, and the Container Manager's `Run` stream. Each
module translates the Go source. The line ranges of every definition are listed
under `map` in `PROJECT.json`.

## 1. The system and its parts

| Part | Source | State | Operations | Modelled in |
|---|---|---|---|---|
| Network Pool | `src/unnamed/part_010` | `Networks` (name → entry with holder and `CleanupAt`), `ConfigIndex` (hash → pooled names), the JSON state file and its `.tmp` sibling, the engine's networks | `Acquire`, `createNetwork` + `allocateSubnet`, `Release` (force / to pool), `runCleanup` every 5 min, `persist`, `NewWithConfig` (load + `validateNetworks`), `SubnetConfigFromEnv`, `generateSubnet` | `NetworkPool`, `SubnetAllocator` |
| Bastion RPC server | `src/unnamed/part_009` | `chainIPs` (chain → container IP) | `SetupChain`, `ApplyRules`, `CleanupChain`, `AcquireNetwork`, `ReleaseNetwork` | chain RPCs: `IsolationRunner` (without a Bastion restart) |
| Firewall engine | `src/internal/bastion/pkg/iptables/ipv6_test.go` (implementation file) | kernel chains, `FORWARD` jumps | `SetupChain`, `ApplyRules`, `applyNetworkRule`, `CleanupChain` | `Firewall` (the rule list and verdicts), `IsolationRunner` (the chain's life) |
| Security rules | `src/internal/isolation-runner/pkg/config/network_security.go` | none (pure) | `EnforceSecurityRules`, `ValidateWhitelistEntry`, `ValidateNetworkConfig`; the Bastion's validators `ValidateCIDR`, `ValidatePort`, `ValidateDNSServer`, `ValidatePolicyMode` | `Firewall` |
| Isolation Runner | `cmd/isolation-runner/main.go`, `pkg/lifecycle/*`, runner container manager in `pkg/config/config_test.go`, Bastion client in `pkg/errors/errors.go` | tracker sets, container and chain state | `run()` steps, `os.Exit`, signal stop | `IsolationRunner` |
| HTTP/WebSocket adapter | `pkg/api/api.go`, `static/app.js` | `s.streams` (container → `containerStream` with its channels) | `HandleCreateContainer`, `manageStream`, `HandleWaitContainer`, `HandleWebSocket`, `HandleTerminateContainer` | `ApiStreams` |
| Container Manager | `pkg/service/service.go`, `pkg/manager/manager.go`, `src/unnamed/part_001` (container wrapper) | workload registry, container state, stream goroutines | `Run` handler, `CreateContainer`, `Terminate`, `monitor`, cleanup sweep | `RunStream` |
| Manager's runner input | `src/unnamed/part_001` (`buildConfig`), `pkg/publicapi/server.go` (`toProto`) | none (pure) | the network section of a `Create` turned into the runner's `config.NetworkConfig` | `ManagerPolicy` (composed with `Firewall`) |
| Public WebSocket API | `pkg/publicapi/server.go` | per connection: the handler, its reader and writer goroutines, `errCh` | `HandleRun` | `PublicRun` (composed with `RunStream`) |

How they interact:
- A `Run` stream on the Manager spawns one Runner process per workload. Its `buildConfig` writes the Runner's input, including the network section the Runner validates and the Bastion compiles.
- The public API's `HandleRun` relays one browser WebSocket to one `Run` stream; `PublicRun` composes it with the Manager's handler.
- The web UI's HTTP/WebSocket adapter (`pkg/api`) is itself a client of the Manager. It opens one `Run` stream per container and keeps it open in `s.streams` for later wait, console and terminate requests.
- The Runner drives the container engine and calls the Bastion over gRPC. It sets up a chain, applies rules and cleans the chain up. The Bastion's `AcquireNetwork` and `ReleaseNetwork` front the pool. In the current code the Runner never uses the pool: `SetupNetworkViaBastion` always picks the default `bridge`. The pool is therefore reached only through those two RPCs.
- The Bastion runs its RPC handlers concurrently. Inside the pool they share one `sync.RWMutex`, but engine calls and `persist` run with the lock dropped. Those gaps are what `NetworkPool` is about.

Parts not modelled, and why:
- The remaining string validators (names, hashes, IDs) are format checks with no state.
- `jsonmsg` is event serialisation.
- Config parsing is pure data conversion.

`PROJECT.json` lists each of these with its reason.

## 2. NetworkPool — the Bastion lease pool

**Processes.**
- Each client in `Clients` is one workload ID calling the `AcquireNetwork` and `ReleaseNetwork` RPCs.
- `Cleaner` is the `cleanupLoop` goroutine.

Each process has a program counter `pc` and handler locals `lv`.

**Steps.** A step ends wherever the Go code lets another goroutine run: at a lock boundary, at an engine call, and between the three steps of `persist`.

| Code | Actions |
|---|---|
| `Acquire` (reuse branch, under lock) | `AcquireReuse` |
| `Acquire` → `createNetwork` | `AcquireCreate` (fresh uuid name), then the retry loop `CreateAllocate` (`allocateSubnet` or the caller's subnet), `CreateEngineOk` / `CreateEngineFail` (overlap retried only when auto-allocating, while `attempt < maxRetries-1`), `CreateInsert` |
| `Release` | `ReleaseRejected` (missing / not owner), `ReleaseToPool`, `ReleaseForce` → `ReleaseEngineRemoveOk` / `ReleaseEngineRemoveFail` → `ReleaseDelete` |
| `runCleanup` | `CleanupScan` (under lock), per item `CleanupRemoveOk` / `CleanupRemoveFail`, `CleanupDelete` (under lock), `CleanupDone` |
| `persist` | `PersistSnapshot` (marshal under RLock), `PersistWrite` (write `.tmp`), `PersistRename` (rename; fails if `.tmp` is gone) |
| time passing `CleanupAt` | `Expire` |
| process restart → `NewWithConfig` | `Restart`: `loadState` of the file, `validateNetworks` against the engine, `ConfigIndex` rebuilt in any map-iteration order |

**Variables.**
- `docker`: the engine's networks owned by the pool.
- `Foreign`: other engine networks, each given by the candidates its CIDR overlaps and by whether its subnet string is exactly a candidate's `a.b.c.0/24`.
- `holds[c]`: the network the workload was told it holds.
- Subnets are the candidate indices `i` of `generateSubnet`. `allocateSubnet` skips a candidate whose *string* is in `usedSubnets` (`UsedSubnets`). The engine refuses a create whose *range* overlaps a network it has (`EngineHasSubnet`). The two agree only for exact /24s.
- A config hash is identified with the subnet option (auto or a named subnet). The Runner fixes the other hashed fields, so this identification loses nothing.

**Data left out.**
- `ReuseCount`, `LastReleasedAt`, `LastCleanup` and the log lines: no property reads them.
- The file's `config_index`: `validateNetworks` rebuilds it on load, so it is never read back.
- Disk write errors.

**Bounds** (`MCNetworkPool`, in the `.cfg`s).
- Two subnet candidates. A foreign network overlaps the second one without being its /24 (say 10.20.1.128/25). An auto-allocation that finds the first candidate taken keeps picking the second, and runs its three attempts to the end. The range therefore never looks exhausted here.
- One explicit subnet, the same as the auto one, so explicit and auto creates collide.
- Two network names. That allows two creates, which is enough for reuse of one network and creation of another.
- Two clients with one `Acquire` each: enough for one to reuse the network the other released.
- At most one restart.
- Symmetry over network names, which are interchangeable uuids.

**Runs.**

| Run | cfg | Expect | What it shows |
|---|---|---|---|
| `pool_restart` | `NetworkPool.cfg` | pass | `TypeOK` also bounds `createNetwork`'s attempts (the off-by-one mutant `CreateEngineFailOffByOne` retries a fourth time). With two workloads, the cleaner, engine failures and a restart, `IndexConsistent` holds: `ConfigIndex` lists exactly the pooled entries of each hash, once, so reuse never hands out a held network. `EntriesBacked` holds: every entry names an engine network that exists, outside the window in which its remover is about to delete it. `LeaseRefined` holds: the pool implements the abstract specification `NetworkLease` (below). |
| `pool_cleanup_race` | `NetworkPoolCleanupRace.cfg` | violation | `HeldLeaseBacked` fails (16 states). The cleaner scans an expired lease and drops the lock. Workload 2 reuses the lease and is acknowledged. The cleaner then removes the network and deletes the entry. |
| `pool_stale_restart` | `NetworkPoolStaleRestart.cfg` | violation | `LeaseExclusive` fails. Workload 1's release and workload 2's reuse persist concurrently through the same `.tmp` path. The older snapshot (lease free) is renamed last. After a restart the lease held by workload 2 is pooled again. |

**Overlaps that are not the same string.** `AllocatesFreeSubnet` is an action property: `allocateSubnet` hands out a subnet the engine will refuse only when every candidate is in the pool or overlaps an engine network. `NetworkPoolOverlap.cfg` is a standalone config (one client; a foreign network overlaps the *first* candidate, the second is free), and TLC finds the property violated in two steps. The string comparison misses the overlap, each retry picks the same subnet, and `Acquire` fails after three attempts although the second candidate is free. Any engine network on the host that overlaps a candidate without being its /24 makes every auto-allocated `Acquire` fail. The config has no run of its own within the run budget; `PROJECT.json` lists it as a hazard.

`NetworkPool` also states `HolderKnown` (every held entry's holder was told its name). TLC finds it violated by the same shared-`.tmp` race: the cleaner's persist renames `.tmp` first, `Acquire`'s rename fails and it returns an error while the entry names the workload as holder. It has no run of its own because it shares its root cause with `pool_stale_restart`; `PROJECT.json` lists it as a hazard.

**Abstract specification and refinement.** `NetworkLease.tla` states what the pool promises its callers, one atomic step per RPC: `Grant(c, n)` (Acquire gives a workload without a lease a network no other workload holds), `Return(c)` (Release) and `Forget` (a Bastion restart). Exclusivity is promised only while `trusted`, that is, before the first restart. After a restart the pool rebuilds itself from a file that can be stale, so it cannot keep the promise (`pool_stale_restart`). `NetworkPool` instantiates it as `Lease == INSTANCE NetworkLease WITH Networks <- NetNames, lease <- holds, trusted <- (crashes = 0)`. `LeaseRefined == Lease!Spec` is a property of `pool_restart`. It fails if any interleaving of the two handlers, the cleaner and `persist` makes `Reply` hand out a network another workload holds, or changes a lease other than by its holder's `Acquire` or `Release`. The mutant that drops `Release`'s ownership check (`ReleaseToPoolAnyCaller`) breaks it. One workload releases another's network to the pool, and a reuse then grants it twice.

**Fairness.** None. The pool runs check safety only. A liveness property of the handlers ("every RPC returns") needs the 1.4 million states of `pool_restart` in a liveness graph, which took longer than the run time limit.

## 2a. SubnetAllocator — the pool's subnet configuration

`SubnetAllocator.tla` translates `DefaultSubnetConfig`, `SubnetConfigFromEnv` and `generateSubnet` (`part_010:90-113, 550-555`) as pure operators. A candidate is the four octets of the string `"%d.%d.%d.0/24"`. Decimal formatting is injective, so the tuple stands for the string. The only variable, `env`, is the environment the Bastion starts with: a base from `Bases` and a `BASTION_SUBNET_MASK` from `MaskEnvs` (`Unset` when empty or not a number). `SubnetsInRange` says that every candidate `i < MaxSubnets` is a valid dotted quad inside `BaseIP/SubnetMask`.

`SubnetAllocator.cfg` (with `MCSubnetAllocator`: bases 10.20.0.0 and 10.0.0.0, masks unset, 8, 12, 13, 14, 16, 24 and 25) is a standalone config. TLC finds `SubnetsInRange` violated in the initial state, for both bases with no mask set. `DefaultSubnetConfig` pairs mask 16 with `MaxSubnets` 65536 (`1 << (24-16)` would be 256). Candidates past index 255 therefore leave the /16, and with base 10.20.0.0 candidates past 60159 have a second octet above 255. With the default base, masks 8 to 13 leave the range as well, because `generateSubnet` never aligns the base to the mask. A mask outside 8..24 (25 here) is ignored and gives the default. The config has no run of its own within the run budget.

## 3. RunStream — the Container Manager's `Run` stream

**Threads.** Each stream `s` in `Streams` has three threads, and each workload ID has its own goroutines:

| Thread | Code | Model |
|---|---|---|
| Stream handler | `Service.Run` in `service.go` | `pc[s]` |
| Recv goroutine | `service.go:130-170` | `rpc[s]` |
| Heartbeat goroutine | `service.go:109-127` | `hb[s]` |
| Per-ID goroutines | `readOutput`, `monitor`, and `Terminate`'s extra `cmd.Wait` goroutine | `ReadOutput`, `mon[id]` / `mcode[id]`, `waiter[id]` |
| Cleanup sweeper | `Manager.cleanupTask` | `SweepExited` |

**Workload IDs.** A client either omits `container_id`, and the ID generated for stream `s` is `s` itself, or supplies the one ID `Given`. With `GivenIds = TRUE` every client supplies `Given`; this is how two streams contend for one ID.

**Broadcast channels.** A `Container`'s broadcast channels are read only by the stream that created it, so `closed` and `out` are kept per stream. An ID that is removed and created again therefore gets new channels, as in the code.

**Steps.**

| Code | Actions |
|---|---|
| first `Recv`, validation | `RecvFirst` (a Create, or an error return) |
| `Manager.CreateContainer` | `CreateContainer` (cap and duplicate checks and insert under `mu`); `Container.Start` as `StartLaunch` (state check, `cmd.Start`) and `StartRunning` (state `RUNNING`; writing the spec fails if the runner has already exited; start `monitor`); a failure deletes the ID (`Unregister`) |
| `Send(Created)`, subscribe, start goroutines | `SendCreated` |
| main `select` loop | `LoopForward`, `LoopClosed`, `LoopErr`, `LoopCtxDone` |
| `done:` | `WaitExit` (code from `exitCh`, `Exit` sent unless the stream is gone) or `WaitMiss` (ID gone or 10 s timeout); both set `cleanupDone` |
| deferred terminate | `DeferTerminate`, `DeferWait`: `TerminateContainer(id, true, 5)` when `containerID != ""` and `!cleanupDone` |
| recv goroutine | `RecvCloseStdin`, `RecvAfterCloseStdin` (send on, or close of, the closed `stdinCh`: a panic), `RecvTerminate` / `RecvTerminateWait`, `RecvEOF`, `RecvCtxErr` |
| heartbeat goroutine | `HeartbeatTimeout`: the client sent no `Heartbeat` for 30 s. A `Heartbeat` only moves `lastHeartbeat`, so the model keeps only whether the timeout comes. |
| `monitor` | `MonitorWait` (`cmd.Wait`; if a `Terminate`'s Wait goroutine reaped the process first, monitor's error gives code 1), then after the 50 ms sleep `MonitorRecord` (state, `CleanupAfter`, `exitCh`) |
| `Terminate`'s Wait goroutine | `WaiterReap`: it reaps the exited process before monitor does (`waiter[id]`: `none`, `blocked`, `reaped`) |
| `Container.Terminate` | `TermOutcome` / `TermState` (the first step under `stateMu`; SIGTERM fails once the process is reaped, by monitor or by a Terminate's Wait: `Reaped`), then `TermFinish` (`done`, which closes once the process is reaped, or the timeout with `Kill`, which fails on a reaped process) |
| environment | `ProcessExit` (the runner exits with 0 or 1), `CleanupDue` (60 s pass), `Drop` (the connection breaks) |

**Client behaviours.** The constant `Behaviours` says what clients may do: `CloseStdin`, `StdinAfterClose`, `Terminate`, `HalfClose`, `HeartbeatLapse` and `Drop`. `Stdin` before `CloseStdin` goes to the forwarder, whose errors are ignored, so it changes no modelled state.

**Manager panic.** A panic ends the Manager: `Crashed` stutters, so deadlock checking stays on.

**Fairness.** The model assumes weak fairness for:
- the handler, its goroutines, `monitor`, the `CleanupAfter` timer and the sweeper's ticker. These are Go goroutines and timers that run whenever they are able.
- the recv goroutine's `Recv` error after the context ends. gRPC delivers it.

The model assumes no fairness for the client (half-close, terminate, heartbeats, dropping) or for the runner process exiting.

**Bounds.**
- One stream for the single-stream questions. With generated IDs, streams share only the cap.
- Two streams that share one ID, with the cap at 1, for the cross-stream question (`stream_foreign_terminate`). There the client may only drop the connection.
- `OutCap = 1`: one buffered line is enough to make forwarding and the drop-on-full path happen.
- Exit codes 0 and 1.

**Runs.**

| Run | cfg | Expect | What it shows |
|---|---|---|---|
| `stream_safety` | `PublicRun.cfg` (module `MCPublicRun`) | pass | Checked with the public relay as the client (section 3a). `RelayTypeOK` bounds the handler's and the relay's `errCh` at their capacity 2, so no goroutine blocks on either. `TerminatedMeansStopped`: a registered workload marked `TERMINATED` has no running runner, whichever `cmd.Wait` reaped it and whether `Terminate` took `done` or the timeout. It is checked with one stream: two streams with the same `container_id` break it during `Start`, which is the foreign-terminate finding (`stream_foreign_terminate`). `ExitedStreamEnds`: under fairness, a stream whose runner exited always ends (or the Manager has died). `RelayReleased`: see section 3a. |
| `stream_end_leak` | `RunStreamEndLeak.cfg` | violation | `StreamEndStopsWorkload` fails. The client half-closes, `done:` times out in `WaitContainer`, and `cleanupDone = true` disarms the deferred terminate. The handler returns with the runner still running. A dropped connection takes the same path (`service.go:232`). |
| `stream_foreign_terminate` | `RunStreamForeign.cfg` | violation | `NoForeignTerminate` fails. A stream whose create fails on a duplicate `container_id` terminates the other stream's workload, here during that stream's `Start`. |
| `stream_exit_code` | `RunStreamExitCode.cfg` | violation | `ExitCodeTruthful` fails. A client `Terminate` races `monitor`'s `cmd.Wait`, `monitor` loses, and the client receives `Exit(1)` for a runner that exited 0. |

`RunStream.cfg` checks the same three properties of `RunStream` alone, with its abstract client (`Client`, `Drop`); `stream_safety` checks them with the real relay as the client instead.

`RunStream` also states `NoPanic`. TLC finds it violated when a client sends `CloseStdin` and then `Stdin`, which crashes the whole Manager (a send on, or a second close of, the closed `stdinCh`). That two-message sequence is within reach of a unit test, so it has no run; it is listed as a hazard.

The same half-close or heartbeat-timeout paths also end a stream without the `Exit` message spec section 5 calls the last server message. The model reaches those states, but no run checks it (see the hazards in `PROJECT.json`): the runs go to the workload leak and the crashes.

**Not modelled.**
- `Manager.Stop`. `main` defers it behind `grpcServer.Serve`, which returns only once `GracefulStop` has waited for every RPC, so every `Run` handler has run its deferred terminate by then. Stop then closes the containers left in the registry, and the process exits. The one case where it changes anything is a runner still alive after its stream ended, which `stream_end_leak` already shows; `Close` then kills that runner with SIGKILL through the cancelled `exec.CommandContext`. (This relies on grpc-go's `Serve` blocking until `GracefulStop` completes. The repository does not pin the grpc version.)
- `CleanupExitedContainersNow`, which only the tests call.
- Stderr and message broadcasts, which behave like stdout.
- The content of lines and events.
- The PID, timestamps and stats.

## 3a. PublicRun — the public relay as the `Run` stream's client

`PublicRun` extends `RunStream` and adds the public API's `HandleRun` (`publicapi/server.go:175-345`) as the client of each stream, connected by two FIFO queues: `req` carries RunRequests from the relay to the Manager, `resp` RunResponses back. A `RunStream` step that receives a request takes it from the head of `req` (`Takes`); the responses a step sends are computed from the step itself (`Emitted`: `Created`, an output line, `Exit`, and the end of the stream, EOF after `done:` and an error status otherwise). The client abstraction of `RunStream` (`Client`, `Drop`) is replaced: the only client is the relay, and the stream's context ends (`dropped`) exactly when the relay's deferred `cancel` runs.

| Relay state | Code |
|---|---|
| `hpc` | `HandleRun`: `read_first` (first `ReadJSON`, `toProto`), `open` (`client.Run`, `Send(Create)`), `relay` (waiting on `errCh`), `closing` (`CloseSend` done), `done` (deferred `cancel` and `conn.Close` ran) |
| `rd`, `wr` | the reader and writer goroutines: `off`, `loop`, `ret` |
| `herr` | values in the relay's `errCh` (capacity 2) |
| `sent`, `bgone` | browser messages relayed so far; the browser has closed the page |
| `shown` | the exit code written to the browser |

Actions: `RelayFirst`, `RelayOpen`, `RdRelay` (close_stdin or terminate, or a failed `Send`), `RdFail` (`ReadJSON` fails on a closed socket), `WrRecv` (one response: write it, or signal `errCh` and return on `Exit`, EOF, an error status or a failed write), `WrBroken` (`Recv` fails on a canceled or dead stream), `RelayEnd` (`<-errCh`, `CloseSend`), `RelayCancel` and the environment's `BrowserLeave`. Stdin and heartbeat messages are relayed like the others but change no state either side keeps (the Manager's heartbeat timeout stays the environment action `HeartbeatTimeout`).

**gRPC.** Nothing is delivered on a stream after its context is canceled. Flow control lets at most `Window` RunResponses wait for the writer; the Manager's `Send` blocks beyond that, while the final status travels in trailers and is not counted (`DataMsgs`).

**Fairness.** Weak fairness for every Manager step (as in section 3), for the relay's own steps (`Relay`: the handler and both goroutines are Go code), and for the first read once the browser has gone (the read fails). The browser itself gets none: it may keep the page open and stay silent forever.

**Bounds.** One stream, a client-given ID, `MaxBrowserMsgs = 2` (enough for close_stdin then close_stdin, the Manager-panicking sequence, or terminate), `Window = 1`, `OutCap = 1`, exit codes 0 and 1. About 590,000 distinct states in three minutes.

**Property.** `RelayReleased`: once the Manager's handler has returned, the Manager has died or the browser has left (and the first message was read), the relay eventually returns and neither goroutine is left in its loop. It relies on every end of the Manager stream reaching the writer (EOF or an error status) and the writer signalling `errCh` on each of them, including after a successful `Exit` write (`server.go:328-331`); the mutant `WrRecvExitNoSignal`, which drops that signal, leaves the handler waiting on a silent browser.

## 4. IsolationRunner — one Runner process and what it acquires

`IsolationRunner.tla` models one run of `cmd/isolation-runner/main.go` for one workload. It covers the calls `run()` makes into `pkg/lifecycle`, the runner's container `Manager` (`pkg/config/config_test.go`, package `container`), the Bastion client (`pkg/errors/errors.go`, package `bastion`), and the Bastion's chain handlers (`part_009`) over iptables.

**State.**

| Variable | Code |
|---|---|
| `pc` | the step of `run()`, or how the process ended: `exited` (`os.Exit`), `signalled` (SIGTERM with no handler), `killed` (SIGKILL) |
| `container`, `ccode` | Docker's container: `none`, `created`, `running`, `exited`, `removed`, with its exit code |
| `earlyExit` | `Manager.earlyExitCode` |
| `attempts` | `GetContainerIP`'s loop counter |
| `netcfg`, `rules` | `cfg.Network` as read from stdin; the IPv4 rules of the chain in order (from `Firewall`) |
| `chain` | the workload's chain in iptables: `none`, `jump` (chains and the `FORWARD` jump, no rules), `partial` (`ApplyRules` stopped at a failing command), `applied` |
| `chainSet` | `run()`'s local `chainName` is non-empty |
| `tracked` | the non-empty fields of `ResourceTracker.resources` |
| `sg`, `sig` | the signal goroutine (`none` before `signal.Notify`, `waiting`, `signalled`, `done`); whether the one SIGTERM was sent |
| `exitCode`, `teardown` | the code passed to `os.Exit`; whether a normal-path cleanup call failed |

**Steps.** Each step of `run()` is one action, with one disjunct per outcome of its calls:
- `ReadInput`, then `SetupContainer` (NewManager to CreateContainer; every failure comes before `ContainerCreate`).
- `TrackResources`.
- `StartContainer`.
- `GetContainerIP`: one inspect per step. It may skip isolation on "No such container" or a clean early exit, fail on a non-zero early exit, wait for an IP, give up after `MaxAttempts`, or fail on an inspect error.
- `SetupChain`, then `ApplyRules` (with `TrackChain`).
- `Notify`.
- `WaitForExit`.
- `CleanupNetworkIsolation`.
- `RemoveContainer` (with the untracks and `ContainerExit`).
- `MainExit`: `os.Exit`.

Every error return goes to `returned` with the code `getExitCode` gives for its message (`ErrCode`). The callee effects are named operators: `CreateContainer`, `DockerStart`, `InstallChain`, `ApplyPolicy`, `RemoveChain`, `DockerStop`, `DockerRemove`, `WaitResult`, `Track` and `Untrack`.

The environment has these actions:
- `WorkloadExit(c)`.
- `AutoRemove`: Docker's `AutoRemove`, which `execution.auto_cleanup` sets and which is on by default.
- `Signal`: before `Notify` it ends the process; after it, it wakes `StopContainer`, whose `DockerStop` may fail (the `stop` fault) and leave the workload running; the goroutine ignores the error.
- `Kill`: the Manager's forced `Terminate`.

Call failures are possible only when they are in `Faults`. `setupChainLost` is a SetupChain RPC that errors on the client after the server installed the chain.

**`CleanupAll` never runs.** main defers a function that calls `tracker.CleanupAll` and then does `exitCode, tracker = run(); os.Exit(exitCode)`. `os.Exit` does not run deferred functions. After a panic in `run()`, `tracker` is still nil. No behaviour reaches `CleanupAll`, so the model has no action for it: `MainExit` ends the process as the code does.

**Fairness.** Weak fairness covers the main goroutine's steps and the signal goroutine, since both are plain Go code. The workload, Docker's removal, signals and faults get no fairness: a workload may run forever.

**Bounds.**
- Workload codes `{0, 7}`: 7 cannot be confused with the runner's own error codes.
- `StopCode = 143`.
- `MaxAttempts = 3` instead of 10 in `OrphanSweep.cfg` (2 in the other runner configs). That covers "retry", "retry again" and "give up".
- At most one SIGTERM. A second one lands in the full, one-slot `sigChan` and changes nothing.

**The orphan cleaner** (`OrphanSweep.tla`, `cmd/cleanup-orphans`). `OrphanSweep` extends `IsolationRunner` with the cleaner as one more process (`orphan`): `OrphanList` is the one `ContainerList`, which decides from the container's state at that moment. A container that is not running is to be removed; a running one is stopped and removed only if it is older than `maxAge` (24 h), which may or may not hold. `OrphanStop` (`ContainerStop`, skipped when the container is gone) and `OrphanRemove` (a forced `ContainerRemove`) then act on whatever the container is by then. The cleaner gets no fairness: an operator may never run it. Two consequences are reached. A container listed while created but not yet started is removed, and `StartContainer` fails with "No such container". A container started since the listing is force-removed while running, and the runner reports exit code 1. `runner_safety` checks that the runner's safety properties survive both.

**Runs.**

| Run | cfg | Expect | What it shows |
|---|---|---|---|
| `runner_safety` | `OrphanSweep.cfg` (module `MCOrphanSweep`) | pass | Every fault is enabled, with AutoRemove and the orphan cleaner (below), over six network configurations. `SupervisedWorkloadFiltered`: once `signal.Notify` has run, a running workload's chain is fully applied. `CompletedRunLeavesNothing`: a normal-path exit with no failed cleanup call leaves no container and no chain. `MetadataUnreachable`, `DenyAcceptsOnlyWhitelisted` and `WhitelistReachable` (section 5). |
| `runner_exit_leak` | `IsolationRunnerLeak.cfg` | violation | `RunnerLeavesNothing` fails: the process has ended through `os.Exit` and left a container that neither `run()` nor Docker's AutoRemove will delete (created, running, or exited without AutoRemove), or a chain. In TLC's shortest trace (8 states) the input's network section is one `ValidateNetworkConfig` rejects (the localhost whitelist). The container is started, `SetupNetworkIsolation` fails, `run()` returns 3, and `os.Exit` skips the deferred cleanup. The workload keeps running with no runner and no chain. A lost SetupChain reply or an `ApplyRules` failure part way leaves a chain as well. |
| `runner_mandatory_blocks` | `IsolationRunnerMandatory.cfg` | violation | `MandatoryAlwaysDropped` fails (section 5). |

Three more defects are in the model but not in the run list:
- `SignalEndsRunner` (a SIGTERM always ends the runner, spec section 4) fails under `IsolationRunnerStopHang.cfg`, which allows only the `stop` fault. The signal goroutine ignores `StopContainer`'s error (`main.go:153`), and `WaitForExit` has no deadline. So after a failed `ContainerStop`, the runner waits for as long as the workload runs, which may be forever.
- A SIGTERM before `signal.Notify` leaves the same residue as `runner_exit_leak`.
- With AutoRemove, a workload that exits before the first inspect is removed. `WaitForExit`'s `ContainerWait` then fails, so the runner reports exit code 1 for a workload that exited 0. TLC shows this with the invariant "the code from `WaitForExit` is the container's".

Both are listed as hazards in `PROJECT.json`. `IsolationRunner.cfg` checks the runner alone, without the cleaner, under the same constants.

**Not modelled.**
- Image pull and the data conversion inside `CreateContainer`: limits, env, labels.
- The stdio copying of `AttachStreams` and the stdin forwarder.
- The Bastion's `chainIPs` across a Bastion restart.
- More than one workload: each runner has its own container and chain.

## 5. Firewall — what the chain lets through

`Firewall.tla` has no variables. Its operators translate the runner's security rules (`network_security.go`), its `buildNetworkPolicy` (`lifecycle_test.go`), and the Bastion's `ApplyRules` / `applyNetworkRule` (`ipv6_test.go`) with their validators. `IsolationRunner` uses them.
- `SetupChain` rejects a configuration that `ValidateNetworkConfig` refuses.
- `ApplyRules` sets `rules` to the list `IptablesApplyRules` produces. When a validator or an `iptables` command fails, `rules` is the prefix appended before the failure. It is also the prefix when the `applyRules` fault cuts a valid compilation short.
- `NetworkPolicyOf` maps each configuration to its validity and compiled rules; it depends on the configuration alone.

**Abstractions.**
- An address is a tuple of four octets. A CIDR is `[ip, len]`; a `len` above 32 stands for a string `net.ParseCIDR` rejects.
- Ports are single (`80`), a range (`80-443`) or junk. `buildNetworkPolicy`'s `Sscanf("%d")` keeps the leading number, or 0 for junk.
- A rule is `[dst, proto, ports, action]`, with `ports` the bounds `[lo, hi]` of its destination ports (`PortSpan`; all ports when the rule has no `--dport`). The bounds stand for the set `lo..hi`. TLC would otherwise enumerate a 65,536-element set each time it fingerprints a state.
- `Verdict` is iptables' first-match traversal of the chain. With no match it returns `RETURN`, which hands the packet back to Docker's `FORWARD`, where it is accepted.
- Only IPv4 is modelled: the ip6tables half of `ApplyRules` and IPv6 entries are left out.
- The bridge subnet is Docker's default `172.17.0.0/16`.

**Configurations** (`MCIsolationRunner`):

| Name | Policy | Content | Result |
|---|---|---|---|
| `AllowCfg` | allow | DNS 8.8.8.8, blacklist 1.1.1.1 | applied |
| `DenyCfg` | deny | whitelist 8.8.8.0/24 ports `80-443` and `22`, and 10/8 | applied |
| `OpenCfg` | deny | whitelist 0.0.0.0/0 | applied |
| `LocalhostCfg` | deny | whitelist 127.0.0.1/32 | rejected by the runner |
| `AzureDnsCfg` | allow | DNS 168.63.129.16 | rejected by the Bastion part way through, leaving a partial chain |
| `MixedCaseCfg` | `Deny` | | accepted by the runner, rejected by the Bastion with an empty chain |

These cover each branch of the runner's validation and of `ApplyRules`. Packets go to nine destinations: a public host, a blacklisted host, a private host, the bridge, loopback, the embedded DNS, the metadata service, Azure's wire server and a multicast group. Ports are 22, 53, 80 and 443.

**Properties** (in `IsolationRunner`, over the rules of a supervised, running workload):
- `MetadataUnreachable`: every packet to link-local, loopback, 168.63.129.16 or 100.100.100.200 is dropped, except the engine's embedded DNS. This holds in `runner_safety` because the runner forces `blockMetadata`.
- `DenyAcceptsOnlyWhitelisted`: under a deny policy, a packet that is not dropped is DNS (when allowed) or matches a whitelist entry's CIDR and port range. This holds in `runner_safety`.
- `WhitelistReachable`: under a deny policy, every packet that a whitelist entry with no ports or a single port allows is accepted, over tcp and udp. Destinations the Bastion drops ahead of the whitelist are excluded: the bridge, and the metadata, link-local and loopback drops. This holds in `runner_safety`. Its mutant emits only the tcp rule of each port.
- `PortRangeReachable`: the same for every port of a whitelisted range. `IsolationRunnerPortRange.cfg` is a standalone config (no faults, `DenyCfg` only). TLC finds the property violated once the workload is supervised: 8.8.8.8:443 is dropped, because `Sscanf` kept only port 80 of `80-443`. Spec section 3 allows `start-end` ranges. The config has no run of its own within the run budget.
- `MandatoryAlwaysDropped`: packets to the mandatory ranges are dropped. Spec section 3 accepts `0.0.0.0/0` only "because the emitted rules still drop the mandatory ranges ahead of the allow". `runner_mandatory_blocks` finds it violated for `OpenCfg`: the runner puts the mandatory ranges in the blacklist, but `ApplyRules` emits the blacklist only under allow (`ipv6_test.go:404`). Under deny, the whitelist's accept-all passes 224.0.0.1.

**Divergences seen while modelling** (listed as hazards):
- `Sscanf` cuts the range `80-443` to port 80 (`PortRangeReachable` above).
- `Deny` and the Azure/Alibaba DNS servers pass the runner's checks and fail the Bastion's. Both leave a partial chain.
- With `allowDns`, port 53 is accepted to every destination ahead of the blacklist.
- Spec section 8's "no drop rule preceding an accept covers its destination" is contradicted by design. The bridge drop precedes every whitelist entry, including one inside 172.17/16.

## 5a. ManagerPolicy — the network rules of a `Create`, end to end

The API's network section is a list of rules `{action, protocol, destination, portRangeStart, portRangeEnd}`, an optional default policy and DNS servers. The public API's `toProto` copies these field by field into the `Create`. `Container.buildConfig` (`part_001` 465-501) turns them into the runner's `network` config:
- Only `allow` rules become whitelist entries, in order. The destination defaults to `0.0.0.0/0`. Ports become `"start-end"` when the end is set and above the start, otherwise `"start"`.
- The protocol is not carried over, and every other rule is left out.
- The policy is `deny` unless one is given. `allow_dns` is true exactly when servers are given. `block_metadata` is true, and the blacklist is empty.

`ManagerPolicy` states this as `BuildNetworkConfig`. `ChainOf` applies the runner's `ValidateNetworkConfig` and `buildNetworkPolicy` and the Bastion's `ApplyRules` to the result (operators of `Firewall`). Optional fields are sets of at most one element, `{}` standing for nil.

`MCManagerPolicy` picks one of three API policies as its only state:
- a deny policy with an `allow tcp 8.8.8.0/24 port 443`;
- an allow policy with a `deny 1.1.1.1`;
- no policy, with an allow of 10/8 and an allow of 8.8.8.8 port 22 whose range end equals its start.

`ApiRulesHonoured` says that the chain drops every packet the rules do not allow: under deny, packets no allow rule asks for; under allow, packets a deny rule asks to drop and no allow rule allows. DNS port 53 is excepted when servers are given. `ManagerPolicy.cfg` is a standalone config. TLC finds the property violated for the first two policies and holds it for the third:
- udp to 8.8.8.8:443 is accepted, because the tcp restriction is lost;
- 1.1.1.1 is reachable, because the deny rule never reaches the runner.

The config has no run of its own within the run budget, and `PROJECT.json` lists it as a hazard. The spec does not define the rules' meaning. The property takes it from the fields the API exposes.

## 6. ApiStreams — the Manager's HTTP/WebSocket adapter

`ApiStreams.tla` models `services/container-manager/pkg/api/api.go`, which the web UI (`static/app.js`) uses, for one container created through it.

**Processes.**

| Process | Code | Actions |
|---|---|---|
| The Manager's `Run` handler, as this client sees it | `service.go` | `MgrCreate` (Created or an error status), `MgrOutput`, `MgrExit` (Exit, then the end of the stream; only after a `Terminate` reached it, `termReq`), `MgrHeartbeatTimeout` (an error status, no Exit) |
| `HandleCreateContainer` | `api.go:84-204` | `CreateOpen`, `CreateRecv` (registers `cs` and starts `manageStream`) |
| `manageStream` | `api.go:207-263` | `MsOutput` (non-blocking broadcast), `MsExit` (`exitCode`, non-blocking `exitCh`), `MsEnd`, then the deferred `MsClose` (cancel, close the channels) and `MsDelete` |
| `HandleWaitContainer`, per request in `Waiters` | `api.go:320-367` | `WaitLookup`, `WaitExit`, `WaitTimeout` |
| `HandleWebSocket` (the console), per session in `Sessions` | `api.go:489-623` | `SessLookup`; output goroutine `WrLine`, `WrClosed`, `WrExit`; input goroutine `RdFail`, `RdSendFail`, `RdTerminate` (the browser's terminate forwarded as `Terminate`); `SessEnd` on `errCh` |
| the browser | `app.js` `closeConsole` | `BrowserClose` |
| `HandleTerminateContainer`, per request in `Terminators` | `api.go:266-317` | `TermLookup`, `TermSend` |

The Run stream is a FIFO sequence `grpc` of messages from the Manager. The broadcast channels are folded into `stdoutBroadcast` (`bcast`). Once closed, the empty stderr and message channels are always ready, so `WrClosed` can be taken even while stdout still holds lines.

**The adapter never sends `Heartbeat`.** The Manager therefore always ends the stream within about 35 s, either with Exit or with the heartbeat timeout that terminates the workload. This is why the Manager gets weak fairness. `Run` reaches `done:` and sends Exit only after a client `Terminate` (from a console or `HandleTerminateContainer`); without one, the workload's own exit is not seen until the 60 s sweeper, long after the heartbeat timeout.

**Fairness.**
- Weak fairness covers `manageStream`, `HandleCreateContainer`, the Manager's handler (by the heartbeat timer), the wait timeout and each session's goroutines once the session exists. These are goroutines and timers.
- The browser and the arrival of HTTP requests get no fairness.

**Bounds.**
- Codes `{0, 1}`.
- One wait request, one console and one terminate request. Two readers are enough to compete for `exitCh`.
- `MaxOut = 2` lines into a broadcast channel of capacity `BcastCap = 1`, so a line is dropped.
- `None` is -1, so it compares with the integer codes.

**Runs.**

| Run | cfg | Expect | What it shows |
|---|---|---|---|
| `api_safety` | `ApiStreams.cfg` | pass | `StreamEntryReleased`: every registered container is eventually removed from `s.streams`, with its stream cancelled and its channels closed. `manageStream` never blocks. `SessionReleased`: once the user closes a console, `HandleWebSocket` returns and neither goroutine stays in its loop. The handler depends on the input goroutine's `errCh` send here, because the output goroutine's closed-channel case sends nothing; the mutant `RdFailNoSignal` drops that send. |
| `api_console_exit` | `ApiStreamsConsole.cfg` | violation | `ConsoleShowsExit` fails. `manageStream` puts the code on `exitCh` and closes the broadcast channels. The console's `select` takes a closed channel and returns without writing `container:exit` or signalling `errCh`. The console then hangs until the user closes it. In TLC's shortest trace, the console attaches between the close and the delete. |

**Also reached in the model but not run** (hazards in `PROJECT.json`):
- A wait request after the entry is deleted answers "not found", although the code was recorded.
- A wait request and a console compete for the one value on `exitCh`.
- Every adapter-created workload is killed by the heartbeat timeout.

**Not modelled.**
- Concurrent `Send`s on one client stream (a data race).
- The read-only handlers.
- `HandleWebSocketRun`, a one-stream relay whose end is `RunStream`'s `Drop`. It has the same reader/writer/`errCh` shape as the public `HandleRun` modelled in `PublicRun`; composed with this adapter it exceeds the time budget. The relay's reader has no `heartbeat` case (`api.go:713-763`), so a workload run from it is terminated by the Manager's 30 s heartbeat timeout. In the untimed `RunStream` that timeout is the unconstrained environment action `HeartbeatTimeout`, which the model already takes at any point, so a module of its own would repeat `PublicRun`.
- The log buffers.

## 7. Plan

Done: `NetworkPool` with its abstract specification `NetworkLease`, `RunStream`, `PublicRun`, `IsolationRunner`, `Firewall` and `ApiStreams`. Left, in order:
1. `IsolationRunner`: a Bastion restart that empties `chainIPs`. It leaves the `FORWARD` jump behind while `CleanupChain` reports success. With the restart in `runner_safety`, `CompletedRunLeavesNothing` would fail on it, so it needs a violation run of its own, which the run budget does not have.
2. A composition of `ApiStreams` with `RunStream`: the adapter as the client of the real `Run` handler, instead of the handler's abstraction.
