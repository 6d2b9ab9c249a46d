# Formal model of netns-mcast-relay

TLA+ modules for the logic of `netns-mcast-relay`, TLC configurations that check
them on small instances, and TLAPS proofs that hold for every instance.

## The system

| Part | State | Operations | Talks to |
|---|---|---|---|
| Coordinator (`internal/relay`: `coordinate`, `AddNamespace`, `RemoveNamespace`, `buildInstance`, `teardown`) | pending intents, debounce timer, published snapshot of instances | accept a command, reconcile (remove, then add), shut down | callers over the unbuffered `nsCmdCh`; instances through contexts, sockets and a WaitGroup; `broadcast` through the atomic snapshot |
| Packet loops (`receive`, `broadcast`, send workers) | `broadcastCh`, one `sendCh` per instance, the packet each loop holds | read, push, fan out, write | sockets, middleware, snapshot |
| Loop guard (`internal/middleware`) | payload and group -> expiry, time of the next cleanup | `Process` | called by `broadcast` for every packet |
| Multicast socket (`internal/socket`) | `recentTx`: payload hash -> expiry behind an atomic pointer; the connections | `NewMulticastSocket`, `WriteToGroup`, `writeRawUDP`, `ReadFrom`, `Close` | the kernel, which loops every copy back; other namespaces on a shared network |
| Namespace handle (`internal/netns`) | the OS thread's namespace, open descriptors | `Open`, `Do`, `Close` | the kernel, and whichever goroutine gets the thread next |
| Control API (`internal/control`) | `containerNamespaces` under `containerMu` | POST add/remove, PUT and DELETE of a container, GET | the coordinator, with the request's context |
| Control socket and process (`NewUnixServer`, `Run`, `cmd/relay`, `internal/config`) | socket file, listener, cancellation cause, wait group | parse, probe and remove a stale socket, bind, serve; start, cancel, wait, exit | other instances on the same path; signals; systemd |
| Watcher (`scripts/watch_podman_relay.sh`) | event flag file, desired and current sets | list, inspect, GET, POST | Podman and its events, the control API |
| Podman integration (`contrib/podman`: hook, reconciler, unit) | nothing of its own: the relay's registry | PUT at poststart, DELETE at poststop, PUT of everything after a start | Podman, the control API, systemd |

What is hard about it: one coordinator blocks in `teardown` on goroutines that may
be blocked on a channel; packets overtake the removal and the rebuild of the very
namespaces they come from and go to; intents are coalesced behind a timer that is
reset while it fires; callers time out after their command was taken; two
time-window filters decide by payload whether a packet is a copy; a failure between
two system calls leaves descriptors or a thread behind; a killed process leaves its
socket file; and three kinds of clients keep the relay in step with Podman through
requests that are lost, late or crossed. `PROJECT.json` lists each of these hazards
at its line, with the properties that watch it.

What makes each part correct: the coordinator applies the last intent, never runs
two instances of a namespace, leaks nothing, and always comes back from a
reconcile and from shutdown; the packet loops never echo, reorder or duplicate,
write nothing to a removed namespace and never wait for a slow one; the two filters
drop every copy in their window and nothing else, and together keep a packet from
fanning out twice; sockets are made in the right namespace; datagrams written by
hand are accepted; the control API's registry agrees with what the coordinator
accepted; a start gets past what was left behind, and a clean exit leaves no relay, no
listener and no socket file; and the
clients bring the relay's set back to the running containers.

## Modules

| Module | Models | Run | Proofs |
|---|---|---|---|
| `NamespaceSet` | what a client of the control API may rely on (abstract) | implemented by `Coordinator` | refinement, in `ControlPlaneProofs` |
| `Coordinator` | control plane of `relay.go` | `control_server`, `relay_live` | `ControlPlaneProofs` |
| `Relay` (extends `Coordinator`) | `receive`, `broadcast`, `startSendWorker` on top of it | `relay`, `relay_live` | `RelayProofs` |
| `ControlServer` (extends `Coordinator`) | mutating handlers of `server.go` | `control_server`, `delete_after_failed_put` | `ControlPlaneProofs` |
| `LoopGuard` | `loop_guard.go` | `loop_guard` | `LoopGuardProofs` |
| `MulticastSocket` | echo suppression in `multicast.go` | `multicast_socket` | `MulticastSocketProofs` |
| `LoopBarriers` | both filters, the queues and the workers on a shared network | `loop_barriers` | `LoopBarriersProofs` |
| `Checksum` | `writeRawUDP`, `udpChecksum` | `checksum` | `MulticastSocketProofs` |
| `SocketSetup` | `netns.go`, `NewMulticastSocket`, `buildInstance`'s rollback, `teardown` | `socket_setup` | `SocketSetupProofs` |
| `Process` | `main.go`, `config.Parse`, `NewUnixServer`, `Run` | `process` | `ProcessProofs` |
| `Watcher` (extends `NamespaceSet`) | `watch_podman_relay.sh` | `watcher` | `PodmanProofs` |
| `PodmanHook` | hook, reconciler and unit | `podman_hook` | `PodmanProofs` |

**Coordinator.** Each `select` case, each iteration of reconcile's two loops, and
each of teardown's blocking points is an action. `coord` is where the goroutine is;
`next` is the map that reconcile builds (during shutdown, what is left of the
snapshot); `victim` is the instance in teardown. The rendezvous on `nsCmdCh` is one
step (`AcceptCmd`); the answer on `resultCh` and the end of the caller's context
race (`CallReturns`, `CallCancelled`). An instance is an identity that is used once,
with a path, a handle, one socket per group and its goroutines. Of the goroutines
this module knows only that they may return once their context is done. Building
an instance is one step that succeeds or fails. `ArmTimer` is one assignment: the
module requires Go 1.26.3, and since Go 1.23 nothing can be received from a timer's
channel after `Stop`, so the drain of `relay.go:231-236` finds nothing and a reset timer
is like a new one. `intent` and `failed` are history.

**NamespaceSet** is the same control plane with nothing but the last accepted intent
per path and the listed set. A publication (`Apply`) drops what was removed, adds
nothing unasked for and keeps what is wanted. `Coordinator` implements it with
`active` as the domain of the snapshot and `closed` as the shutdown branch
(`ImplementsNamespaceSet`).

**Relay** replaces the goroutines' free exits by their code. `rpc`/`rpkt` is a
receive loop's place and packet, `bpkt`, `todo` and `dest` the packet broadcast fans
out, the destinations of the snapshot it loaded and the one that passed its checks.
The check of a destination and the send to it are separate steps, so that the
coordinator can come in between. A packet is its arrival number, group and source
path. Whether the middleware drops it is a free choice: `LoopGuard` decides that.

**ControlServer** gives every request a goroutine. PUT and DELETE take `containerMu`
and keep it across their controller calls. That the client names paths as the OCI
hook does (a path belongs to one container) is an assumption, `ServerAssumption`.
`doubt` marks containers with a request that failed under the lock.

**LoopGuard** makes `Process` one step, since only `broadcast` calls it.
**MulticastSocket** splits what the code does not do atomically: reading the clock
and storing the map (`WriteToGroup`, `markSent`), taking a packet with the map it
loads and deciding with a later clock (`ReadFrom`, `ReadDecides`). In both, a map is
its domain and its values; time is a counter that advances at any moment, and a
payload stands for its hash.

**LoopBarriers** follows one payload in one group, which is all the filters tell
apart, through sockets, queues and segments. A filter's map is the time its entry has
left; a packet's age is the time since it passed the guard or left the client, and
`MaxDelay` bounds that. Each write reaches every socket on each of the writer's
segments, once or, with the raw connection, twice. `bcast` is the channel and, behind
it, the packets of the receive loops that wait to send on it, which Go serves in their
order. Mark and copies of a write are one step; `MulticastSocket` takes them apart.

**Checksum** keeps the code's loops as steps and its `uint32`, with bytes of `B`
values instead of 256; `MaxPayload` and the widths follow from `B`. The property is a
receiver's own check by one's complement addition, not the code's algorithm.

**SocketSetup** makes every system call of a build an action that may fail, on any
OS thread, with the deferred restore of `Do` and the thread's namespace. It refines
the picture of `Coordinator`, where a failed build leaves nothing: see "Limits".

**Process** has a record per process: where `main` is, the relay and server
goroutines, the cause of the cancellation and the exit status; and the one socket
path they share. Requests in flight and `Shutdown`'s wait for them are not in it:
neither `Run` nor `run` waits for them. `Kill` may happen at any step. Instances overlap only as
`contrib/podman/README.md` allows (`MayStart`, `MayStop`).

**Watcher** and **PodmanHook** model the shell scripts command by command. A
container is the path of its first process, and a PID can be used again. Failures
(of Podman, of requests, of the relay, of the event monitor) are bounded by
`MaxFaults` and `MaxFailures` and otherwise free. In `Watcher` the three commands of a
listing fail one by one, so that any part of the list may be missing, and the relay
forgets an add whose build failed (`pending`). `seen`, `missed`, `steady`, `lost` and `crossed`
are history.

Definitions marked "Mutant" are deliberate mistakes, each next to the definition
that it would replace; they show that a property notices such a mistake and are not
used by any specification. A module's `TypeOK` gives the domains of its variables;
all of them are proved, some as part of an invariant. `ControlServer`, `PodmanHook`
and `Checksum` put their own name into `Init`, `Next` and `Spec`, so that one module of
proofs can extend several components.

## Runs

| Run (cfg) | Instance | Shows |
|---|---|---|
| `control_server` (`MCControlServer.cfg`) | 3 paths, 1 container with 2 PIDs and a third path through POST, 2 requests at a time, 3 in all, 3 instances | registry, accepted intents and listed namespaces agree; no request gets stuck; no overlap of instances, no leak, live snapshot, timer for every intent, last intent wins; the coordinator implements `NamespaceSet` |
| `relay` (`MCRelay.cfg`) | 2 active paths, 3 instances, buffers of 1, 2 packets | no echo, order, silence after removal, across a removal and a rebuild; `broadcast` always has a step |
| `relay_live` (`MCRelayLive.cfg`) | 1 path from the start to shutdown | `Run` returns, reconciles end, intents are applied, the relay implements `CoordSpec` |
| `loop_guard` (`MCLoopGuard.cfg`) | 2 payloads, 2 senders, window 3, 12 ticks | at most one pass per window, no needless drop, bounded map |
| `multicast_socket` (`MCMulticastSocket.cfg`) | 2 payloads, raw and UDP copies, window 2, 6 ticks, 2 writes, 1 client packet | fresh echoes discarded, nothing else but recent payloads |
| `loop_barriers` (`MCLoopBarriers.cfg`) | 3 containers, two of them a pod, on 3 segments, windows of 2 and 4 ticks, 3 sends | no second fan-out, no retransmission lost |
| `checksum` (`MCChecksum.cfg`) | bytes of 3 bits, lengths around 0 and around the largest, corner values everywhere | every datagram sent is accepted by its receiver, and folding ends |
| `socket_setup` (`MCSocketSetup.cfg`) | 3 builds, 2 namespaces, 2 groups, 2 threads, any call failing | sockets are in their namespace; what a failed build leaves open |
| `process` (`MCProcess.cfg`) | 2 processes, 4 starts, all flag classes, kills and failures anywhere | who serves is reachable, leftovers do not block, flags are refused early, an exit leaves no relay, listener or socket file, starts and stops end |
| `watcher` (`MCWatcher.cfg`) | 2 paths, 3 starts, 2 failures of any kind | no event lost, no reported container removed, convergence |
| `podman_hook` (`MCPodmanHook.cfg`) | 2 containers, 3 PIDs, 3 starts, 1 crash, 2 failures | the registry follows the running containers |
| `delete_after_failed_put` (`MCDeleteAfterFailedPut.cfg`) | 1 container, 1 request at a time | **violated**: an accepted DELETE leaves a namespace behind |

Why the bounds are enough for the interesting cases: three instances let a path be
removed and rebuilt while the other one stays; six calls cover a PUT that replaces a
path next to another request; a buffer of one is full after one packet, and two
packets of one source can be in different queues; the clocks run for at least two
windows after the first cleanup, and three sends may follow each other as closely as
`Gap` allows; four starts let each process be killed in one life and find the
remains in the next; two failures let one hit the repair of another. `MCRelay.cfg`
starts from the state in which the initial namespaces are active and leaves out
states after cancellation, which `MCRelayLive.cfg` covers. Deadlock is not checked:
every instance ends when its bounds are used up or `Run` has returned; the liveness
properties, `NoRequestStuck` and `BroadcastNotBlocked` (both with `ENABLED`) take
its place.

### What the violation says

*Delete after a failed PUT.* `AddNamespace` may return the request context's error
although the coordinator has taken the command (`relay.go:145`). PUT then skips
`containerNamespaces[id] = path` (`server.go:214-219`), and a later DELETE of that
container finds no entry, answers 202 and removes nothing (`server.go:242`), while
README.md:122-124 says that registration by ID lets `poststop` remove it.

## Limits of what holds

Modelling showed where the properties end. The first five points are an assumption, a
bound or a named exception of a run, without which TLC reports a counterexample; the
others follow from the code and are outside what the properties say.

- `NoSecondFanOut` needs `MaxDelay < Window`. A copy that has waited longer than the
  guard's 250 ms in a send queue (`ChannelBuffer` packets of up to 100 ms each) and
  returns over a shared network fans out again (`loop_guard.go:51`; README.md:172-173
  promises the drop without that condition).
- `ServerReachable` needs instances that do not start or stop at the same time. The
  probe, `os.Remove` and the listener's close work by path (`server.go:318-326`), so
  overlapping instances can delete each other's socket.
- `RegistryFollowsContainers` excepts a container whose DELETE falls between the
  reconciler's inspection of it and its PUT (`reconcile-podman.sh:101-122`): a dead PID
  stays registered until the relay restarts. A failed hook request is not retried.
- `RunningIsNotRemoved` excepts containers that Podman failed to list or inspect:
  `|| true` (`watch_podman_relay.sh:52`, `:77`) makes a failure look like an absence,
  and the namespace is removed until the next pass. `Converges` says that it comes back.
- `RollbackIsBounded` has two cases in which a failed build leaves connections open:
  `rawConn` when a buffer size cannot be set (`multicast.go:164-179`), and the group's
  connections when `Do` cannot restore the namespace or close its handle after `fn`
  succeeded. They are unreachable, and Go's finalizers close them at some later
  collection. `NothingLeaked` of `Coordinator` is to be read with this exception.
- `IntentApplied` rests on `MaxCalls`: an endless storm of commands, each within the
  debounce window, postpones reconcile forever, since each resets the timer.
- `DiscardOnlyRecent` says how long a client may go unheard, not that it is always
  heard: `isSelfEcho` compares payloads alone, so a client that sends within 500 ms
  what the relay has just delivered to its namespace is taken for an echo, contrary
  to the comment at `multicast.go:29-32`.
- `ExitIsClean` is about the relay, the listener and the socket file. `Serve` returns as
  soon as `Shutdown` has closed the listener, `Run` and `run` follow, and nobody waits for
  the goroutine in which `Shutdown` drains requests (`server.go:283-301`): a handler in
  flight, blocked in `AddNamespace` perhaps, is cut off by the exit. The property also
  takes it that closing the listener unlinks its path; `os.Remove` after that may fail,
  and is only logged.
- A thread whose namespace cannot be restored is unlocked in the wrong one
  (`netns.go:78`). `SocketsInTarget` holds all the same, since `Do` enters its target
  explicitly; what else runs on that thread is not modelled.
- Namespaces are known by path. When a PID is reused before the next reconcile, the
  path is both desired and current and the relay keeps the old namespace
  (`relay.go:205`, `watch_podman_relay.sh:102`). And the containers of a pod have two
  paths for one namespace, so a packet is sent back to where it came from
  (`relay.go:280`); the filters contain that.

## Fairness

`GoFairness` lets every goroutine take the steps it can take (Go's scheduler) and an
armed timer fire; a receive loop's read ends because of its deadline, and
`WorkerFairness` says the same of writes. Commands, the signal that cancels the
context, packets and failures are never assumed to happen. `Process` is fair to the
goroutines of a live process and not to the environment. `Watcher` is fair to the
script (its main loop sleeps for bounded times and resyncs periodically) and to the
relay's reconcile, which `IntentApplied` justifies; not to the event monitor, which
nothing restarts. A build that fails although its path exists counts as a failure, and is
repaired by the next resync's POST. `Checksum` is one sequential call.

## Proofs

All theorems are for arbitrary constants under the named assumptions of the modules
(`ConstAssumption`, `RelayAssumption`, `ServerAssumption`, `LoopGuardAssumption`,
`SocketAssumption`, `ChecksumAssumption`, `SetupAssumption`, `ProcessAssumption`,
`BarrierAssumption`, `WatcherAssumption`, `HookAssumption`). Most of these only separate
`None` and the like from real values and make sizes natural numbers. `ServerAssumption`
also says that a path belongs to one container, and `ChecksumAssumption` that the two
headers' lengths fit into a word, which they do from bytes of six values on,
and that a group's port is a word (`net.ResolveUDPAddr`, `config.go:154`, lets no other pass). Each
inductive invariant is a definition of the component's own module, and TLC has
checked it before it was proved, on the run's instance (`ChecksumInv` on fewer payloads).

*Coordinator* (`CoordInv`). The properties speak of `coord = "select"` or
`"return"`; between those states resources are open that the snapshot does not
show. The invariant follows them: whatever is open or running belongs to an
instance that `next` holds or that is in teardown (`HoldersAreKnown`); an instance
in `next` is whole (`ActiveIsWhole`); the one in teardown has left `next`
(`VictimIsLeaving`); `next` is the snapshot in the select and empty at return
(`PhaseOfNext`). `IntentInv` adds that a pending path is pending according to its
last intent and that every other path has been dealt with. From it follow
`NoOverlap`, `NoLeak`, `SnapshotLive`, `NoStrandedIntent` and `LastIntent`.

*Refinement.* `CoordinatorRefinesNamespaceSet` shows that every coordinator step is a
step of `NamespaceSet` or leaves its variables alone (`PublicStep`, one case per
action). Only the publication is interesting: that it loses nothing needs
`WantedIsKept`, since a path whose remove and add were coalesced goes through
reconcile with its old instance, and `IntentInv` for the rest.

*Relay.* `RelayImplementsCoordinator` shows that every step is a coordinator step or
leaves its variables alone, so the coordinator's theorems hold of the relay too, and
with the refinement above the relay implements `NamespaceSet`. `NoEcho` needs
`EchoInv`: the check `path == pkt.SourcePath` must survive in `dest`, in every queue
and in every worker, and an instance's path never changes once it is built.
`RemovedStaysSilent` uses the coordinator's invariant: a worker that writes is
running, hence in the snapshot or in teardown.

`InOrder` needs `OrderInv`, because the order of what was written depends on what is
still on its way. Along the pipeline from the receive loops over `broadcastCh`,
broadcast and the send queues to what was written, whatever is further up was read
later (`UpstreamIsLater`, `WorkersAreInOrder`). Two things could break that. A
removed and rebuilt namespace has two instances, and an old packet in the queue of
one could follow a newer one written by the other; it does not, since a worker that
runs excludes every other instance of its path (`OneHolderPerPath`, through
`OneRunningPerPath`). And a snapshot that broadcast loaded before the rebuild could
reach a path twice with one packet; it does not, since the map has one instance per
path (`FanOutIsNew`).

*ControlServer.* `ServerImplementsCoordinator` shows that the handlers only call what
callers may call, so the coordinator's theorems hold behind the API.
`RegistryMatchesIntent` speaks of moments when `containerMu` is free; `ServerInv` says
what holds inside the critical section, command by command (`IntentFollowsHandlers`),
who is in it (`MutexHeldByLocked`), and that a call in flight is the one its handler
waits for (`RequestsAreInOrder`). `DeleteOfCertainRemoves` is the other side of the
violated `DeleteRemoves`: an accepted DELETE leaves nothing behind for a container no
request has failed for, so a failure under the lock is the only way to get there.

*SocketSetup.* `SetupInv` ties the open descriptors of a build to where the build is
(`BuildIsInOrder`, with `OpenNow` for the group in hand), the thread's namespace to the
phase of `Do` (`ThreadIsInTarget`), and what a build in the past left behind to the
cause of its failure (`PastIsBounded`). `SocketsInTarget` does not depend on threads
being clean: `Do` enters its target explicitly, and the invariant says nothing of a
thread outside `Do`.

*Process.* `ProcessInv` says that at most one process `Claims` the path, that is, may
change what is there, and that what it finds is what it takes to be there
(`PathIsAsExpected`): the stale socket it probed is still there when it removes it, the
path it freed is still free when it binds. Each of these needs `StartsAlone`, the
condition of `contrib/podman/README.md` carried along while a process starts. That
Parse's checks cover NewUnixServer's is a lemma of its own, `ParseCoversServer`.

*LoopGuard.* The map holds exactly the passes of the last window with their
expiries, and the next cleanup comes before any entry has been expired for a window.

*MulticastSocket.* What `ReadFrom` has loaded may be stale; `LoadCoversEcho` says
that it still covers the window of the echo in hand and claims no more than the
payload's last mark.

*LoopBarriers.* The theorems have hypotheses, which say what the windows must be
chosen for. `NoPacketFansOutTwice` assumes `CopiesReturnInTime` (`MaxDelay < Window`)
and nothing about the network: while every send has been relayed, the guard's entry
outlives every packet under way (`GuardCovers`). `SendsAreRelayed` also assumes
`SendsAreApart` (`Gap` is at least `Window + MaxDelay` and `selfEchoWindow + 2 *
MaxDelay`) and `ClientsAreReached`. A send is either not yet relayed, and then it is
the only thing under way and no barrier knows it, or relayed, and then all that is
left of it, packets, guard and marks, expires before the next send (`NotYetRelayed`,
`Relayed`). The bounds are sharp: the instance of the run meets them with equality,
and TLC finds a counterexample with `MaxDelay` or `Gap` one tick off.

*Checksum.* `EveryDatagramAccepted` is about payloads of any length and content, so it
rests on an induction over their words. The library's induction rules cannot be
instantiated here; `IntervalInduction` takes their place, for a set of numbers instead
of a predicate, from the least element that the well-foundedness of `<` gives
(`LeastNatural`). With it a receiver's `RunningSum` is shown to exist
(`RunningSumExists`), to stay within a word, to be congruent modulo `AllOnes` to the plain sum,
never to fall back to zero once a word is not zero, and to change by the checksum when
the checksum's field does (`RunningSumPatched`). The code adds first and folds later,
while the receiver carries at once: `ChecksumInv` says that the two sums are congruent after
the same number of words and that the code's is at most `AllOnes` per word, which
`MaxPayload` keeps below the `uint32`'s width (`NoWrap`). Folding takes away multiples
of `AllOnes`. At `Send` the receiver's sum is thus congruent to zero, and it is not zero,
because the protocol number is one of its words; so it is all ones, also where the
complement is zero and is sent as all ones.

*Watcher.* `NoEventLost` speaks of the main loop; the change may come at any step of a
reconcile. `ChangesAreNoticed` holds from the listing on: a change since then is in the
event stream, in the flag, or could not have been noticed. It breaks if the flag is
removed after the listing. `RunningIsNotRemoved` needs `SteadyIsDesired`: a container that
was listed and has not stopped since is still to be inspected or desired. That a `GET`
or the relay's set is stale does not matter to it, since only what is not desired is removed.

*PodmanHook.* A registration can come from a hook or from the reconciler, and either may
act on a PID it read earlier. `HooksFollowLife` says which calls a container's hooks can
have left, `ReconcilerFollowsService` that the reconciler lists only while the relay
serves. `RegisteredOrOwed` says that a container whose hooks are through is registered as
it is, or runs and is still ahead of the reconciler (or the unit is going to be
restarted), and that a PUT in the reconciler's hands then has the container's PID. The
last part is what a hook's request between inspection and PUT destroys: the exception
`crossed`.

Only model-checked, because the prover cannot do it: liveness (`RunReturns`,
`ReconcileEnds`, `IntentApplied`, `StartsAndStopsEnd`, `WriteEnds`, `Converges`) and the
two properties with `ENABLED` (`NoRequestStuck`, `BroadcastNotBlocked`). Every other
property of the runs is a theorem, except `DeleteRemoves`, which does not hold.

## Not modelled

`packet_decode.go` has no caller outside its file, and `logging.go` only formats:
nothing the relay does depends on them. `CanonicalizePath` and the parsing of `--ns`,
`--group` and request bodies are string handling; their verdict is one bit of the
models. `MulticastSocket.WriteTo` has no caller. The selection of usable interfaces
is part of the outcome of one call in `SocketSetup`. The release workflow and the
tests of the repository are not part of the system.

## Plan

Done: every stateful part of the system, the refinements, and a proof of each safety
property the runs check, but for the two with `ENABLED`. What could follow: a relay
whose namespaces are known by inode instead of path would call for a model in which a
path changes its namespace while it is registered (`relay.go:205`).
