# Hephaestus: TLA+ models, model checking and proofs

Hephaestus runs Linux microVMs on Apple's Virtualization.framework behind
Firecracker's HTTP API. The part of it that is hard to test is not the
virtualisation (the framework does that) but what surrounds it: processes that
coordinate through files and `flock(2)`, threads that share a VM handle, a
hand-written TCP responder, a server whose requests interleave at their awaits,
and a host and a guest agent that meet over vsock.
This directory models those parts, checks small instances with TLC and proves
the main results with TLAPS for every value of the constants.

Paths below are relative to the repository.

## 1. The system

### Parts, their state and their operations

| Part | Source | State | Operations |
|---|---|---|---|
| jailer | `src/hephaestus-jailer/src/main.rs` | lock file per id, work dir, socket, profile, spawned daemon | launch, `--generate-launchd-plist`, `--teardown`, SIGTERM forwarding |
| uid registry | `src/hephaestus-jailer/src/uid_registry.rs` | one line per id, file lock | open, allocate, upsert, remove, rewrite |
| sandbox profile | `src/hephaestus-jailer/src/profile.rs` | generated text | render |
| warm pool | `src/hephaestus-pool/src/lib.rs` | `meta`, `pristine.ext4`, `save.bin`, `slot-<k>/{lock,rootfs.ext4}` | init, open, claim, run, restore, drop, stats, destroy |
| daemon backend | `src/hephaestus-firecracker/src/backend.rs` | configuration, MMDS, VM handle, origin, slot, bridge, responder | one handler per API route |
| vsock bridge | `backend.rs` 1330-1454 | Unix listener, accept thread, proxy threads, `Arc` of the VM | start, accept, handshake, connect, copy, drop |
| vmnet MMDS responder | `src/hephaestus-firecracker/src/host_mmds.rs` | one `Connection` per client key | SYN, segment, FIN, replay, expiry |
| guest agent | `guest/hephaestus-agent/src/main.rs` | listener, child | listen, accept, read, run, write exit code, halt |
| host exec, warm exec | `swift/.../DirectVZ.swift` | session, connection, stdin pump, saved state | start, connect, send, read, drain, stop, save, restore |
| HTTP server, daemon start-up | `src/hephaestus-firecracker/src/{server,main}.rs`, metrics in `backend.rs` | API socket, one task per connection, the backend's mutex, counters, metrics file | start, receive, read body, lock, call, observe, flush, disconnect |
| MMDS over vsock | `swift/.../DirectVZ.swift`, shim in the agent | document of the listener, a fetch in progress | serve, forward, respond, give up |
| MMDS document | `merge_json` in `backend.rs`, `host_mmds.rs`, `DirectVZ.swift` | none (pure) | merge, look up, render |
| command line | `src/hephaestus-cli/src/main.rs` | none (pure), then the invocation | help, parse, dispatch, exit status |
| container run, one-shot boot, snapshot, shell, rootfs | `src/hephaestus-bridge/src/lib.rs`, `swift/.../{Bridge,DirectVZ}.swift` | terminal mode, stdio sink, VM handle, machine identity, saved states | build, create, start, wait, stop, free; configure, boot, save, restore, halt |
| API types, FFI glue, `hephaestus-vmm` | remaining crates | none | see section 8 |

### How they interact

* Jailers of one work root meet in the instance locks and in the registry lock;
  a daemon inherits its jailer's lock descriptor and so outlives it as a claim.
* Processes of one pool meet in the slot locks; nothing locks the directory.
* Connections of the API interleave where a request awaits: on its body, on the
  lock for the call and on the lock for its accounting.
* The daemon's handlers are serialised by the backend's mutex. The accept
  thread, the proxy threads and the responder thread run beside them and share
  the VM handle and the MMDS document.
* Host session and agent share only the vsock and the power state of the VM.
* Invocations of the command line share the terminal and, through a common stem,
  the machine identity kept beside the states they save.

### What is hard

Death between any two system calls; unlink and re-creation of lock files (a
path names a different lock afterwards); probes that hold other people's locks
for a moment; a two-step rewrite of the registry; signals before their handler
is installed; drops of fields in an order that other threads do not wait for;
lost and repeated frames, sequence wrap-around and port reuse; a guest that
hangs, crashes or powers off at any point; timeouts racing late answers; a
request cancelled when the mutex has just been handed to it; a terminal left raw
or a callback into a freed sink on a failing path. Each
is an entry of `hazards` in `PROJECT.json`, at the line where it bites.

## 2. Modules

| Module | Models |
|---|---|
| `UidRegistry` | the registry as a function from ids to uids; allocation window, exhaustion, upsert, remove |
| `Jailer` | concurrent jailer processes and daemons, one action per system call others can observe |
| `ExclusiveClaims` | abstract: clients take and give up resources one at a time |
| `Pool` | concurrent clients of one pool directory, one action per file-system effect |
| `Backend` | `VzBackend`: one action per handler, one disjunct per outcome |
| `Instance` | abstract: what the API promises of a microVM |
| `VsockBridge` | accept thread, proxy threads, drop of the backend |
| `HostMmds` | the responder's TCP for one client key, a lossy ordered link, the guest's socket |
| `Exec` | host sessions and guest agent |
| `CommandLine` | every subcommand's parser as one loop over a grammar, help selection, and a reference meaning of a line by position |
| `Cli` | composes `CommandLine` and `Exec`: invocations one after the other, container run, one-shot VMs, the shared terminal and machine identity |
| `MmdsVsock` | the vsock MMDS listener and the agent's shim, for one fetch at a time |
| `ApiServer` | extends `MmdsVsock`: start-up, connections, accounting, the document and who sees it |
| `MmdsDocument` | merge, lookup and the two renderings as recursive operators (used by `MCApi` only) |
| `MC*` | instances for TLC, with bounds on the number of invocations where needed |
| `JailerProofs`, `PoolProofs`, `BackendProofs`, `BridgeProofs`, `HostMmdsProofs`, `CommandLineProofs`, `CliProofs`, `ApiProofs` | proofs about the component named, `CliProofs` about `Exec` too |

### Jailer

`pc[L]` is the place of jailer process `L`; `fd[L]` the inode its lock
descriptor is of (shared with its daemon); `path[id]` the inode `.<id>.lock`
names; `reg`, `regLock`, `regFile` the registry; `lines[L]` the copy a process
has in memory; `todo`, `probe` the liveness probes of `refuse_live_shared_uid`;
`dir`, `sock`, `profile` the files of each instance. `acquire_instance_lock` is
`OpenLock`, `FlockInstance`/`InstanceBusy`, `ChmodLock`,
`RecheckSame`/`RecheckChanged`; `resolve_instance_identity` is `AllocateUid` or
`ExplicitUid`, `TruncateRegistry`, `WriteRegistry`, the `Probe*` actions and
`CloseRegistry`; launch goes on with `PrepareFiles`, `Spawn`/`ChownFails`,
`InstallHandler`, `Reap`; teardown is `Teardown*`. `SigKill` and `SigTerm` may
strike at any place. Inode numbers are recycled as soon as nobody has them, the
worst case for the re-check by inode.

### Pool

Disks and locks are inodes; `content` says what a disk holds: `Cold`, `Dirty`,
or the number of the warm-up it belongs to, and `save` carries the number of
the warm-up it was taken in. `meta` is `none`, `partial` while it is being
written, or `complete`. `Fail` ends a process anywhere. `AdminAlone` says
whether `init` and `destroy` are run only while nobody uses the pool.

### Backend

Handlers hold the mutex and never await, so each is atomic; what the framework
and the file system answer is chosen freely. Configuration objects are reduced
to "set or not" or to the value a later check reads. `GuestStops` is the guest
powering off behind the backend's back; `Restart` a new daemon on the same
snapshot files.

### VsockBridge

`holders` is the set of owners of an `Arc<VzVm>`; `dropper` walks through the
drop in field order (wake, join, remove, vm, slot). `OtherStart` is another
daemon that binds the same `uds_path`.

### HostMmds

A request is a few units, the last of which completes it, and a response is
`Chunks` frames. Sequence arithmetic wraps at `Modulus`, as `wrapping_add` does
at 2^32. `running` is the flag of the responder's thread: a read of the vmnet
interface that fails ends the thread (`ReadFails`), and so does a write, with the
rest of the replies to that frame unsent (`Write`). Nothing starts it again. The
guest's TCP is external and behaves as a TCP client does.

### Exec

Three kinds of session against one agent. The guest may hang (no fairness),
crash (`GuestCrashes`) or fail to listen (`AgentFails`); a snapshot keeps the
agent's place and the backlog. `Stop` may leave the VM as it is: `blockingStop`
gives up after 5 s and its callers ignore what it returns.

### Cli and CommandLine

The parsers of `main.rs` are one `while let` loop with different arms, so a
subcommand is a grammar (`RunGrammar`, ...) and `Loop` is the loop, a recursive
function of the position. `Field` is the option a flag sets: `vz-snapshot` has
two flags, `--settle-seconds` and `--run-seconds`, for one. `Readings` gives the
same line a meaning without a loop. `at` is the place in the invocation,
`tty`/`termios` the terminal and what the bridge keeps of it, `handle`, `sink`,
`relay` the three lifetimes of a container run, `mid` the content of
`vm.machineid` and `ids[p]` the identity state `p` was saved under. A `vz-exec`
or `vz-warm` invocation starts a session of `Exec` and takes `Exec`'s own steps.
`Killed` strikes anywhere outside a session and may cut a file short.

### ApiServer, MmdsVsock and MmdsDocument

`task[c]` follows one request through `route()`: `body`, `call`, `observe`.
`Acquire` gives the mutex to a task that waits, which `Disconnect` may cancel
before it runs. `tally` counts what was answered and is compared with the last
line in the metrics file; `since` collects the documents that were current while
a fetch lasted. `Merge` and `Render` are parameters, so that the proofs hold for
any document format; `MCApi` gives them `MergeJson` and `Response` of
`MmdsDocument`. A VM comes up by `InstanceStart` or `LoadSnapshot`, which install
the listener and may flush. What the other handlers do is in `Backend`; here they
succeed or fail. A fetch carries `over`, how many of the two limits on a head it
is above: 8192 bytes in the service, 16 KiB in the shim. Above a limit the rest
of the head, with the Accept header, is read or not.

## 3. Runs

| Run | Instance | Distinct states | Shows |
|---|---|---|---|
| `jailer_safety` | 3 processes, 2 ids, 5 inodes, 4 invocations, symmetric processes | 954,452 | one live daemon per id; different registered uids; files of a live daemon untouched except by a teardown that found no lock file |
| `jailer_liveness` | 2 processes, 4 inodes, 3 invocations | 104,269 | instance ids are exclusive claims; every invocation ends or waits for its daemon |
| `pool` | 3 clients, 2 slots, 6 inodes, 4 commands | 166,185 | slots are exclusive claims; a guest is alone on its disk; restores are on matching disks; a pool that opens is consistent |
| `backend` | 2 memory sizes, 2 balloon amounts, 2 documents, unbounded calls | 373,965 | the fields agree; refused calls and failed boots change nothing; the backend implements `Instance` |
| `vsock_bridge` | 3 connections | 7,105 | no use of a freed handle; the drop ends; the VM is freed |
| `host_mmds` | 2 fetches from one port, 1 loss, sequence space 16, client numbers from 14, server numbers from 0 or 15 | 409,816 | requests in order, responses intact and fresh, frames in flight bounded, acknowledgements not answered by acknowledgements while both ends go by one initial sequence number, fetches complete |
| `cli` | 3 invocations; 10 ordinary lines, and for the first also some 390 odd ones; 2 guest codes and a container code of 256 | 743,772 | lines are read as written; the terminal comes back; callbacks have a sink; saved states keep their identity; status 0 is the guest's; right exit codes, images of a waiting agent; commands return |
| `api` | 2 connections, 3 requests, 2 starts, 2 metrics files, 1 fetch | 276,173 | metrics exact; starts over a stale socket; guests see a current document and are answered for all of a request within the limits; PATCH merges by path; no request waits for ever for the lock |

Four runs show a disagreement between what the repository says and what the
code does; the counterexample is the result. Each is a `findings` entry with
the text it contradicts.

| Run | Property violated | What happens |
|---|---|---|
| `jailer_rewrite` | `LiveUidExclusive` | a jailer dies between the truncation and the write of the registry; the line of a running instance is gone and its uid is given to a second one |
| `pool_reinit` | `SlotExclusive` | `destroy` takes no slot lock: after `destroy` and `init` a claimed slot is claimed again |
| `bridge_slot` | `SlotOutlivesVm` | a proxy thread in its handshake keeps the VM alive after the slot's disk was deleted |
| `exec_stdin` | `AnswerReported` | a stdin pump that fails because the guest has powered off hides the exit code that was read |

What holds beside each of them is stated exactly: `RegisteredUidExclusive` asks
for the registry lines, the pool's properties assume `AdminAlone`,
`HandleOutlivesUse` and `VmFreed` say what the `Arc` does guarantee, and
`AnswerTrue` speaks of the code that was read.

`MCApi` also asks, as an assumption TLC evaluates, that the two MMDS services
give the same answer to every request over every stored document
(`ServicesAgree`), with the exception listed below.

Further disagreements met while modelling, which the models contain but no run
is spent on:

* SIGTERM between the spawn of the daemon (jailer `main.rs` 1098) and the
  installation of the handlers (1103) orphans it, while lines 31-33 say that
  terminating the jailer reaps the daemon. `SigTerm` at that place is in `Jailer`.
* `merge_json` stores the nulls inside an object that is new to the document, so
  PATCH is not idempotent; a JSON merge patch would drop them. `PatchedByPath`
  names the exception.
* The packet responder answers 200 with JSON where the vsock service answers
  501 (a value that is neither text nor an object, not asked for as JSON), and
  the two sort keys differently, although the compatibility document calls the
  semantics the same. `ServicesAgree` names the first; the order is left out.
* A request with an invalid id returns from `route()` without being counted or
  flushed, although the compatibility document says metrics are written after
  each API request. `MetricsExact` names it.
* A refused PUT `/logger` with a bad level has already switched `log_path`. The
  logger is not modelled.

Every property of a passing run has a mutant in `PROJECT.json`: a plausible bug
in the modelled code (defined next to the action it changes, named `Mut...`)
under which TLC finds the property violated.

Deadlock is checked for `backend`, which always has a next call. The other
systems may really come to rest: all processes done and the bound on
invocations reached, the backend dropped, the last fetch or session over.

### Bounds, and why they are enough

* Two ids and three processes give the interesting triple (two launches and a
  teardown of one id; or two launches and a prober), the fourth invocation lets
  a slot be used again after a death. Five inodes let a process hold a lock
  file that was unlinked and made again. Uids 1 to 3 with 1 and 3 in the
  password database leave one to allocate, so exhaustion happens. The loop of
  `acquire_instance_lock` keeps its real bound of 3 rounds.
* Two slots give a scan that passes a busy slot; three clients two users and a
  prober. Four commands allow init, two users, and stats or destroy, or a
  second init after a crash or a destroy.
* Amounts below, equal to and above the memory size hit both sides of
  `validate_balloon_amount`.
* Requests of length 2 and 3 against a buffer of 2 hit the 64 KiB limit; the
  start at 14 of 16 makes every fetch wrap; two fetches reuse the port. The two
  initial sequence numbers of the responder, 0 and 15, are one apart, so a frame
  of an old connection can carry a number the new one expects. Three frames in
  flight hold a retransmission beside the frames it repeats.
* Three invocations: save and two restores from one image; a save by each of
  `vz-warm` and `vz-snapshot` and a restore of either; a kill in between. Two
  connection attempts reach success after a failure and exhaustion.
* Up to three more tokens from `--`, `--help`, a flag with a value, a numeric
  flag, a number and a word put each of these in each other's place. Further
  lines give `vz-snapshot` its two flags for one option in either order.
* Two connections are the two that compete for a lock; three requests are enough
  for PUT `/metrics` to change files under another's request, and for a PUT, a
  PATCH and a fetch. Two starts leave a socket behind at every point.

### Fairness

* `Jailer`: weak fairness of each process's own steps (the scheduler). Nobody is
  forced to start, to be killed, or to make a daemon exit.
* `VsockBridge`: weak fairness of the accept thread, of a drop that has begun
  and of each proxy thread up to the copy. A handshake ends because each read
  has a timeout and at most 64 bytes are read. Clients and copies owe nothing.
* `HostMmds`: weak fairness of responder, reception and retransmission; strong
  fairness of sending the request and closing the socket, only because the
  model's bound on frames in flight switches these two off and on.
* `Cli`: weak fairness of the host's steps in a session, whose timeouts lapse, and
  of the one-shot commands, whose sleeps and waits are bounded; the guest may
  stop at any point. `run` and `pool` wait for a guest without a bound, so
  `CommandReturns` says nothing of them.
* `ApiServer`: weak fairness of each request that has its body (the runtime polls
  tasks that can go on). Clients owe nothing: they may never finish a body.
* `Pool` and `Backend` state no liveness: a pool client and a handler run
  straight through.

## 4. Properties worth knowing

* `OneLivePerId`: the lock is inherited by the daemon and re-checked against the
  path after `flock`; both are needed, against death and against unlinking.
* `RegisteredUidExclusive`: registering before probing, under one registry lock,
  makes whoever comes second see the first.
* `LiveFilesKept`: the exception it names is real. A teardown that finds no lock
  file goes on without a lock, and a launch may start meanwhile.
* `FreshRestore`, `OpenPoolMatches`: crash-safety of the pool; `meta` is written
  last and each claim clones anew.
* `RefusalsHarmless`, `HoldsTogether`: a boot that fails at any point leaves
  nothing behind and can be corrected and retried.
* `FetchCompletes` names the exceptions of the responder: it does not
  retransmit, idle connections expire, a repeated SYN replaces the initial
  sequence number the client may already use, and a failed read or write of the
  vmnet interface ends it for good. The connection followed is one of fewer than
  1024, the size of the table.
* `NoReplayLoop` bounds the frames in flight; it does not say that an exchange
  ends. `AcksEnd` does, for acknowledgements: while the request is incomplete the
  responder answers every frame, but with the sequence number the guest expects,
  which the guest does not answer. It names its exception: after a SYN repeated
  too late the numbers differ, guest and responder answer each other one for one,
  and nothing in the responder ends that.
* `GuestServed` names the limits on a head: above them the Accept header may be
  lost, and the answer is then in the other format although nobody stalled.
* `ResponseIntact` names an exception of the same kind: a client that goes by an
  initial sequence number which a repeated SYN has replaced may take the response
  from its middle, where the new number is close below the old one. The proof
  does not go through without it, and two initial numbers one apart (modulo the
  sequence space) make TLC meet it.
* `DropCompletes` names its exception too: if another daemon has taken the
  path, the self-connect reaches that daemon and the join may wait for ever.
* `VmFreed` rests on the connection to the guest being answered one way or the
  other: `hb_vz_long_connect` waits for that without a timeout.
* `CallbackHasSink` is about the order in which handle and sink are dropped. That
  a container makes no callback once `hb_vm_free` has returned is taken from the
  framework; `Bridge.swift` does not see to it after a failed stop.
* `RequestAnswered`: tokio hands the mutex to a waiter before it runs; that a
  cancelled waiter gives it back is what keeps the others alive.
* `SavedUnderItsId`: only a missing or unreadable machineid file is replaced, and
  that happens before the first save. It is a statement about invocations one
  after the other: nothing excludes two processes that both find no file.

## 5. Proofs

All theorems are about the component modules themselves (not the MC modules)
and hold for every value of the constants that satisfies the named `ASSUME` of
the module. Each rests on an inductive invariant, proved in three facts: `Init`
implies it, `[Next]_vars` preserves it, it implies the properties.

**Jailer** (`JailerProofs`). `JailerInv` is the conjunction of
`TypeOK`; `ShapeInv` (what a program counter says of descriptors, the registry
lock and probes); `ClaimInv` (one holder per lock inode, and who has passed the
re-check has the inode the path names); and `UidInv`. The last is where the
work is. `RegisteredUidExclusive` is not inductive: between registering and the
end of the probes two processes may have the same uid. `ProbesComplete` says
that every process that would conflict is still to be probed, `RegistryCopy`
what the file holds during a rewrite, and `UidsDisjoint` speaks of processes
past their probes only. The first half of the module reduces the 32 actions to
what a step can do to the state shared with others (`ActorEffects`,
`ActorFiles`), so that the second argues about effects instead of actions.
Theorems:
`TypeCorrect`, `InstanceExclusive`, `UidExclusive`, `FilesKept` and
`ClaimsImplemented` (refinement of `ExclusiveClaims`).

**Pool** (`PoolProofs`), under `AdminAlone`. `PoolInv` adds to the types:
`AloneInv` (administration excludes other commands), `LockInv` (one owner per
lock inode, which is the slot's), `DiskPathsInv` (two paths never name one
disk), `GuestInv` (a guest runs on its slot's disk; a clone about to be
restored on is as the pristine disk), `BuildInv` (how far `init` has come).
Theorems: `TypeCorrect`, `ClaimExclusive`, `DiskExclusive`, `MetaVouches`,
`SlotReleased`, `RestoredFresh`, `ClaimsImplemented`. Without `AdminAlone`,
`pool_reinit` shows `SlotExclusive` to be false.

**Backend** (`BackendProofs`). `BackendInv` is the conjunction of the checked
invariants and a link between the origin of a VM and the devices it was built
with, which `SnapshotsLoadable` needs. Theorems: `TypeCorrect`, `FieldsAgree`,
`PausedTrue`, `BalloonHolds`, `MmdsAgrees`, `SnapshotsFit`, `RefusedHarmless`
and `InstanceImplemented` (refinement of `Instance`).

**VsockBridge** (`BridgeProofs`), any finite set of connections. `BridgeInv`
says exactly who holds an `Arc` in every state of the drop, the accept thread
and the proxy threads. Theorems: `TypeCorrect`, `HandleSafe`, `DropQuiet`,
`VmNotPinned`.

**Exec** (`CliProofs`), any number of sessions and attempts. `ExecInv` follows
the exit code from the child through the wire to the session, and the agent's
place through the probe to the saved image. Theorems: `TypeCorrect`,
`AnswersTrue`, `ImagesReady`.

**Cli** (`CliProofs`), any lines, codes and number of invocations.
`CliImplementsExec` shows that a behaviour of the command is a behaviour of
`Exec`, so `SessionsTrue` carries the theorems about `Exec` over. `CliInv`
says at each place which of handle, sink and kept terminal attributes exist
(`TermInv`, `SinkInv`), that a state on disk implies a whole machineid file that
it agrees with (`IdInv`), and where the exit code came from. Theorems:
`TerminalComesBack`, `CallbacksHaveSink`, `StatesRestorable`,
`SuccessComesFromGuest`.

**CommandLine** (`CommandLineProofs`), lines of any length and any tokens.
`LineRead` says that the loop of the parsers and the meaning of a line by
position agree, `LinesReadAsWritten` (`CliProofs`) that every invocation's line
is so read. The proof is by induction on the turns of the loop, through a
principle for sets of naturals (`SetInduction`) that the library's theorem on
minimal elements gives. It first shows that the recursive function of `Loop`
exists (`TurnsExist`), then that up to the separator the loop is where any
reading says (`ReadToSeparator`), that after it the rest is handed over
unchanged (`ReadAfterSeparator`), and conversely that the positions where an
accepted loop expected a flag are a reading (`FlagsAreRead`). It needs of a
grammar only what `GrammarsAre` shows of all of them: no flag both takes a value
and takes none, none is `--`, and no switch is an option that flags with values
set.

**HostMmds** (`HostMmdsProofs`), any request and response lengths that the
sequence space holds twice over, any initial sequence numbers, documents and
frames in flight. None of the six properties is inductive: each
depends on what is still on the link. `IInv` therefore says of every frame in
flight what it may be. `Opening`, `Established` and `Closed` order the frames of
two connections that use one port: those of the old one come before the SYN of
the new one, those of the new one after its SYN-ACK. `RequestInv` names the
request, of `n` units of which `e` are sent, whose frames and prefix the link
and the table hold, so that the sequence number the responder expects is that of
the end of its prefix, modulo the sequence space. `ResponseInv` and `AnswerInv`
name the one document whose chunks are cached, in flight or read, and say that
there is none before the whole request was sent. `WeightInv` counts each frame
with payload with the response it may still bring, which a response uses up.
`NoReplayLoop` follows from it. `AckInv`, proved on top of `IInv`, says that the
acknowledgements on their way to the guest have the number after the SYN-ACK's as
long as there is no response; `AcksEnd` follows. Theorems: `Invariance`,
`RequestInOrderHolds`, `AckNotAheadHolds`, `ResponseIntactHolds`,
`ServedFreshHolds`, `NoReplayLoopHolds`, `AcksEndHolds`.

**ApiServer** (`ApiProofs`), any connections, requests, files, documents, merge
and rendering. The account invariant relates the counters in memory to the
answered requests at all times and the file to the counters unless a write was
missed; `MetricsExact` follows. The guest invariant says that listener and
document agree unless the last refresh failed, and that the document a fetch has
taken along is in `since`, with the whole head unless it is above a limit or
somebody stalled. Theorems: `MetricsAccount`, `StaleSocketRemoved`,
`GuestServedCurrent`.

## 6. Only model-checked

* Liveness (`InvocationsSettle`, `DropCompletes`, `VmFreed`, `FetchCompletes`,
  `CommandReturns`, `RequestAnswered`): fairness and `ENABLED` are out of the prover's reach.
* `PatchedByPath` and `ServicesAgree`: merge, lookup and rendering are `RECURSIVE`
  operators over a document, behind which the prover has no arithmetic.
* The four violations, which are counterexamples.

## 7. Abstractions to keep in mind

* A parse error of a corrupt registry, `PermissionDenied` from the file system
  and the like end a process; they are covered by its death at that step.
* `cp -c` and `save` are one step each: a crash in the middle of a copy leaves
  a file nobody vouches for, as a crash right after it does.
* Times are not modelled: a timeout may lapse whenever it is armed.
* A request line sent to the MMDS over vsock comes in one piece and is below the
  limits on a head.
* A metrics line is reduced to its counts of requests; times and the numbers of
  flushes, of loads and of the pool's hits are left out.
* In `ApiServer` a VM that was loaded without being resumed is one whose guest
  does not ask yet.
* The link of `HostMmds` keeps the order of frames, as a vmnet interface does.
* The other API handlers are a success or a failure in `ApiServer` and are
  modelled in full in `Backend`; both take the mutex as what makes a handler
  atomic.

## 8. Not modelled

* The logger: nothing but the formatting of log lines reads its state.
* ARP, checksums and the 1024-entry table of the packet responder. The responder
  is followed for one client key; keys do not share state except for the limit.
* The text of the sandbox profile: generated policy without state.
* The in-guest self tests of the agent and the set-up of its link-local address:
  straight-line code that ends in a printed verdict.
* The inside of calls into Apple's frameworks (Virtualization, Containerization,
  vmnet): external; their outcomes are chosen freely.
* The Swift object behind a long-running VM handle: each call is a blocking round
  trip to the VM's dispatch queue, seen as its outcome.
* FFI types and string ownership, API data types, the placeholder `vmm` crate and
  the vendored Firecracker sources.

`components` in `PROJECT.json` gives status and reason for each part.
