# Verification of MCP-AmigaOS4

TLA+ models of the `amiga-fleet-mcp` host and the MCPd daemon, TLC runs that
check them on small instances, and TLAPS proofs of the invariants that matter
most.

    tlasany M.tla                        parse module M
    tlc -workers 2 -config X.cfg MCx     one run (the table in section 3)
    tlapm M.tla                          check the proofs of module M

`PROJECT.json` lists components, runs, mutants (what each property would
notice), the source lines behind every definition, hazards and theorems.

## 1. The system

An MCP server in Python (`host/`) drives a fleet of AmigaOS 4 machines, real
ones and QEMU guests. On each target runs MCPd (`mcpd/`), a C daemon that
serves JSON-RPC over TCP in 4-byte length-prefixed frames. Tools of the server
run as coroutines of one event loop; the daemon has one Process per connection.

| Component | State | Operations | Interacts with |
|---|---|---|---|
| Job table, `mcpd/src/jobs.c`, and `exec.*` | `g_jobs[]`, `g_next_id`, `g_port`, one semaphore; output files | `exec.cmd/status/output/kill/list`; `jobs_init`, `jobs_shutdown` | connection workers share it; started shells write to it through their DeathMessage |
| Listener and workers, `main.c`, `frame.c` | `g_live_clients`, the listening socket, a Process per connection | start-up, accept, claim, spawn, read, dispatch, write, release, CTRL-C | clients; everything a handler reaches |
| Host transport, `transports/mcpd.py` | reader/writer, `_next_id`, `_lock` | `request`, `close`; reconnect, warmup, retry | tools; daemon workers |
| File transfer, `upload.py`, `tools/fs.py`, `methods/fs.c` | offset, attempts; the remote file | `fs.upload`, `fs.download`, `fs.write_chunk`, `fs.write`, `fs.delete` | transport |
| Fleet and fan-out, `fleet.py`, `tools/fleet.py`, `notify_fleet` | transports and their locks | `run_on_all`, `barrier`, `quorum_run`, `snapshot` | transports; cancels calls |
| QEMU lifecycle, `tools/qemu.py`, `snapshots.py`, `qmp.py` | processes, QMP client | start, stop, reset, snapshots | guest, transport |
| Serial capture and MCU power, `serial_capture.py`, `p18.py`, `tools/power.py` | reader thread, log; the board | start/stop/clear; `power.*` | one serial port |
| Debugger, `transports/gdb.py`, `tools/debug.py` | GDB connection | exchange, continue, backtrace | QEMU's stub |
| Input, `tools/input.py`, `methods/input.c` | what a call holds down | type, key, click, drag, move, scroll | `input.device`, other workers |
| Installer, `tools/installer.py`, `installer/` | the destination volume | preflight, stage, run, verify | `fs.*`, `exec.*` of a target |
| Sandbox, `tools/sandbox.py`, `tools/exec.py` | probe cache, target lock, capture files, debug ring | probe, deploy, run_guest, run_batch, last_trap | SandboxVM on the target |
| Discovery, events and crash hook, archive | token buckets; one crash record; stored runs | answer a probe; drain; prune | LAN; kernel; server |
| Server, configuration, wizards, read-only methods, encoders | none of their own | parameter checks and forwarding | - |

What is hard here: one job table used by many preemptible workers and by
processes that outlive the requests that started them; start-up and shutdown
that race clients; calls that can be cancelled or time out at any await while
the daemon goes on, and retries of what may have run; multi-step work (an
upload, an installation, a reset of a guest) of which any step can fail and
which is taken up again from whatever was left; threads and coroutines that
check something and act on it later. `hazards` in `PROJECT.json` has the lines.

## 2. Modules

| Module | Models | Instantiated by |
|---|---|---|
| `JobTable` | `jobs.c` and the handlers of `exec.c` | `MCJobTable`; proofs in `JobTransferProofs` |
| `McpdListener` | `main.c`, `frame.c` | `MCMcpdListener`; `ListenerInputProofs` |
| `RpcService` | abstract: what `request()` promises | through `RpcTransport` |
| `RpcTransport` | `transports/mcpd.py` with the daemon's workers; implements `RpcService` | `MCRpcTransport`; `HostTransportProofs` |
| `Transfer` | `fs.upload`, `fs.download` against the daemon's `fs.*` | `MCTransfer`; `JobTransferProofs` |
| `Fleet` | the fan-out tools over the registry's transports | `MCFleet`; `FleetProofs` |
| `Qemu` | a target's guest: start, stop, reset, snapshots | `MCQemu`; `QemuProofs` |
| `SerialPort` | the MCU's port: the capture and `power.*` | `MCSerialPort`; `HostTransportProofs` |
| `Gdb` | a target's GDB connection and its stub | `MCGdb`; `GdbProofs` |
| `Input` | input injection, host gate and daemon | `MCInput`; `ListenerInputProofs` |
| `Installer` | preflight, stage, the step sequences, verify | `MCInstaller`; `InstallerProofs` |
| `Sandbox` | the `sandbox.*` tools and sandboxed jobs | `MCSandbox`; `SandboxProofs` |

A proof module extends one or two components; where it extends two, the names
that would meet (`Init`, `Next`, `Spec`, `vars`, `TypeOK`, ...) carry the
component's name in one of them (`SerialInit`, `InputNext`, `TransferSpec`).

How state and actions correspond to the code:

**JobTable.** A critical section between `ObtainSemaphore` and
`ReleaseSemaphore` is one action, every gap a value of `pc`. `g_port` is the
set of slots whose DeathMessage is on the port (the message is part of the
slot in the code too); a process writes through the slot pointer it was given
(`procSlot`). A worker's locals that survive a gap are `arg`, `ptr`, `ji`,
`opt`, `waited`. `jobs_shutdown` is `ShutdownCount`, `ShutdownSignal` and
`ShutdownDelete` (both one slot after the other, reading the table without the
semaphore), `ShutdownFree`.
Priorities, times and command texts are left out; an output is there or not.

**McpdListener.** `main` is the control point of `main()`, one action per
start-up step in the code's order; `sock` names the owner of the daemon's end
of a connection from the backlog to closed. A worker may return early
("aborted") or be ended by an exception in a handler ("killed"); `WaitFails` is
a `WaitSelect` that reports an error.

**RpcTransport, RpcService.** `phase` is the await `request()` is in. Streams
are sequences of frames; one whose header was read by a wait that ended before
the body is "torn" (`ReadTorn`: a senseless length or a body that is not JSON
ends the call and keeps the connection). The worker of a connection the host gave up on runs what
was on its way. `RpcService` has `Run`, `Answer`, `Fail` per request; the
mapping reads `outcome`, with `may_have_run` as the difference between
"failed" and "not_run".

**Transfer.** A file is a sequence of units, a chunk is `ChunkSize` of them.
`Send`, `Retry` and `Accepted` are the loop of `chunked_upload`; `net` holds
requests the host may have given up on, which `Execute` still carries out,
whole or short, as `fs_write_chunk` does (offset 0 makes the file anew).
`resume` takes the remote size for the offset. `fs.write` and `fs.delete` of
other calls change the file in between. A daemon that cannot examine the open
file answers `fs.read` with an empty slice (`fs.c:426`), which ends a download
as if the file ended there (`DownloadRead`).

**Fleet.** One coroutine per position of the target list (`task`), the lock of
each transport (`lock`), requests on the wire that may be executed after the
call gave up. `Collect` is one return of `asyncio.wait`: any set of finished
tasks, in any order. `Cancel` is its `finally`. `stuck` are the transports
whose holder, a task or another tool call, waits in `drain()`, which has no
time limit and keeps the lock; `Drained` is the end of it, which need not come.

**Qemu.** A step is what runs between two awaits of a tool. `proc` are the
processes whoever started them, `reg` the registered one, `client` what the
cached QMP client is connected to, `unflushed` what the guest has not written
back; `loadvm` brings back the cache of the time of `savevm`. `Sync` has every
end of `fs.sync`: flushed, answered with `flushed = false` (which nobody looks
at), or failed, after which the stop waits or reports `nothing-written`;
`settled` keeps apart what the result does not. `Cancel` gives a call up at any
of its awaits, with what its thread has done by then: a launch nobody registers
(`qemu.py:162`), a stop whose `finally` drops the handle. `CloseAll` may come
with calls under way, and its kill may fail. `excused` notes that the code has
lost a handle, in just the windows `NoOrphans` names.

**SerialPort.** `readers` are the threads alive, `thread` the one the capture
knows of; `stop` joins for two seconds (`stuck`). A `power.*` call checks on
the loop (`PowerBegin`) and drives the port later in a thread.

**Gdb.** The two byte streams are sequences of tokens (acks, naks, sound and
damaged packets, remains). `_exchange` with its resend, `cont` with Ctrl-C,
`detach`, and the debug.* tools as sequences of exchanges.

**Input.** A request becomes a sequence of events, written one by one by
workers that interleave; the context remembers modifiers and a button. A typed
character waits half its delay with the key down and the whole of it after
(the whole of it both times when the delay is too short to halve).

**Installer.** The volume is a set of pieces: absent, in part, complete. A
step of the sequence is one action; every request of it may fail, with or
without effect, silently where the code ignores it. A command over its time
limit works on (`late`). The exit code of a command is looked at nowhere, that
of an ejection included: `Eject` may leave the ISO in the unit (`jammed`). The
machine tables and the Kicklayout engine are operators.

**Sandbox.** Every await is a gap. SandboxVM is external: it runs guests one
after the other, writes capture files and reports to a debug ring that fills
late and does not wrap. A guest makes its capture file when it first writes, if
it ever does (`GuestWrites`, `wrote`); one that is aborted takes the later ones
with it. The capture files outlive the calls: a deletion that fails is ignored
(`_delete_capture`). `NameOf` is the name sandboxvm knows a guest by,
`ReadNames` those the host may read it under: a batch's name overrides are not
passed on.

## 3. Runs

| Run | Bounds | Properties |
|---|---|---|
| `job_table` | 2 slots, 3 jobs (2 with CTRL-C), 2 workers, 1 poll | `TypeOK`, `SlotStaysWithProcess`, `ExitedRecordIsTrue`, `RepliesAreTrue`, `EmptyOutputOnlyWhenDropped`, `NoOrphanFiles`, `OnlyLateJobsOutliveTable` |
| `job_live` | 1 slot, 2 jobs, 2 workers | `HandlersReply` |
| `listener` | 2 connections, cap 1, backlog 1, CTRL-C | `TypeOK`, `SlotAccounting`, `WorkerCap`, `ReadyBeforeReachable`, `SocketOwnership`, `GonePeerEndsWorker`, `NoWorkerParkedInFrame` |
| `rpc` | 2 requests (one idempotent, one large), 3 connections, 1 notification | `AtMostOnce`, `AnswersAreOwn`, `ServiceSpec`, `CallsEnd` |
| `transfer` | files of 0, 3 and 5 units, chunks of 2, one retry, 2 calls, 3 faults | `TransferExact`, `ResumablePart`, `CallsEnd` |
| `fleet` | 3 targets (one disabled), an unknown and a repeated one, 2 fan-outs, quorum 0 to 2, 1 fault, any number of stuck drains | `EntriesTrue`, `QuorumHonest`, `LocksMatchTasks`, `FanOutReturns` |
| `qemu` | 2 processes (1 may be of others), 2 calls, both at a time, cancelled anywhere, 1 write, 1 snapshot, 1 fault | `StopKeepsWrites`, `ResetReplaces`, `NoOrphans` |
| `serial` | 2 readers, 2 calls at a time of 3, 2 faults | `StoppedMeansQuiet`, `GuardedMcuIsNotWedged` |
| `debug` | 2 calls, 3 connections, 2 frames, 2 faults | `RepliesAreOwn`, `StepsRunOnce` |
| `input` | 2 workers, 3 calls, budgets of 8 events and 10 time units, 1 kill | `NothingStaysHeld` |
| `installer` | X5000, A1222, Sam460; 2 attempts, 2 faults anywhere | `OkRunCompletes`, `PreflightPromisesStage`, `LaunchedOnce`, `EjectedBeforeDismount` |
| `sandbox` | 2 calls of any tool, batches of 2, one override name, results 0 and -768, a ring of 3 lines | `OutputIsOwn`, `AllCleanIsTrue` |

Why these bounds are enough to be interesting. Three jobs on two slots force
an eviction while another job runs, and two workers let one be between two
critical sections of a handler while the other does that. Two connections on a
cap of one make a refusal, a reuse of a slot and a leak. Three transport
connections are the first, the retry's and one the warmup reopens. Five units
in chunks of two have a first, a middle and a short last chunk, and two calls
are an interrupted upload and its resumption. Two processes are a guest of
somebody else or ours and the one that replaces it, or those of two overlapping
starts; the proof has any number. The delays of `input` make
both budgets run out inside a keystroke and inside a drag. The two faults of
`installer` can be any requests of any steps, in the first attempt or in the
second, both ejections of one run among them; between them the three machines
have both values of every column of the table of configurations. Several properties
carry a condition (`~stale`, `excused`, `overstayed`, `unclean`, ...): it names
a gap the code really has, which is reachable in the model and described in
section 5, so that the property says exactly where the promise ends.

Deadlock is not checked: each model may really stop (the daemon has returned,
all jobs or calls of the bound are done). Symmetry is used for workers or calls
where a run has no temporal property.

Fairness:

- `JobTable`: weak fairness of each handler under way, of a created process up
  to its entry code and of `jobs_shutdown`. Workers run at priority +1, above
  every job (`WORKER_PRI`). A command is never assumed to end.
- `McpdListener`: weak fairness of `main()` and of each worker, not of
  `WaitFails`. A handler is
  assumed to return or be killed, and `SO_RCVTIMEO` to be honoured: the code
  calls that best effort. Clients and the operator owe nothing.
- `RpcTransport`: weak fairness of the host's own steps. Every wait but
  `drain()` has a timeout, so the daemon is not assumed to answer. The timeout
  of a read starts anew with each frame (`mcpd.py:231`, `:333`): that the daemon
  stops sending notifications is the bound on them.
- `Transfer`: weak fairness of the host's steps and of the end of the request
  it waits for: its reply, or the time limit of the transport.
- `Fleet`: weak fairness of coroutines, strong fairness of taking a transport's
  lock, because `asyncio.Lock` is first come, first served. A request that has
  been written ends, the fan-out's (`GiveUp`) and another tool call's
  (`OtherReleases`), because the wait for the reply is limited. `drain()` is
  not: neither step is enabled while the transport is stuck in it, and nothing
  is assumed of `Drained`. `barrier` and `quorum_run` return all the same, by
  their own time limits; `FanOutReturns` lets the others wait in that case
  (`HeldUp`).

Every property of a run has a mutant: a definition next to the one it varies
(a dropped guard, an off-by-one, a missing reset), under which TLC finds the
property violated.

## 4. Proofs

Eight modules hold proofs, one or two components each, for every value of the
constants that satisfies the named assumption of the component
(`JobTableAssumption`, `ListenerAssumption`, `TransportAssumption`,
`SerialAssumption`, `QemuAssumption`, `FleetAssumption`, `InstallerAssumption`,
`TransferAssumption`, `GdbAssumption`, `InputAssumption`, `SandboxAssumption`):
the bounds are natural numbers, sets that are counted are finite, "no request"
is not a request, and the installer's machines and sources are among those of
its tables. Two assumptions say more, each with a constant of the code behind
it. `InputAssumption`: a chord is modifiers and then one key, and fits both
budgets (at most eight keys and a shift, `INPUT_MAX_CHORD_KEYS`, of at most
`INPUT_MAX_DELAY_MS` = 1000 each, against 256 events and 20000 ms).
`SandboxAssumption`: `DEFAULT_AOS_SEARCH` names a path, and a guest can return 0. Otherwise
nothing is assumed of the code. Every safety invariant and action property of
the runs is proved. Hardly one is inductive as it stands; the module states what has to be
added, one lemma per action shows that it is kept, and the property follows.
The invariants were checked by TLC, with the constants of the runs, before they
were proved.

- `JobTransferProofs`, on `JobTable`: `TypeCorrect`; `SlotOwnership` (`SlotStaysWithProcess`),
  `ExitedIsTrue` (`ExitedRecordIsTrue`), `AnswersAreTrue` (`RepliesAreTrue`),
  `LateJobsOnly` (`OnlyLateJobsOutliveTable`), `FilesHaveRecords`
  (`NoOrphanFiles`), `EmptyMeansDropped` (`EmptyOutputOnlyWhenDropped`).
  `JobInv` (theorem `JobInvariant`) consists of `TableInv`: ids are unique and
  handed out once (an eviction must not meet a second record of the same job),
  a living process has its slot for itself and off the port, a message on the
  port is about the dead job in its slot with its code, and a slot claimed by
  `jobs_start` but not started in belongs to one worker; `InfoInv`: what a
  handler copied of a finished job stays true in every later gap; `LateInv`:
  after the last count of `jobs_shutdown` whatever lives or is being started
  has a later id; `FileInv`: a record whose output is not marked deleted still
  has its file. `Drained` and `Claimable` have lemmas of their own.
- `ListenerInputProofs`, on `McpdListener`: `TypeCorrect`; `SlotsAreAccounted` (`SlotAccounting`),
  `WorkersAreCapped` (`WorkerCap`), `SocketsAreOwned` (`SocketOwnership`),
  `ReachableOnlyWhenReady` (`ReadyBeforeReachable`). `SlotsInv` adds that no
  worker exists for a socket still in the listener's hands, which makes a claim
  count a new connection; `OwnershipInv` that a worker that has not obtained
  its socket leaves it in the global name space; `StartupInv` what is up at
  each control point of `main()`.
- `HostTransportProofs`, on `RpcTransport`: `OwnAnswers` (`AnswersAreOwn`), `RunsAtMostOnce`
  (`AtMostOnce`), and the refinement `ImplementsService` (`ServiceSpec`).
  `TransportInv` (theorem `TransportInvariant`) is a budget: runs, frames on
  the way and frames `request()` may still write never exceed what a request
  may run (`BudgetInv`); a frame that is out belongs to a call that reads its
  reply or that did not deny having sent it (`SentInv`); an id on its way names
  one request and the id waited for is the call's own (`FrameInv`). The
  refinement goes step by step: a worker's run is `Run`, the end of a call is
  `Answer` or `Fail`, everything else stutters.
- `HostTransportProofs`, on `SerialPort`: `StoppedIsQuiet` (`StoppedMeansQuiet`), `GuardHolds`
  (`GuardedMcuIsNotWedged`), from `SerialInvariant`. `GuardInv` says that a
  command which could wedge the MCU and has no excuse is under way only while
  the board has power, which is what the gap between check and use needs.
- `QemuProofs`: `StopKeeps` (`StopKeepsWrites`), `ResetReplacesGuest`
  (`ResetReplaces`), `HostLeavesNoOrphans` (`NoOrphans`), from
  `QemuInvariant`. `QemuInv` adds that one guest at most answers (`GuestInv`),
  that a stop whose flush was answered, or had nobody to ask, has nothing left
  to flush (`FlushInv`), which states a guest that has answered can come back
  to (`ResetInv`), and that without an excuse a launch is alone and no stop waits
  for any but the registered process (`HandleInv`). `NoOrphans` is about every
  state, not only about calls that have ended.
- `FleetProofs`: `ReturnsAreTrue` (`EntriesTrue`), `QuorumsAreHonest`
  (`QuorumHonest`), `LocksFollowTasks` (`LocksMatchTasks`), from
  `FleetInvariant`, for lists of any length with any names in them. `WireInv`
  ties a request to the position it was sent for, `AnswerInv` the entries
  collected so far to the tasks that are done.
- `InstallerProofs`: `OkRunsComplete` (`OkRunCompletes`), `PreflightPromises`
  (`PreflightPromisesStage`), `LaunchesOnce` (`LaunchedOnce`) and the action
  property `EjectsFirst` (`EjectedBeforeDismount`), from `InstallerInvariant`,
  for all five machines and any number of attempts, faults and reboots. A run
  stands at a suffix of its machine's sequence (`SeqInv`), so the steps behind
  it (`passed`) are known from where it stands: the lemmas on `BuildSequence`
  show that it is ordered by `Rank` and which steps it has. For a sound run
  each passed step has left its mark and no later one takes it away
  (`SuppliesInv`, `PiecesInv`, `TextsInv`, `ClearedInv`); `StageInv` ties
  `tmp/` to how the last staging ended. For `EjectsFirst`, the ISO is in the
  unit only with `unmount_iso` still to come, or jammed (`SeqInv`). The run of
  TLC leaves AmigaOne and PegasosII to the proof.
- `JobTransferProofs`, on `Transfer`: `TransfersAreExact` (`TransferExact`),
  `PartsAreResumable` (`ResumablePart`), from `TransferInvariant`, for files
  and chunks of any length. While nothing stale can arrive, what an upload has
  written is a prefix of the local file that reaches its offset (`UploadInv`),
  so a chunk written a second time, or half of one, changes nothing that was
  right; what a download has read is a prefix of the remote file that ends at
  its offset (`DownloadInv`). `ControlInv` is where a call can be. A file is
  compared element by element: no induction over its length is needed.
- `GdbProofs`: `AnswersAreOwn` (`RepliesAreOwn`), `StepsAreNotRepeated`
  (`StepsRunOnce`), from `GdbInvariant`. `StreamInv` says what the open
  connection holds, both ways, at each point of an exchange, unless a call left
  it as it was: between calls nothing but a Ctrl-C that came too late; under an
  exchange the one packet of the call, or the one answer to it, the stop reply
  of a `debug.continue` perhaps still to come. So a reply that `_recv` finds is the one
  asked for. `StepInv` and `PacketInv` follow the packet of a step: on one wire
  once and not carried out, or on none and carried out once at most; after a
  nak, or before it is written, neither. Old connections count too, because the
  stub may still take a packet from one.
- `ListenerInputProofs`, on `Input`: `NothingIsLeftHeld` (`NothingStaysHeld`),
  from `InputInvariant`. A key that goes down is remembered by its context, or
  goes up with the very next event (`TodoInv`), so one key at most is held and
  not remembered (`HeldInv`), and only `input.type` can be cut off there: a
  chord is through before its budget (`InBudget`). Whatever the machine takes
  to be held is held by a call still served, or was left behind.
- `SandboxProofs`: `SandboxOutputIsOwn` (`OutputIsOwn`), `AllCleanMeansClean`
  (`AllCleanIsTrue`), from `SandboxInvariant`. `PlaceInv` ties the lock of a
  target to who is in the critical section, `ProcInv` how far a process is to
  where its call stands, `FileInv` a capture file to the run and the guest that
  wrote it, and `OwnInv` says that the file of a guest that has written is its
  own, or that of a run that outlived its call, and what an entry shows is so
  too but for the reasons `OutputIsOwn` names. `all_clean` rests on the
  process's own status: `ExitCode` is 0 only when every guest returned 0.

What the proofs found. An early form of `OutputIsOwn` held on the run of two
calls and was false: with a third call, one whose guest makes no file shows
what an earlier call could not delete, although the comment of
`_delete_capture` calls such a file never load-bearing (`sandbox.py:812`). A
guest makes none when its binary is half-written, when an earlier guest of the
batch was aborted, or when it is silent; the property names the case.
The waits of `TypeEvents` were wrong for short delays (`input.c:1193`) and have
been corrected.

Only model-checked: liveness, which is out of the prover's reach, with the
fairness it needs (`HandlersReply`, `GonePeerEndsWorker`, `NoWorkerParkedInFrame`,
`CallsEnd` of the transport and of the transfers, `FanOutReturns`); and that every
action can happen, and every property can fail under a mutant.

## 5. Seen while modelling

Where the code falls short of what a comment, or a reader, would expect. Each is
reachable in the model named, or was read off the lines it translates.

- Job table: a job started after the last count of `jobs_shutdown` outlives the
  port its DeathMessage goes to (`jobs.h:13`, `jobs.c:170`). CTRL-C is sent in
  round 0 only and not to a process whose pid is not recorded yet (`jobs.h:50`,
  `jobs.c:171`). A finished `exec.cmd` returns an empty output when its record
  was evicted before the file was read (`exec.c:133`, `exec.c:269`).
- Listener: early returns and killed workers keep their slot (`main.c:320`,
  `main.c:363`); idle connections are never dropped (`mcpd.py:101` says they
  are, `main.c:253`).
- Transport: after a cancelled call a sent request may fail with an
  InternalError that has no `may_have_run` (`mcpd.py:294`, `:362`); a warmup
  that gives up makes `request()` raise AssertionError (`:286`, `:275`).
- Transfer: `resume` returns before any digest is compared when the remote file
  is long enough; a first chunk that is executed late truncates; an empty file
  makes no request, so nothing is created and success is reported; a download
  ended early by an empty reply reports the full size, also when the daemon
  only failed to examine the file (`fs.c:426`).
- Fleet: a `drain()` that does not end holds up `run_on_all`, `snapshot` and
  `notify_fleet` for ever, also when it is another call's (`mcpd.py:243`); a
  target named twice counts twice to a quorum and has one entry; a snapshot
  whose daemon fails after the probe has no error. `notify_on_alert` formats a
  missing alert code as a number.
- QEMU: two overlapping starts orphan a guest, although `close_all`
  (`fleet.py:170`) is there to leave none; so does a start cancelled while its
  thread launches (`qemu.py:162`), and a kill that fails in `close_all` is
  swallowed (`fleet.py:190`), which the command line tools call but the server
  does not; a flush answered with `flushed = false` is reported as `fs.sync`
  (`qemu.py:226`, `fs.c:972`), one that failed as `nothing-written` when this
  transport has written nothing (`:233`), and only `SYS:` is flushed; a stop
  drops the registration by name, also that of a process started meanwhile; an
  `OSError` of a stale QMP client is not caught; without a QMP channel a guest
  that boots is invisible to start and stop; nothing but `quit` ever resets a
  QMP client.
- Serial: a start after a stop whose join timed out sets the old reader going
  again, whose end closes the new one's port; a capture may be started while a
  `power.*` thread drives the port; an interrupted watch leaves the stream on.
- Debugger: a step whose ack was lost is repeated, with `may_have_run` false; a
  failed `debug.continue` leaves a dead connection in place; a backtrace whose
  I/O fails ends as if it were complete.
- Input: an `input.type` with long delays can run out of its time between a
  key's down and up and leaves the key held, though `_inject_close` calls the
  undoing unconditional; chords of two workers mix.
- Installer: the device is dropped with the ISO in the unit when both ejections
  fail, as nobody looks at their exit codes (`tools/installer.py:587`,
  `_steps.py:889`), although the ISO "MUST be ejected" (`_steps.py:922`); after
  an ISO extraction that was cut short, the re-run takes the part for the whole
  (`_runner.py:6`, `_steps.py:221`); a user's own COMBI mountfile is
  overwritten, and Network-Startup or User-Startup replaced, when the request
  that looks for them fails; Copy and LhA over their time limit are reported
  like ones that ended; `_block_has_module` takes `RadeonHD.chip.debug` for
  `RadeonHD.chip`.
- Sandbox: the exit codes of `run_batch` are matched by position in a ring that
  may lack lines or keep old ones (`sandbox.py:1359`, `:1423`); the kind of a
  trap block that spans two runs is that of its first line; a probe under way
  since before a deploy can overwrite the cached result of the deploy; a capture
  file whose deletion failed is shown by a later call whose guest makes none
  (`sandbox.py:812` calls it never load-bearing); a batch guest with a name of
  its own is looked for under that name, which sandboxvm was not told
  (`sandbox.py:1527`): its output is missed, or another run's shown.

## 6. Plan

1. `Discovery`: the responder's token buckets and source table; theorem:
   replies in any window are bounded by burst plus rate. The host's scan
   (its comment says the lower latency replaces, the code keeps the last).
2. `EventsCrash`: the crash record, its hook and the draining workers.
3. `ArchiveRetention`: a server whose run directory another server's start
   prunes; calls that were cancelled or failed.
4. Proofs: every safety property of the runs is proved; new modules get their
   invariants as they are written.

## 7. Not modelled

`components` in `PROJECT.json` gives the reason for each: the parts of the plan
above, and those with no state of their own (parameter checks, configuration,
wizards, read-only methods that format operating system structures, standard
encoders, the test and validation scripts). Of the modelled components these
are left out: `proc.stdout` streaming and argument quoting of `exec.cmd`; option
parsing and library opening of `main()`; notification queues of the transport;
`fleet.relay`, `notify_on_alert` and the summaries of `fleet.list_targets`;
QEMU's command line, serial logs and screenshots; reading a capture log back;
the pointer's position and keymaps of `input.*`; the single-step tools of the
installer outside a run; a late LhA or Copy of an update that goes on
overwriting in the next attempt (it only makes its own run unclean); a
`sandbox.run_guest` under the name of a batch's guest (calls of one kind do
share names); volumes other than `SYS:` under a QEMU stop; SandboxVM
itself. After `ShutdownFree` the model's table is still there to be read, where
the code has freed it.
