--------------------------------- MODULE Qemu ---------------------------------
(***************************************************************************)
(* The QEMU guest of one target: qemu.start, qemu.stop, qemu.reset and the *)
(* other QMP tools (tools/qemu.py, tools/snapshots.py), the registry of    *)
(* processes and transports (fleet.py) and the QMP transport (qmp.py).     *)
(*                                                                         *)
(* Tool calls run concurrently on one event loop: a step here is what runs *)
(* between two awaits, and a call can be cancelled at any of them.  A      *)
(* guest may also have been started, stopped or written to by somebody     *)
(* else.  A process that finds the ports taken dies; only one is ever      *)
(* answering.  Serial logs are left out, and so are the volumes other than *)
(* SYS:, which no step of the program flushes.                             *)
(***************************************************************************)
EXTENDS Naturals, FiniteSets

CONSTANTS
    Calls,      \* tool calls that may be under way at a time
    MaxPids,    \* bound on QEMU processes
    MaxForeign, \* bound on processes others start
    MaxWrites,  \* bound on writes to the guest's SYS:
    MaxCalls,   \* bound on start, stop and reset calls
    MaxFaults   \* bound on failing steps

ASSUME QemuAssumption ==
    /\ IsFiniteSet(Calls)
    /\ {MaxPids, MaxForeign, MaxWrites, MaxCalls, MaxFaults} \subseteq Nat

VARIABLES
    hasQmp,    \* whether the target has a QMP channel
    proc,      \* processes
    ours,      \* those qemu.start launched
    excused,   \* history: a handle may be lost, by what NoOrphans names
    reg,       \* _qemu_processes[target]; 0 is none
    client,    \* process the cached QMP client is connected to; 0 is none
    mcpd,      \* the cached MCPd transport: "none", "clean", "written" through
    unflushed, \* writes in the guest's cache of SYS:
    writes,    \* writes so far
    snap,      \* the snapshot in the disk image, with the guest's cache
    call,      \* tool calls under way
    calls, foreign, faults,
    result,    \* how the last call ended
    closed     \* the server has shut down

launched == <<ours, excused>>
vars == <<hasQmp, proc, ours, excused, reg, client, mcpd, unflushed, writes,
          snap, call, calls, foreign, faults, result, closed>>

Pids == 1..MaxPids
NoSnap == [st |-> "none", cache |-> {}]
NoCall == [op |-> "none", pc |-> "idle", pid |-> 0, before |-> {}, lost |-> {},
           settled |-> "none", old |-> {}]

(* What became of the flush; a result tells less.  It says "fs.sync" of    *)
(* "flushed" and of "refused" (answered with flushed = false), that it has *)
(* waited of "waited", and "nothing-written" of the rest: nobody to ask    *)
(* ("silent"), a guest that takes no connection ("unreachable"), a flush   *)
(* that failed over a transport that has written nothing ("failed").       *)
Settlings == {"none", "flushed", "refused", "silent", "unreachable", "failed", "waited"}
Unflushed == {"refused", "unreachable", "failed", "waited"}

Stages == {"idle", "check", "popen", "register", "settle", "sync", "decide", "quit",
           "quitUnowned", "poll"}
CallRecords(pcs) ==
    [op: {"none", "start", "stop", "reset"}, pc: pcs, pid: 0..MaxPids,
     before: SUBSET (1..writes), lost: SUBSET (1..writes),
     settled: Settlings, old: SUBSET Pids]

TypeOK ==
    /\ proc \in [Pids -> {"none", "new", "up", "booted", "closing", "dead"}]
    /\ ours \subseteq Pids /\ excused \in BOOLEAN /\ reg \in 0..MaxPids /\ client \in 0..MaxPids
    /\ mcpd \in {"none", "clean", "written"}
    /\ unflushed \subseteq 1..writes /\ writes \in 0..MaxWrites
    /\ snap \in [st: {"none", "saved"}, cache: SUBSET (1..writes)]
    /\ call \in [Calls -> CallRecords(Stages)] /\ result \in CallRecords({"idle", "ok", "raised"})
    /\ calls \in 0..MaxCalls /\ foreign \in 0..MaxForeign /\ faults \in 0..MaxFaults
    /\ closed \in BOOLEAN /\ hasQmp \in BOOLEAN

Init ==
    /\ hasQmp \in BOOLEAN
    /\ proc = [p \in Pids |-> "none"] /\ ours = {} /\ excused = FALSE /\ reg = 0 /\ client = 0
    /\ mcpd = "none" /\ unflushed = {} /\ writes = 0 /\ snap = NoSnap
    /\ call = [c \in Calls |-> NoCall]
    /\ calls = 0 /\ foreign = 0 /\ faults = 0 /\ result = NoCall /\ closed = FALSE

host == <<reg, client, mcpd>>
disk == <<unflushed, writes, snap>>

Fault == faults < MaxFaults /\ faults' = faults + 1

Alive(p) == proc[p] \in {"new", "up", "booted", "closing"}
Listening == {p \in Pids : proc[p] \in {"up", "booted"}}
QmpUp == IF hasQmp THEN Listening ELSE {}
McpdUp == {p \in Pids : proc[p] = "booted"}

----------------------------------------------------------------------------
(* QEMU and its guest (external).                                          *)

guestOnly == <<launched, reg, client, mcpd, writes, snap, call, calls, foreign, result, closed, hasQmp>>

Bind(p) ==
    /\ proc[p] = "new"
    /\ proc' = [proc EXCEPT ![p] = IF Listening = {} THEN "up" ELSE "dead"]
    /\ UNCHANGED <<guestOnly, unflushed, faults>>
Boot(p) ==
    /\ proc[p] = "up" /\ proc' = [proc EXCEPT ![p] = "booted"]
    /\ UNCHANGED <<guestOnly, unflushed, faults>>
Gone(p) ==
    /\ proc[p] = "closing" /\ proc' = [proc EXCEPT ![p] = "dead"]
    /\ UNCHANGED <<guestOnly, unflushed, faults>>
Crash(p) ==
    /\ p \in Listening /\ Fault /\ proc' = [proc EXCEPT ![p] = "dead"] /\ unflushed' = {}
    /\ UNCHANGED guestOnly
WriteBack ==
    /\ unflushed # {} /\ unflushed' = {}
    /\ UNCHANGED <<guestOnly, proc, faults>>
OtherStarts ==
    /\ foreign < MaxForeign /\ foreign' = foreign + 1
    /\ \E p \in Pids :
         /\ proc[p] = "none" /\ \A q \in Pids : q < p => proc[q] # "none"
         /\ proc' = [proc EXCEPT ![p] = "new"]
    /\ UNCHANGED <<launched, host, disk, call, calls, faults, result, closed, hasQmp>>

(* A write to SYS:, by a tool of this server or by somebody else.          *)
Write(byUs) ==
    /\ McpdUp # {} /\ writes < MaxWrites
    /\ writes' = writes + 1 /\ unflushed' = unflushed \cup {writes + 1}
    /\ mcpd' = IF byUs THEN "written" ELSE mcpd
    /\ UNCHANGED <<proc, launched, reg, client, snap, call, calls, foreign, faults, result, closed, hasQmp>>

\* What goes down takes the guest's cache with it.
Killed(p, st) ==
    /\ proc' = [proc EXCEPT ![p] = st]
    /\ unflushed' = IF p \in Listening THEN {} ELSE unflushed
Takes(p) == IF p \in Listening THEN unflushed ELSE {}

----------------------------------------------------------------------------
(* Tool calls.                                                             *)

Goto(c, pc) == call' = [call EXCEPT ![c].pc = pc]

(* A call ends; `st` is how.                                               *)
Return(c, st, lost) ==
    /\ result' = [call[c] EXCEPT !.pc = st, !.pid = 0, !.lost = lost,
                                 !.old = @ \cap (IF hasQmp THEN Listening ELSE McpdUp)]
    /\ call' = [call EXCEPT ![c] = NoCall]

(* The end of a stop; a reset goes on with its start.                      *)
Stopped(c, lost) ==
    IF call[c].op = "reset"
      THEN call' = [call EXCEPT ![c].pc = "check", ![c].lost = lost] /\ UNCHANGED result
      ELSE Return(c, "ok", lost)

drop_qemu_process == reg' = 0 /\ client' = 0 /\ mcpd' = "none"

\* A stop has writes to keep, a reset a guest to replace.
Begin(c, op) ==
    /\ call[c].pc = "idle" /\ calls < MaxCalls /\ calls' = calls + 1
    /\ call' = [call EXCEPT ![c] =
                  [NoCall EXCEPT !.op = op, !.pc = IF op = "start" THEN "check" ELSE "settle",
                                 !.before = IF op = "start" THEN {} ELSE 1..writes,
                                 !.old = IF op = "reset" THEN QmpUp \cup McpdUp ELSE {}]]
    /\ result' = NoCall
    /\ UNCHANGED <<proc, launched, host, disk, foreign, faults, closed, hasQmp>>

(* qemu_start, up to its await: neither a registered process that is       *)
(* running, nor anything that answers on the target's ports.               *)
StartRefusedPorts == QmpUp # {} \/ McpdUp # {}
StartRefused == (reg # 0 /\ Alive(reg)) \/ QmpUp # {} \/ McpdUp # {}

Launching(d) == call[d].pc \in {"popen", "register"}
Stopping(d) == call[d].pc \in {"quit", "poll"}

\* A start that takes whatever answers for the guest it was to launch.
StartCheckIdempotent(c) ==
    /\ call[c].pc = "check"
    /\ IF StartRefused THEN Return(c, "ok", call[c].lost) ELSE Goto(c, "popen") /\ UNCHANGED result
    /\ excused' = (excused \/ (~StartRefused /\ \E d \in Calls \ {c} : Launching(d) \/ Stopping(d)))
    /\ UNCHANGED <<proc, ours, host, disk, calls, foreign, faults, closed, hasQmp>>

\* From here to its registration a start may race with another, and with a
\* stop that waits for the process before.
StartCheck(c) ==
    /\ call[c].pc = "check"
    /\ IF StartRefused
         THEN Return(c, "raised", call[c].lost) /\ UNCHANGED excused
         ELSE /\ Goto(c, "popen") /\ UNCHANGED result
              /\ excused' = (excused \/ \E d \in Calls \ {c} : Launching(d) \/ Stopping(d))
    /\ UNCHANGED <<proc, ours, host, disk, calls, foreign, faults, closed, hasQmp>>

(* Popen in its thread, and then the registration on the loop.             *)
Popen(c) ==
    /\ call[c].pc = "popen"
    /\ \/ \E p \in Pids :
            /\ proc[p] = "none" /\ \A q \in Pids : q < p => proc[q] # "none"
            /\ proc' = [proc EXCEPT ![p] = "new"] /\ ours' = ours \cup {p}
            /\ call' = [call EXCEPT ![c].pc = "register", ![c].pid = p]
            /\ UNCHANGED <<faults, result>>
       \/ Fault /\ Return(c, "raised", call[c].lost) /\ UNCHANGED <<proc, ours>>
    /\ UNCHANGED <<excused, host, disk, calls, foreign, closed, hasQmp>>

register_qemu_process(c) ==
    /\ call[c].pc = "register" /\ reg' = call[c].pid
    /\ Return(c, "ok", call[c].lost)
    /\ UNCHANGED <<proc, launched, client, mcpd, disk, calls, foreign, faults, closed, hasQmp>>

(* _settle_before_stop: a flush, if there is or can be a transport.        *)
SettleOnlyWritten(c) ==
    /\ call[c].pc = "settle"
    /\ call' = IF mcpd = "written" THEN [call EXCEPT ![c].pc = "sync"]
               ELSE [call EXCEPT ![c].pc = "decide", ![c].settled = "silent"]
    /\ UNCHANGED <<proc, launched, host, disk, calls, foreign, faults, result, closed, hasQmp>>

Settled(c, s) == call' = [call EXCEPT ![c].pc = "decide", ![c].settled = s]

Settle(c) ==
    /\ call[c].pc = "settle"
    /\ \/ /\ mcpd = "none" /\ McpdUp = {} /\ Settled(c, "silent") /\ UNCHANGED <<mcpd, faults>>
       \/ /\ mcpd = "none" /\ McpdUp # {} /\ Fault
          /\ Settled(c, "unreachable") /\ UNCHANGED mcpd
       \/ /\ mcpd # "none" \/ McpdUp # {}
          /\ Goto(c, "sync") /\ mcpd' = (IF mcpd = "none" THEN "clean" ELSE mcpd)
          /\ UNCHANGED faults
    /\ UNCHANGED <<proc, launched, reg, client, disk, calls, foreign, result, closed, hasQmp>>

(* fs.sync answers once the cache is down, or that the file system flushed *)
(* nothing, which is not looked at; if it fails, waiting is all that is    *)
(* left, and only for writes over this transport.                          *)
Sync(c) ==
    /\ call[c].pc = "sync"
    /\ \/ McpdUp # {} /\ unflushed' = {} /\ Settled(c, "flushed") /\ UNCHANGED faults
       \/ McpdUp # {} /\ Fault /\ Settled(c, "refused") /\ UNCHANGED unflushed
       \/ /\ IF McpdUp = {} THEN UNCHANGED faults ELSE Fault
          /\ Settled(c, IF mcpd = "written" THEN "waited" ELSE "failed")
          /\ UNCHANGED unflushed
    /\ UNCHANGED <<proc, launched, host, writes, snap, calls, foreign, result, closed, hasQmp>>

(* qemu_stop after it has settled: which process is it about?              *)
Decide(c) ==
    /\ call[c].pc = "decide"
    /\ \/ /\ reg = 0 /\ QmpUp # {} /\ Goto(c, "quitUnowned") /\ UNCHANGED <<host, result>>
       \/ /\ reg = 0 /\ QmpUp = {} /\ McpdUp # {} /\ Return(c, "raised", {}) /\ UNCHANGED host
       \/ /\ reg = 0 /\ QmpUp = {} /\ McpdUp = {} /\ Stopped(c, {}) /\ UNCHANGED host
       \/ /\ reg # 0 /\ ~Alive(reg) /\ Stopped(c, {}) /\ drop_qemu_process
       \/ /\ reg # 0 /\ Alive(reg)
          /\ call' = [call EXCEPT ![c].pid = reg, ![c].pc = IF hasQmp THEN "quit" ELSE "poll"]
          /\ UNCHANGED <<host, result>>
    /\ UNCHANGED <<proc, launched, disk, calls, foreign, faults, closed, hasQmp>>

(* QmpTransport.quit: over the cached client, or a new one.  The client is *)
(* closed whatever happens.                                                *)
QuitReaches == IF client # 0 THEN {client} \cap Listening ELSE Listening

Quit(c) ==
    /\ call[c].pc = "quit"
    /\ \/ \E p \in QuitReaches :                        \* it goes down
            /\ Killed(p, "closing") /\ client' = 0
            /\ call' = [call EXCEPT ![c].pc = "poll", ![c].lost = Takes(p)]
            /\ UNCHANGED <<reg, mcpd, faults, result, excused>>
       \/ /\ client = 0 /\ Listening = {}              \* TargetError: not reachable
          /\ Goto(c, "poll")
          /\ UNCHANGED <<host, proc, unflushed, faults, result, excused>>
       \/ /\ Fault /\ Goto(c, "poll") /\ client' = 0    \* TimeoutError
          /\ UNCHANGED <<reg, mcpd, proc, unflushed, result, excused>>
       \/ /\ client # 0 /\ QuitReaches = {}             \* OSError: not caught
          /\ drop_qemu_process /\ Return(c, "raised", {}) /\ excused' = TRUE
          /\ UNCHANGED <<proc, unflushed, faults>>
    /\ UNCHANGED <<ours, writes, snap, calls, foreign, closed, hasQmp>>

(* _stop_unowned returns once quit is answered; nobody waits for the exit. *)
QuitUnowned(c) ==
    /\ call[c].pc = "quitUnowned" /\ client' = 0
    /\ \/ \E p \in QuitReaches :
            /\ Killed(p, "closing") /\ Stopped(c, Takes(p)) /\ UNCHANGED faults
       \/ /\ QuitReaches = {} /\ Return(c, "raised", {}) /\ UNCHANGED <<proc, unflushed, faults>>
       \/ /\ Fault /\ Return(c, "raised", {}) /\ UNCHANGED <<proc, unflushed>>
    /\ UNCHANGED <<launched, reg, mcpd, writes, snap, calls, foreign, closed, hasQmp>>

(* Wait for the exit; then terminate, then kill.  The registration and the *)
(* transports are dropped whatever comes of it, by name.                   *)
Poll(c) ==
    LET p == call[c].pid
    IN  /\ call[c].pc = "poll" /\ drop_qemu_process
        /\ \/ ~Alive(p) /\ Stopped(c, call[c].lost) /\ UNCHANGED <<proc, unflushed, faults, excused>>
           \/ /\ Alive(p) /\ Killed(p, "dead") /\ UNCHANGED <<faults, excused>>
              /\ Stopped(c, call[c].lost \cup Takes(p))
           \/ /\ Alive(p) /\ Fault /\ Return(c, "raised", call[c].lost)   \* TimeoutExpired
              /\ excused' = TRUE /\ UNCHANGED <<proc, unflushed>>
        /\ UNCHANGED <<ours, writes, snap, calls, foreign, closed, hasQmp>>

(* The client gives the call up.  What a thread of it has sent by then is  *)
(* done: a quit, a kill, or a launch, which nobody registers ("popen" is   *)
(* before it, "register" after it).  A stop's finally drops the handle.    *)
Cancel(c) ==
    /\ \/ /\ call[c].pc \in {"check", "popen", "register", "settle", "sync", "decide"}
          /\ excused' = (excused \/ call[c].pc = "register")
          /\ Return(c, "raised", call[c].lost) /\ UNCHANGED <<host, proc, unflushed>>
       \/ /\ call[c].pc = "quitUnowned" /\ client' = 0 /\ UNCHANGED <<reg, mcpd, excused>>
          /\ \/ Return(c, "raised", call[c].lost) /\ UNCHANGED <<proc, unflushed>>
             \/ \E p \in QuitReaches : Killed(p, "closing") /\ Return(c, "raised", Takes(p))
       \/ /\ Stopping(c) /\ drop_qemu_process /\ excused' = TRUE
          /\ \/ Return(c, "raised", call[c].lost) /\ UNCHANGED <<proc, unflushed>>
             \/ /\ call[c].pc = "quit"
                /\ \E p \in QuitReaches :
                     Killed(p, "closing") /\ Return(c, "raised", call[c].lost \cup Takes(p))
             \/ /\ call[c].pc = "poll" /\ Alive(call[c].pid) /\ Killed(call[c].pid, "dead")
                /\ Return(c, "raised", call[c].lost \cup Takes(call[c].pid))
    /\ UNCHANGED <<ours, writes, snap, calls, foreign, faults, closed, hasQmp>>

(* QmpTransport.command: over the cached client, or a new one that stays.  *)
QmpAnswers(p) == p \in QmpUp /\ client \in {0, p} /\ client' = p

(* qemu.status, screenshots, and snapshot commands that fail.             *)
UseQmp ==
    /\ client = 0 /\ \E p \in Pids : QmpAnswers(p)
    /\ UNCHANGED <<proc, launched, reg, mcpd, disk, call, calls, foreign, faults, result, closed, hasQmp>>

rawOnly == <<launched, reg, mcpd, writes, calls, foreign, faults, result, closed, hasQmp>>
Saved == snap.st = "saved"

(* qemu.reset(system_reset=True) sends the command and no more: the guest  *)
(* boots again, without what it had not written back.                      *)
system_reset ==
    /\ \E p \in Pids : QmpAnswers(p) /\ Killed(p, "up")
    /\ UNCHANGED <<rawOnly, snap, call>>

(* savevm keeps the guest as it is, with what it has not written back.     *)
(* There is one snapshot at a time, of a booted guest, and a loaded one is *)
(* not loaded again (bounds).                                              *)
qemu_savevm ==
    /\ snap.st = "none" /\ \E p \in McpdUp : QmpAnswers(p)
    /\ snap' = [st |-> "saved", cache |-> unflushed]
    /\ UNCHANGED <<rawOnly, proc, unflushed, call>>

(* loadvm puts it back, under any other call; what a stop under way had to *)
(* keep is taken back with the disk.                                       *)
qemu_loadvm ==
    /\ Saved /\ unflushed' = snap.cache
    /\ \E p \in Pids : QmpAnswers(p) /\ proc' = [proc EXCEPT ![p] = "booted"]
    /\ call' = [c \in Calls |-> [call[c] EXCEPT !.before = {}]]
    /\ snap' = NoSnap /\ UNCHANGED rawOnly

qemu_delete_snapshot ==
    /\ Saved /\ \E p \in Pids : QmpAnswers(p)
    /\ snap' = NoSnap /\ UNCHANGED <<rawOnly, proc, unflushed, call>>

SnapshotCalled == qemu_savevm \/ qemu_loadvm \/ qemu_delete_snapshot

(* close_all, when a program that uses the fleet ends, with calls under    *)
(* way or not (they end with its event loop): the registered child goes    *)
(* too, if it can be killed.                                               *)
CloseAll ==
    /\ closed' = TRUE /\ drop_qemu_process
    /\ call' = [c \in Calls |-> NoCall] /\ result' = NoCall
    /\ \/ /\ IF reg # 0 /\ Alive(reg) THEN Killed(reg, "dead") ELSE UNCHANGED <<proc, unflushed>>
          /\ excused' = (excused \/ \E c \in Calls : Launching(c)) /\ UNCHANGED faults
       \/ /\ reg # 0 /\ Alive(reg) /\ Fault /\ excused' = TRUE /\ UNCHANGED <<proc, unflushed>>
    /\ UNCHANGED <<ours, writes, snap, calls, foreign, hasQmp>>

----------------------------------------------------------------------------
\* What a client may call.
Called(c) == \E op \in {"start", "stop", "reset"} : Begin(c, op)

Step(c) ==
    \/ Called(c)
    \/ StartCheck(c) \/ Popen(c) \/ register_qemu_process(c)
    \/ Settle(c) \/ Sync(c) \/ Decide(c) \/ Quit(c) \/ QuitUnowned(c) \/ Poll(c)
    \/ Cancel(c)

\* Nothing is looked at after the program's end.
Next ==
    /\ ~closed
    /\ \/ \E c \in Calls : Step(c)
       \/ \E p \in Pids : Bind(p) \/ Boot(p) \/ Gone(p) \/ Crash(p)
       \/ WriteBack \/ OtherStarts \/ UseQmp \/ system_reset \/ SnapshotCalled \/ CloseAll
       \/ \E byUs \in BOOLEAN : Write(byUs)

Spec == Init /\ [][Next]_vars

----------------------------------------------------------------------------
(* Properties.                                                             *)

(* A stop (or the stop of a reset), also one that raises or is cancelled,  *)
(* takes down no write to SYS: that was made before it was called, through *)
(* whatever connection; unless the guest did not let it flush: it took no  *)
(* connection, the flush failed, or it answered flushed = false.           *)
StopKeepsWrites ==
    /\ TypeOK
    /\ \A r \in {result} \cup {call[c] : c \in Calls} :
         r.settled \notin Unflushed => r.before \cap r.lost = {}

(* When a reset returns, the guest that answered on the target's ports     *)
(* when it was called does not answer any more, whoever had started it:    *)
(* nobody works on a machine they believe they have replaced.              *)
ResetReplaces == result.op = "reset" /\ result.pc = "ok" => result.old = {}

(* At any time the host has the handle of every guest it launched that     *)
(* runs, or is about to register it, and close_all ends them: "so the host *)
(* process doesn't leave orphans behind".  Unless a handle was lost where  *)
(* the code loses it: a launch began while another, or a stop waiting for  *)
(* its process, was under way; a start was cancelled after its launch; a   *)
(* stop raised or was cancelled while it waited; close_all could not kill, *)
(* or came in the middle of a launch.                                      *)
NoOrphans ==
    ~excused => \A p \in ours : Alive(p) =>
        /\ ~closed
        /\ p = reg \/ \E c \in Calls : call[c].pc = "register" /\ call[c].pid = p

(* What makes the three inductive.  One guest at most answers, and the     *)
(* cache is that of a booted one; what was launched or registered exists.  *)
GuestInv ==
    /\ \A p, q \in Listening : p = q
    /\ McpdUp = {} => unflushed = {}
    /\ \A p \in ours : proc[p] # "none"
    /\ reg # 0 => proc[reg] # "none"

(* A stop that has settled has nothing of what it must keep in the cache.  *)
FlushInv ==
    \A c \in Calls :
        /\ call[c].pc \in {"settle", "sync"} => call[c].lost = {}
        /\ call[c].pc \in {"decide", "quit", "quitUnowned", "poll"}
             /\ call[c].settled \notin Unflushed => call[c].before \cap unflushed = {}

(* A guest that answered once comes up again only by a reset over QMP, and *)
(* not at all when a start has found the ports silent.                     *)
ResetInv ==
    \A c \in Calls : \A p \in call[c].old :
        /\ proc[p] \in {"up", "booted", "closing", "dead"}
        /\ proc[p] = "up" => hasQmp
        /\ call[c].pc \in {"popen", "register"} => proc[p] \in {"closing", "dead"}

(* Launches are alone, and nobody else's handle is at risk.                *)
HandleInv ==
    /\ \A c \in Calls :
         /\ call[c].pc = "register" => call[c].pid # 0 /\ proc[call[c].pid] # "none"
         /\ Stopping(c) => call[c].pid # 0
    /\ ~excused => \A c \in Calls :
         /\ Stopping(c) => reg \in {0, call[c].pid}
         /\ Launching(c) => reg = 0 \/ ~Alive(reg)
         /\ \A d \in Calls : Launching(c) /\ (Launching(d) \/ Stopping(d)) => c = d

QemuInv ==
    /\ StopKeepsWrites /\ ResetReplaces /\ NoOrphans
    /\ GuestInv /\ FlushInv /\ ResetInv /\ HandleInv

=============================================================================
