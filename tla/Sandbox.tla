------------------------------- MODULE Sandbox -------------------------------
(***************************************************************************)
(* sandbox.* and exec.cmd sandbox=true of the host (tools/sandbox.py,      *)
(* tools/exec.py): the probe gate and its cache, deploy, run_guest and     *)
(* run_driver, run_batch, sandboxed jobs, and what each reads back from    *)
(* the capture files in T: and from the kernel's debug ring.  One target.  *)
(*                                                                         *)
(* Every await is a gap in which other calls, started guests and the       *)
(* kernel go on.  SandboxVM itself is external: a process runs its guests  *)
(* one after the other, makes the capture file of a guest that writes (the *)
(* .out and .err pair is one file here) and reports to the debug ring,     *)
(* which the kernel fills a little later and which does not wrap.  A       *)
(* capture file that is open can neither be read, deleted nor opened       *)
(* again.                                                                  *)
(***************************************************************************)
EXTENDS Integers, Sequences, SequencesExt, FiniteSets

CONSTANTS
    Calls,      \* tool calls about the target
    NoCall,
    Paths,      \* paths of the target sandboxvm may be at
    NoPath,
    DEFAULT_AOS_SEARCH,    \* sequence of paths
    DeployPath,            \* what _resolve_dest_path gives
    SANDBOXVM_MAX_GUESTS,
    Overrides,             \* capture names a BatchGuestSpec may give
    GuestRC,               \* what a guest may return
    RetryCount,            \* retry_count of last_trap
    MaxLines,              \* max_lines of sys.debug_ring
    RingSize               \* lines the kernel's buffer holds

Idx == 1..SANDBOXVM_MAX_GUESTS
SharedNames == ({"batch"} \X Idx) \cup {<<"guest", 1>>}

ASSUME SandboxAssumption ==
    /\ NoCall \notin Calls
    /\ NoPath \notin Paths
    /\ DeployPath \in Paths
    /\ DEFAULT_AOS_SEARCH \in Seq(Paths) /\ DEFAULT_AOS_SEARCH # <<>>
    /\ SANDBOXVM_MAX_GUESTS \in Nat /\ MaxLines \in Nat \ {0}
    /\ Overrides \subseteq SharedNames
    /\ GuestRC \subseteq {0, 20, -768, -1024} /\ 0 \in GuestRC
    /\ RingSize \in Nat \ {0} /\ RetryCount \in Nat \ {0}

Runs == Calls \X Idx
NoRun == <<NoCall, 0>>

\* A guest's own result: 0, a failure, or a trap as its negated vector.
TRAP_KIND_BY_EXIT_CODE == [v \in {-768, -1024} |->
                               IF v = -768 THEN "DSI" ELSE "ISI"]
Vectors  == DOMAIN TRAP_KIND_BY_EXIT_CODE
Kinds    == {"DSI", "ISI"}
SANDBOXVM_RC_TRAP    == 50
SANDBOXVM_RC_ABORTED == 51  \* and SANDBOXVM_RC_TIMEOUT
ExitCodes == {0, 20, SANDBOXVM_RC_TRAP, SANDBOXVM_RC_ABORTED} \cup Vectors

VARIABLES
    kind,    \* call -> the tool it is a call of
    pc,      \* call -> where it waits
    path,    \* call -> sandboxvm's path, once the probe has found it
    left,    \* call -> candidates its probe is still to look at
    size,    \* call -> guests of its command line
    cache,   \* _PROBE_CACHE: the path of a result still valid, or NoPath
    lock,    \* holder of _TARGET_LOCKS[target]
    machine, \* whether the target's machine can host SandboxVM
    bins,    \* path -> what is there
    proc,    \* call -> its sandboxvm process on the target
    truth,   \* call -> results of its guests, as they end
    capt,    \* capture file -> the run that wrote it
    wrote,   \* history: call -> its guests that made their capture file
    pending, \* report lines on their way to the ring
    ring,    \* the kernel's debug ring
    tries,   \* call -> attempts of last_trap
    exits,   \* call -> exit codes run_batch parsed from the ring
    usable,  \* call -> whether the ring reported on this daemon
    res      \* call -> what it returned

vars == <<kind, pc, path, left, size, cache, lock, machine, bins, proc, truth, capt,
          wrote, pending, ring, tries, exits, usable, res>>

target == <<kind, machine, bins, proc, truth, capt, wrote, pending, ring>>
host   == <<left, size, tries, exits, usable>>

Tools == {"run_guest", "run_batch", "exec_cmd", "deploy", "probe"}

Guests  == {c \in Calls : kind[c] = "run_guest"}  \* and run_driver
Batches == {c \in Calls : kind[c] = "run_batch"}
Jobs    == {c \in Calls : kind[c] = "exec_cmd"}   \* with sandbox=true
Deploys == {c \in Calls : kind[c] = "deploy"}
Probes  == {c \in Calls : kind[c] = "probe"}      \* and exec_kill force=true
Runners == Guests \cup Batches \cup Jobs

----------------------------------------------------------------------------
(* Names of runs, as sandboxvm is told them.  A job's name has a random    *)
(* suffix, the others are named after their guest or their batch, so two   *)
(* calls can have the same.                                                *)
JobName(c) == <<"job", c>>
NameOf(c, i) == IF c \in Jobs THEN JobName(c)
                ELSE IF c \in Batches THEN <<"batch", i>> ELSE <<"guest", 1>>

Names == ({"job"} \X Calls) \cup SharedNames

(* The names under which the host may look for the capture of guest i: a   *)
(* BatchGuestSpec can override the name, but sandboxvm only gets the       *)
(* batch's.                                                                *)
ReadNames(c, i) == {NameOf(c, i)} \cup (IF c \in Batches THEN Overrides ELSE {})

Line == [by: {"kernel", "MCPd", "exit", "trap"}, run: Runs \cup {NoRun},
         rc: GuestRC]
Boot(by) == [by |-> by, run |-> NoRun, rc |-> 0]

Entry  == [name: Names, rc: ExitCodes, known: BOOLEAN, kind: Kinds \cup {"none"},
           out: Runs \cup {NoRun}]
NoRes  == [st |-> "none", agg |-> 0, entries |-> <<>>]

Running(c) == proc[c] = "running"
Over(c)    == proc[c] \in {"exited", "aborted"}
\* The guest of c's process that runs now.
Current(c) == Len(truth[c]) + 1
Writing(r) == r # NoRun /\ Running(r[1]) /\ Current(r[1]) = r[2]

AnyPC == {"idle", "stat", "banner", "version", "makedir", "upload", "lock",
          "exec", "wait", "read", "delete", "slurp", "drop", "codes",
          "trap", "done"}

TypeOK ==
    /\ kind \in [Calls -> Tools]
    /\ pc \in [Calls -> AnyPC]
    /\ path \in [Calls -> Paths \cup {NoPath}]
    /\ \A c \in Calls : left[c] \in Seq(Paths)
    /\ size \in [Calls -> 0..SANDBOXVM_MAX_GUESTS]
    /\ cache \in Paths \cup {NoPath}
    /\ lock \in Calls \cup {NoCall}
    /\ machine \in {"extmem", "pegasos2"}
    /\ bins \in [Paths -> {"none", "part", "old", "new"}]
    /\ proc \in [Calls -> {"none", "running", "exited", "aborted"}]
    /\ \A c \in Calls : truth[c] \in Seq(GuestRC) /\ Len(truth[c]) <= size[c]
    /\ capt \in [Names -> Runs \cup {NoRun}]
    /\ wrote \in [Calls -> SUBSET Idx]
    /\ pending \in Seq(Line)
    /\ ring \in Seq(Line) /\ Len(ring) <= RingSize
    /\ tries \in [Calls -> 0..RetryCount]
    /\ \A c \in Calls : exits[c] \in Seq(GuestRC)
    /\ usable \in [Calls -> BOOLEAN]
    /\ \A c \in Calls : /\ res[c].st \in {"none", "ok", "running", "raised"}
                        /\ res[c].agg \in ExitCodes
                        /\ res[c].entries \in Seq(Entry)

Init ==
    /\ kind \in [Calls -> Tools]
    /\ pc = [c \in Calls |-> "idle"]
    /\ path = [c \in Calls |-> NoPath]
    /\ left = [c \in Calls |-> <<>>]
    /\ size = [c \in Calls |-> 0]
    /\ cache = NoPath
    /\ lock = NoCall
    /\ machine \in {"extmem", "pegasos2"}
    /\ bins \in [Paths -> {"none", "old"}] /\ bins[DeployPath] = "none"
    /\ proc = [c \in Calls |-> "none"]
    /\ truth = [c \in Calls |-> <<>>]
    /\ capt = [n \in Names |-> NoRun]
    /\ wrote = [c \in Calls |-> {}]
    /\ pending = <<>>
    /\ ring \in {<<Boot("MCPd")>>, [i \in 1..RingSize |-> Boot("kernel")]}
    /\ tries = [c \in Calls |-> 0]
    /\ exits = [c \in Calls |-> <<>>]
    /\ usable = [c \in Calls |-> TRUE]
    /\ res = [c \in Calls |-> NoRes]

----------------------------------------------------------------------------
(* Ends of a call.  Leaving `async with lock` releases it.                 *)
Go(c, where) == pc' = [pc EXCEPT ![c] = where]

Return(c, r) ==
    /\ Go(c, "done")
    /\ res' = [res EXCEPT ![c] = r]

Raise(c) ==
    /\ Return(c, [NoRes EXCEPT !.st = "raised"])
    /\ lock' = IF lock = c THEN NoCall ELSE lock
    /\ UNCHANGED <<path, cache, target, host>>

----------------------------------------------------------------------------
(* The probe gate.                                                         *)

\* _ensure_available hands a path on: the runs go for the lock, jobs start.
Available(c, p) ==
    /\ path' = [path EXCEPT ![c] = p]
    /\ Go(c, IF c \in Jobs THEN "exec" ELSE "lock")

(* sandbox_probe, up to its first await.                                   *)
ProbeStart(c) ==
    IF machine = "pegasos2"
      THEN /\ Return(c, [NoRes EXCEPT !.st =
                             IF c \in Probes THEN "ok" ELSE "raised"])
           /\ UNCHANGED left
      ELSE /\ left' = [left EXCEPT ![c] = DEFAULT_AOS_SEARCH]
           /\ Go(c, "stat")
           /\ UNCHANGED res

\* How many guests run_batch accepts.
GuestCount(n) == n \in 1..SANDBOXVM_MAX_GUESTS

(* The call begins.  run_batch refuses an empty or an oversized batch; the *)
(* runners then pass the cached gate of _ensure_available.                 *)
Begin(c) ==
    /\ pc[c] = "idle"
    /\ \E n \in 0..SANDBOXVM_MAX_GUESTS + 1 :
         /\ n = 1 \/ c \in Batches \* guests: the others run one
         /\ \/ /\ ~GuestCount(n)
               /\ Return(c, [NoRes EXCEPT !.st = "raised"])
               /\ UNCHANGED <<path, left, size>>
            \/ /\ GuestCount(n)
               /\ size' = [size EXCEPT ![c] = n]
               /\ \/ /\ c \in Runners /\ cache # NoPath
                     /\ Available(c, cache)
                     /\ UNCHANGED <<left, res>>
                  \/ /\ c \in Probes \/ (c \in Runners /\ cache = NoPath)
                     /\ ProbeStart(c)
                     /\ UNCHANGED path
                  \/ /\ c \in Deploys
                     /\ Go(c, "makedir")
                     /\ UNCHANGED <<path, left, res>>
    /\ UNCHANGED <<cache, lock, target, tries, exits, usable>>

(* The probe has an answer.  _ensure_available raises without a usable     *)
(* binary; probe and deploy return what they found.  Only a positive       *)
(* result is worth caching, and deploy caches its path-pinned one.         *)
ProbeFails(c) ==
    /\ Return(c, [NoRes EXCEPT !.st = IF c \in Runners THEN "raised" ELSE "ok"])
    /\ left' = [left EXCEPT ![c] = <<>>]
    /\ UNCHANGED <<path, cache>>

ProbeSucceeds(c) ==
    /\ cache' = path[c]
    /\ IF c \in Runners
         THEN Available(c, path[c]) /\ UNCHANGED res
         ELSE Return(c, [NoRes EXCEPT !.st = "ok"]) /\ UNCHANGED path
    /\ UNCHANGED left

(* fs.stat of the next candidate.  One that is not there makes the search  *)
(* go on; the end of the list (SANDBOXVM_MISSING) and a transport failure  *)
(* (SANDBOXVM_TARGET_UNREACHABLE) end it.                                  *)
ProbeStat(c) ==
    /\ pc[c] = "stat"
    /\ \/ /\ bins[Head(left[c])] # "none"
          /\ path' = [path EXCEPT ![c] = Head(left[c])]
          /\ left' = [left EXCEPT ![c] = <<>>]
          /\ Go(c, "banner")
          /\ UNCHANGED <<res, cache>>
       \/ /\ bins[Head(left[c])] = "none"
          /\ Len(left[c]) > 1
          /\ left' = [left EXCEPT ![c] = Tail(@)]
          /\ UNCHANGED <<pc, path, res, cache>>
       \/ ProbeFails(c)
    /\ UNCHANGED <<lock, target, size, tries, exits, usable>>

(* exec.cmd of the bare binary.  A shell may report a half-written binary  *)
(* with a return code, which counts as "it ran", or the request may raise  *)
(* (SANDBOXVM_BROKEN).  The path-pinned probe of deploy ends here.         *)
ProbeBanner(c) ==
    /\ pc[c] = "banner"
    /\ \/ /\ c \in Deploys
          /\ ProbeSucceeds(c)
       \/ /\ c \notin Deploys
          /\ Go(c, "version")
          /\ UNCHANGED <<path, left, res, cache>>
       \/ ProbeFails(c)
    /\ UNCHANGED <<lock, target, size, tries, exits, usable>>

(* The version is best effort: whatever it is, the binary is available.    *)
ProbeVersion(c) ==
    /\ pc[c] = "version"
    /\ ProbeSucceeds(c)
    /\ UNCHANGED <<lock, target, size, tries, exits, usable>>

(* PROBE_CACHE_TTL_S is over.  Only a call still to come would notice.     *)
CacheExpires ==
    /\ cache # NoPath
    /\ \E c \in Calls : pc[c] = "idle"
    /\ cache' = NoPath
    /\ UNCHANGED <<pc, path, lock, target, host, res>>

----------------------------------------------------------------------------
(* sandbox_deploy.                                                         *)

(* Without confirm=true, or without a binary to upload, deploy refuses.    *)
DeployRefused(c) == pc[c] = "idle" /\ c \in Deploys /\ Raise(c)

(* MakeDir of the parent, whatever comes of it, then the upload opens the  *)
(* destination and truncates it.                                           *)
DeployMakeDir(c) ==
    /\ pc[c] = "makedir"
    /\ bins' = [bins EXCEPT ![DeployPath] = "part"]
    /\ Go(c, "upload")
    /\ UNCHANGED <<path, cache, lock, host, res, kind, machine, proc,
                   truth, capt, wrote, pending, ring>>

(* _probe_specific_path, up to its first await: the machine first, then    *)
(* the deployed path alone, so that no older binary shadows it.            *)
PinnedProbe(c) ==
    \/ /\ machine = "pegasos2"
       /\ Return(c, [NoRes EXCEPT !.st = "ok"])
       /\ UNCHANGED left
    \/ /\ machine # "pegasos2"
       /\ left' = [left EXCEPT ![c] = <<DeployPath>>]
       /\ Go(c, "stat")
       /\ UNCHANGED res

(* The upload is over: invalidate the cache and probe that very path.      *)
DeployUploaded(c) ==
    /\ pc[c] = "upload"
    /\ bins' = [bins EXCEPT ![DeployPath] = "new"]
    /\ cache' = NoPath
    /\ PinnedProbe(c)
    /\ UNCHANGED <<path, lock, size, tries, exits, usable, kind, machine, proc,
                   truth, capt, wrote, pending, ring>>

(* The upload raised: the cache is left as it was.                         *)
DeployFails(c) == pc[c] = "upload" /\ Raise(c)

----------------------------------------------------------------------------
(* SandboxVM on the target (external).                                     *)

(* A guest makes its capture file anew when it first writes, if it ever    *)
(* does and no other run has the file open.                                *)
GuestWrites(c) ==
    LET r == <<c, Current(c)>>
        n == NameOf(c, Current(c))
    IN  /\ Running(c) /\ Current(c) \notin wrote[c]
        /\ ~Writing(capt[n])
        /\ capt' = [capt EXCEPT ![n] = r]
        /\ wrote' = [wrote EXCEPT ![c] = @ \cup {Current(c)}]
        /\ UNCHANGED <<pc, path, cache, lock, host, res, kind, machine, bins, proc,
                       truth, pending, ring>>

(* What the process leaves with: the code of an abort or a time limit, the *)
(* last result that is not 0, or the shell's 20 for a half-written binary. *)
Nonzero(t) == {i \in DOMAIN t : t[i] # 0}
LastNonzero(t) == t[CHOOSE i \in Nonzero(t) : \A j \in Nonzero(t) : j <= i]

ExitCode(c) ==
    IF proc[c] = "aborted" THEN SANDBOXVM_RC_ABORTED
    ELSE IF truth[c] = <<>> THEN 20
    ELSE IF Nonzero(truth[c]) = {} THEN 0
    ELSE IF LastNonzero(truth[c]) \in Vectors THEN SANDBOXVM_RC_TRAP
    ELSE LastNonzero(truth[c])

(* The lines on their way for which the ring still has room.               *)
Fitting(lines) ==
    LET room == RingSize - Len(ring)
    IN  IF Len(lines) > room THEN SubSeq(lines, 1, room) ELSE lines

(* A guest ends.  A trap is reported before its exit; the next guest       *)
(* starts, or the process is done.                                         *)
GuestEnds(c) ==
    /\ Running(c)
    /\ \E rc \in GuestRC :
         LET r  == <<c, Current(c)>>
             ex == [by |-> "exit", run |-> r, rc |-> rc]
         IN  /\ truth' = [truth EXCEPT ![c] = Append(@, rc)]
             /\ pending' = Fitting(pending \o
                  (IF rc \in Vectors THEN <<[ex EXCEPT !.by = "trap"]>>
                                     ELSE <<>>) \o <<ex>>)
    /\ IF Current(c) = size[c]
         THEN proc' = [proc EXCEPT ![c] = "exited"] ELSE UNCHANGED proc
    /\ UNCHANGED <<pc, path, cache, lock, host, res, kind, machine, bins, capt, wrote,
                   ring>>

(* A break signal (exec.kill) or the job's time limit: the guest that runs *)
(* is aborted and the later ones are not run.                              *)
GuestAborted(c) ==
    /\ Running(c)
    /\ proc' = [proc EXCEPT ![c] = "aborted"]
    /\ UNCHANGED <<pc, path, cache, lock, host, res, kind, machine, bins, truth, capt,
                   wrote, pending, ring>>

(* The kernel takes a line into its buffer, which never wraps: what does   *)
(* not fit is lost.                                                        *)
RingWrite ==
    /\ pending # <<>>
    /\ pending' = Tail(pending)
    /\ ring' = Append(ring, Head(pending))
    /\ UNCHANGED <<pc, path, cache, lock, host, res, kind, machine, bins, proc, truth,
                   capt, wrote>>

----------------------------------------------------------------------------
(* Running a command under SandboxVM.                                      *)

\* The mutant: calls on a target are not serialised.
TakeLockAtOnce(c) ==
    /\ pc[c] = "lock"
    /\ lock' = c
    /\ Go(c, "exec")
    /\ UNCHANGED <<path, cache, target, host, res>>

TakeLock(c) ==
    /\ pc[c] = "lock"
    /\ lock = NoCall
    /\ lock' = c
    /\ Go(c, "exec")
    /\ UNCHANGED <<path, cache, target, host, res>>

(* The exec.cmd request goes out and the daemon starts the process; a      *)
(* half-written binary runs no guest.                                      *)
ExecStarts(c) ==
    /\ pc[c] = "exec"
    /\ Go(c, "wait")
    /\ proc' = [proc EXCEPT ![c] = IF bins[path[c]] \in {"old", "new"}
                                      THEN "running" ELSE "exited"]
    /\ UNCHANGED <<path, cache, lock, host, res, kind, machine, bins, truth, capt,
                   wrote, pending, ring>>

(* exec.cmd raises: not reachable, the deadline with the process still     *)
(* running, or the reply lost.  run_guest then reads and deletes the       *)
(* captures before it lets the exception go on; the others do not.         *)
ExecRaises(c) ==
    /\ pc[c] \in {"exec", "wait"}
    /\ IF c \in Guests
         THEN /\ Go(c, "slurp")
              /\ UNCHANGED <<path, cache, lock, target, host, res>>
         ELSE Raise(c)

(* exec.cmd answers with the exit code.                                    *)
ExecExited(c) ==
    /\ pc[c] = "wait"
    /\ Over(c)
    /\ Go(c, IF c \in Batches THEN "codes" ELSE "read")
    /\ UNCHANGED <<path, cache, lock, target, host, res>>

(* return_running: the job runs on and nothing of it is read.              *)
ExecStillRunning(c) ==
    /\ pc[c] = "wait" /\ c \in Jobs
    /\ Running(c)
    /\ Return(c, [NoRes EXCEPT !.st = "running"])
    /\ UNCHANGED <<path, cache, lock, target, host>>

----------------------------------------------------------------------------
(* What is read back.                                                      *)

(* _classify_exit: the trap a process' or a guest's exit code names.       *)
ClassifyExit(rc) ==
    IF rc \in Vectors THEN TRAP_KIND_BY_EXIT_CODE[rc] ELSE "none"

(* sys.debug_ring.                                                         *)
DebugRing == IF Len(ring) > MaxLines
               THEN SubSeq(ring, Len(ring) - MaxLines + 1, Len(ring)) ELSE ring

RingReportsDaemon(lines) ==
    \E i \in DOMAIN lines : lines[i].by # "kernel"

(* _parse_per_guest_exits: the last n exit lines, whoever they are about.  *)
ExitLines(lines) == {p \in DOMAIN lines : lines[p].by = "exit"}
ExitsFrom(lines, p) == Cardinality({q \in ExitLines(lines) : q >= p})
PerGuestExits(lines, n) ==
    LET all == Cardinality(ExitLines(lines))
        m   == IF all > n THEN n ELSE all
    IN  [i \in 1..m |->
            lines[CHOOSE p \in ExitLines(lines) : ExitsFrom(lines, p) = m + 1 - i].rc]

(* run_batch reads the ring once the process has ended.                    *)
BatchCodes(c) ==
    /\ pc[c] = "codes"
    /\ \/ /\ exits' = [exits EXCEPT ![c] = PerGuestExits(DebugRing, size[c])]
          /\ usable' = [usable EXCEPT ![c] = RingReportsDaemon(DebugRing)]
          /\ Go(c, "read")
          /\ UNCHANGED <<path, cache, lock, target, left, size, tries, res>>
       \/ Raise(c)

(* The result of guest i of call c, given the capture that was read under  *)
(* name n.                                                                 *)
EntryOf(c, i, n, out) ==
    IF c \in Batches
      THEN LET off   == size[c] - Len(exits[c])
               known == usable[c] /\ i > off
               rc    == IF known THEN exits[c][i - off] ELSE 0
           IN  [name |-> n, rc |-> rc, known |-> known,
                kind |-> ClassifyExit(rc), out |-> out]
      ELSE [name |-> n, rc |-> ExitCode(c), known |-> TRUE,
            kind |-> ClassifyExit(ExitCode(c)), out |-> out]

(* _read_capture: a file that is not there or cannot be opened counts as   *)
(* "the guest wrote nothing"; other failures raise.                        *)
ReadCapture(c) ==
    /\ pc[c] = "read"
    /\ LET i == Len(res[c].entries) + 1
       IN  \/ \E n \in ReadNames(c, i) :
                \E out \in {NoRun} \cup (IF Writing(capt[n]) THEN {} ELSE {capt[n]}) :
                   /\ res' = [res EXCEPT ![c].entries =
                                  Append(@, EntryOf(c, i, n, out))]
                   /\ Go(c, "delete")
                   /\ UNCHANGED <<path, cache, lock, target, host>>
           \/ Raise(c)

(* _delete_capture, whose failures are swallowed, and then the next guest  *)
(* of a batch, or the end of the critical section.                         *)
Deleted(n) == IF Writing(capt[n]) THEN capt ELSE [capt EXCEPT ![n] = NoRun]

Released(c) == IF lock = c THEN NoCall ELSE lock

NeedsRing(c) == c \notin Batches /\ ExitCode(c) = SANDBOXVM_RC_TRAP

DeleteCapture(c) ==
    /\ pc[c] = "delete"
    /\ LET i == Len(res[c].entries)
       IN  /\ capt' \in {capt, Deleted(res[c].entries[i].name)}
           /\ IF i < size[c]
                THEN Go(c, "read") /\ UNCHANGED <<lock, res>>
                ELSE /\ lock' = Released(c)
                     /\ IF NeedsRing(c)
                          THEN Go(c, "trap") /\ UNCHANGED res
                          ELSE Return(c, [res[c] EXCEPT !.st = "ok",
                                                        !.agg = ExitCode(c)])
    /\ UNCHANGED <<path, cache, host, kind, machine, bins, proc, truth, wrote, pending,
                   ring>>

(* The exception path of run_guest: read (and drop), delete, re-raise.     *)
Slurp(c) ==
    /\ pc[c] = "slurp"
    /\ \/ Go(c, "drop") /\ UNCHANGED <<path, cache, lock, target, host, res>>
       \/ Raise(c)

SlurpDelete(c) ==
    /\ pc[c] = "drop"
    /\ capt' \in {capt, Deleted(NameOf(c, 1))}
    /\ Return(c, [NoRes EXCEPT !.st = "raised"])
    /\ lock' = NoCall
    /\ UNCHANGED <<path, cache, host, kind, machine, bins, proc, truth, wrote, pending,
                   ring>>

----------------------------------------------------------------------------
(* sandbox_last_trap.                                                      *)

Member(l) == l.by \in {"exit", "trap"}

(* _extract_trap: the block of adjacent SandboxVM lines around the last    *)
(* trap line, and the kind of the first trap in it.                        *)
TrapBlock(lines) ==
    LET anchors == {i \in DOMAIN lines : lines[i].by = "trap"}
        a == CHOOSE i \in anchors : \A j \in anchors : j <= i
    IN  IF anchors = {} THEN {}
        ELSE {i \in DOMAIN lines :
                \A j \in DOMAIN lines :
                   (i <= j /\ j <= a) \/ (a <= j /\ j <= i) => Member(lines[j])}

BlockKind(lines, block) ==
    LET traps == {i \in block : lines[i].by = "trap"}
        f == CHOOSE i \in traps : \A j \in traps : i <= j
    IN  ClassifyExit(lines[f].rc)

(* A report names its run; an exit line shows the guest's path, in which   *)
(* a run_guest's derived name occurs but never a job's suffixed one.       *)
Mentions(l, c) ==
    /\ NameOf(l.run[1], l.run[2]) = NameOf(c, 1)
    /\ l.by = "trap" \/ c \notin Jobs

(* One attempt; the next one follows after a pause.  The report is taken   *)
(* when the block names this run somewhere.                                *)
LastTrap(c) ==
    LET lines == DebugRing
        block == TrapBlock(lines)
        mine  == \E i \in block : Mentions(lines[i], c)
    IN  /\ pc[c] = "trap"
        /\ \/ /\ block = {}
              /\ tries[c] + 1 < RetryCount
              /\ tries' = [tries EXCEPT ![c] = @ + 1]
              /\ UNCHANGED <<pc, path, cache, lock, target, left, size, exits,
                             usable, res>>
           \/ /\ block # {} \/ tries[c] + 1 = RetryCount
              /\ Return(c, [res[c] EXCEPT !.st = "ok",
                     !.agg = ExitCode(c),
                     !.entries[1].kind = IF mine THEN BlockKind(lines, block)
                                                 ELSE @])
              /\ usable' = [usable EXCEPT ![c] =
                                block # {} \/ RingReportsDaemon(lines)]
              /\ UNCHANGED <<path, cache, lock, target, left, size, tries, exits>>
           \/ Raise(c)

(* all_clean of a batch; the mutant trusts the per-guest codes alone.      *)
EntriesClean(c) ==
    \A i \in DOMAIN res[c].entries : res[c].entries[i].rc = 0
AllClean(c) == /\ res[c].agg = 0
               /\ \A i \in DOMAIN res[c].entries : res[c].entries[i].rc = 0

----------------------------------------------------------------------------
CallStep(c) ==
    \/ Begin(c) \/ ProbeStat(c) \/ ProbeBanner(c) \/ ProbeVersion(c)
    \/ DeployRefused(c) \/ DeployMakeDir(c) \/ DeployUploaded(c)
    \/ DeployFails(c) \/ TakeLock(c) \/ ExecStarts(c) \/ ExecRaises(c) \/ ExecExited(c)
    \/ ExecStillRunning(c) \/ BatchCodes(c) \/ ReadCapture(c)
    \/ DeleteCapture(c) \/ Slurp(c) \/ SlurpDelete(c) \/ LastTrap(c)

Next ==
    \/ \E c \in Calls : CallStep(c)
    \/ \E c \in Runners : GuestWrites(c) \/ GuestEnds(c) \/ GuestAborted(c)
    \/ RingWrite
    \/ CacheExpires

Spec == Init /\ [][Next]_vars

----------------------------------------------------------------------------
(* Properties.                                                             *)

Ended(c) == res[c].st = "ok"

(* A result shows a guest's own output.  Calls that share capture names    *)
(* are serialised, so what is left of another run is never that of a call  *)
(* still at it, and a job, whose name is its own, never shows any.  The    *)
(* others may for three reasons: a run outlived its call (which raised at  *)
(* its deadline and released the lock) and wrote to the file its successor *)
(* reads; the batch looked for the capture under a name sandboxvm was not  *)
(* told; or the guest made no file, being silent or not run at all, and    *)
(* what an earlier call did not delete is taken for its output.            *)
OutputIsOwn ==
    /\ TypeOK
    /\ \A c \in Calls : Ended(c) =>
          \A i \in DOMAIN res[c].entries :
              LET r == res[c].entries[i].out
              IN  r \notin {NoRun, <<c, i>>} =>
                      /\ c \notin Jobs
                      /\ r[1] = c \/ pc[r[1]] \in {"trap", "done"}
                      /\ \/ res[r[1]].st = "raised"
                         \/ res[c].entries[i].name # NameOf(c, i)
                         \/ i \notin wrote[c]

(* all_clean means that every guest of the batch returned 0, whatever the  *)
(* ring has lost.                                                          *)
AllCleanIsTrue ==
    \A c \in Batches : Ended(c) /\ AllClean(c) =>
        \A i \in 1..size[c] : truth[c][i] = 0

----------------------------------------------------------------------------
(* What makes the two inductive.  The shape of the state ...               *)
Result == [st: {"none", "ok", "running", "raised"}, agg: ExitCodes, entries: Seq(Entry)]
ShapeInv ==
    /\ left \in [Calls -> Seq(Paths)]
    /\ truth \in [Calls -> Seq(GuestRC)]
    /\ exits \in [Calls -> Seq(GuestRC)]
    /\ res \in [Calls -> Result]
    /\ Len(pending) + Len(ring) <= RingSize

(* ... where a call can be: nothing of it runs before "exec", its process  *)
(* has ended when its results are read, and whoever is in the critical     *)
(* section holds the lock ...                                              *)
Early   == {"idle", "stat", "banner", "version", "makedir", "upload", "lock", "exec"}
Reading == {"codes", "read", "delete", "trap"}
Section == {"exec", "wait", "slurp", "drop", "codes", "read", "delete"}

PlaceInv(c) ==
    /\ pc[c] = "stat" => left[c] # <<>>
    /\ pc[c] \in {"makedir", "upload"} => c \in Deploys
    /\ pc[c] \in Section \cup {"lock", "trap"} => c \in Runners
    /\ pc[c] = "lock" => c \notin Jobs
    /\ pc[c] \in {"slurp", "drop"} => c \in Guests
    /\ pc[c] = "codes" => c \in Batches
    /\ pc[c] = "trap" => c \notin Batches
    /\ lock = c <=> c \notin Jobs /\ pc[c] \in Section
ProcInv(c) ==
    /\ pc[c] \in Early => proc[c] = "none"
    /\ pc[c] = "wait" => proc[c] # "none"
    /\ pc[c] \in Reading => Over(c)
    /\ pc[c] \notin {"idle", "done"} \/ proc[c] # "none"
         => size[c] \in Idx /\ (c \notin Batches => size[c] = 1)
    /\ proc[c] # "none" => c \in Runners
    /\ proc[c] = "none" => truth[c] = <<>>
    /\ proc[c] = "running" => Len(truth[c]) < size[c]
    /\ proc[c] = "exited" => truth[c] = <<>> \/ Len(truth[c]) = size[c]
    /\ proc[c] = "none" => wrote[c] = {}
    /\ \A i \in wrote[c] : i \in 1..size[c]
ResInv(c) ==
    /\ Len(exits[c]) <= size[c] /\ Len(res[c].entries) <= size[c]
    /\ pc[c] \in Early => exits[c] = <<>>
    /\ pc[c] \notin {"read", "delete", "trap", "done"} => res[c].entries = <<>>
    /\ pc[c] = "read" => Len(res[c].entries) < size[c]
    /\ pc[c] \in {"delete", "trap"} => res[c].entries # <<>>
    /\ res[c].st = "none" <=> pc[c] # "done"
    /\ res[c].st = "running" => c \in Jobs
    /\ res[c].st = "ok" /\ c \in Runners => Over(c) /\ res[c].agg = ExitCode(c)
    /\ res[c].entries # <<>> => Over(c)

(* ... whose the capture files are, and what a call finds in those its     *)
(* guests have made.                                                       *)
FileInv(n) ==
    LET r == capt[n] IN
    r # NoRun => /\ proc[r[1]] # "none" /\ r[2] \in 1..size[r[1]]
                 /\ NameOf(r[1], r[2]) = n
Left(r, c) == r[1] = c \/ pc[r[1]] \in {"trap", "done"}
Kept(c, i, r) ==
    r \notin {NoRun, <<c, i>>} => c \notin Jobs /\ res[r[1]].st = "raised"
Mine(c, i, n, r) ==
    r \notin {NoRun, <<c, i>>} =>
        c \notin Jobs /\ Left(r, c)
        /\ (res[r[1]].st = "raised" \/ n # NameOf(c, i) \/ i \notin wrote[c])
OwnInv(c) ==
    /\ pc[c] \in {"wait", "codes", "read", "delete"} =>
          \A i \in wrote[c] : Kept(c, i, capt[NameOf(c, i)])
    /\ \A i \in DOMAIN res[c].entries :
          Mine(c, i, res[c].entries[i].name, res[c].entries[i].out)

SandboxInv ==
    /\ TypeOK /\ ShapeInv
    /\ \A c \in Calls : PlaceInv(c) /\ ProcInv(c) /\ ResInv(c) /\ OwnInv(c)
    /\ \A n \in Names : FileInv(n)

==============================================================================
