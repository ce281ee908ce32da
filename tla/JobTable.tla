------------------------------ MODULE JobTable ------------------------------
(***************************************************************************)
(* The job table of the MCPd daemon (mcpd/src/jobs.c) and the exec.*       *)
(* handlers that use it (mcpd/src/methods/exec.c).                         *)
(*                                                                         *)
(* Every connection worker is a Process of its own and runs one handler at *)
(* a time.  The table is shared and guarded by one semaphore, so what runs *)
(* between ObtainSemaphore and ReleaseSemaphore is one action here and     *)
(* every gap between two critical sections is a control point of the       *)
(* worker.  A started command is an asynchronous shell: it enters, runs,   *)
(* and on its end DOS fills in the DeathMessage embedded in the job's slot *)
(* and replies it to the port.  Nobody waits on that port: the next call   *)
(* of a jobs_* function collects what is on it (_drain_locked).            *)
(*                                                                         *)
(* Times, priorities, memory figures and command texts are left out.  A    *)
(* job's output is reduced to whether its file exists.                     *)
(***************************************************************************)
EXTENDS Integers, FiniteSets

CONSTANTS
    JOB_SLOTS,    \* records kept, running and finished together
    Workers,      \* connection workers
    MaxJobs,      \* bound: jobs started in one run of the daemon
    MaxBreaks,    \* bound: 1 when main() may be broken with CTRL-C, else 0
    MaxPolls,     \* bound: polls until exec.cmd / exec.kill stop waiting
    ReturnCodes,  \* exit codes a command may end with
    SandboxedJobs \* jobs a client starts with sandboxed=true

ASSUME JobTableAssumption ==
    /\ JOB_SLOTS \in Nat \ {0}
    /\ MaxJobs \in Nat
    /\ MaxBreaks \in {0, 1}
    /\ MaxPolls \in Nat
    /\ ReturnCodes \subseteq Nat
    /\ SandboxedJobs \subseteq Nat

Slots  == 1..JOB_SLOTS
JobIds == 1..MaxJobs
NoRC   == -1                       \* dm_ReturnCode before the command ended
RCs    == ReturnCodes \cup {NoRC}
NoSlot == 0
NoJob  == 0

VARIABLES
    g_jobs,      \* the table: slot -> record
    g_next_id,   \* id of the next job
    g_port,      \* slots whose DeathMessage is on the port
    proc,        \* job id -> life of the process started for it
    procSlot,    \* job id -> slot whose DeathMessage that process was given
    exitCode,    \* job id -> the code its command really ended with
    files,       \* ids whose output file T:mcpd_job_<id>.out exists
    refused,     \* ids whose file could not be deleted: a reader had it open
    pc,          \* worker -> control point
    arg,         \* worker -> job id the running handler is about
    ptr,         \* worker -> the slot pointer `j` of jobs_start
    ji,          \* worker -> the last struct job_info it copied out
    opt,         \* worker -> return_running of exec.cmd, `sent` of exec.kill
    waited,      \* worker -> polls done
    reply,       \* worker -> the last result or error it returned
    sd,          \* control point of main(): serving, or inside jobs_shutdown
    sdSlot,      \* the loop index of jobs_shutdown, signalling and deleting
    counted      \* g_next_id when jobs_shutdown last counted running jobs

tableVars  == <<g_jobs, g_next_id, g_port>>
procVars   == <<proc, procSlot, exitCode>>
fileVars   == <<files, refused>>
workerVars == <<pc, arg, ptr, ji, opt, waited, reply>>
mainVars   == <<sd, sdSlot, counted>>
vars == <<tableVars, procVars, fileVars, workerVars, mainVars>>

JobRecord == [in_use: BOOLEAN, id: JobIds \cup {NoJob},
              state: {"RUNNING", "EXITED"}, pid: BOOLEAN, rc: RCs,
              output_deleted: BOOLEAN]

EmptyRecord == [in_use |-> FALSE, id |-> NoJob, state |-> "RUNNING",
                pid |-> FALSE, rc |-> NoRC, output_deleted |-> FALSE]

JobInfo == [state: {"RUNNING", "EXITED"}, rc: RCs, output_deleted: BOOLEAN]
NoInfo  == [state |-> "RUNNING", rc |-> NoRC, output_deleted |-> FALSE]

(* What a handler sends back.  `out` is what amiga_read_output found: the  *)
(* job's file or no file (an empty string).                                *)
Reply == [kind: {"none", "error", "result"},
          method: {"cmd", "output", "info"},
          id: JobIds \cup {NoJob}, state: {"RUNNING", "EXITED"}, rc: RCs,
          out: {"na", "file", "missing"}]

NoReply == [kind |-> "none", method |-> "info", id |-> NoJob,
            state |-> "RUNNING", rc |-> NoRC, out |-> "na"]

ErrorReply == [NoReply EXCEPT !.kind = "error"]

ResultReply(m, i, info, o) ==
    [kind |-> "result", method |-> m, id |-> i, state |-> info.state,
     rc |-> info.rc, out |-> o]

PCs == {"idle", "open", "spawn", "started", "poll", "cmd_read", "cmd_reading",
        "cmd_drop", "out_read", "out_reading", "signal", "kill_poll"}

TypeOK ==
    /\ g_jobs \in [Slots -> JobRecord]
    /\ g_next_id \in 1..(MaxJobs + 1)
    /\ g_port \subseteq Slots
    /\ proc \in [JobIds -> {"none", "created", "running", "dead"}]
    /\ procSlot \in [JobIds -> Slots \cup {NoSlot}]
    /\ exitCode \in [JobIds -> RCs]
    /\ files \subseteq JobIds
    /\ refused \subseteq JobIds
    /\ pc \in [Workers -> PCs]
    /\ arg \in [Workers -> JobIds \cup {NoJob}]
    /\ ptr \in [Workers -> Slots \cup {NoSlot}]
    /\ ji \in [Workers -> JobInfo]
    /\ opt \in [Workers -> BOOLEAN]
    /\ waited \in [Workers -> 0..MaxPolls]
    /\ reply \in [Workers -> Reply]
    /\ sd \in {"serving", "count", "signal", "wait", "delete", "free", "gone"}
    /\ sdSlot \in 1..(JOB_SLOTS + 1)
    /\ counted \in 0..(MaxJobs + 1)
    /\ \A s \in Slots : g_jobs[s].in_use => g_jobs[s].id \in JobIds
    /\ \A i \in JobIds : proc[i] # "none" => procSlot[i] \in Slots
    /\ \A w \in Workers : /\ pc[w] # "idle" => arg[w] \in JobIds
                          /\ pc[w] \in {"open", "spawn"} => ptr[w] \in Slots

Init ==
    /\ g_jobs = [s \in Slots |-> EmptyRecord]
    /\ g_next_id = 1
    /\ g_port = {}
    /\ proc = [i \in JobIds |-> "none"]
    /\ procSlot = [i \in JobIds |-> NoSlot]
    /\ exitCode = [i \in JobIds |-> NoRC]
    /\ files = {}
    /\ refused = {}
    /\ pc = [w \in Workers |-> "idle"]
    /\ arg = [w \in Workers |-> NoJob]
    /\ ptr = [w \in Workers |-> NoSlot]
    /\ ji = [w \in Workers |-> NoInfo]
    /\ opt = [w \in Workers |-> FALSE]
    /\ waited = [w \in Workers |-> 0]
    /\ reply = [w \in Workers |-> NoReply]
    /\ sd = "serving"
    /\ sdSlot = 1
    /\ counted = 0

-----------------------------------------------------------------------------
(* The helpers of jobs.c, on the table as it is after _drain_locked.       *)

(* _drain_locked: every job whose DeathMessage is on the port has exited.  *)
Drained == [s \in Slots |-> IF s \in g_port
                            THEN [g_jobs[s] EXCEPT !.state = "EXITED"]
                            ELSE g_jobs[s]]

(* Mutant of Find: takes any record in use for the job asked about.        *)
FindAnyTenant(t, id) == {s \in Slots : t[s].in_use}

(* _find_locked, as the set of slots it could return.                      *)
Find(t, id) == {s \in Slots : t[s].in_use /\ t[s].id = id}

FreeSlots(t)   == {s \in Slots : ~t[s].in_use}
(* Mutant of ExitedSlots: a running job's slot may be evicted too.         *)
EvictableSlots(t) == {s \in Slots : t[s].in_use}

ExitedSlots(t) == {s \in Slots : t[s].in_use /\ t[s].state = "EXITED"}

(* _claim_slot_locked: the first free slot, else the finished job with the *)
(* lowest id.                                                              *)
Claimable(t) ==
    IF FreeSlots(t) # {}
    THEN {s \in FreeSlots(t) : \A r \in FreeSlots(t) : s <= r}
    ELSE {s \in ExitedSlots(t) : \A r \in ExitedSlots(t) : t[s].id <= t[r].id}

(* The files whose output a worker has open right now.                     *)
Reading == {arg[w] : w \in {v \in Workers : pc[v] \in {"cmd_reading",
                                                       "out_reading"}}}

(* IDOS->Delete on a set of output files.  AmigaDOS refuses a file that    *)
(* somebody has open; no caller looks at the result.                       *)
DeleteFiles(ids) ==
    /\ files' = files \ (ids \ Reading)
    /\ refused' = refused \cup (ids \cap files \cap Reading)

(* _fill_info.                                                             *)
FillInfo(t, s) == [state |-> t[s].state, rc |-> t[s].rc,
                   output_deleted |-> t[s].output_deleted]

(* What amiga_read_output returns: a file that cannot be opened reads as   *)
(* an empty output, not as an error.                                       *)
ReadOutput(id) == IF id \in files THEN "file" ELSE "missing"

(* A worker that can still run: main() has not returned, so the daemon's   *)
(* code and data are still loaded.                                         *)
Loaded == sd # "gone"

Return(w, r) ==
    /\ pc' = [pc EXCEPT ![w] = "idle"]
    /\ arg' = [arg EXCEPT ![w] = NoJob]
    /\ ptr' = [ptr EXCEPT ![w] = NoSlot]
    /\ ji' = [ji EXCEPT ![w] = NoInfo]
    /\ opt' = [opt EXCEPT ![w] = FALSE]
    /\ waited' = [waited EXCEPT ![w] = 0]
    /\ reply' = [reply EXCEPT ![w] = r]

Drain == g_jobs' = Drained /\ g_port' = {} /\ UNCHANGED g_next_id

-----------------------------------------------------------------------------
(* exec.cmd: jobs_start, in three critical sections, then the wait.        *)

(* The record jobs_start writes into the slot it claimed.                  *)
NewRecord ==
    [in_use |-> TRUE, id |-> g_next_id, state |-> "RUNNING", pid |-> FALSE,
     rc |-> NoRC, output_deleted |-> FALSE]

(* Mutant of TakeSlot: the state of the evicted record is not reset.       *)
TakeSlotKeepState(w, s, ret) ==
    /\ g_jobs' = [Drained EXCEPT ![s] = [NewRecord EXCEPT
                                           !.state = Drained[s].state]]
    /\ g_port' = {}
    /\ g_next_id' = g_next_id + 1
    /\ DeleteFiles(IF Drained[s].in_use /\ ~Drained[s].output_deleted
                   THEN {Drained[s].id} ELSE {})
    /\ pc' = [pc EXCEPT ![w] = "open"]
    /\ arg' = [arg EXCEPT ![w] = g_next_id]
    /\ ptr' = [ptr EXCEPT ![w] = s]
    /\ opt' = [opt EXCEPT ![w] = ret]
    /\ reply' = [reply EXCEPT ![w] = NoReply]

(* The slot is initialised for the new job; what was in it is evicted      *)
(* together with its output file.                                          *)
TakeSlot(w, s, ret) ==
    /\ g_jobs' = [Drained EXCEPT ![s] = NewRecord]
    /\ g_port' = {}
    /\ g_next_id' = g_next_id + 1
    /\ DeleteFiles(IF Drained[s].in_use /\ ~Drained[s].output_deleted
                   THEN {Drained[s].id} ELSE {})
    /\ pc' = [pc EXCEPT ![w] = "open"]
    /\ arg' = [arg EXCEPT ![w] = g_next_id]
    /\ ptr' = [ptr EXCEPT ![w] = s]
    /\ opt' = [opt EXCEPT ![w] = ret]
    /\ reply' = [reply EXCEPT ![w] = NoReply]

(* First critical section of jobs_start: drain and claim a slot.           *)
CmdClaim(w) ==
    /\ Loaded
    /\ pc[w] = "idle"
    /\ g_next_id <= MaxJobs
    /\ \E s \in Claimable(Drained), ret \in BOOLEAN : TakeSlot(w, s, ret)
    /\ UNCHANGED <<procVars, ji, waited, mainVars>>

(* Every slot holds a running job: -32005 Busy.                            *)
CmdBusy(w) ==
    /\ Loaded
    /\ pc[w] = "idle"
    /\ Claimable(Drained) = {}
    /\ Drain
    /\ Return(w, ErrorReply)
    /\ UNCHANGED <<procVars, fileVars, mainVars>>

(* Delete a leftover file of that name and create the output file.         *)
CmdOpen(w) ==
    /\ Loaded
    /\ pc[w] = "open"
    /\ files' = files \cup {arg[w]}
    /\ pc' = [pc EXCEPT ![w] = "spawn"]
    /\ UNCHANGED <<tableVars, procVars, refused, arg, ptr, ji, opt, waited,
                   reply, mainVars>>

(* The file cannot be created: the slot is given back.                     *)
CmdOpenFails(w) ==
    /\ Loaded
    /\ pc[w] = "open"
    /\ g_jobs' = [g_jobs EXCEPT ![ptr[w]].in_use = FALSE]
    /\ Return(w, ErrorReply)
    /\ UNCHANGED <<g_next_id, g_port, procVars, fileVars, mainVars>>

(* SystemTags started the shell; it owns the slot's DeathMessage from now. *)
CmdSpawn(w) ==
    /\ Loaded
    /\ pc[w] = "spawn"
    /\ proc' = [proc EXCEPT ![arg[w]] = "created"]
    /\ procSlot' = [procSlot EXCEPT ![arg[w]] = ptr[w]]
    /\ pc' = [pc EXCEPT ![w] = "started"]
    /\ UNCHANGED <<tableVars, exitCode, fileVars, arg, ptr, ji, opt,
                   waited, reply, mainVars>>

(* Mutant of CmdSpawnFails: the output file is left in T:.                 *)
CmdSpawnFailsKeepFile(w) ==
    /\ Loaded
    /\ pc[w] = "spawn"
    /\ g_jobs' = [g_jobs EXCEPT ![ptr[w]].in_use = FALSE]
    /\ Return(w, ErrorReply)
    /\ UNCHANGED <<g_next_id, g_port, procVars, fileVars, mainVars>>

(* SystemTags failed: no DeathMessage will ever come; undo the claim.      *)
CmdSpawnFails(w) ==
    /\ Loaded
    /\ pc[w] = "spawn"
    /\ DeleteFiles({arg[w]})
    /\ g_jobs' = [g_jobs EXCEPT ![ptr[w]].in_use = FALSE]
    /\ Return(w, ErrorReply)
    /\ UNCHANGED <<g_next_id, g_port, procVars, mainVars>>

(* The wait for `started` is bounded (2 s), so it ends whether or not the  *)
(* entry code has run; what it reads through `j` is not used afterwards.   *)
CmdStarted(w) ==
    /\ Loaded
    /\ pc[w] = "started"
    /\ pc' = [pc EXCEPT ![w] = "poll"]
    /\ ptr' = [ptr EXCEPT ![w] = NoSlot]
    /\ UNCHANGED <<tableVars, procVars, fileVars, arg, ji, opt, waited, reply,
                   mainVars>>

(* One round of exec_cmd's loop: jobs_get, then leave the loop when the    *)
(* job exited or the deadline passed, else sleep EXEC_POLL_TICKS.          *)
CmdPoll(w) ==
    /\ Loaded
    /\ pc[w] = "poll"
    /\ Drain
    /\ \/ /\ Find(Drained, arg[w]) = {}
          /\ Return(w, ErrorReply)
       \/ \E s \in Find(Drained, arg[w]) :
            LET info == FillInfo(Drained, s) IN
            \/ /\ info.state = "EXITED" \/ (waited[w] >= MaxPolls /\ opt[w])
               /\ pc' = [pc EXCEPT ![w] = "cmd_read"]
               /\ ji' = [ji EXCEPT ![w] = info]
               /\ UNCHANGED <<arg, ptr, opt, waited, reply>>
            \/ /\ info.state = "RUNNING" /\ waited[w] >= MaxPolls /\ ~opt[w]
               /\ Return(w, ErrorReply)
            \/ /\ info.state = "RUNNING" /\ waited[w] < MaxPolls
               /\ waited' = [waited EXCEPT ![w] = @ + 1]
               /\ UNCHANGED <<pc, arg, ptr, ji, opt, reply>>
    /\ UNCHANGED <<procVars, fileVars, mainVars>>

(* amiga_read_output opens the file ...                                    *)
CmdRead(w) ==
    /\ Loaded
    /\ pc[w] = "cmd_read"
    /\ IF arg[w] \in files
       THEN /\ pc' = [pc EXCEPT ![w] = "cmd_reading"]
            /\ UNCHANGED <<arg, ptr, ji, opt, waited, reply>>
       ELSE \/ /\ ji[w].state = "EXITED"
               /\ pc' = [pc EXCEPT ![w] = "cmd_drop"]
               /\ reply' = [reply EXCEPT ![w] =
                              ResultReply("cmd", arg[w], ji[w], "missing")]
               /\ UNCHANGED <<arg, ptr, ji, opt, waited>>
            \/ /\ ji[w].state = "RUNNING"
               /\ Return(w, ResultReply("cmd", arg[w], ji[w], "missing"))
    /\ UNCHANGED <<tableVars, procVars, fileVars, mainVars>>

(* ... reads it and closes it.  A finished job's file is dropped next.     *)
(* Out of memory, it is an error and the file stays ("capture failed").    *)
CmdReadDone(w) ==
    /\ Loaded
    /\ pc[w] = "cmd_reading"
    /\ LET r == ResultReply("cmd", arg[w], ji[w], ReadOutput(arg[w])) IN
       \/ Return(w, ErrorReply)
       \/ /\ ji[w].state = "EXITED"
          /\ pc' = [pc EXCEPT ![w] = "cmd_drop"]
          /\ reply' = [reply EXCEPT ![w] = r]
          /\ UNCHANGED <<arg, ptr, ji, opt, waited>>
       \/ /\ ji[w].state = "RUNNING"
          /\ Return(w, r)
    /\ UNCHANGED <<tableVars, procVars, fileVars, mainVars>>

(* Mutant of CmdDrop: the file goes but output_deleted is not set.         *)
CmdDropUnmarked(w) ==
    /\ Loaded
    /\ pc[w] = "cmd_drop"
    /\ DeleteFiles({arg[w]})
    /\ Return(w, reply[w])
    /\ UNCHANGED <<tableVars, procVars, mainVars>>

(* jobs_drop_output: the only jobs_* call that does not drain first.       *)
CmdDrop(w) ==
    /\ Loaded
    /\ pc[w] = "cmd_drop"
    /\ LET hit == {s \in Find(g_jobs, arg[w]) : /\ ~g_jobs[s].output_deleted
                                                /\ g_jobs[s].state = "EXITED"}
       IN /\ g_jobs' = [s \in Slots |->
                          IF s \in hit
                          THEN [g_jobs[s] EXCEPT !.output_deleted = TRUE]
                          ELSE g_jobs[s]]
          /\ DeleteFiles(IF hit # {} THEN {arg[w]} ELSE {})
    /\ Return(w, reply[w])
    /\ UNCHANGED <<g_next_id, g_port, procVars, mainVars>>

-----------------------------------------------------------------------------
(* The other exec.* handlers.  A client asks about jobs that were started, *)
(* evicted ones included.                                                  *)
KnownIds == 1..(g_next_id - 1)

(* exec.status: one jobs_get.                                              *)
Status(w, id) ==
    /\ Loaded
    /\ pc[w] = "idle"
    /\ Drain
    /\ \/ /\ Find(Drained, id) = {}
          /\ Return(w, ErrorReply)
       \/ \E s \in Find(Drained, id) :
            Return(w, ResultReply("info", id, FillInfo(Drained, s), "na"))
    /\ UNCHANGED <<procVars, fileVars, mainVars>>

(* exec.list copies every record out; the reply kept is any one of them.   *)
List(w) ==
    /\ Loaded
    /\ pc[w] = "idle"
    /\ Drain
    /\ \E s \in {r \in Slots : Drained[r].in_use} :
         Return(w, ResultReply("info", Drained[s].id, FillInfo(Drained, s),
                               "na"))
    /\ UNCHANGED <<procVars, fileVars, mainVars>>

(* exec.output, up to the decision that there is an output to read.        *)
Output(w, id) ==
    /\ Loaded
    /\ pc[w] = "idle"
    /\ Drain
    /\ \/ /\ Find(Drained, id) = {}
          /\ Return(w, ErrorReply)
       \/ \E s \in Find(Drained, id) :
            \/ /\ Drained[s].output_deleted
               /\ Return(w, ErrorReply)
            \/ /\ ~Drained[s].output_deleted
               /\ pc' = [pc EXCEPT ![w] = "out_read"]
               /\ arg' = [arg EXCEPT ![w] = id]
               /\ ji' = [ji EXCEPT ![w] = FillInfo(Drained, s)]
               /\ reply' = [reply EXCEPT ![w] = NoReply]
               /\ UNCHANGED <<ptr, opt, waited>>
    /\ UNCHANGED <<procVars, fileVars, mainVars>>

(* exec.output opens the file; one that is gone reads as an empty output.  *)
OutputRead(w) ==
    /\ Loaded
    /\ pc[w] = "out_read"
    /\ IF arg[w] \in files
       THEN /\ pc' = [pc EXCEPT ![w] = "out_reading"]
            /\ UNCHANGED <<arg, ptr, ji, opt, waited, reply>>
       ELSE Return(w, ResultReply("output", arg[w], ji[w], "missing"))
    /\ UNCHANGED <<tableVars, procVars, fileVars, mainVars>>

(* It is read and closed; the only failure is to be out of memory.         *)
OutputReadDone(w) ==
    /\ Loaded
    /\ pc[w] = "out_reading"
    /\ \/ Return(w, ResultReply("output", arg[w], ji[w], ReadOutput(arg[w])))
       \/ Return(w, ErrorReply)
    /\ UNCHANGED <<tableVars, procVars, fileVars, mainVars>>

(* exec.kill with force=true: a jobs_get of its own decides whether the    *)
(* job is sandboxed; the signal is sent in a later critical section.       *)
KillForce(w, id) ==
    /\ Loaded
    /\ pc[w] = "idle"
    /\ Drain
    /\ \/ /\ Find(Drained, id) = {}
          /\ Return(w, ErrorReply)
       \/ \E s \in Find(Drained, id) :
            \/ /\ id \notin SandboxedJobs
               /\ Return(w, ErrorReply)
            \/ /\ id \in SandboxedJobs
               /\ pc' = [pc EXCEPT ![w] = "signal"]
               /\ arg' = [arg EXCEPT ![w] = id]
               /\ reply' = [reply EXCEPT ![w] = NoReply]
               /\ UNCHANGED <<ptr, ji, opt, waited>>
    /\ UNCHANGED <<procVars, fileVars, mainVars>>

(* exec.kill without force.                                                *)
Kill(w, id) ==
    /\ Loaded
    /\ pc[w] = "idle"
    /\ pc' = [pc EXCEPT ![w] = "signal"]
    /\ arg' = [arg EXCEPT ![w] = id]
    /\ reply' = [reply EXCEPT ![w] = NoReply]
    /\ UNCHANGED <<tableVars, procVars, fileVars, ptr, ji, opt, waited,
                   mainVars>>

(* A break signal reaches job id through slot s of table t: the record     *)
(* still says running, its pid is known and ProcessScan finds the process. *)
Delivered(t, s) ==
    /\ t[s].state = "RUNNING"
    /\ t[s].pid
    /\ proc[t[s].id] = "running"

(* jobs_signal.                                                            *)
KillSignal(w) ==
    /\ Loaded
    /\ pc[w] = "signal"
    /\ Drain
    /\ \/ /\ Find(Drained, arg[w]) = {}
          /\ Return(w, ErrorReply)
       \/ \E s \in Find(Drained, arg[w]) :
            /\ pc' = [pc EXCEPT ![w] = "kill_poll"]
            /\ opt' = [opt EXCEPT ![w] = Delivered(Drained, s)]
            /\ UNCHANGED <<arg, ptr, ji, waited, reply>>
    /\ UNCHANGED <<procVars, fileVars, mainVars>>

(* Mutants of KillPoll: one poll too many, and a wait without a deadline.  *)
KillPollOffByOne(w) ==
    /\ Loaded
    /\ pc[w] = "kill_poll"
    /\ Drain
    /\ \E s \in Find(Drained, arg[w]) :
         /\ waited[w] <= MaxPolls
         /\ waited' = [waited EXCEPT ![w] = @ + 1]
         /\ UNCHANGED <<pc, arg, ptr, ji, opt, reply>>
    /\ UNCHANGED <<procVars, fileVars, mainVars>>

KillPollForever(w) ==
    /\ Loaded
    /\ pc[w] = "kill_poll"
    /\ Drain
    /\ \/ /\ Find(Drained, arg[w]) = {}
          /\ Return(w, ErrorReply)
       \/ \E s \in Find(Drained, arg[w]) :
            LET info == FillInfo(Drained, s) IN
            /\ info.state = "EXITED" \/ ~opt[w]
            /\ Return(w, ResultReply("info", arg[w], info, "na"))
    /\ UNCHANGED <<procVars, fileVars, mainVars>>

(* One round of exec.kill's wait for the job to exit.                      *)
KillPoll(w) ==
    /\ Loaded
    /\ pc[w] = "kill_poll"
    /\ Drain
    /\ \/ /\ Find(Drained, arg[w]) = {}
          /\ Return(w, ErrorReply)
       \/ \E s \in Find(Drained, arg[w]) :
            LET info == FillInfo(Drained, s) IN
            \/ /\ info.state = "EXITED" \/ ~opt[w] \/ waited[w] >= MaxPolls
               /\ Return(w, ResultReply("info", arg[w], info, "na"))
            \/ /\ info.state = "RUNNING" /\ opt[w] /\ waited[w] < MaxPolls
               /\ waited' = [waited EXCEPT ![w] = @ + 1]
               /\ UNCHANGED <<pc, arg, ptr, ji, opt, reply>>
    /\ UNCHANGED <<procVars, fileVars, mainVars>>

-----------------------------------------------------------------------------
(* The process started for a job.                                          *)

(* job_entry, in the new process before the command: records the pid.      *)
job_entry(i) ==
    /\ proc[i] = "created"
    /\ proc' = [proc EXCEPT ![i] = "running"]
    /\ g_jobs' = [g_jobs EXCEPT ![procSlot[i]].pid = TRUE]
    /\ UNCHANGED <<g_next_id, g_port, procSlot, exitCode, fileVars,
                   workerVars, mainVars>>

(* The command ends, by itself or on a break: DOS stores the return code   *)
(* in the DeathMessage it was given and replies it to the port.            *)
ProcessEnds(i) ==
    /\ proc[i] = "running"
    /\ \E rc \in ReturnCodes :
         /\ exitCode' = [exitCode EXCEPT ![i] = rc]
         /\ g_jobs' = [g_jobs EXCEPT ![procSlot[i]].rc = rc]
    /\ proc' = [proc EXCEPT ![i] = "dead"]
    /\ g_port' = g_port \cup {procSlot[i]}
    /\ UNCHANGED <<g_next_id, procSlot, fileVars, workerVars, mainVars>>

-----------------------------------------------------------------------------
(* main() after CTRL-C: jobs_shutdown.  The connection workers are not     *)
(* stopped or waited for, so they keep calling into the table.             *)

(* The accept loop saw SIGBREAKF_CTRL_C.                                   *)
Break ==
    /\ MaxBreaks = 1
    /\ sd = "serving"
    /\ sd' = "count"
    /\ UNCHANGED <<tableVars, procVars, fileVars, workerVars, sdSlot, counted>>

RunningSlots(t) == {s \in Slots : t[s].in_use /\ t[s].state = "RUNNING"}

(* Mutant of ShutdownCount: gives up after one round of waiting.           *)
ShutdownCountOnce ==
    /\ sd \in {"count", "wait"}
    /\ Drain
    /\ counted' = g_next_id
    /\ sd' = IF RunningSlots(Drained) = {} \/ sd = "wait" THEN "delete"
             ELSE "signal"
    /\ sdSlot' = IF sd' = "delete" THEN 1 ELSE sdSlot
    /\ UNCHANGED <<procVars, fileVars, workerVars>>

(* Drain and count the running jobs under the semaphore.  Only round 0     *)
(* goes on to send signals; later rounds just sleep and count again.       *)
ShutdownCount ==
    /\ sd \in {"count", "wait"}
    /\ Drain
    /\ counted' = g_next_id
    /\ sd' = IF RunningSlots(Drained) = {} THEN "delete"
             ELSE IF sd = "count" THEN "signal" ELSE "wait"
    /\ sdSlot' = IF sd' = "delete" THEN 1 ELSE sdSlot
    /\ UNCHANGED <<procVars, fileVars, workerVars>>

(* Round 0: one slot after the other, the test without the semaphore and   *)
(* the jobs_signal with it.                                                *)
ShutdownSignal ==
    /\ sd = "signal"
    /\ \/ /\ sdSlot > JOB_SLOTS
          /\ sd' = "wait"
          /\ UNCHANGED <<tableVars, sdSlot>>
       \/ /\ sdSlot <= JOB_SLOTS
          /\ IF sdSlot \in RunningSlots(g_jobs)
             THEN Drain
             ELSE UNCHANGED tableVars
          /\ sdSlot' = sdSlot + 1
          /\ UNCHANGED sd
    /\ UNCHANGED <<procVars, fileVars, workerVars, counted>>

(* No job was running at the last count: delete the output files, one slot *)
(* after the other and without the semaphore ...                           *)
ShutdownDelete ==
    /\ sd = "delete"
    /\ \/ /\ sdSlot > JOB_SLOTS
          /\ sd' = "free"
          /\ UNCHANGED <<fileVars, sdSlot>>
       \/ /\ sdSlot <= JOB_SLOTS
          /\ LET rec == g_jobs[sdSlot]
             IN  DeleteFiles(IF rec.in_use /\ ~rec.output_deleted THEN {rec.id} ELSE {})
          /\ sdSlot' = sdSlot + 1
          /\ UNCHANGED sd
    /\ UNCHANGED <<tableVars, procVars, workerVars, counted>>

(* ... and free the port, the semaphore and the table.  main() returns.    *)
ShutdownFree ==
    /\ sd = "free"
    /\ sd' = "gone"
    /\ UNCHANGED <<tableVars, procVars, fileVars, workerVars, sdSlot, counted>>

-----------------------------------------------------------------------------
WorkerNext(w) ==
    \/ CmdClaim(w) \/ CmdBusy(w) \/ CmdOpen(w) \/ CmdOpenFails(w)
    \/ CmdSpawn(w) \/ CmdSpawnFails(w) \/ CmdStarted(w) \/ CmdPoll(w)
    \/ CmdRead(w) \/ CmdReadDone(w) \/ CmdDrop(w)
    \/ List(w)
    \/ \E id \in KnownIds : \/ Status(w, id) \/ Output(w, id)
                            \/ Kill(w, id) \/ KillForce(w, id)
    \/ OutputRead(w) \/ OutputReadDone(w) \/ KillSignal(w) \/ KillPoll(w)

ProcessNext(i) == job_entry(i) \/ ProcessEnds(i)

ShutdownNext ==
    Break \/ ShutdownCount \/ ShutdownSignal \/ ShutdownDelete \/ ShutdownFree

Next ==
    \/ \E w \in Workers : WorkerNext(w)
    \/ \E i \in JobIds : ProcessNext(i)
    \/ ShutdownNext

Spec == Init /\ [][Next]_vars

(* The steps of a handler that is under way; starting a new one is up to   *)
(* the client.                                                             *)
HandlerStep(w) ==
    \/ CmdOpen(w) \/ CmdOpenFails(w) \/ CmdSpawn(w) \/ CmdSpawnFails(w)
    \/ CmdStarted(w) \/ CmdPoll(w) \/ CmdRead(w) \/ CmdReadDone(w)
    \/ CmdDrop(w) \/ OutputRead(w) \/ OutputReadDone(w) \/ KillSignal(w)
    \/ KillPoll(w)

(* A worker runs at priority +1, above every job and ordinary program, so  *)
(* a handler under way is scheduled; so are a created process up to its    *)
(* entry code and jobs_shutdown once it runs.  A command need not end.     *)
Fairness ==
    /\ \A w \in Workers : WF_vars(HandlerStep(w))
    /\ \A i \in JobIds : WF_vars(job_entry(i))
    /\ WF_vars(ShutdownCount \/ ShutdownSignal \/ ShutdownDelete \/ ShutdownFree)

FairSpec == Spec /\ Fairness

-----------------------------------------------------------------------------
Alive(i) == proc[i] \in {"created", "running"}

(* A slot belongs to its job from the claim until its DeathMessage has     *)
(* been collected: as long as the process lives, or its message is on the  *)
(* port, the slot it will write to or wrote to still holds this job's      *)
(* record, in use and RUNNING (jobs.c: NP_NotifyOnDeathMessage and         *)
(* job_entry both keep a raw pointer into g_jobs).                         *)
SlotStaysWithProcess ==
    \A i \in JobIds :
        LET s == procSlot[i] IN
        Alive(i) \/ (proc[i] = "dead" /\ s \in g_port /\ g_jobs[s].id = i)
          => /\ g_jobs[s].in_use
             /\ g_jobs[s].id = i
             /\ g_jobs[s].state = "RUNNING"

(* JOB_EXITED means what jobs.h says: the process is gone and the record   *)
(* carries the code the command really ended with, never the -1 the slot   *)
(* was initialised with nor a later tenant's code.                         *)
ExitedRecordIsTrue ==
    \A s \in Slots :
        g_jobs[s].in_use /\ g_jobs[s].state = "EXITED"
          => /\ proc[g_jobs[s].id] = "dead"
             /\ g_jobs[s].rc = exitCode[g_jobs[s].id]

(* No handler ever tells a client that a job exited while it still runs,   *)
(* or with another job's exit code, whatever was evicted and reused        *)
(* between the handler's critical sections.                                *)
RepliesAreTrue ==
    \A w \in Workers :
        reply[w].kind = "result" /\ reply[w].state = "EXITED"
          => /\ proc[reply[w].id] = "dead"
             /\ reply[w].rc = exitCode[reply[w].id]

(* Two records never carry the same job id.                                *)
UniqueIds ==
    \A s, r \in Slots :
        g_jobs[s].in_use /\ g_jobs[r].in_use /\ g_jobs[s].id = g_jobs[r].id
          => s = r

(* The rest of the inductive invariant behind the three properties above.  *)
Starting(w) == pc[w] \in {"open", "spawn"}

(* Job ids are handed out once.                                            *)
IdsInv ==
    /\ UniqueIds
    /\ \A s \in Slots : g_jobs[s].in_use => g_jobs[s].id < g_next_id
    /\ \A i \in JobIds : proc[i] # "none" => i < g_next_id

(* A living process has the slot it points to for itself.                  *)
ProcInv ==
    \A i \in JobIds : Alive(i) =>
        /\ procSlot[i] \notin g_port
        /\ g_jobs[procSlot[i]].in_use
        /\ g_jobs[procSlot[i]].id = i
        /\ g_jobs[procSlot[i]].state = "RUNNING"

(* A message on the port is about the job in its slot, which is dead.      *)
PortInv ==
    \A s \in g_port :
        /\ g_jobs[s].in_use
        /\ g_jobs[s].state = "RUNNING"
        /\ proc[g_jobs[s].id] = "dead"
        /\ g_jobs[s].rc = exitCode[g_jobs[s].id]

(* A slot that jobs_start claimed but has not started anything in yet.     *)
StartInv ==
    \A w \in Workers : Starting(w) =>
        /\ ptr[w] \notin g_port
        /\ g_jobs[ptr[w]].in_use
        /\ g_jobs[ptr[w]].id = arg[w]
        /\ g_jobs[ptr[w]].state = "RUNNING"
        /\ proc[arg[w]] = "none"
        /\ \A v \in Workers : Starting(v) /\ arg[v] = arg[w] => v = w

TableInv == IdsInv /\ ProcInv /\ PortInv /\ StartInv /\ ExitedRecordIsTrue

(* What a handler remembers of a finished job is still true later.         *)
InfoInv ==
    /\ \A w \in Workers : ji[w].state = "EXITED" =>
          /\ pc[w] \in {"cmd_read", "cmd_reading", "cmd_drop", "out_read",
                        "out_reading"}
          /\ proc[arg[w]] = "dead"
          /\ ji[w].rc = exitCode[arg[w]]
    /\ \A w \in Workers : reply[w].kind = "result" => reply[w].id \in JobIds

(* Once jobs_shutdown has counted no running job, what lives is younger.   *)
LateInv ==
    /\ counted <= g_next_id
    /\ sd \in {"delete", "free", "gone"} =>
          /\ \A i \in JobIds : Alive(i) => i >= counted
          /\ \A w \in Workers : Starting(w) => arg[w] >= counted

(* exec.cmd and exec.output read an output file after the critical section *)
(* that found the job.  When a finished job's file is gone by then, the    *)
(* reply carries an empty output: that happens only if the record was      *)
(* evicted, or its output dropped by the exec.cmd that owns it, never      *)
(* while a record says that the output is still there.                     *)
EmptyOutputOnlyWhenDropped ==
    \A w \in Workers :
        (reply[w].kind = "result" /\ reply[w].state = "EXITED"
                                 /\ reply[w].out = "missing")
          => \/ sd \in {"delete", "free", "gone"}
             \/ \A s \in Find(g_jobs, reply[w].id) : g_jobs[s].output_deleted

(* No output file is left behind in T:.  One without a record that still   *)
(* points to it exists only while jobs_start or its undo is at work, or    *)
(* because a reader had it open when it was deleted.  The record of a late *)
(* job still counts when jobs_shutdown has freed the table under it.       *)
NoOrphanFiles ==
    \A i \in files :
        \/ \E s \in Find(g_jobs, i) : ~g_jobs[s].output_deleted
        \/ i \in refused

(* What the table says of the files: a file has the id of a job that was   *)
(* started, jobs_start creates its own, and a record whose output is not   *)
(* marked as deleted still has it, until jobs_shutdown deletes them.       *)
FileInv ==
    /\ \A i \in files : i < g_next_id
    /\ \A w \in Workers :
          /\ pc[w] = "open" => arg[w] \notin files
          /\ pc[w] = "spawn" => arg[w] \in files \/ sd \in {"delete", "free", "gone"}
    /\ \A s \in Slots :
          /\ g_jobs[s].in_use /\ g_jobs[s].state = "RUNNING"
               => ~g_jobs[s].output_deleted
          /\ (g_jobs[s].in_use /\ ~g_jobs[s].output_deleted
                               /\ proc[g_jobs[s].id] # "none")
               => g_jobs[s].id \in files \/ sd \in {"delete", "free", "gone"}

(* The inductive invariant of the job table.                               *)
JobInv ==
    /\ TypeOK /\ TableInv /\ InfoInv /\ RepliesAreTrue /\ LateInv
    /\ FileInv /\ NoOrphanFiles /\ EmptyOutputOnlyWhenDropped

(* jobs_shutdown frees the table only when every job that had an id at its *)
(* last count is over: a process that outlives the table was started by a  *)
(* worker after that count.                                                *)
OnlyLateJobsOutliveTable ==
    sd = "gone" => \A i \in JobIds : Alive(i) => i >= counted

(* Every exec.cmd, exec.output and exec.kill ends with a reply, whatever   *)
(* the job does, unless main() returns and takes the code away.            *)
HandlersReply ==
    \A w \in Workers : pc[w] # "idle" ~> (pc[w] = "idle" \/ sd = "gone")
=============================================================================
