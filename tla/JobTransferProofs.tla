------------------------- MODULE JobTransferProofs --------------------------
(***************************************************************************)
(* Proofs about the daemon's jobs and about the transfers the host drives. *)
(* JobTable, for every number of slots, workers and jobs: what became of   *)
(* each process, its slot and its output. Transfer, for files and chunks   *)
(* of any length and any number of retries, calls and faults: what a       *)
(* finished and an interrupted transfer leave behind.                      *)
(***************************************************************************)
EXTENDS JobTable, Transfer, SequenceTheorems, TLAPS

-----------------------------------------------------------------------------
(* 1. JobTable.                                                            *)

-----------------------------------------------------------------------------
(* Type correctness.                                                       *)

(* _drain_locked keeps the table a table: it only changes states.          *)
LEMMA DrainedType ==
    ASSUME TypeOK
    PROVE  /\ Drained \in [Slots -> JobRecord]
           /\ \A s \in Slots :
                /\ Drained[s].in_use = g_jobs[s].in_use
                /\ Drained[s].id = g_jobs[s].id
                /\ Drained[s].rc = g_jobs[s].rc
                /\ Drained[s].pid = g_jobs[s].pid
                /\ Drained[s].output_deleted = g_jobs[s].output_deleted
                /\ Drained[s].state =
                     IF s \in g_port THEN "EXITED" ELSE g_jobs[s].state
    BY DEF TypeOK, Drained, JobRecord

(* Ending a handler keeps the workers' variables well typed.               *)
LEMMA ReturnType ==
    ASSUME TypeOK, NEW w \in Workers, NEW r \in Reply, Return(w, r)
    PROVE  /\ pc' \in [Workers -> PCs]
           /\ arg' \in [Workers -> JobIds \cup {NoJob}]
           /\ ptr' \in [Workers -> Slots \cup {NoSlot}]
           /\ ji' \in [Workers -> JobInfo]
           /\ opt' \in [Workers -> BOOLEAN]
           /\ waited' \in [Workers -> 0..MaxPolls]
           /\ reply' \in [Workers -> Reply]
           /\ \A v \in Workers :
                /\ v = w => pc'[v] = "idle"
                /\ v # w => pc'[v] = pc[v] /\ arg'[v] = arg[v] /\ ptr'[v] = ptr[v]
    <1>1. NoInfo \in JobInfo
      BY DEF NoInfo, JobInfo, RCs
    <1>2. 0 \in 0..MaxPolls
      BY JobTableAssumption
    <1> QED
      BY <1>1, <1>2 DEF TypeOK, Return, PCs

(* The replies handlers build are replies.                                 *)
LEMMA ReplyTypes ==
    /\ ErrorReply \in Reply
    /\ NoReply \in Reply
    /\ \A m \in {"cmd", "output", "info"}, i \in JobIds, info \in JobInfo,
          o \in {"na", "file", "missing"} :
         ResultReply(m, i, info, o) \in Reply
    BY DEF ErrorReply, NoReply, ResultReply, Reply, JobInfo, RCs

LEMMA FillInfoType ==
    ASSUME NEW t \in [Slots -> JobRecord], NEW s \in Slots
    PROVE  FillInfo(t, s) \in JobInfo
    BY DEF FillInfo, JobRecord, JobInfo

LEMMA ReadOutputType ==
    ASSUME NEW i
    PROVE  ReadOutput(i) \in {"na", "file", "missing"}
    BY DEF ReadOutput

LEMMA InitType == Init => TypeOK
    <1> SUFFICES ASSUME Init PROVE TypeOK OBVIOUS
    <1>1. NoReply \in Reply /\ NoInfo \in JobInfo /\ EmptyRecord \in JobRecord
      BY DEF NoReply, Reply, NoInfo, JobInfo, EmptyRecord, JobRecord, RCs
    <1> QED
      BY <1>1, JobTableAssumption DEF Init, TypeOK, PCs, RCs, EmptyRecord

(* Changing one field of one record keeps the table a table, and the other *)
(* fields and the other records as they are.                               *)
LEMMA InUseUpdate ==
    ASSUME NEW t \in [Slots -> JobRecord], NEW s \in Slots, NEW f \in BOOLEAN,
           NEW n, n = [t EXCEPT ![s].in_use = f]
    PROVE  /\ n \in [Slots -> JobRecord]
           /\ \A r \in Slots : r # s => n[r] = t[r]
           /\ n[s].in_use = f /\ n[s].id = t[s].id
    BY DEF JobRecord

LEMMA PidUpdate ==
    ASSUME NEW t \in [Slots -> JobRecord], NEW s \in Slots, NEW f \in BOOLEAN,
           NEW n, n = [t EXCEPT ![s].pid = f]
    PROVE  /\ n \in [Slots -> JobRecord]
           /\ \A r \in Slots :
                /\ n[r].in_use = t[r].in_use /\ n[r].id = t[r].id
                /\ n[r].state = t[r].state /\ n[r].rc = t[r].rc
    BY DEF JobRecord

LEMMA RcUpdate ==
    ASSUME NEW t \in [Slots -> JobRecord], NEW s \in Slots,
           NEW rc \in ReturnCodes, NEW n, n = [t EXCEPT ![s].rc = rc]
    PROVE  /\ n \in [Slots -> JobRecord]
           /\ \A r \in Slots :
                /\ n[r].in_use = t[r].in_use /\ n[r].id = t[r].id
                /\ n[r].state = t[r].state
                /\ n[r].rc = IF r = s THEN rc ELSE t[r].rc
    BY DEF JobRecord, RCs

(* What the actions that update one field do to the table.                 *)
LEMMA UndoClaimTable ==
    ASSUME TypeOK, NEW w \in Workers, CmdOpenFails(w) \/ CmdSpawnFails(w)
    PROVE  /\ g_jobs' \in [Slots -> JobRecord]
           /\ \A r \in Slots : r # ptr[w] => g_jobs'[r] = g_jobs[r]
           /\ ~g_jobs'[ptr[w]].in_use
           /\ ptr[w] \in Slots
    <1>1. ptr[w] \in Slots /\ g_jobs \in [Slots -> JobRecord]
      BY DEF CmdOpenFails, CmdSpawnFails, TypeOK
    <1>2. PICK f \in BOOLEAN :
             f = FALSE /\ g_jobs' = [g_jobs EXCEPT ![ptr[w]].in_use = f]
      BY Zenon DEF CmdOpenFails, CmdSpawnFails
    <1>3. /\ g_jobs' \in [Slots -> JobRecord]
          /\ \A r \in Slots : r # ptr[w] => g_jobs'[r] = g_jobs[r]
          /\ g_jobs'[ptr[w]].in_use = f
      BY <1>1, <1>2, InUseUpdate
    <1> QED BY <1>1, <1>2, <1>3

LEMMA EntryTable ==
    ASSUME TypeOK, NEW i \in JobIds, job_entry(i)
    PROVE  /\ g_jobs' \in [Slots -> JobRecord]
           /\ \A r \in Slots :
                /\ g_jobs'[r].in_use = g_jobs[r].in_use
                /\ g_jobs'[r].id = g_jobs[r].id
                /\ g_jobs'[r].state = g_jobs[r].state
                /\ g_jobs'[r].rc = g_jobs[r].rc
    <1>1. procSlot[i] \in Slots /\ g_jobs \in [Slots -> JobRecord]
      BY DEF job_entry, TypeOK
    <1>2. PICK f \in BOOLEAN :
             g_jobs' = [g_jobs EXCEPT ![procSlot[i]].pid = f]
      BY Zenon DEF job_entry
    <1> QED BY <1>1, <1>2, PidUpdate

LEMMA DropTable ==
    ASSUME TypeOK, NEW w \in Workers, CmdDrop(w)
    PROVE  /\ g_jobs' \in [Slots -> JobRecord]
           /\ \A r \in Slots :
                /\ g_jobs'[r].in_use = g_jobs[r].in_use
                /\ g_jobs'[r].id = g_jobs[r].id
                /\ g_jobs'[r].state = g_jobs[r].state
                /\ g_jobs'[r].rc = g_jobs[r].rc
    <1>1. g_jobs \in [Slots -> JobRecord]
      BY DEF TypeOK
    <1> DEFINE hit == {s \in Find(g_jobs, arg[w]) :
                          /\ ~g_jobs[s].output_deleted
                          /\ g_jobs[s].state = "EXITED"}
    <1>2. PICK f \in BOOLEAN :
             g_jobs' = [s \in Slots |->
                          IF s \in hit
                          THEN [g_jobs[s] EXCEPT !.output_deleted = f]
                          ELSE g_jobs[s]]
      BY Zenon DEF CmdDrop
    <1> HIDE DEF hit
    <1> QED BY <1>1, <1>2 DEF JobRecord

(* One case per action: each leaves the variables in their types.          *)
LEMMA NextType == TypeOK /\ [Next]_vars => TypeOK'
    <1> SUFFICES ASSUME TypeOK, [Next]_vars PROVE TypeOK'
      OBVIOUS
    <1> USE JobTableAssumption
    <1>a. NoInfo \in JobInfo
      BY DEF NoInfo, JobInfo, RCs
    <1>b. /\ Drained \in [Slots -> JobRecord]
          /\ \A s \in Slots : Drained[s].in_use => Drained[s].id \in JobIds
      BY DrainedType DEF TypeOK
    <1>c. \A s \in Slots : FillInfo(Drained, s) \in JobInfo
      BY <1>b, FillInfoType
    <1>1. ASSUME NEW w \in Workers, CmdClaim(w) PROVE TypeOK'
      <2>1. NewRecord \in JobRecord /\ g_next_id \in JobIds
        BY <1>1 DEF CmdClaim, NewRecord, JobRecord, RCs, TypeOK, JobIds
      <2>2. PICK s \in Slots, ret \in BOOLEAN : TakeSlot(w, s, ret)
        BY <1>1 DEF CmdClaim, Claimable, FreeSlots, ExitedSlots
      <2>3. /\ g_jobs' \in [Slots -> JobRecord]
            /\ \A r \in Slots : g_jobs'[r].in_use => g_jobs'[r].id \in JobIds
        <3>1. g_jobs' = [Drained EXCEPT ![s] = NewRecord]
          BY <2>2 DEF TakeSlot
        <3>2. g_jobs'[s] = NewRecord /\ \A r \in Slots : r # s => g_jobs'[r] = Drained[r]
          BY <3>1, <1>b
        <3>3. NewRecord.id \in JobIds
          BY <2>1 DEF NewRecord
        <3> QED BY <1>b, <2>1, <3>1, <3>2, <3>3
      <2>4. files' \subseteq JobIds /\ refused' \subseteq JobIds
        BY <2>2 DEF TakeSlot, DeleteFiles, TypeOK
      <2>5. /\ g_next_id' \in 1..(MaxJobs + 1)
            /\ g_port' \subseteq Slots
        BY <1>1, <2>2 DEF TakeSlot, CmdClaim, TypeOK
      <2>6. /\ pc' \in [Workers -> PCs]
            /\ arg' \in [Workers -> JobIds \cup {NoJob}]
            /\ ptr' \in [Workers -> Slots \cup {NoSlot}]
            /\ opt' \in [Workers -> BOOLEAN]
            /\ reply' \in [Workers -> Reply]
            /\ \A v \in Workers :
                  /\ pc'[v] # "idle" => arg'[v] \in JobIds
                  /\ pc'[v] \in {"open", "spawn"} => ptr'[v] \in Slots
        BY <2>1, <2>2, ReplyTypes DEF TakeSlot, TypeOK, PCs
      <2> QED
        BY <1>1, <2>3, <2>4, <2>5, <2>6 DEF CmdClaim, TypeOK, procVars, mainVars
    <1>2. ASSUME NEW w \in Workers, CmdBusy(w) PROVE TypeOK'
      BY <1>2, <1>b, ReturnType, ReplyTypes
      DEF CmdBusy, Drain, TypeOK, procVars, fileVars, mainVars
    <1>3. ASSUME NEW w \in Workers, CmdOpen(w) PROVE TypeOK'
      BY <1>3 DEF CmdOpen, TypeOK, PCs, tableVars, procVars, mainVars
    <1>4. ASSUME NEW w \in Workers, CmdOpenFails(w) PROVE TypeOK'
      <2>1. /\ g_jobs' \in [Slots -> JobRecord]
            /\ \A s \in Slots : g_jobs'[s].in_use => g_jobs'[s].id \in JobIds
        BY <1>4, UndoClaimTable DEF TypeOK
      <2> QED
        BY <1>4, <2>1, ReturnType, ReplyTypes
        DEF CmdOpenFails, TypeOK, procVars, fileVars, mainVars
    <1>5. ASSUME NEW w \in Workers, CmdSpawn(w) PROVE TypeOK'
      BY <1>5 DEF CmdSpawn, TypeOK, PCs, tableVars, fileVars, mainVars
    <1>6. ASSUME NEW w \in Workers, CmdSpawnFails(w) PROVE TypeOK'
      <2>1. /\ g_jobs' \in [Slots -> JobRecord]
            /\ \A s \in Slots : g_jobs'[s].in_use => g_jobs'[s].id \in JobIds
        BY <1>6, UndoClaimTable DEF TypeOK
      <2> QED
        BY <1>6, <2>1, ReturnType, ReplyTypes
        DEF CmdSpawnFails, DeleteFiles, TypeOK, procVars, mainVars
    <1>7. ASSUME NEW w \in Workers, CmdStarted(w) PROVE TypeOK'
      BY <1>7 DEF CmdStarted, TypeOK, PCs, tableVars, procVars, fileVars,
                  mainVars
    <1>8. ASSUME NEW w \in Workers, CmdPoll(w) PROVE TypeOK'
      <2>1. CASE Return(w, ErrorReply)
        BY <1>8, <2>1, <1>b, ReturnType, ReplyTypes
        DEF CmdPoll, Drain, TypeOK, procVars, fileVars, mainVars
      <2>2. CASE ~Return(w, ErrorReply)
        <3>1. PICK s \in Find(Drained, arg[w]) :
                 \/ /\ pc' = [pc EXCEPT ![w] = "cmd_read"]
                    /\ ji' = [ji EXCEPT ![w] = FillInfo(Drained, s)]
                    /\ UNCHANGED <<arg, ptr, opt, waited, reply>>
                 \/ /\ waited[w] < MaxPolls
                    /\ waited' = [waited EXCEPT ![w] = @ + 1]
                    /\ UNCHANGED <<pc, arg, ptr, ji, opt, reply>>
          BY <1>8, <2>2 DEF CmdPoll
        <3>2. FillInfo(Drained, s) \in JobInfo
          BY <1>c DEF Find
        <3> QED
          BY <1>8, <1>b, <3>1, <3>2
          DEF CmdPoll, Drain, TypeOK, PCs, procVars, fileVars, mainVars
      <2> QED BY <2>1, <2>2
    <1>9. ASSUME NEW w \in Workers, CmdRead(w) PROVE TypeOK'
      <2>1. arg[w] \in JobIds /\ ji[w] \in JobInfo
        BY <1>9 DEF CmdRead, TypeOK
      <2>2. ResultReply("cmd", arg[w], ji[w], "missing") \in Reply
        BY <2>1, ReplyTypes
      <2> QED
        BY <1>9, <2>1, <2>2, ReturnType
        DEF CmdRead, TypeOK, PCs, tableVars, procVars, fileVars, mainVars
    <1>10. ASSUME NEW w \in Workers, CmdReadDone(w) PROVE TypeOK'
      <2>1. arg[w] \in JobIds /\ ji[w] \in JobInfo
        BY <1>10 DEF CmdReadDone, TypeOK
      <2>2. ResultReply("cmd", arg[w], ji[w], ReadOutput(arg[w])) \in Reply
        BY <2>1, ReadOutputType, ReplyTypes
      <2>3. ErrorReply \in Reply
        BY ReplyTypes
      <2> QED
        BY <1>10, <2>1, <2>2, <2>3, ReturnType
        DEF CmdReadDone, TypeOK, PCs, tableVars, procVars, fileVars, mainVars
    <1>11. ASSUME NEW w \in Workers, CmdDrop(w) PROVE TypeOK'
      <2>1. reply[w] \in Reply
        BY DEF TypeOK
      <2>2. /\ g_jobs' \in [Slots -> JobRecord]
            /\ \A s \in Slots : g_jobs'[s].in_use => g_jobs'[s].id \in JobIds
        BY <1>11, DropTable DEF TypeOK
      <2> QED
        BY <1>11, <2>1, <2>2, ReturnType
        DEF CmdDrop, DeleteFiles, TypeOK, procVars, mainVars
    <1>12. ASSUME NEW w \in Workers, List(w) PROVE TypeOK'
      <2>1. PICK s \in Slots :
              /\ Drained[s].in_use
              /\ Return(w, ResultReply("info", Drained[s].id,
                                       FillInfo(Drained, s), "na"))
        BY <1>12 DEF List
      <2>2. ResultReply("info", Drained[s].id, FillInfo(Drained, s), "na")
               \in Reply
        BY <1>b, <1>c, <2>1, ReplyTypes
      <2> QED
        BY <1>12, <1>b, <2>1, <2>2, ReturnType
        DEF List, Drain, TypeOK, procVars, fileVars, mainVars
    <1>13. ASSUME NEW w \in Workers, NEW id \in KnownIds, Status(w, id)
           PROVE TypeOK'
      <2>1. id \in JobIds
        BY DEF KnownIds, JobIds, TypeOK
      <2>2. \A s \in Slots :
              ResultReply("info", id, FillInfo(Drained, s), "na") \in Reply
        BY <1>c, <2>1, ReplyTypes
      <2>3. PICK r \in Reply : Return(w, r)
        BY <1>13, <2>2, ReplyTypes DEF Status, Find
      <2> QED
        BY <1>13, <1>b, <2>3, ReturnType
        DEF Status, Drain, TypeOK, procVars, fileVars, mainVars
    <1>14. ASSUME NEW w \in Workers, NEW id \in KnownIds, Output(w, id)
           PROVE TypeOK'
      <2>1. id \in JobIds
        BY DEF KnownIds, JobIds, TypeOK
      <2>2. \A s \in Slots : FillInfo(Drained, s) \in JobInfo
        BY <1>c
      <2>3. CASE Return(w, ErrorReply)
        BY <1>14, <1>b, <2>3, ReturnType, ReplyTypes
        DEF Output, Drain, TypeOK, procVars, fileVars, mainVars
      <2>4. CASE ~Return(w, ErrorReply)
        <3>1. PICK s \in Slots :
                 /\ pc' = [pc EXCEPT ![w] = "out_read"]
                 /\ arg' = [arg EXCEPT ![w] = id]
                 /\ ji' = [ji EXCEPT ![w] = FillInfo(Drained, s)]
                 /\ reply' = [reply EXCEPT ![w] = NoReply]
                 /\ UNCHANGED <<ptr, opt, waited>>
          BY <1>14, <2>4 DEF Output, Find
        <3> QED
          BY <1>14, <1>b, <2>1, <2>2, <3>1, ReplyTypes
          DEF Output, Drain, TypeOK, PCs, procVars, fileVars, mainVars
      <2> QED BY <2>3, <2>4
    <1>15. ASSUME NEW w \in Workers, OutputRead(w) PROVE TypeOK'
      <2>1. arg[w] \in JobIds /\ ji[w] \in JobInfo
        BY <1>15 DEF OutputRead, TypeOK
      <2>2. ResultReply("output", arg[w], ji[w], "missing") \in Reply
        BY <2>1, ReplyTypes
      <2> QED
        BY <1>15, <2>1, <2>2, ReturnType
        DEF OutputRead, TypeOK, PCs, tableVars, procVars, fileVars, mainVars
    <1>16. ASSUME NEW w \in Workers, OutputReadDone(w) PROVE TypeOK'
      <2>1. arg[w] \in JobIds /\ ji[w] \in JobInfo
        BY <1>16 DEF OutputReadDone, TypeOK
      <2>2. ResultReply("output", arg[w], ji[w], ReadOutput(arg[w])) \in Reply
        BY <2>1, ReadOutputType, ReplyTypes
      <2>3. ErrorReply \in Reply
        BY ReplyTypes
      <2> QED
        BY <1>16, <2>2, <2>3, ReturnType
        DEF OutputReadDone, TypeOK, tableVars, procVars, fileVars, mainVars
    <1>17. ASSUME NEW w \in Workers, NEW id \in KnownIds, KillForce(w, id)
           PROVE TypeOK'
      <2>1. id \in JobIds
        BY DEF KnownIds, JobIds, TypeOK
      <2>2. CASE Return(w, ErrorReply)
        BY <1>17, <1>b, <2>2, ReturnType, ReplyTypes
        DEF KillForce, Drain, TypeOK, procVars, fileVars, mainVars
      <2>3. CASE ~Return(w, ErrorReply)
        BY <1>17, <1>b, <2>1, <2>3, ReplyTypes
        DEF KillForce, Drain, TypeOK, PCs, procVars, fileVars, mainVars
      <2> QED BY <2>2, <2>3
    <1>18. ASSUME NEW w \in Workers, NEW id \in KnownIds, Kill(w, id)
           PROVE TypeOK'
      <2>1. id \in JobIds
        BY DEF KnownIds, JobIds, TypeOK
      <2> QED
        BY <1>18, <2>1, ReplyTypes
        DEF Kill, TypeOK, PCs, tableVars, procVars, fileVars, mainVars
    <1>19. ASSUME NEW w \in Workers, KillSignal(w) PROVE TypeOK'
      <2>1. CASE Return(w, ErrorReply)
        BY <1>19, <1>b, <2>1, ReturnType, ReplyTypes
        DEF KillSignal, Drain, TypeOK, procVars, fileVars, mainVars
      <2>2. CASE ~Return(w, ErrorReply)
        <3>1. \A s : Delivered(Drained, s) \in BOOLEAN
          BY DEF Delivered
        <3> QED
          BY <1>19, <1>b, <2>2, <3>1
          DEF KillSignal, Drain, TypeOK, PCs, procVars, fileVars, mainVars
      <2> QED BY <2>1, <2>2
    <1>20. ASSUME NEW w \in Workers, KillPoll(w) PROVE TypeOK'
      <2>1. arg[w] \in JobIds
        BY <1>20 DEF KillPoll, TypeOK
      <2>2. \A s \in Slots :
              ResultReply("info", arg[w], FillInfo(Drained, s), "na") \in Reply
        BY <1>c, <2>1, ReplyTypes
      <2>3. CASE \E r \in Reply : Return(w, r)
        BY <1>20, <1>b, <2>3, ReturnType
        DEF KillPoll, Drain, TypeOK, procVars, fileVars, mainVars
      <2>4. CASE ~ \E r \in Reply : Return(w, r)
        <3>1. /\ waited[w] < MaxPolls
              /\ waited' = [waited EXCEPT ![w] = @ + 1]
              /\ UNCHANGED <<pc, arg, ptr, ji, opt, reply>>
          BY <1>20, <2>2, <2>4, ReplyTypes DEF KillPoll, Find
        <3> QED
          BY <1>20, <1>b, <3>1
          DEF KillPoll, Drain, TypeOK, procVars, fileVars, mainVars
      <2> QED BY <2>3, <2>4
    <1>21. ASSUME NEW i \in JobIds, job_entry(i) PROVE TypeOK'
      <2>1. /\ g_jobs' \in [Slots -> JobRecord]
            /\ \A s \in Slots : g_jobs'[s].in_use => g_jobs'[s].id \in JobIds
        BY <1>21, EntryTable DEF TypeOK
      <2> QED
        BY <1>21, <2>1 DEF job_entry, TypeOK, fileVars, workerVars, mainVars
    <1>22. ASSUME NEW i \in JobIds, ProcessEnds(i) PROVE TypeOK'
      <2>a. PICK rc \in ReturnCodes :
               g_jobs' = [g_jobs EXCEPT ![procSlot[i]].rc = rc]
        BY <1>22 DEF ProcessEnds
      <2>b. procSlot[i] \in Slots /\ g_jobs \in [Slots -> JobRecord]
        BY <1>22 DEF ProcessEnds, TypeOK
      <2>c. /\ g_jobs' \in [Slots -> JobRecord]
            /\ \A r \in Slots : /\ g_jobs'[r].in_use = g_jobs[r].in_use
                                 /\ g_jobs'[r].id = g_jobs[r].id
        BY <2>a, <2>b DEF JobRecord, RCs
      <2>1. /\ g_jobs' \in [Slots -> JobRecord]
            /\ \A s \in Slots : g_jobs'[s].in_use => g_jobs'[s].id \in JobIds
        BY <2>c DEF TypeOK
      <2> QED
        BY <1>22, <2>1
        DEF ProcessEnds, TypeOK, RCs, fileVars, workerVars, mainVars
    <1>23. CASE Break
      BY <1>23 DEF Break, TypeOK, tableVars, procVars, fileVars, workerVars
    <1>24. CASE ShutdownCount
      BY <1>24, <1>b
      DEF ShutdownCount, Drain, TypeOK, procVars, fileVars, workerVars
    <1>25. CASE ShutdownSignal
      BY <1>25, <1>b
      DEF ShutdownSignal, RunningSlots, Drain, TypeOK, tableVars, procVars,
          fileVars, workerVars
    <1>26. CASE ShutdownDelete
      BY <1>26 DEF ShutdownDelete, DeleteFiles, TypeOK, tableVars, procVars, fileVars,
                   workerVars
    <1>27. CASE ShutdownFree
      BY <1>27 DEF ShutdownFree, TypeOK, tableVars, procVars, fileVars,
                   workerVars
    <1>28. CASE UNCHANGED vars
      BY <1>28 DEF TypeOK, vars, tableVars, procVars, fileVars, workerVars,
                   mainVars
    <1> QED
      BY <1>1, <1>2, <1>3, <1>4, <1>5, <1>6, <1>7, <1>8, <1>9, <1>10, <1>11,
         <1>12, <1>13, <1>14, <1>15, <1>16, <1>17, <1>18, <1>19, <1>20, <1>21,
         <1>22, <1>23, <1>24, <1>25, <1>26, <1>27, <1>28
      DEF Next, WorkerNext, ProcessNext, ShutdownNext

(* Every variable of the job table and of the exec.* handlers keeps its    *)
(* type: in particular no handler past its first step works on a job id or *)
(* a slot pointer that is not one.                                         *)
THEOREM TypeCorrect == Spec => []TypeOK
    BY InitType, NextType, PTL DEF Spec

-----------------------------------------------------------------------------
(* The table invariant: who owns a slot.                                   *)

(* No worker enters jobs_start in this step.                               *)
NoNewStart ==
    \A v \in Workers : pc'[v] \in {"open", "spawn"} =>
        Starting(v) /\ arg'[v] = arg[v] /\ ptr'[v] = ptr[v]

(* A step that only collects death messages keeps the table invariant:     *)
(* the slots whose message is collected leave RUNNING with a dead process. *)
LEMMA DrainKeepsTableInv ==
    ASSUME TypeOK, TableInv, Drain, NoNewStart,
           UNCHANGED <<proc, procSlot, exitCode>>
    PROVE  TableInv'
    <1> USE DEF TableInv, NoNewStart
    <1>1. /\ g_port' = {} /\ g_next_id' = g_next_id
          /\ proc' = proc /\ procSlot' = procSlot /\ exitCode' = exitCode
          /\ \A s \in Slots :
               /\ g_jobs'[s].in_use = g_jobs[s].in_use
               /\ g_jobs'[s].id = g_jobs[s].id
               /\ g_jobs'[s].rc = g_jobs[s].rc
               /\ g_jobs'[s].state =
                    IF s \in g_port THEN "EXITED" ELSE g_jobs[s].state
      BY DrainedType DEF Drain
    <1>2. IdsInv'
      BY <1>1 DEF IdsInv, UniqueIds
    <1>3. ProcInv'
      BY <1>1 DEF ProcInv, Alive, TypeOK
    <1>4. PortInv'
      BY <1>1 DEF PortInv
    <1>5. StartInv'
      BY <1>1 DEF StartInv, Starting, TypeOK
    <1>6. ExitedRecordIsTrue'
      BY <1>1 DEF ExitedRecordIsTrue, PortInv
    <1> QED BY <1>2, <1>3, <1>4, <1>5, <1>6

(* A step that leaves table, port and processes alone keeps it too.        *)
LEMMA SkipKeepsTableInv ==
    ASSUME TypeOK, TableInv, NoNewStart,
           UNCHANGED <<g_jobs, g_port, g_next_id, proc, procSlot, exitCode>>
    PROVE  TableInv'
    <1>1. /\ g_port' = g_port /\ g_next_id' = g_next_id /\ g_jobs' = g_jobs
          /\ proc' = proc /\ procSlot' = procSlot /\ exitCode' = exitCode
      OBVIOUS
    <1>2. IdsInv' /\ ProcInv' /\ PortInv' /\ ExitedRecordIsTrue'
      BY <1>1 DEF TableInv, IdsInv, UniqueIds, ProcInv, Alive, PortInv,
                  ExitedRecordIsTrue
    <1>3. StartInv'
      BY <1>1 DEF TableInv, NoNewStart, StartInv, Starting
    <1> QED BY <1>2, <1>3 DEF TableInv

(* A handler that ends starts nothing.                                     *)
LEMMA ReturnStartsNothing ==
    ASSUME TypeOK, NEW w \in Workers, NEW r, Return(w, r)
    PROVE  NoNewStart
    BY DEF TypeOK, Return, NoNewStart, Starting

(* jobs_start takes a slot that is free or holds a finished job: no        *)
(* process, no queued message and no other starting worker refers to it.   *)
LEMMA ClaimKeepsTableInv ==
    ASSUME TypeOK, TableInv, NEW w \in Workers, CmdClaim(w)
    PROVE  TableInv'
    <1>1. PICK s \in Claimable(Drained), ret \in BOOLEAN : TakeSlot(w, s, ret)
      BY DEF CmdClaim
    <1>2. /\ s \in Slots
          /\ Drained[s].in_use => Drained[s].state = "EXITED"
      BY DEF Claimable, FreeSlots, ExitedSlots
    <1>3. /\ g_port' = {} /\ g_next_id' = g_next_id + 1
          /\ g_next_id \in JobIds /\ g_next_id \in Nat
          /\ proc' = proc /\ procSlot' = procSlot /\ exitCode' = exitCode
      BY <1>1, JobTableAssumption
      DEF CmdClaim, TakeSlot, procVars, TypeOK, JobIds
    <1>4. /\ g_jobs'[s] = NewRecord
          /\ \A r \in Slots : r # s =>
               /\ g_jobs'[r].in_use = g_jobs[r].in_use
               /\ g_jobs'[r].id = g_jobs[r].id
               /\ g_jobs'[r].rc = g_jobs[r].rc
               /\ g_jobs'[r].state =
                    IF r \in g_port THEN "EXITED" ELSE g_jobs[r].state
      BY <1>1, <1>2, DrainedType DEF TakeSlot
    <1>5. /\ g_jobs'[s].in_use
          /\ g_jobs'[s].id = g_next_id
          /\ g_jobs'[s].state = "RUNNING"
      BY <1>4 DEF NewRecord
    <1>6. g_jobs[s].in_use => s \in g_port \/ g_jobs[s].state = "EXITED"
      BY <1>2, DrainedType
    <1>7. \A v \in Workers :
            /\ v = w => pc'[v] = "open" /\ arg'[v] = g_next_id /\ ptr'[v] = s
            /\ v # w => pc'[v] = pc[v] /\ arg'[v] = arg[v] /\ ptr'[v] = ptr[v]
      BY <1>1 DEF TakeSlot, TypeOK
    <1>8. IdsInv'
      <2>1. \A r \in Slots : g_jobs[r].in_use => g_jobs[r].id \in JobIds
        BY DEF TypeOK
      <2>2. \A r \in Slots : g_jobs'[r].in_use => g_jobs'[r].id < g_next_id'
        BY <1>3, <1>4, <1>5, <2>1 DEF TableInv, IdsInv, JobIds
      <2>3. UniqueIds'
        BY <1>3, <1>4, <1>5, <2>1 DEF TableInv, IdsInv, UniqueIds, JobIds
      <2>4. \A i \in JobIds : proc'[i] # "none" => i < g_next_id'
        BY <1>3 DEF TableInv, IdsInv, JobIds
      <2> QED BY <2>2, <2>3, <2>4 DEF IdsInv
    <1>9. ProcInv'
      <2>1. \A i \in JobIds : Alive(i) => procSlot[i] # s /\ procSlot[i] \in Slots
        BY <1>6 DEF TableInv, ProcInv, TypeOK, Alive
      <2>2. ASSUME NEW i \in JobIds, Alive(i)'
            PROVE  /\ procSlot'[i] \notin g_port'
                   /\ g_jobs'[procSlot'[i]].in_use
                   /\ g_jobs'[procSlot'[i]].id = i
                   /\ g_jobs'[procSlot'[i]].state = "RUNNING"
        <3>1. Alive(i)
          BY <2>2, <1>3 DEF Alive
        <3>2. /\ procSlot[i] \notin g_port
              /\ g_jobs[procSlot[i]].in_use
              /\ g_jobs[procSlot[i]].id = i
              /\ g_jobs[procSlot[i]].state = "RUNNING"
          BY <3>1 DEF TableInv, ProcInv
        <3> QED BY <1>3, <1>4, <2>1, <3>1, <3>2
      <2> QED BY <2>2 DEF ProcInv
    <1>10. PortInv'
      BY <1>3 DEF PortInv
    <1>11. StartInv'
      <2>1. proc[g_next_id] = "none"
        BY <1>3 DEF TableInv, IdsInv, JobIds
      <2>2. \A v \in Workers : Starting(v) =>
              /\ ptr[v] # s /\ ptr[v] \in Slots
              /\ arg[v] # g_next_id
        <3>1. ASSUME NEW v \in Workers, Starting(v)
              PROVE  ptr[v] # s /\ ptr[v] \in Slots /\ arg[v] # g_next_id
          <4>1. ptr[v] \in Slots /\ arg[v] \in JobIds
            BY <3>1 DEF Starting, TypeOK
          <4>2. /\ ptr[v] \notin g_port
                /\ g_jobs[ptr[v]].in_use
                /\ g_jobs[ptr[v]].id = arg[v]
                /\ g_jobs[ptr[v]].state = "RUNNING"
            BY <3>1 DEF TableInv, StartInv
          <4>3. arg[v] < g_next_id
            BY <4>1, <4>2 DEF TableInv, IdsInv
          <4> QED BY <1>3, <1>6, <4>1, <4>2, <4>3 DEF JobIds
        <3> QED BY <3>1
      <2>3. \A v \in Workers : v # w /\ pc'[v] \in {"open", "spawn"} =>
              /\ ptr'[v] \notin g_port'
              /\ g_jobs'[ptr'[v]].in_use
              /\ g_jobs'[ptr'[v]].id = arg'[v]
              /\ g_jobs'[ptr'[v]].state = "RUNNING"
              /\ proc'[arg'[v]] = "none"
        BY <1>3, <1>4, <1>7, <2>2 DEF TableInv, StartInv, Starting
      <2>4. /\ ptr'[w] \notin g_port'
            /\ g_jobs'[ptr'[w]].in_use
            /\ g_jobs'[ptr'[w]].id = arg'[w]
            /\ g_jobs'[ptr'[w]].state = "RUNNING"
            /\ proc'[arg'[w]] = "none"
        BY <1>3, <1>5, <1>7, <2>1
      <2>5. \A u, v \in Workers :
              /\ pc'[u] \in {"open", "spawn"}
              /\ pc'[v] \in {"open", "spawn"}
              /\ arg'[v] = arg'[u]
              => v = u
        BY <1>7, <2>2 DEF TableInv, StartInv, Starting
      <2> QED BY <2>3, <2>4, <2>5 DEF StartInv, Starting
    <1>12. ExitedRecordIsTrue'
      BY <1>3, <1>4, <1>5 DEF TableInv, ExitedRecordIsTrue, PortInv
    <1> QED BY <1>8, <1>9, <1>10, <1>11, <1>12 DEF TableInv

(* The undo of a claim frees a slot nobody else refers to.                 *)
LEMMA UndoKeepsTableInv ==
    ASSUME TypeOK, TableInv, NEW w \in Workers,
           CmdOpenFails(w) \/ CmdSpawnFails(w)
    PROVE  TableInv'
    <1>1. /\ g_port' = g_port /\ g_next_id' = g_next_id
          /\ proc' = proc /\ procSlot' = procSlot /\ exitCode' = exitCode
      BY DEF CmdOpenFails, CmdSpawnFails, procVars
    <1>2. /\ \A r \in Slots : r # ptr[w] => g_jobs'[r] = g_jobs[r]
          /\ ~g_jobs'[ptr[w]].in_use
          /\ ptr[w] \in Slots
      BY UndoClaimTable
    <1>3. Starting(w)
      BY DEF CmdOpenFails, CmdSpawnFails, Starting
    <1>4. /\ ptr[w] \notin g_port
          /\ g_jobs[ptr[w]].in_use
          /\ g_jobs[ptr[w]].id = arg[w]
          /\ proc[arg[w]] = "none"
      BY <1>3 DEF TableInv, StartInv
    <1>5. \A v \in Workers :
            /\ v = w => pc'[v] = "idle"
            /\ v # w => pc'[v] = pc[v] /\ arg'[v] = arg[v] /\ ptr'[v] = ptr[v]
      BY DEF CmdOpenFails, CmdSpawnFails, Return, TypeOK
    <1>6. IdsInv'
      BY <1>1, <1>2 DEF TableInv, IdsInv, UniqueIds
    <1>7. ProcInv'
      <2>1. ASSUME NEW i \in JobIds, Alive(i)
            PROVE  procSlot[i] \in Slots /\ procSlot[i] # ptr[w]
        <3>1. procSlot[i] \in Slots /\ g_jobs[procSlot[i]].id = i
          BY <2>1 DEF TableInv, ProcInv, TypeOK, Alive
        <3> QED BY <2>1, <1>4, <3>1 DEF Alive
      <2>2. ASSUME NEW i \in JobIds, Alive(i)'
            PROVE  /\ procSlot'[i] \notin g_port'
                   /\ g_jobs'[procSlot'[i]].in_use
                   /\ g_jobs'[procSlot'[i]].id = i
                   /\ g_jobs'[procSlot'[i]].state = "RUNNING"
        <3>1. Alive(i)
          BY <2>2, <1>1 DEF Alive
        <3>2. g_jobs'[procSlot'[i]] = g_jobs[procSlot[i]]
          BY <1>1, <1>2, <2>1, <3>1
        <3> QED BY <1>1, <3>1, <3>2 DEF TableInv, ProcInv
      <2> QED BY <2>2 DEF ProcInv
    <1>8. PortInv'
      BY <1>1, <1>2, <1>4 DEF TableInv, PortInv, TypeOK
    <1>9. StartInv'
      <2>1. ASSUME NEW v \in Workers, v # w, Starting(v)
            PROVE  ptr[v] \in Slots /\ ptr[v] # ptr[w]
        BY <2>1, <1>3, <1>4 DEF TableInv, StartInv, TypeOK, Starting
      <2>2. ASSUME NEW v \in Workers, Starting(v)'
            PROVE  /\ v # w /\ Starting(v)
                   /\ g_jobs'[ptr'[v]] = g_jobs[ptr[v]]
                   /\ arg'[v] = arg[v] /\ ptr'[v] = ptr[v]
        BY <2>1, <2>2, <1>2, <1>5 DEF Starting
      <2> QED
        BY <1>1, <2>2 DEF TableInv, StartInv
    <1>10. ExitedRecordIsTrue'
      BY <1>1, <1>2 DEF TableInv, ExitedRecordIsTrue
    <1> QED BY <1>6, <1>7, <1>8, <1>9, <1>10 DEF TableInv

(* SystemTags hands the claimed slot over to the new process.              *)
LEMMA SpawnKeepsTableInv ==
    ASSUME TypeOK, TableInv, NEW w \in Workers, CmdSpawn(w)
    PROVE  TableInv'
    <1>1. Starting(w) /\ arg[w] \in JobIds /\ ptr[w] \in Slots
      BY DEF CmdSpawn, Starting, TypeOK
    <1>2. /\ ptr[w] \notin g_port
          /\ g_jobs[ptr[w]].in_use
          /\ g_jobs[ptr[w]].id = arg[w]
          /\ g_jobs[ptr[w]].state = "RUNNING"
          /\ proc[arg[w]] = "none"
          /\ \A v \in Workers : Starting(v) /\ arg[v] = arg[w] => v = w
      BY <1>1 DEF TableInv, StartInv
    <1>3. /\ g_port' = g_port /\ g_next_id' = g_next_id /\ g_jobs' = g_jobs
          /\ exitCode' = exitCode /\ arg' = arg /\ ptr' = ptr
          /\ \A i \in JobIds :
               /\ i = arg[w] => proc'[i] = "created" /\ procSlot'[i] = ptr[w]
               /\ i # arg[w] => proc'[i] = proc[i] /\ procSlot'[i] = procSlot[i]
          /\ \A v \in Workers :
               /\ v = w => pc'[v] = "started"
               /\ v # w => pc'[v] = pc[v]
      BY <1>1 DEF CmdSpawn, tableVars, TypeOK
    <1>4. IdsInv'
      BY <1>1, <1>2, <1>3 DEF TableInv, IdsInv, UniqueIds
    <1>5. ProcInv'
      BY <1>1, <1>2, <1>3 DEF TableInv, ProcInv, Alive
    <1>6. PortInv'
      BY <1>1, <1>2, <1>3 DEF TableInv, PortInv, TypeOK
    <1>7. StartInv'
      <2>1. ASSUME NEW v \in Workers, Starting(v)'
            PROVE  Starting(v) /\ v # w /\ arg[v] # arg[w] /\ arg[v] \in JobIds
        BY <2>1, <1>2, <1>3 DEF Starting, TypeOK
      <2> QED BY <1>3, <2>1 DEF TableInv, StartInv
    <1>8. ExitedRecordIsTrue'
      BY <1>1, <1>2, <1>3 DEF TableInv, ExitedRecordIsTrue, TypeOK
    <1> QED BY <1>4, <1>5, <1>6, <1>7, <1>8 DEF TableInv

(* jobs_drop_output and job_entry change nothing the invariant speaks of.  *)
LEMMA DropKeepsTableInv ==
    ASSUME TypeOK, TableInv, NEW w \in Workers, CmdDrop(w)
    PROVE  TableInv'
    <1>1. /\ g_port' = g_port /\ g_next_id' = g_next_id
          /\ proc' = proc /\ procSlot' = procSlot /\ exitCode' = exitCode
      BY DEF CmdDrop, procVars
    <1>2. \A r \in Slots :
            /\ g_jobs'[r].in_use = g_jobs[r].in_use
            /\ g_jobs'[r].id = g_jobs[r].id
            /\ g_jobs'[r].state = g_jobs[r].state
            /\ g_jobs'[r].rc = g_jobs[r].rc
      BY DropTable
    <1>3. NoNewStart
      BY ReturnStartsNothing DEF CmdDrop
    <1>4. IdsInv' /\ ProcInv'
      BY <1>1, <1>2 DEF TableInv, IdsInv, UniqueIds, ProcInv, Alive, TypeOK
    <1>5. PortInv' /\ ExitedRecordIsTrue'
      BY <1>1, <1>2 DEF TableInv, PortInv, ExitedRecordIsTrue, TypeOK
    <1>6. StartInv'
      BY <1>1, <1>2, <1>3 DEF TableInv, NoNewStart, StartInv, Starting, TypeOK
    <1> QED BY <1>4, <1>5, <1>6 DEF TableInv

LEMMA EntryKeepsTableInv ==
    ASSUME TypeOK, TableInv, NEW i \in JobIds, job_entry(i)
    PROVE  TableInv'
    <1>1. /\ g_port' = g_port /\ g_next_id' = g_next_id
          /\ procSlot' = procSlot /\ exitCode' = exitCode
          /\ pc' = pc /\ arg' = arg /\ ptr' = ptr
          /\ proc[i] = "created" /\ proc'[i] = "running"
          /\ \A k \in JobIds : k # i => proc'[k] = proc[k]
      BY DEF job_entry, workerVars, TypeOK
    <1>2. \A r \in Slots :
            /\ g_jobs'[r].in_use = g_jobs[r].in_use
            /\ g_jobs'[r].id = g_jobs[r].id
            /\ g_jobs'[r].state = g_jobs[r].state
            /\ g_jobs'[r].rc = g_jobs[r].rc
      BY EntryTable
    <1>3. IdsInv' /\ ProcInv'
      BY <1>1, <1>2 DEF TableInv, IdsInv, UniqueIds, ProcInv, Alive, TypeOK
    <1>4. PortInv'
      BY <1>1, <1>2 DEF TableInv, PortInv, TypeOK
    <1>5. ExitedRecordIsTrue'
      BY <1>1, <1>2 DEF TableInv, ExitedRecordIsTrue, TypeOK
    <1>6. StartInv'
      BY <1>1, <1>2 DEF TableInv, StartInv, Starting, TypeOK
    <1> QED BY <1>3, <1>4, <1>5, <1>6 DEF TableInv

(* The end of a process moves its slot from "owned" to "on the port".      *)
LEMMA EndKeepsTableInv ==
    ASSUME TypeOK, TableInv, NEW i \in JobIds, ProcessEnds(i)
    PROVE  TableInv'
    <1>1. PICK rc \in ReturnCodes :
            /\ exitCode' = [exitCode EXCEPT ![i] = rc]
            /\ g_jobs' = [g_jobs EXCEPT ![procSlot[i]].rc = rc]
      BY DEF ProcessEnds
    <1>2. /\ g_port' = g_port \cup {procSlot[i]} /\ g_next_id' = g_next_id
          /\ procSlot' = procSlot
          /\ pc' = pc /\ arg' = arg /\ ptr' = ptr
          /\ proc[i] = "running" /\ proc'[i] = "dead"
          /\ \A k \in JobIds : k # i => proc'[k] = proc[k]
          /\ exitCode'[i] = rc
          /\ \A k \in JobIds : k # i => exitCode'[k] = exitCode[k]
      BY <1>1 DEF ProcessEnds, workerVars, TypeOK
    <1>3. /\ procSlot[i] \in Slots /\ procSlot[i] \notin g_port
          /\ g_jobs[procSlot[i]].in_use
          /\ g_jobs[procSlot[i]].id = i
          /\ g_jobs[procSlot[i]].state = "RUNNING"
      BY <1>2 DEF TableInv, ProcInv, Alive, TypeOK
    <1>4. \A r \in Slots :
            /\ g_jobs'[r].in_use = g_jobs[r].in_use
            /\ g_jobs'[r].id = g_jobs[r].id
            /\ g_jobs'[r].state = g_jobs[r].state
            /\ g_jobs'[r].rc = IF r = procSlot[i] THEN rc ELSE g_jobs[r].rc
      BY <1>1, <1>3, RcUpdate DEF TypeOK
    <1>5. IdsInv'
      BY <1>2, <1>4 DEF TableInv, IdsInv, UniqueIds
    <1>6. ProcInv'
      <2>1. ASSUME NEW k \in JobIds, Alive(k)'
            PROVE  /\ k # i /\ Alive(k)
                   /\ procSlot[k] \in Slots /\ procSlot[k] # procSlot[i]
        BY <2>1, <1>2, <1>3 DEF TableInv, ProcInv, Alive, TypeOK
      <2> QED BY <1>2, <1>4, <2>1 DEF TableInv, ProcInv
    <1>7. PortInv'
      <2>1. \A r \in g_port : r \in Slots /\ g_jobs[r].id \in JobIds
                                /\ g_jobs[r].id # i
        BY <1>2 DEF TableInv, PortInv, TypeOK
      <2> QED BY <1>2, <1>3, <1>4, <2>1 DEF TableInv, PortInv
    <1>8. StartInv'
      <2>1. ASSUME NEW v \in Workers, Starting(v)
            PROVE  /\ arg[v] # i /\ arg[v] \in JobIds
                   /\ ptr[v] # procSlot[i] /\ ptr[v] \in Slots
        BY <2>1, <1>2, <1>3 DEF TableInv, StartInv, Starting, TypeOK
      <2> QED BY <1>2, <1>4, <2>1 DEF TableInv, StartInv, Starting
    <1>9. ExitedRecordIsTrue'
      <2>1. ASSUME NEW r \in Slots, g_jobs'[r].in_use, g_jobs'[r].state = "EXITED"
            PROVE  /\ r # procSlot[i] /\ g_jobs[r].id \in JobIds
                   /\ g_jobs[r].id # i
                   /\ proc[g_jobs[r].id] = "dead"
                   /\ g_jobs[r].rc = exitCode[g_jobs[r].id]
        BY <2>1, <1>2, <1>3, <1>4 DEF TableInv, ExitedRecordIsTrue, TypeOK
      <2> QED BY <1>2, <1>4, <2>1 DEF ExitedRecordIsTrue
    <1> QED BY <1>5, <1>6, <1>7, <1>8, <1>9 DEF TableInv

LEMMA InitTableInv == Init => TableInv
    <1> SUFFICES ASSUME Init PROVE TableInv OBVIOUS
    <1>1. \A s \in Slots : ~g_jobs[s].in_use
      BY DEF Init, EmptyRecord
    <1> QED
      BY <1>1 DEF Init, TableInv, IdsInv, UniqueIds, ProcInv, Alive, PortInv,
                  StartInv, Starting, ExitedRecordIsTrue

(* Every step keeps the table invariant: handlers fall into those that     *)
(* drain, those that leave the table alone, and the six that do not.       *)
LEMMA NextTableInv == TypeOK /\ TableInv /\ [Next]_vars => TableInv'
    <1> SUFFICES ASSUME TypeOK, TableInv, [Next]_vars PROVE TableInv'
      OBVIOUS
    <1>1. ASSUME NEW w \in Workers, CmdClaim(w) PROVE TableInv'
      BY <1>1, ClaimKeepsTableInv
    <1>2. ASSUME NEW w \in Workers, CmdOpenFails(w) \/ CmdSpawnFails(w)
          PROVE TableInv'
      BY <1>2, UndoKeepsTableInv
    <1>3. ASSUME NEW w \in Workers, CmdSpawn(w) PROVE TableInv'
      BY <1>3, SpawnKeepsTableInv
    <1>4. ASSUME NEW w \in Workers, CmdDrop(w) PROVE TableInv'
      BY <1>4, DropKeepsTableInv
    <1>5. ASSUME NEW i \in JobIds, job_entry(i) PROVE TableInv'
      BY <1>5, EntryKeepsTableInv
    <1>6. ASSUME NEW i \in JobIds, ProcessEnds(i) PROVE TableInv'
      BY <1>6, EndKeepsTableInv
    <1>7. ASSUME NEW w \in Workers, CmdBusy(w) PROVE TableInv'
      <2>1. NoNewStart
        BY <1>7, ReturnStartsNothing DEF CmdBusy
      <2> QED BY <1>7, <2>1, DrainKeepsTableInv DEF CmdBusy, procVars
    <1>8. ASSUME NEW w \in Workers, CmdOpen(w) PROVE TableInv'
      <2>1. NoNewStart
        BY <1>8 DEF CmdOpen, NoNewStart, Starting, TypeOK
      <2> QED
        BY <1>8, <2>1, SkipKeepsTableInv DEF CmdOpen, tableVars, procVars
    <1>9. ASSUME NEW w \in Workers, CmdStarted(w) PROVE TableInv'
      <2>1. NoNewStart
        BY <1>9 DEF CmdStarted, NoNewStart, Starting, TypeOK
      <2> QED
        BY <1>9, <2>1, SkipKeepsTableInv DEF CmdStarted, tableVars, procVars
    <1>10. ASSUME NEW w \in Workers, CmdPoll(w) PROVE TableInv'
      <2>1. NoNewStart
        <3>1. CASE Return(w, ErrorReply)
          BY <3>1, ReturnStartsNothing
        <3>2. CASE ~Return(w, ErrorReply)
          BY <1>10, <3>2 DEF CmdPoll, NoNewStart, Starting, TypeOK
        <3> QED BY <3>1, <3>2
      <2> QED BY <1>10, <2>1, DrainKeepsTableInv DEF CmdPoll, procVars
    <1>11. ASSUME NEW w \in Workers, CmdRead(w) PROVE TableInv'
      <2>1. NoNewStart
        <3>1. CASE \E r : Return(w, r)
          BY <3>1, ReturnStartsNothing
        <3>2. CASE ~ \E r : Return(w, r)
          BY <1>11, <3>2 DEF CmdRead, NoNewStart, Starting, TypeOK
        <3> QED BY <3>1, <3>2
      <2> QED
        BY <1>11, <2>1, SkipKeepsTableInv DEF CmdRead, tableVars, procVars
    <1>12. ASSUME NEW w \in Workers, CmdReadDone(w) PROVE TableInv'
      <2>1. NoNewStart
        <3>1. CASE \E r : Return(w, r)
          BY <3>1, ReturnStartsNothing
        <3>2. CASE ~ \E r : Return(w, r)
          BY <1>12, <3>2 DEF CmdReadDone, NoNewStart, Starting, TypeOK
        <3> QED BY <3>1, <3>2
      <2> QED
        BY <1>12, <2>1, SkipKeepsTableInv DEF CmdReadDone, tableVars, procVars
    <1>13. ASSUME NEW w \in Workers, List(w) PROVE TableInv'
      <2>1. NoNewStart
        BY <1>13, ReturnStartsNothing DEF List
      <2> QED BY <1>13, <2>1, DrainKeepsTableInv DEF List, procVars
    <1>14. ASSUME NEW w \in Workers, NEW id \in KnownIds, Status(w, id)
           PROVE TableInv'
      <2>1. NoNewStart
        BY <1>14, ReturnStartsNothing DEF Status
      <2> QED BY <1>14, <2>1, DrainKeepsTableInv DEF Status, procVars
    <1>15. ASSUME NEW w \in Workers, NEW id \in KnownIds, Output(w, id)
           PROVE TableInv'
      <2>1. NoNewStart
        <3>1. CASE Return(w, ErrorReply)
          BY <3>1, ReturnStartsNothing
        <3>2. CASE ~Return(w, ErrorReply)
          BY <1>15, <3>2 DEF Output, NoNewStart, Starting, TypeOK
        <3> QED BY <3>1, <3>2
      <2> QED BY <1>15, <2>1, DrainKeepsTableInv DEF Output, procVars
    <1>16. ASSUME NEW w \in Workers, OutputRead(w) PROVE TableInv'
      <2>1. NoNewStart
        <3>1. CASE \E r : Return(w, r)
          BY <3>1, ReturnStartsNothing
        <3>2. CASE ~ \E r : Return(w, r)
          BY <1>16, <3>2 DEF OutputRead, NoNewStart, Starting, TypeOK
        <3> QED BY <3>1, <3>2
      <2> QED
        BY <1>16, <2>1, SkipKeepsTableInv DEF OutputRead, tableVars, procVars
    <1>17. ASSUME NEW w \in Workers, OutputReadDone(w) PROVE TableInv'
      <2>1. NoNewStart
        BY <1>17, ReturnStartsNothing DEF OutputReadDone
      <2> QED
        BY <1>17, <2>1, SkipKeepsTableInv
        DEF OutputReadDone, tableVars, procVars
    <1>18. ASSUME NEW w \in Workers, NEW id \in KnownIds, KillForce(w, id)
           PROVE TableInv'
      <2>1. NoNewStart
        <3>1. CASE Return(w, ErrorReply)
          BY <3>1, ReturnStartsNothing
        <3>2. CASE ~Return(w, ErrorReply)
          BY <1>18, <3>2 DEF KillForce, NoNewStart, Starting, TypeOK
        <3> QED BY <3>1, <3>2
      <2> QED BY <1>18, <2>1, DrainKeepsTableInv DEF KillForce, procVars
    <1>19. ASSUME NEW w \in Workers, NEW id \in KnownIds, Kill(w, id)
           PROVE TableInv'
      <2>1. NoNewStart
        BY <1>19 DEF Kill, NoNewStart, Starting, TypeOK
      <2> QED BY <1>19, <2>1, SkipKeepsTableInv DEF Kill, tableVars, procVars
    <1>20. ASSUME NEW w \in Workers, KillSignal(w) PROVE TableInv'
      <2>1. NoNewStart
        <3>1. CASE Return(w, ErrorReply)
          BY <3>1, ReturnStartsNothing
        <3>2. CASE ~Return(w, ErrorReply)
          BY <1>20, <3>2 DEF KillSignal, NoNewStart, Starting, TypeOK
        <3> QED BY <3>1, <3>2
      <2> QED BY <1>20, <2>1, DrainKeepsTableInv DEF KillSignal, procVars
    <1>21. ASSUME NEW w \in Workers, KillPoll(w) PROVE TableInv'
      <2>1. NoNewStart
        <3>1. CASE \E r : Return(w, r)
          BY <3>1, ReturnStartsNothing
        <3>2. CASE ~ \E r : Return(w, r)
          BY <1>21, <3>2 DEF KillPoll, NoNewStart, Starting, TypeOK
        <3> QED BY <3>1, <3>2
      <2> QED BY <1>21, <2>1, DrainKeepsTableInv DEF KillPoll, procVars
    <1>22. CASE ShutdownCount
      <2>1. NoNewStart
        BY <1>22 DEF ShutdownCount, workerVars, NoNewStart, Starting
      <2> QED BY <1>22, <2>1, DrainKeepsTableInv DEF ShutdownCount, procVars
    <1>23. CASE ShutdownSignal
      <2>1. NoNewStart
        BY <1>23 DEF ShutdownSignal, workerVars, NoNewStart, Starting
      <2>2. CASE Drain
        BY <1>23, <2>1, <2>2, DrainKeepsTableInv DEF ShutdownSignal, procVars
      <2>3. CASE ~Drain
        BY <1>23, <2>1, <2>3, SkipKeepsTableInv
        DEF ShutdownSignal, tableVars, procVars
      <2> QED BY <2>2, <2>3
    <1>24. CASE Break \/ ShutdownDelete \/ ShutdownFree \/ UNCHANGED vars
      <2>1. UNCHANGED <<g_jobs, g_port, g_next_id, proc, procSlot, exitCode,
                        pc, arg, ptr>>
        BY <1>24 DEF Break, ShutdownDelete, ShutdownFree, vars, tableVars,
                     procVars, workerVars
      <2>2. NoNewStart
        BY <2>1 DEF NoNewStart, Starting
      <2> QED BY <2>1, <2>2, SkipKeepsTableInv
    <1> QED
      BY <1>1, <1>2, <1>3, <1>4, <1>5, <1>6, <1>7, <1>8, <1>9, <1>10, <1>11,
         <1>12, <1>13, <1>14, <1>15, <1>16, <1>17, <1>18, <1>19, <1>20, <1>21,
         <1>22, <1>23, <1>24
      DEF Next, WorkerNext, ProcessNext, ShutdownNext

(* A slot stays with its process from the claim until the death message    *)
(* has been collected: neither job_entry nor DOS ever writes into the      *)
(* record of another job (jobs.c).                                         *)
THEOREM SlotOwnership == Spec => []SlotStaysWithProcess
    <1>1. Init => TypeOK /\ TableInv
      BY InitType, InitTableInv
    <1>2. TypeOK /\ TableInv /\ [Next]_vars => (TypeOK /\ TableInv)'
      BY NextType, NextTableInv
    <1>3. TypeOK /\ TableInv => SlotStaysWithProcess
      BY DEF TableInv, ProcInv, PortInv, SlotStaysWithProcess, Alive
    <1> QED BY <1>1, <1>2, <1>3, PTL DEF Spec

(* JOB_EXITED means dead, and the recorded return code is the job's own    *)
(* (jobs.h: "death message received; rc valid").                           *)
THEOREM ExitedIsTrue == Spec => []ExitedRecordIsTrue
    <1>1. Init => TypeOK /\ TableInv
      BY InitType, InitTableInv
    <1>2. TypeOK /\ TableInv /\ [Next]_vars => (TypeOK /\ TableInv)'
      BY NextType, NextTableInv
    <1>3. TableInv => ExitedRecordIsTrue
      BY DEF TableInv
    <1> QED BY <1>1, <1>2, <1>3, PTL DEF Spec

-----------------------------------------------------------------------------
(* What handlers remember and answer.                                      *)

(* The control points at which a handler still holds a copied-out info.    *)
Remembering == {"cmd_read", "cmd_reading", "cmd_drop", "out_read",
                "out_reading"}

(* What is claimed of job i is so: if it exited, it is dead and that was   *)
(* its return code.                                                        *)
KnowsTrue(i, info) ==
    info.state = "EXITED" => proc[i] = "dead" /\ info.rc = exitCode[i]

SaysTrue(r) ==
    r.kind = "result" =>
        /\ r.id \in JobIds
        /\ r.state = "EXITED" => proc[r.id] = "dead" /\ r.rc = exitCode[r.id]

(* Every worker keeps its last reply or gives a true one, and keeps what   *)
(* it remembers, forgets it, or learns something true.                     *)
WorkersHonest ==
    \A v \in Workers :
        /\ reply'[v] = reply[v] \/ SaysTrue(reply'[v])
        /\ \/ ji'[v].state # "EXITED"
           \/ /\ pc'[v] \in Remembering
              /\ arg'[v] \in JobIds
              /\ KnowsTrue(arg'[v], ji'[v])

(* A dead process stays dead, with the code it ended with.                 *)
LEMMA DeadStays ==
    ASSUME TypeOK, TableInv, [Next]_vars
    PROVE  \A i \in JobIds : proc[i] = "dead" =>
             proc'[i] = "dead" /\ exitCode'[i] = exitCode[i]
    <1>1. ASSUME NEW w \in Workers, CmdSpawn(w)
          PROVE  \A i \in JobIds : proc[i] = "dead" =>
                   proc'[i] = "dead" /\ exitCode'[i] = exitCode[i]
      <2>1. arg[w] \in JobIds /\ proc[arg[w]] = "none"
        BY <1>1 DEF CmdSpawn, TypeOK, TableInv, StartInv, Starting
      <2> QED BY <1>1, <2>1 DEF CmdSpawn, TypeOK
    <1>2. ASSUME NEW k \in JobIds, job_entry(k) \/ ProcessEnds(k)
          PROVE  \A i \in JobIds : proc[i] = "dead" =>
                   proc'[i] = "dead" /\ exitCode'[i] = exitCode[i]
      BY <1>2 DEF job_entry, ProcessEnds, TypeOK
    <1>3. CASE UNCHANGED procVars
      BY <1>3 DEF procVars
    <1>4. \/ \E w \in Workers : CmdSpawn(w)
          \/ \E k \in JobIds : job_entry(k) \/ ProcessEnds(k)
          \/ UNCHANGED procVars
      <2>1. ASSUME NEW w \in Workers, WorkerNext(w)
            PROVE  CmdSpawn(w) \/ UNCHANGED procVars
        BY <2>1 DEF WorkerNext, CmdClaim, CmdBusy, CmdOpen, CmdOpenFails, CmdSpawnFails,
             CmdStarted, CmdPoll, CmdRead, CmdReadDone, CmdDrop, List, Status,
             Output, Kill, KillForce, OutputRead, OutputReadDone, KillSignal, KillPoll
      <2>2. ASSUME ShutdownNext PROVE UNCHANGED procVars
        BY <2>2 DEF ShutdownNext, Break, ShutdownCount, ShutdownSignal, ShutdownDelete,
             ShutdownFree
      <2>3. UNCHANGED vars => UNCHANGED procVars
        BY DEF vars, procVars
      <2> QED BY <2>1, <2>2, <2>3 DEF Next, ProcessNext
    <1> QED BY <1>1, <1>2, <1>3, <1>4

(* jobs_get copies out something true.                                     *)
LEMMA DrainedIsTrue ==
    ASSUME TypeOK, TableInv, NEW s \in Slots, Drained[s].in_use
    PROVE  /\ Drained[s].id \in JobIds
           /\ KnowsTrue(Drained[s].id, FillInfo(Drained, s))
           /\ FillInfo(Drained, s) \in JobInfo
    <1>1. g_jobs[s].in_use /\ g_jobs[s].id \in JobIds
      BY DrainedType DEF TypeOK
    <1>2. /\ s \in g_port => /\ proc[g_jobs[s].id] = "dead"
                             /\ g_jobs[s].rc = exitCode[g_jobs[s].id]
          /\ g_jobs[s].state = "EXITED" =>
                             /\ proc[g_jobs[s].id] = "dead"
                             /\ g_jobs[s].rc = exitCode[g_jobs[s].id]
      BY <1>1 DEF TableInv, PortInv, ExitedRecordIsTrue
    <1> QED BY <1>1, <1>2, DrainedType, FillInfoType DEF FillInfo, KnowsTrue

(* A reply built from something true is true.                              *)
LEMMA ResultIsTrue ==
    ASSUME NEW m, NEW i \in JobIds, NEW info \in JobInfo, NEW o,
           KnowsTrue(i, info)
    PROVE  SaysTrue(ResultReply(m, i, info, o))
    BY DEF KnowsTrue, SaysTrue, ResultReply

LEMMA PlainReplies == SaysTrue(ErrorReply) /\ SaysTrue(NoReply)
    BY DEF SaysTrue, ErrorReply, NoReply

(* What a worker remembers, when it remembers an exit, is true.            *)
LEMMA RememberedIsTrue ==
    ASSUME TypeOK, InfoInv, NEW w \in Workers, pc[w] # "idle"
    PROVE  /\ arg[w] \in JobIds /\ ji[w] \in JobInfo
           /\ KnowsTrue(arg[w], ji[w])
    BY DEF TypeOK, InfoInv, KnowsTrue

(* The workers a step does not concern stay honest.                        *)
LEMMA OthersHonest ==
    ASSUME TypeOK, InfoInv, NEW v \in Workers,
           ji'[v] = ji[v], arg'[v] = arg[v], pc'[v] = pc[v]
    PROVE  \/ ji'[v].state # "EXITED"
           \/ /\ pc'[v] \in Remembering
              /\ arg'[v] \in JobIds
              /\ KnowsTrue(arg'[v], ji'[v])
    BY DEF TypeOK, InfoInv, KnowsTrue, Remembering

LEMMA ReturnIsHonest ==
    ASSUME TypeOK, InfoInv, NEW w \in Workers, NEW r, Return(w, r),
           r = reply[w] \/ SaysTrue(r)
    PROVE  WorkersHonest
    <1>1. ASSUME NEW v \in Workers, v # w
          PROVE  /\ ji'[v] = ji[v] /\ arg'[v] = arg[v] /\ pc'[v] = pc[v]
                 /\ reply'[v] = reply[v]
      BY <1>1 DEF Return, TypeOK
    <1>2. ji'[w] = NoInfo /\ reply'[w] = r
      BY DEF Return, TypeOK
    <1> QED BY <1>1, <1>2, OthersHonest DEF WorkersHonest, NoInfo

(* A step that leaves the workers alone.                                   *)
LEMMA IdleIsHonest ==
    ASSUME TypeOK, InfoInv, UNCHANGED workerVars
    PROVE  WorkersHonest
    BY OthersHonest DEF WorkersHonest, workerVars

(* Every handler step is honest.                                           *)
LEMMA StepIsHonest ==
    ASSUME TypeOK, TableInv, InfoInv, [Next]_vars
    PROVE  WorkersHonest
    <1>a. SaysTrue(ErrorReply) /\ SaysTrue(NoReply)
      BY PlainReplies
    <1>b. \A id, s : s \in Find(Drained, id) =>
            /\ id \in JobIds
            /\ KnowsTrue(id, FillInfo(Drained, s))
            /\ FillInfo(Drained, s) \in JobInfo
      BY DrainedIsTrue DEF Find
    <1>c. \A w \in Workers : pc[w] # "idle" =>
            /\ arg[w] \in JobIds /\ ji[w] \in JobInfo
            /\ KnowsTrue(arg[w], ji[w])
      BY RememberedIsTrue
    <1>1. ASSUME NEW w \in Workers, CmdClaim(w) PROVE WorkersHonest
      <2>1. PICK s, ret : TakeSlot(w, s, ret)
        BY <1>1 DEF CmdClaim
      <2>2. ji' = ji /\ pc[w] = "idle"
        BY <1>1 DEF CmdClaim
      <2>3. ji'[w].state # "EXITED" /\ reply'[w] = NoReply
        BY <2>1, <2>2 DEF TakeSlot, InfoInv, TypeOK
      <2>4. \A v \in Workers : v # w =>
              /\ ji'[v] = ji[v] /\ arg'[v] = arg[v] /\ pc'[v] = pc[v]
              /\ reply'[v] = reply[v]
        BY <2>1, <2>2 DEF TakeSlot, TypeOK
      <2> QED BY <1>a, <2>3, <2>4, OthersHonest DEF WorkersHonest
    <1>2. ASSUME NEW w \in Workers,
                 CmdBusy(w) \/ CmdOpenFails(w) \/ CmdSpawnFails(w)
          PROVE  WorkersHonest
      BY <1>2, <1>a, ReturnIsHonest DEF CmdBusy, CmdOpenFails, CmdSpawnFails
    <1>3. ASSUME NEW w \in Workers, CmdOpen(w) \/ CmdSpawn(w) \/ CmdStarted(w)
          PROVE  WorkersHonest
      <2>1. ji' = ji /\ arg' = arg /\ reply' = reply
        BY <1>3 DEF CmdOpen, CmdSpawn, CmdStarted
      <2>2. pc[w] \in {"open", "spawn", "started"}
        BY <1>3 DEF CmdOpen, CmdSpawn, CmdStarted
      <2>3. ji[w].state # "EXITED"
        BY <2>2 DEF InfoInv
      <2>4. \A v \in Workers : v # w => pc'[v] = pc[v]
        BY <1>3 DEF CmdOpen, CmdSpawn, CmdStarted, TypeOK
      <2> QED BY <2>1, <2>3, <2>4, OthersHonest DEF WorkersHonest
    <1>4. ASSUME NEW w \in Workers, CmdPoll(w) PROVE WorkersHonest
      <2>1. CASE Return(w, ErrorReply)
        BY <2>1, <1>a, ReturnIsHonest
      <2>2. CASE ~Return(w, ErrorReply)
        <3>1. PICK s \in Find(Drained, arg[w]) :
                 \/ /\ pc' = [pc EXCEPT ![w] = "cmd_read"]
                    /\ ji' = [ji EXCEPT ![w] = FillInfo(Drained, s)]
                    /\ UNCHANGED <<arg, ptr, opt, waited, reply>>
                 \/ UNCHANGED <<pc, arg, ptr, ji, opt, reply>>
          BY <1>4, <2>2 DEF CmdPoll
        <3>2. KnowsTrue(arg[w], FillInfo(Drained, s)) /\ arg[w] \in JobIds
          BY <1>b
        <3>3. \A v \in Workers : v # w =>
                /\ ji'[v] = ji[v] /\ arg'[v] = arg[v] /\ pc'[v] = pc[v]
          BY <3>1 DEF TypeOK
        <3>4. CASE UNCHANGED <<pc, arg, ptr, ji, opt, reply>>
          BY <3>4, OthersHonest DEF WorkersHonest
        <3>5. CASE /\ pc' = [pc EXCEPT ![w] = "cmd_read"]
                   /\ ji' = [ji EXCEPT ![w] = FillInfo(Drained, s)]
                   /\ UNCHANGED <<arg, ptr, opt, waited, reply>>
          <4>1. pc'[w] \in Remembering /\ ji'[w] = FillInfo(Drained, s)
            BY <3>5 DEF TypeOK, Remembering
          <4> QED BY <3>2, <3>3, <3>5, <4>1, OthersHonest DEF WorkersHonest
        <3> QED BY <3>1, <3>4, <3>5
      <2> QED BY <2>1, <2>2
    <1>5. ASSUME NEW w \in Workers, CmdRead(w) PROVE WorkersHonest
      <2>1. SaysTrue(ResultReply("cmd", arg[w], ji[w], "missing"))
        BY <1>5, <1>c, ResultIsTrue DEF CmdRead
      <2>2. CASE Return(w, ResultReply("cmd", arg[w], ji[w], "missing"))
        BY <2>1, <2>2, ReturnIsHonest
      <2>3. CASE ~Return(w, ResultReply("cmd", arg[w], ji[w], "missing"))
        <3>1. /\ ji' = ji /\ arg' = arg
              /\ pc' = [pc EXCEPT ![w] = "cmd_reading"]
                   \/ pc' = [pc EXCEPT ![w] = "cmd_drop"]
              /\ \/ reply' = reply
                 \/ reply' = [reply EXCEPT ![w] =
                                ResultReply("cmd", arg[w], ji[w], "missing")]
          BY <1>5, <2>3 DEF CmdRead
        <3>2. pc'[w] \in Remembering /\ \A v \in Workers : v # w =>
                 pc'[v] = pc[v] /\ reply'[v] = reply[v]
          BY <3>1 DEF TypeOK, Remembering
        <3>3. /\ arg[w] \in JobIds /\ KnowsTrue(arg[w], ji[w])
              /\ reply'[w] = reply[w] \/ SaysTrue(reply'[w])
          BY <1>5, <1>c, <2>1, <3>1 DEF CmdRead, TypeOK
        <3> QED BY <3>1, <3>2, <3>3, OthersHonest DEF WorkersHonest
      <2> QED BY <2>2, <2>3
    <1>6. ASSUME NEW w \in Workers, CmdReadDone(w) PROVE WorkersHonest
      <2> DEFINE r == ResultReply("cmd", arg[w], ji[w], ReadOutput(arg[w]))
      <2>1. SaysTrue(r)
        BY <1>6, <1>c, ResultIsTrue DEF CmdReadDone
      <2>2. CASE Return(w, r) \/ Return(w, ErrorReply)
        BY <1>a, <2>1, <2>2, ReturnIsHonest
      <2>3. CASE ~(Return(w, r) \/ Return(w, ErrorReply))
        <3>1. /\ ji' = ji /\ arg' = arg
              /\ pc' = [pc EXCEPT ![w] = "cmd_drop"]
              /\ reply' = [reply EXCEPT ![w] = r]
          BY <1>6, <2>3 DEF CmdReadDone
        <3>2. pc'[w] \in Remembering /\ \A v \in Workers : v # w =>
                 pc'[v] = pc[v] /\ reply'[v] = reply[v]
          BY <3>1 DEF TypeOK, Remembering
        <3>3. /\ arg[w] \in JobIds /\ KnowsTrue(arg[w], ji[w])
              /\ SaysTrue(reply'[w])
          BY <1>6, <1>c, <2>1, <3>1 DEF CmdReadDone, TypeOK
        <3> QED BY <3>1, <3>2, <3>3, OthersHonest DEF WorkersHonest
      <2> QED BY <2>2, <2>3
    <1>7. ASSUME NEW w \in Workers, CmdDrop(w) PROVE WorkersHonest
      BY <1>7, ReturnIsHonest DEF CmdDrop
    <1>8. ASSUME NEW w \in Workers, List(w) PROVE WorkersHonest
      <2>1. PICK s \in Slots :
              /\ Drained[s].in_use
              /\ Return(w, ResultReply("info", Drained[s].id,
                                       FillInfo(Drained, s), "na"))
        BY <1>8 DEF List
      <2>2. SaysTrue(ResultReply("info", Drained[s].id, FillInfo(Drained, s),
                                 "na"))
        BY <2>1, DrainedIsTrue, ResultIsTrue
      <2> QED BY <2>1, <2>2, ReturnIsHonest
    <1>9. ASSUME NEW w \in Workers, NEW id \in KnownIds, Status(w, id)
          PROVE  WorkersHonest
      <2>1. \A s \in Find(Drained, id) :
              SaysTrue(ResultReply("info", id, FillInfo(Drained, s), "na"))
        BY <1>b, ResultIsTrue
      <2>2. PICK r : Return(w, r) /\ SaysTrue(r)
        BY <1>9, <1>a, <2>1 DEF Status
      <2> QED BY <2>2, ReturnIsHonest
    <1>10. ASSUME NEW w \in Workers, NEW id \in KnownIds, Output(w, id)
           PROVE  WorkersHonest
      <2>1. CASE Return(w, ErrorReply)
        BY <2>1, <1>a, ReturnIsHonest
      <2>2. CASE ~Return(w, ErrorReply)
        <3>1. PICK s \in Find(Drained, id) :
                 /\ pc' = [pc EXCEPT ![w] = "out_read"]
                 /\ arg' = [arg EXCEPT ![w] = id]
                 /\ ji' = [ji EXCEPT ![w] = FillInfo(Drained, s)]
                 /\ reply' = [reply EXCEPT ![w] = NoReply]
          BY <1>10, <2>2 DEF Output
        <3>2. /\ pc'[w] \in Remembering /\ arg'[w] = id
              /\ ji'[w] = FillInfo(Drained, s) /\ reply'[w] = NoReply
              /\ \A v \in Workers : v # w =>
                   /\ ji'[v] = ji[v] /\ arg'[v] = arg[v] /\ pc'[v] = pc[v]
                   /\ reply'[v] = reply[v]
          BY <3>1 DEF TypeOK, Remembering
        <3> QED BY <1>a, <1>b, <3>2, OthersHonest DEF WorkersHonest
      <2> QED BY <2>1, <2>2
    <1>11. ASSUME NEW w \in Workers, OutputRead(w) PROVE WorkersHonest
      <2>1. SaysTrue(ResultReply("output", arg[w], ji[w], "missing"))
        BY <1>11, <1>c, ResultIsTrue DEF OutputRead
      <2>2. CASE Return(w, ResultReply("output", arg[w], ji[w], "missing"))
        BY <2>1, <2>2, ReturnIsHonest
      <2>3. CASE ~Return(w, ResultReply("output", arg[w], ji[w], "missing"))
        <3>1. /\ ji' = ji /\ arg' = arg /\ reply' = reply
              /\ pc' = [pc EXCEPT ![w] = "out_reading"]
          BY <1>11, <2>3 DEF OutputRead
        <3>2. /\ pc'[w] \in Remembering
              /\ \A v \in Workers : v # w => pc'[v] = pc[v]
          BY <3>1 DEF TypeOK, Remembering
        <3>3. arg[w] \in JobIds /\ KnowsTrue(arg[w], ji[w])
          BY <1>11, <1>c DEF OutputRead
        <3> QED BY <3>1, <3>2, <3>3, OthersHonest DEF WorkersHonest
      <2> QED BY <2>2, <2>3
    <1>12. ASSUME NEW w \in Workers, OutputReadDone(w) PROVE WorkersHonest
      <2>1. SaysTrue(ResultReply("output", arg[w], ji[w], ReadOutput(arg[w])))
        BY <1>12, <1>c, ResultIsTrue DEF OutputReadDone
      <2> QED BY <1>12, <1>a, <2>1, ReturnIsHonest DEF OutputReadDone
    <1>13. ASSUME NEW w \in Workers, NEW id \in KnownIds,
                  Kill(w, id) \/ KillForce(w, id)
           PROVE  WorkersHonest
      <2>1. CASE Return(w, ErrorReply)
        BY <2>1, <1>a, ReturnIsHonest
      <2>2. CASE ~Return(w, ErrorReply)
        <3>1. /\ pc[w] = "idle" /\ ji' = ji
              /\ pc' = [pc EXCEPT ![w] = "signal"]
              /\ arg' = [arg EXCEPT ![w] = id]
              /\ reply' = [reply EXCEPT ![w] = NoReply]
          BY <1>13, <2>2 DEF Kill, KillForce
        <3>2. ji'[w].state # "EXITED" /\ reply'[w] = NoReply
          BY <3>1 DEF InfoInv, TypeOK
        <3>3. \A v \in Workers : v # w =>
                /\ arg'[v] = arg[v] /\ pc'[v] = pc[v]
                /\ reply'[v] = reply[v]
          BY <3>1 DEF TypeOK
        <3> QED BY <1>a, <3>1, <3>2, <3>3, OthersHonest DEF WorkersHonest
      <2> QED BY <2>1, <2>2
    <1>14. ASSUME NEW w \in Workers, KillSignal(w) PROVE WorkersHonest
      <2>1. CASE Return(w, ErrorReply)
        BY <2>1, <1>a, ReturnIsHonest
      <2>2. CASE ~Return(w, ErrorReply)
        <3>1. /\ pc[w] = "signal" /\ ji' = ji /\ arg' = arg /\ reply' = reply
              /\ pc' = [pc EXCEPT ![w] = "kill_poll"]
          BY <1>14, <2>2 DEF KillSignal
        <3>2. ji'[w].state # "EXITED"
          BY <3>1 DEF InfoInv
        <3>3. \A v \in Workers : v # w => pc'[v] = pc[v]
          BY <3>1 DEF TypeOK
        <3> QED BY <3>1, <3>2, <3>3, OthersHonest DEF WorkersHonest
      <2> QED BY <2>1, <2>2
    <1>15. ASSUME NEW w \in Workers, KillPoll(w) PROVE WorkersHonest
      <2>1. \A s \in Find(Drained, arg[w]) :
              SaysTrue(ResultReply("info", arg[w], FillInfo(Drained, s), "na"))
        BY <1>b, ResultIsTrue
      <2>2. CASE \E r : Return(w, r) /\ SaysTrue(r)
        BY <2>2, ReturnIsHonest
      <2>3. CASE ~ \E r : Return(w, r) /\ SaysTrue(r)
        <3>1. UNCHANGED <<pc, arg, ji, reply>>
          BY <1>15, <1>a, <2>1, <2>3 DEF KillPoll
        <3> QED BY <3>1, OthersHonest DEF WorkersHonest
      <2> QED BY <2>2, <2>3
    <1>16. CASE UNCHANGED workerVars
      BY <1>16, IdleIsHonest
    <1>17. ASSUME NEW i \in JobIds, ProcessNext(i) PROVE UNCHANGED workerVars
      BY <1>17 DEF ProcessNext, job_entry, ProcessEnds
    <1>18. ASSUME ShutdownNext \/ UNCHANGED vars PROVE UNCHANGED workerVars
      BY <1>18 DEF ShutdownNext, Break, ShutdownCount, ShutdownSignal,
                   ShutdownDelete, ShutdownFree, vars
    <1> QED
      BY <1>1, <1>2, <1>3, <1>4, <1>5, <1>6, <1>7, <1>8, <1>9, <1>10, <1>11,
         <1>12, <1>13, <1>14, <1>15, <1>16, <1>17, <1>18
      DEF Next, WorkerNext

LEMMA NextInfoInv ==
    ASSUME TypeOK, TableInv, InfoInv, RepliesAreTrue, [Next]_vars
    PROVE  InfoInv' /\ RepliesAreTrue'
    <1>1. WorkersHonest
      BY StepIsHonest
    <1>2. \A i \in JobIds : proc[i] = "dead" =>
             proc'[i] = "dead" /\ exitCode'[i] = exitCode[i]
      BY DeadStays
    <1>3. \A w \in Workers : SaysTrue(reply[w])
      BY DEF InfoInv, RepliesAreTrue, SaysTrue
    <1>4. \A w \in Workers : SaysTrue(reply'[w])
      BY <1>1, <1>3 DEF WorkersHonest
    <1>5. RepliesAreTrue'
      BY <1>2, <1>4 DEF SaysTrue, RepliesAreTrue
    <1>6. InfoInv'
      BY <1>1, <1>2, <1>4
      DEF WorkersHonest, SaysTrue, KnowsTrue, Remembering, InfoInv
    <1> QED BY <1>5, <1>6

LEMMA InitInfoInv == Init => InfoInv /\ RepliesAreTrue
    BY DEF Init, InfoInv, RepliesAreTrue, NoInfo, NoReply

-----------------------------------------------------------------------------
(* Shutdown and the output files.                                          *)

(* A handler step that changes no file and no process, starts nothing, and *)
(* does no more to the table than collect death messages.                  *)
QuietStep ==
    /\ UNCHANGED <<proc, procSlot, exitCode, files, refused, sd, counted>>
    /\ Drain \/ UNCHANGED <<g_jobs, g_port, g_next_id>>
    /\ \A v \in Workers : pc'[v] \in {"open", "spawn"} =>
          pc'[v] = pc[v] /\ arg'[v] = arg[v]

QuietHandler(w) ==
    \/ CmdBusy(w) \/ CmdStarted(w) \/ CmdPoll(w) \/ CmdRead(w)
    \/ CmdReadDone(w) \/ List(w)
    \/ \E id \in KnownIds : \/ Status(w, id) \/ Output(w, id)
                            \/ Kill(w, id) \/ KillForce(w, id)
    \/ OutputRead(w) \/ OutputReadDone(w) \/ KillSignal(w) \/ KillPoll(w)

LEMMA ReturnIsQuiet ==
    ASSUME TypeOK, NEW w \in Workers, NEW r, Return(w, r)
    PROVE  \A v \in Workers : pc'[v] \in {"open", "spawn"} =>
             pc'[v] = pc[v] /\ arg'[v] = arg[v]
    BY DEF TypeOK, Return

LEMMA QuietHandlers ==
    ASSUME TypeOK, NEW w \in Workers, QuietHandler(w)
    PROVE  QuietStep
    <1>1. UNCHANGED <<proc, procSlot, exitCode, files, refused, sd, counted>>
      BY DEF QuietHandler, CmdBusy, CmdStarted, CmdPoll, CmdRead, CmdReadDone,
             List, Status, Output, Kill, KillForce, OutputRead, OutputReadDone,
             KillSignal, KillPoll, procVars, fileVars, mainVars
    <1>2. Drain \/ UNCHANGED <<g_jobs, g_port, g_next_id>>
      BY DEF QuietHandler, CmdBusy, CmdStarted, CmdPoll, CmdRead, CmdReadDone,
             List, Status, Output, Kill, KillForce, OutputRead, OutputReadDone,
             KillSignal, KillPoll, tableVars
    <1>3. CASE \E r : Return(w, r)
      BY <1>1, <1>2, <1>3, ReturnIsQuiet DEF QuietStep
    <1>4. CASE ~ \E r : Return(w, r)
      <2>1. \/ UNCHANGED pc /\ UNCHANGED arg
            \/ /\ \E p \in PCs : /\ p \notin {"open", "spawn"}
                                 /\ pc' = [pc EXCEPT ![w] = p]
               /\ UNCHANGED arg \/ \E i : arg' = [arg EXCEPT ![w] = i]
        BY <1>4
        DEF QuietHandler, CmdBusy, CmdStarted, CmdPoll, CmdRead, CmdReadDone,
            List, Status, Output, Kill, KillForce, OutputRead, OutputReadDone,
            KillSignal, KillPoll, PCs
      <2>2. \A v \in Workers : pc'[v] \in {"open", "spawn"} =>
              pc'[v] = pc[v] /\ arg'[v] = arg[v]
        BY <2>1 DEF TypeOK
      <2> QED BY <1>1, <1>2, <2>2 DEF QuietStep
    <1> QED BY <1>3, <1>4

(* Every step is one of those or one of the few that are looked at below.  *)
LEMMA StepKinds ==
    ASSUME TypeOK, [Next]_vars
    PROVE  \/ QuietStep
           \/ \E w \in Workers :
                 \/ CmdClaim(w) \/ CmdOpen(w) \/ CmdOpenFails(w)
                 \/ CmdSpawn(w) \/ CmdSpawnFails(w) \/ CmdDrop(w)
           \/ \E i \in JobIds : job_entry(i) \/ ProcessEnds(i)
           \/ ShutdownNext
    <1>1. CASE UNCHANGED vars
      BY <1>1 DEF vars, tableVars, procVars, fileVars, workerVars, mainVars,
                  QuietStep
    <1> QED
      BY <1>1, QuietHandlers DEF Next, WorkerNext, ProcessNext, QuietHandler

(* Once no running job was counted, only younger jobs can be alive.        *)
LEMMA NextLateInv ==
    ASSUME TypeOK, TableInv, LateInv, [Next]_vars
    PROVE  LateInv'
    <1> USE JobTableAssumption
    <1>1. CASE QuietStep
      <2>1. /\ g_next_id' = g_next_id /\ proc' = proc /\ sd' = sd
            /\ counted' = counted
        BY <1>1 DEF QuietStep, Drain
      <2> QED BY <1>1, <2>1 DEF QuietStep, LateInv, Alive, Starting
    <1>2. ASSUME NEW w \in Workers, CmdClaim(w) PROVE LateInv'
      <2>1. PICK s, ret : TakeSlot(w, s, ret)
        BY <1>2 DEF CmdClaim
      <2>2. /\ g_next_id' = g_next_id + 1 /\ proc' = proc
            /\ sd' = sd /\ counted' = counted
            /\ g_next_id \in Nat /\ counted \in Nat
        BY <1>2, <2>1 DEF CmdClaim, TakeSlot, procVars, mainVars, TypeOK
      <2>3. \A v \in Workers : /\ v = w => arg'[v] = g_next_id
                               /\ v # w => pc'[v] = pc[v] /\ arg'[v] = arg[v]
        BY <2>1 DEF TakeSlot, TypeOK
      <2> QED BY <2>2, <2>3 DEF LateInv, Alive, Starting
    <1>3. ASSUME NEW w \in Workers,
                 CmdOpen(w) \/ CmdOpenFails(w) \/ CmdSpawnFails(w) \/ CmdDrop(w)
          PROVE  LateInv'
      <2>1. /\ g_next_id' = g_next_id /\ proc' = proc
            /\ sd' = sd /\ counted' = counted
        BY <1>3 DEF CmdOpen, CmdOpenFails, CmdSpawnFails, CmdDrop, tableVars,
                    procVars, mainVars
      <2>2. \A v \in Workers : pc'[v] \in {"open", "spawn"} =>
              Starting(v) /\ arg'[v] = arg[v]
        <3>1. CASE CmdOpen(w)
          BY <3>1 DEF CmdOpen, TypeOK, Starting
        <3>2. CASE \E r : Return(w, r)
          BY <3>2, ReturnIsQuiet DEF Starting
        <3> QED BY <1>3, <3>1, <3>2 DEF CmdOpenFails, CmdSpawnFails, CmdDrop
      <2> QED BY <2>1, <2>2 DEF LateInv, Alive, Starting
    <1>4. ASSUME NEW w \in Workers, CmdSpawn(w) PROVE LateInv'
      <2>1. /\ g_next_id' = g_next_id /\ arg' = arg
            /\ sd' = sd /\ counted' = counted
            /\ \A i \in JobIds : i # arg[w] => proc'[i] = proc[i]
            /\ \A v \in Workers : v # w => pc'[v] = pc[v]
            /\ Starting(w) /\ pc'[w] = "started"
        BY <1>4 DEF CmdSpawn, tableVars, mainVars, TypeOK, Starting
      <2> QED BY <2>1 DEF LateInv, Alive, Starting
    <1>5. ASSUME NEW i \in JobIds, job_entry(i) \/ ProcessEnds(i)
          PROVE  LateInv'
      <2>1. /\ g_next_id' = g_next_id /\ pc' = pc /\ arg' = arg
            /\ sd' = sd /\ counted' = counted
            /\ \A k \in JobIds : k # i => proc'[k] = proc[k]
            /\ Alive(i)
        BY <1>5 DEF job_entry, ProcessEnds, workerVars, mainVars, TypeOK, Alive
      <2> QED BY <2>1 DEF LateInv, Alive, Starting
    <1>6. CASE ShutdownCount
      <2>1. /\ g_next_id' = g_next_id /\ counted' = g_next_id
            /\ proc' = proc /\ pc' = pc /\ arg' = arg
            /\ sd' \in {"delete", "free", "gone"} => RunningSlots(Drained) = {}
        BY <1>6 DEF ShutdownCount, Drain, procVars, workerVars
      <2>2. ASSUME RunningSlots(Drained) = {}
            PROVE  /\ \A i \in JobIds : ~Alive(i)
                   /\ \A w \in Workers : ~Starting(w)
        <3>1. \A s \in Slots :
                ~(g_jobs[s].in_use /\ g_jobs[s].state = "RUNNING" /\ s \notin g_port)
          BY <2>2, DrainedType DEF RunningSlots
        <3>2. \A i \in JobIds : Alive(i) => procSlot[i] \in Slots
          BY DEF TypeOK, Alive
        <3>3. \A w \in Workers : Starting(w) => ptr[w] \in Slots
          BY DEF TypeOK, Starting
        <3> QED BY <3>1, <3>2, <3>3 DEF TableInv, ProcInv, StartInv
      <2>3. g_next_id \in Nat
        BY DEF TypeOK
      <2> QED BY <2>1, <2>2, <2>3 DEF LateInv, Alive, Starting
    <1>7. CASE Break \/ ShutdownSignal \/ ShutdownDelete \/ ShutdownFree
      <2>1. /\ g_next_id' = g_next_id /\ counted' = counted
            /\ proc' = proc /\ pc' = pc /\ arg' = arg
            /\ sd' \in {"delete", "free", "gone"}
                 => sd \in {"delete", "free", "gone"}
        BY <1>7 DEF Break, ShutdownSignal, ShutdownDelete, ShutdownFree, Drain,
                    tableVars, procVars, workerVars
      <2> QED BY <2>1 DEF LateInv, Alive, Starting
    <1> QED
      BY <1>1, <1>2, <1>3, <1>4, <1>5, <1>6, <1>7, StepKinds DEF ShutdownNext

(* The inductive invariant of the files, without the replies.              *)
FilesOK == FileInv /\ NoOrphanFiles

(* jobs_drop_output marks what it deletes, and changes nothing else.       *)
LEMMA DropMarks ==
    ASSUME TypeOK, NEW w \in Workers, CmdDrop(w)
    PROVE  \A r \in Slots :
             g_jobs'[r].output_deleted =
               (g_jobs[r].output_deleted
                  \/ (g_jobs[r].in_use /\ g_jobs[r].id = arg[w]
                                       /\ g_jobs[r].state = "EXITED"))
    <1> DEFINE hit == {s \in Find(g_jobs, arg[w]) :
                          /\ ~g_jobs[s].output_deleted
                          /\ g_jobs[s].state = "EXITED"}
    <1>1. g_jobs \in [Slots -> JobRecord]
      BY DEF TypeOK
    <1>2. PICK f \in BOOLEAN :
             /\ f = TRUE
             /\ g_jobs' = [s \in Slots |->
                             IF s \in hit
                             THEN [g_jobs[s] EXCEPT !.output_deleted = f]
                             ELSE g_jobs[s]]
      BY Zenon DEF CmdDrop
    <1>3. \A r \in Slots : r \in hit <=>
             /\ g_jobs[r].in_use /\ g_jobs[r].id = arg[w]
             /\ ~g_jobs[r].output_deleted
             /\ g_jobs[r].state = "EXITED"
      BY DEF Find
    <1> HIDE DEF hit
    <1>4. \A r \in Slots : /\ r \in hit => g_jobs'[r].output_deleted = f
                           /\ r \notin hit => g_jobs'[r] = g_jobs[r]
      BY <1>1, <1>2 DEF JobRecord
    <1>5. \A r \in Slots : g_jobs[r].output_deleted \in BOOLEAN
      BY <1>1 DEF JobRecord
    <1> QED BY <1>2, <1>3, <1>4, <1>5

(* The process of a job writes its pid and its return code, no more.       *)
LEMMA ProcessKeepsMarks ==
    ASSUME TypeOK, NEW i \in JobIds, job_entry(i) \/ ProcessEnds(i)
    PROVE  \A r \in Slots :
             /\ g_jobs'[r].in_use = g_jobs[r].in_use
             /\ g_jobs'[r].id = g_jobs[r].id
             /\ g_jobs'[r].state = g_jobs[r].state
             /\ g_jobs'[r].output_deleted = g_jobs[r].output_deleted
    <1>1. procSlot[i] \in Slots /\ g_jobs \in [Slots -> JobRecord]
      BY DEF job_entry, ProcessEnds, TypeOK
    <1>2. CASE job_entry(i)
      <2>1. PICK f : g_jobs' = [g_jobs EXCEPT ![procSlot[i]].pid = f]
        BY <1>2, Zenon DEF job_entry
      <2> QED BY <1>1, <2>1 DEF JobRecord
    <1>3. CASE ProcessEnds(i)
      <2>1. PICK f : g_jobs' = [g_jobs EXCEPT ![procSlot[i]].rc = f]
        BY <1>3, Zenon DEF ProcessEnds
      <2> QED BY <1>1, <2>1 DEF JobRecord
    <1> QED BY <1>2, <1>3

(* A record keeps its job and its mark for as long as it is in use; a new  *)
(* tenant has an id nobody had.                                            *)
LEMMA RecordsAge ==
    ASSUME TypeOK, TableInv, [Next]_vars
    PROVE  \A s \in Slots : g_jobs'[s].in_use =>
             \/ g_jobs'[s].id = g_next_id
             \/ /\ g_jobs[s].in_use /\ g_jobs'[s].id = g_jobs[s].id
                /\ g_jobs[s].output_deleted => g_jobs'[s].output_deleted
    <1> DEFINE Goal == \A s \in Slots : g_jobs'[s].in_use =>
             \/ g_jobs'[s].id = g_next_id
             \/ /\ g_jobs[s].in_use /\ g_jobs'[s].id = g_jobs[s].id
                /\ g_jobs[s].output_deleted => g_jobs'[s].output_deleted
    <1>1. CASE Drain
      BY <1>1, DrainedType DEF Drain
    <1>2. CASE g_jobs' = g_jobs
      BY <1>2
    <1>3. ASSUME NEW w \in Workers, CmdClaim(w) PROVE Goal
      <2>1. PICK s \in Slots, ret \in BOOLEAN : TakeSlot(w, s, ret)
        BY <1>3 DEF CmdClaim, Claimable, FreeSlots, ExitedSlots
      <2>2. g_jobs'[s] = NewRecord /\ \A r \in Slots : r # s => g_jobs'[r] = Drained[r]
        BY <2>1, DrainedType DEF TakeSlot
      <2> QED BY <2>2, DrainedType DEF NewRecord
    <1>4. ASSUME NEW w \in Workers, CmdOpenFails(w) \/ CmdSpawnFails(w)
          PROVE  Goal
      BY <1>4, UndoClaimTable
    <1>5. ASSUME NEW w \in Workers, CmdDrop(w) PROVE Goal
      BY <1>5, DropTable, DropMarks
    <1>6. ASSUME NEW i \in JobIds, job_entry(i) \/ ProcessEnds(i) PROVE Goal
      BY <1>6, ProcessKeepsMarks
    <1>7. ASSUME NEW w \in Workers, CmdOpen(w) \/ CmdSpawn(w)
          PROVE  g_jobs' = g_jobs
      BY <1>7 DEF CmdOpen, CmdSpawn, tableVars
    <1>8. ASSUME ShutdownNext PROVE Drain \/ g_jobs' = g_jobs
      BY <1>8 DEF ShutdownNext, Break, ShutdownCount, ShutdownSignal,
                  ShutdownDelete, ShutdownFree, tableVars
    <1> QED
      BY <1>1, <1>2, <1>3, <1>4, <1>5, <1>6, <1>7, <1>8, StepKinds
      DEF QuietStep

(* A drain or nothing: files, processes and starting workers untouched.    *)
LEMMA QuietKeepsFiles ==
    ASSUME TypeOK, TableInv, FilesOK,
           Drain \/ UNCHANGED <<g_jobs, g_port, g_next_id>>,
           UNCHANGED <<proc, files, refused>>,
           sd \in {"delete", "free", "gone"} => sd' \in {"delete", "free", "gone"},
           \A v \in Workers : pc'[v] \in {"open", "spawn"} =>
              pc'[v] = pc[v] /\ arg'[v] = arg[v]
    PROVE  FilesOK'
    <1>1. /\ g_next_id' = g_next_id
          /\ \A s \in Slots :
               /\ g_jobs'[s].in_use = g_jobs[s].in_use
               /\ g_jobs'[s].id = g_jobs[s].id
               /\ g_jobs'[s].output_deleted = g_jobs[s].output_deleted
               /\ g_jobs'[s].state = "RUNNING" => g_jobs[s].state = "RUNNING"
      BY DrainedType DEF Drain
    <1>2. FileInv'
      BY <1>1 DEF FilesOK, FileInv
    <1>3. NoOrphanFiles'
      BY <1>1 DEF FilesOK, NoOrphanFiles, Find
    <1> QED BY <1>2, <1>3 DEF FilesOK

(* Evicting a record deletes its file, or leaves it because a reader has   *)
(* it open; the new job's file does not exist yet.                         *)
LEMMA ClaimKeepsFiles ==
    ASSUME TypeOK, TableInv, FilesOK, NEW w \in Workers, CmdClaim(w)
    PROVE  FilesOK'
    <1>1. PICK s \in Claimable(Drained), ret \in BOOLEAN : TakeSlot(w, s, ret)
      BY DEF CmdClaim
    <1>2. /\ s \in Slots
          /\ Drained[s].in_use => Drained[s].state = "EXITED"
      BY DEF Claimable, FreeSlots, ExitedSlots
    <1>3. /\ g_next_id' = g_next_id + 1 /\ proc' = proc /\ sd' = sd
          /\ g_next_id \in Nat /\ g_next_id \in JobIds
      BY <1>1, JobTableAssumption
      DEF CmdClaim, TakeSlot, procVars, mainVars, TypeOK, JobIds
    <1>4. /\ g_jobs'[s] = NewRecord
          /\ \A r \in Slots : r # s =>
               /\ g_jobs'[r].in_use = g_jobs[r].in_use
               /\ g_jobs'[r].id = g_jobs[r].id
               /\ g_jobs'[r].output_deleted = g_jobs[r].output_deleted
               /\ g_jobs'[r].state = "RUNNING" => g_jobs[r].state = "RUNNING"
      BY <1>1, <1>2, DrainedType DEF TakeSlot
    <1>5. /\ g_jobs'[s].in_use /\ g_jobs'[s].id = g_next_id
          /\ ~g_jobs'[s].output_deleted
      BY <1>4 DEF NewRecord
    <1>6. \A v \in Workers :
            /\ v = w => pc'[v] = "open" /\ arg'[v] = g_next_id
            /\ v # w => pc'[v] = pc[v] /\ arg'[v] = arg[v]
      BY <1>1 DEF TakeSlot, TypeOK
    <1> DEFINE ids == IF Drained[s].in_use /\ ~Drained[s].output_deleted
                      THEN {Drained[s].id} ELSE {}
    <1>7. /\ files' = files \ (ids \ Reading)
          /\ refused' = refused \cup (ids \cap files \cap Reading)
      BY <1>1 DEF TakeSlot, DeleteFiles
    <1>8. /\ \A i : i \in ids <=> (g_jobs[s].in_use /\ ~g_jobs[s].output_deleted
                                     /\ i = g_jobs[s].id)
      BY <1>2, DrainedType
    <1>9. g_jobs[s].in_use => /\ g_jobs[s].id \in JobIds
                              /\ proc[g_jobs[s].id] = "dead"
      BY <1>2, DrainedType
      DEF TableInv, PortInv, ExitedRecordIsTrue, TypeOK
    <1> HIDE DEF ids
    <1>10. \A v \in Workers : Starting(v) =>
             arg[v] \in JobIds /\ arg[v] \notin ids /\ arg[v] # g_next_id
      <2>1. ASSUME NEW v \in Workers, Starting(v)
            PROVE  /\ arg[v] \in JobIds /\ proc[arg[v]] = "none"
                   /\ arg[v] < g_next_id
        BY <2>1 DEF TableInv, StartInv, IdsInv, TypeOK, Starting
      <2> QED BY <1>3, <1>8, <1>9, <2>1
    <1>11. \A r \in Slots : r # s /\ g_jobs[r].in_use => g_jobs[r].id \notin ids
      BY <1>2, <1>8 DEF TableInv, IdsInv, UniqueIds
    <1>12. proc[g_next_id] = "none"
      BY <1>3 DEF TableInv, IdsInv
    <1>13. FileInv'
      <2>1. \A i \in files' : i < g_next_id'
        BY <1>3, <1>7 DEF FilesOK, FileInv, TypeOK, JobIds
      <2>2. \A v \in Workers :
              /\ pc'[v] = "open" => arg'[v] \notin files'
              /\ pc'[v] = "spawn" => arg'[v] \in files' \/ sd' \in {"delete", "free", "gone"}
        BY <1>3, <1>6, <1>7, <1>10 DEF FilesOK, FileInv, Starting
      <2>3. \A r \in Slots :
              /\ g_jobs'[r].in_use /\ g_jobs'[r].state = "RUNNING"
                   => ~g_jobs'[r].output_deleted
              /\ (g_jobs'[r].in_use /\ ~g_jobs'[r].output_deleted
                                   /\ proc'[g_jobs'[r].id] # "none")
                   => g_jobs'[r].id \in files' \/ sd' \in {"delete", "free", "gone"}
        BY <1>3, <1>4, <1>5, <1>7, <1>11, <1>12 DEF FilesOK, FileInv
      <2> QED BY <2>1, <2>2, <2>3 DEF FileInv
    <1>14. NoOrphanFiles'
      <2>1. ASSUME NEW i \in files', i \notin refused'
            PROVE  \E r \in Slots : /\ g_jobs'[r].in_use /\ g_jobs'[r].id = i
                                    /\ ~g_jobs'[r].output_deleted
        <3>1. PICK r \in Slots : /\ g_jobs[r].in_use /\ g_jobs[r].id = i
                                 /\ ~g_jobs[r].output_deleted
          BY <1>7, <2>1 DEF FilesOK, NoOrphanFiles, Find
        <3>2. r # s
          BY <1>7, <1>8, <2>1, <3>1
        <3> QED BY <1>4, <3>1, <3>2
      <2> QED BY <2>1 DEF NoOrphanFiles, Find
    <1> QED BY <1>13, <1>14 DEF FilesOK

(* The output file is created under the id of the record that was claimed. *)
LEMMA OpenKeepsFiles ==
    ASSUME TypeOK, TableInv, FilesOK, NEW w \in Workers, CmdOpen(w)
    PROVE  FilesOK'
    <1>1. /\ g_jobs' = g_jobs /\ g_next_id' = g_next_id /\ proc' = proc
          /\ sd' = sd /\ arg' = arg /\ refused' = refused
          /\ files' = files \cup {arg[w]}
          /\ pc'[w] = "spawn" /\ \A v \in Workers : v # w => pc'[v] = pc[v]
      BY DEF CmdOpen, tableVars, procVars, mainVars, TypeOK
    <1>2. Starting(w) /\ ptr[w] \in Slots /\ arg[w] \in JobIds
      BY DEF CmdOpen, Starting, TypeOK
    <1>3. /\ g_jobs[ptr[w]].in_use /\ g_jobs[ptr[w]].id = arg[w]
          /\ g_jobs[ptr[w]].state = "RUNNING"
          /\ \A v \in Workers : Starting(v) /\ arg[v] = arg[w] => v = w
      BY <1>2 DEF TableInv, StartInv
    <1>4. arg[w] < g_next_id /\ ~g_jobs[ptr[w]].output_deleted
      BY <1>2, <1>3 DEF TableInv, IdsInv, FilesOK, FileInv
    <1>5. FileInv'
      BY <1>1, <1>3, <1>4 DEF FilesOK, FileInv, Starting
    <1>6. NoOrphanFiles'
      BY <1>1, <1>2, <1>3, <1>4 DEF FilesOK, NoOrphanFiles, Find
    <1> QED BY <1>5, <1>6 DEF FilesOK

(* The undo of a claim frees the record of a file that was not created, or *)
(* deletes the file it created.                                            *)
LEMMA UndoKeepsFiles ==
    ASSUME TypeOK, TableInv, FilesOK, NEW w \in Workers,
           CmdOpenFails(w) \/ CmdSpawnFails(w)
    PROVE  FilesOK'
    <1>1. /\ \A r \in Slots : r # ptr[w] => g_jobs'[r] = g_jobs[r]
          /\ ~g_jobs'[ptr[w]].in_use
          /\ ptr[w] \in Slots
      BY UndoClaimTable
    <1>2. Starting(w) /\ arg[w] \in JobIds
      BY DEF CmdOpenFails, CmdSpawnFails, Starting, TypeOK
    <1>3. /\ g_jobs[ptr[w]].in_use /\ g_jobs[ptr[w]].id = arg[w]
          /\ \A v \in Workers : Starting(v) /\ arg[v] = arg[w] => v = w
      BY <1>2 DEF TableInv, StartInv
    <1>4. /\ g_next_id' = g_next_id /\ proc' = proc /\ sd' = sd
          /\ files' \subseteq files
          /\ refused \subseteq refused'
          /\ \A i \in files : i # arg[w] => i \in files'
          /\ arg[w] \in files' => arg[w] \in refused'
      <2>1. CASE CmdOpenFails(w)
        BY <2>1 DEF CmdOpenFails, procVars, fileVars, mainVars, FilesOK, FileInv
      <2>2. CASE CmdSpawnFails(w)
        BY <2>2 DEF CmdSpawnFails, DeleteFiles, procVars, mainVars
      <2> QED BY <2>1, <2>2
    <1>5. \A v \in Workers :
            /\ v = w => pc'[v] = "idle"
            /\ v # w => pc'[v] = pc[v] /\ arg'[v] = arg[v]
      BY DEF CmdOpenFails, CmdSpawnFails, Return, TypeOK
    <1>6. \A r \in Slots : r # ptr[w] /\ g_jobs[r].in_use => g_jobs[r].id # arg[w]
      BY <1>1, <1>3 DEF TableInv, IdsInv, UniqueIds
    <1>7. FileInv'
      BY <1>1, <1>2, <1>3, <1>4, <1>5, <1>6 DEF FilesOK, FileInv, Starting
    <1>8. NoOrphanFiles'
      BY <1>1, <1>3, <1>4, <1>6 DEF FilesOK, NoOrphanFiles, Find
    <1> QED BY <1>7, <1>8 DEF FilesOK

(* A process is only created once its output file exists.                  *)
LEMMA SpawnKeepsFiles ==
    ASSUME TypeOK, TableInv, FilesOK, NEW w \in Workers, CmdSpawn(w)
    PROVE  FilesOK'
    <1>1. /\ g_jobs' = g_jobs /\ g_next_id' = g_next_id /\ sd' = sd
          /\ arg' = arg /\ files' = files /\ refused' = refused
          /\ \A i \in JobIds : i # arg[w] => proc'[i] = proc[i]
          /\ pc'[w] = "started" /\ \A v \in Workers : v # w => pc'[v] = pc[v]
          /\ pc[w] = "spawn"
      BY DEF CmdSpawn, tableVars, fileVars, mainVars, TypeOK
    <1>2. arg[w] \in files \/ sd \in {"delete", "free", "gone"}
      BY <1>1 DEF FilesOK, FileInv
    <1>3. \A s \in Slots : g_jobs[s].in_use => g_jobs[s].id \in JobIds
      BY DEF TypeOK
    <1>4. FileInv'
      BY <1>1, <1>2, <1>3 DEF FilesOK, FileInv
    <1>5. NoOrphanFiles'
      BY <1>1 DEF FilesOK, NoOrphanFiles, Find
    <1> QED BY <1>4, <1>5 DEF FilesOK

(* jobs_drop_output deletes the file of exactly the record it marks.       *)
LEMMA DropKeepsFiles ==
    ASSUME TypeOK, TableInv, FilesOK, NEW w \in Workers, CmdDrop(w)
    PROVE  FilesOK'
    <1>1. \A r \in Slots :
             /\ g_jobs'[r].in_use = g_jobs[r].in_use
             /\ g_jobs'[r].id = g_jobs[r].id
             /\ g_jobs'[r].state = g_jobs[r].state
             /\ g_jobs'[r].output_deleted =
                  (g_jobs[r].output_deleted
                     \/ (g_jobs[r].in_use /\ g_jobs[r].id = arg[w]
                                          /\ g_jobs[r].state = "EXITED"))
      BY DropTable, DropMarks
    <1> DEFINE hit == {s \in Find(g_jobs, arg[w]) :
                          /\ ~g_jobs[s].output_deleted
                          /\ g_jobs[s].state = "EXITED"}
               ids == IF hit # {} THEN {arg[w]} ELSE {}
    <1>2. /\ g_next_id' = g_next_id /\ proc' = proc /\ sd' = sd
          /\ files' = files \ (ids \ Reading)
          /\ refused' = refused \cup (ids \cap files \cap Reading)
      BY DEF CmdDrop, DeleteFiles, procVars, mainVars
    <1>3. \A i : i \in ids <=>
             /\ i = arg[w]
             /\ \E s \in Slots : /\ g_jobs[s].in_use /\ g_jobs[s].id = i
                                 /\ ~g_jobs[s].output_deleted
                                 /\ g_jobs[s].state = "EXITED"
      BY DEF Find
    <1> HIDE DEF hit, ids
    <1>4. \A v \in Workers : pc'[v] \in {"open", "spawn"} =>
             pc'[v] = pc[v] /\ arg'[v] = arg[v]
      BY ReturnIsQuiet DEF CmdDrop
    <1>5. \A v \in Workers : Starting(v) => arg[v] \notin ids
      BY <1>3 DEF TableInv, StartInv, ExitedRecordIsTrue
    <1>6. FileInv'
      <2>1. \A v \in Workers :
              /\ pc'[v] = "open" => arg'[v] \notin files'
              /\ pc'[v] = "spawn" => arg'[v] \in files' \/ sd' \in {"delete", "free", "gone"}
        BY <1>2, <1>4, <1>5 DEF FilesOK, FileInv, Starting
      <2>2. ASSUME NEW r \in Slots
            PROVE  /\ g_jobs'[r].in_use /\ g_jobs'[r].state = "RUNNING"
                        => ~g_jobs'[r].output_deleted
                   /\ (g_jobs'[r].in_use /\ ~g_jobs'[r].output_deleted
                                        /\ proc'[g_jobs'[r].id] # "none")
                        => g_jobs'[r].id \in files' \/ sd' \in {"delete", "free", "gone"}
        <3>1. g_jobs[r].in_use /\ g_jobs[r].id \in ids
                => g_jobs[r].id = arg[w] /\ g_jobs[r].state = "EXITED"
          BY <1>3 DEF TableInv, IdsInv, UniqueIds
        <3> QED BY <1>1, <1>2, <3>1 DEF FilesOK, FileInv
      <2> QED BY <1>2, <2>1, <2>2 DEF FilesOK, FileInv
    <1>7. NoOrphanFiles'
      <2>1. ASSUME NEW i \in files', i \notin refused'
            PROVE  \E r \in Slots : /\ g_jobs'[r].in_use /\ g_jobs'[r].id = i
                                    /\ ~g_jobs'[r].output_deleted
        <3>1. PICK r \in Slots : /\ g_jobs[r].in_use /\ g_jobs[r].id = i
                                 /\ ~g_jobs[r].output_deleted
          BY <1>2, <2>1 DEF FilesOK, NoOrphanFiles, Find
        <3>2. i \notin ids
          BY <1>2, <2>1
        <3> QED BY <1>1, <1>3, <3>1, <3>2
      <2> QED BY <2>1 DEF NoOrphanFiles, Find
    <1> QED BY <1>6, <1>7 DEF FilesOK

LEMMA ProcessKeepsFiles ==
    ASSUME TypeOK, TableInv, FilesOK, NEW i \in JobIds,
           job_entry(i) \/ ProcessEnds(i)
    PROVE  FilesOK'
    <1>1. /\ g_next_id' = g_next_id /\ sd' = sd /\ pc' = pc /\ arg' = arg
          /\ files' = files /\ refused' = refused
          /\ proc[i] # "none" /\ \A k \in JobIds : k # i => proc'[k] = proc[k]
      BY DEF job_entry, ProcessEnds, fileVars, workerVars, mainVars, TypeOK
    <1>2. \A s \in Slots : g_jobs[s].in_use => g_jobs[s].id \in JobIds
      BY DEF TypeOK
    <1>3. FileInv'
      BY <1>1, <1>2, ProcessKeepsMarks DEF FilesOK, FileInv
    <1>4. NoOrphanFiles'
      BY <1>1, ProcessKeepsMarks DEF FilesOK, NoOrphanFiles, Find
    <1> QED BY <1>3, <1>4 DEF FilesOK

LEMMA NextFiles ==
    ASSUME TypeOK, TableInv, FilesOK, [Next]_vars
    PROVE  FilesOK'
    <1>1. CASE QuietStep
      BY <1>1, QuietKeepsFiles DEF QuietStep
    <1>2. ASSUME NEW w \in Workers,
                 \/ CmdClaim(w) \/ CmdOpen(w) \/ CmdOpenFails(w)
                 \/ CmdSpawn(w) \/ CmdSpawnFails(w) \/ CmdDrop(w)
          PROVE  FilesOK'
      BY <1>2, ClaimKeepsFiles, OpenKeepsFiles, UndoKeepsFiles,
         SpawnKeepsFiles, DropKeepsFiles
    <1>3. ASSUME NEW i \in JobIds, job_entry(i) \/ ProcessEnds(i)
          PROVE  FilesOK'
      BY <1>3, ProcessKeepsFiles
    <1>4. CASE Break \/ ShutdownCount \/ ShutdownSignal \/ ShutdownFree
      <2>1. /\ Drain \/ UNCHANGED <<g_jobs, g_port, g_next_id>>
            /\ UNCHANGED <<proc, files, refused, pc, arg>>
            /\ sd \in {"delete", "free", "gone"} => sd' \in {"delete", "free", "gone"}
        BY <1>4 DEF Break, ShutdownCount, ShutdownSignal, ShutdownFree,
                    tableVars, procVars, fileVars, workerVars
      <2> QED BY <2>1, QuietKeepsFiles
    <1>5. CASE ShutdownDelete
      <2>1. /\ UNCHANGED <<g_jobs, g_next_id, proc, pc, arg>>
            /\ files' \subseteq files /\ refused \subseteq refused'
            /\ sd' \in {"delete", "free", "gone"}
        BY <1>5 DEF ShutdownDelete, DeleteFiles, fileVars, tableVars, procVars, workerVars
      <2>2. FileInv'
        BY <2>1 DEF FilesOK, FileInv
      <2>3. NoOrphanFiles'
        BY <2>1 DEF FilesOK, NoOrphanFiles, Find
      <2> QED BY <2>2, <2>3 DEF FilesOK
    <1> QED
      BY <1>1, <1>2, <1>3, <1>4, <1>5, StepKinds DEF ShutdownNext

LEMMA InitFiles == Init => FilesOK
    <1>1. Init => \A s \in Slots : ~g_jobs[s].in_use
      BY DEF Init, EmptyRecord
    <1> QED BY <1>1 DEF Init, FilesOK, FileInv, NoOrphanFiles

(* A new reply without output is about a file that is not there, and was   *)
(* given in a step that leaves the table alone.                            *)
MissingIsGone ==
    \A v \in Workers :
        \/ reply'[v] = reply[v]
        \/ reply'[v].kind # "result" \/ reply'[v].out # "missing"
        \/ /\ reply'[v].id = arg[v] /\ arg[v] \notin files
           /\ UNCHANGED <<g_jobs, files, sd>>

LEMMA StepMissingIsGone ==
    ASSUME TypeOK, [Next]_vars
    PROVE  MissingIsGone
    <1>a. /\ NoReply.kind # "result" /\ ErrorReply.kind # "result"
          /\ \A m, i, info : ResultReply(m, i, info, "na").out # "missing"
      BY DEF NoReply, ErrorReply, ResultReply
    <1>b. \A m, i, info, o : /\ ResultReply(m, i, info, o).id = i
                             /\ ResultReply(m, i, info, o).out = o
      BY DEF ResultReply
    <1>1. ASSUME NEW w \in Workers, NEW r,
                 Return(w, r) \/ reply' = [reply EXCEPT ![w] = r],
                 \/ r = reply[w] \/ r.kind # "result" \/ r.out # "missing"
                 \/ /\ r.id = arg[w] /\ arg[w] \notin files
                    /\ UNCHANGED <<g_jobs, files, sd>>
          PROVE  MissingIsGone
      <2>1. reply'[w] = r /\ \A v \in Workers : v # w => reply'[v] = reply[v]
        BY <1>1 DEF Return, TypeOK
      <2> QED BY <1>1, <2>1 DEF MissingIsGone
    <1>2. CASE UNCHANGED reply
      BY <1>2 DEF MissingIsGone
    <1>3. ASSUME NEW w \in Workers,
                 CmdBusy(w) \/ CmdOpenFails(w) \/ CmdSpawnFails(w)
          PROVE  MissingIsGone
      BY <1>1, <1>3, <1>a DEF CmdBusy, CmdOpenFails, CmdSpawnFails
    <1>4. ASSUME NEW w \in Workers, CmdClaim(w) PROVE MissingIsGone
      <2>1. reply' = [reply EXCEPT ![w] = NoReply]
        BY <1>4 DEF CmdClaim, TakeSlot
      <2> QED BY <1>1, <1>a, <2>1
    <1>5. ASSUME NEW w \in Workers, CmdPoll(w) \/ KillSignal(w)
          PROVE  MissingIsGone
      <2>1. Return(w, ErrorReply) \/ UNCHANGED reply
        BY <1>5 DEF CmdPoll, KillSignal
      <2> QED BY <1>1, <1>2, <1>a, <2>1
    <1>6. ASSUME NEW w \in Workers, KillPoll(w) PROVE MissingIsGone
      <2>1. \/ Return(w, ErrorReply) \/ UNCHANGED reply
            \/ \E info : Return(w, ResultReply("info", arg[w], info, "na"))
        BY <1>6 DEF KillPoll
      <2> QED BY <1>1, <1>2, <1>a, <2>1
    <1>7. ASSUME NEW w \in Workers, CmdRead(w) PROVE MissingIsGone
      <2> DEFINE r == ResultReply("cmd", arg[w], ji[w], "missing")
      <2>1. \/ UNCHANGED reply
            \/ /\ arg[w] \notin files
               /\ Return(w, r) \/ reply' = [reply EXCEPT ![w] = r]
        BY <1>7 DEF CmdRead
      <2>2. UNCHANGED <<g_jobs, files, sd>>
        BY <1>7 DEF CmdRead, tableVars, fileVars, mainVars
      <2>3. r.id = arg[w]
        BY <1>b
      <2> HIDE DEF r
      <2> QED BY <1>1, <1>2, <2>1, <2>2, <2>3
    <1>8. ASSUME NEW w \in Workers, CmdReadDone(w) \/ OutputReadDone(w)
          PROVE  MissingIsGone
      <2>1. UNCHANGED <<g_jobs, files, sd>>
        BY <1>8 DEF CmdReadDone, OutputReadDone, tableVars, fileVars, mainVars
      <2>2. PICK m \in {"cmd", "output"} :
              \/ Return(w, ErrorReply)
              \/ LET r == ResultReply(m, arg[w], ji[w], ReadOutput(arg[w]))
                 IN  Return(w, r) \/ reply' = [reply EXCEPT ![w] = r]
        BY <1>8 DEF CmdReadDone, OutputReadDone
      <2> DEFINE r == ResultReply(m, arg[w], ji[w], ReadOutput(arg[w]))
      <2>3. r.id = arg[w] /\ (r.out = "missing" => arg[w] \notin files)
        BY <1>b DEF ReadOutput
      <2>4. Return(w, ErrorReply) \/ Return(w, r) \/ reply' = [reply EXCEPT ![w] = r]
        BY <2>2
      <2> HIDE DEF r
      <2> QED BY <1>1, <1>a, <2>1, <2>3, <2>4
    <1>9. ASSUME NEW w \in Workers, CmdDrop(w) PROVE MissingIsGone
      BY <1>1, <1>9 DEF CmdDrop
    <1>10. ASSUME NEW w \in Workers, List(w) PROVE MissingIsGone
      BY <1>1, <1>10, <1>a DEF List
    <1>11. ASSUME NEW w \in Workers, NEW id \in KnownIds,
                  \/ Status(w, id) \/ Output(w, id)
                  \/ Kill(w, id) \/ KillForce(w, id)
           PROVE  MissingIsGone
      <2>1. \/ Return(w, ErrorReply)
            \/ reply' = [reply EXCEPT ![w] = NoReply]
            \/ \E info : Return(w, ResultReply("info", id, info, "na"))
        BY <1>11 DEF Status, Output, Kill, KillForce
      <2> QED BY <1>1, <1>a, <2>1
    <1>12. ASSUME NEW w \in Workers, OutputRead(w) PROVE MissingIsGone
      <2> DEFINE r == ResultReply("output", arg[w], ji[w], "missing")
      <2>1. UNCHANGED reply \/ (arg[w] \notin files /\ Return(w, r))
        BY <1>12 DEF OutputRead
      <2>2. UNCHANGED <<g_jobs, files, sd>>
        BY <1>12 DEF OutputRead, tableVars, fileVars, mainVars
      <2>3. r.id = arg[w]
        BY <1>b
      <2> HIDE DEF r
      <2> QED BY <1>1, <1>2, <2>1, <2>2, <2>3
    <1>13. ASSUME NEW w \in Workers, CmdOpen(w) \/ CmdSpawn(w) \/ CmdStarted(w)
           PROVE  UNCHANGED reply
      BY <1>13 DEF CmdOpen, CmdSpawn, CmdStarted
    <1>14. ASSUME NEW i \in JobIds, ProcessNext(i) PROVE UNCHANGED reply
      BY <1>14 DEF ProcessNext, job_entry, ProcessEnds, workerVars
    <1>15. ASSUME ShutdownNext \/ UNCHANGED vars PROVE UNCHANGED reply
      BY <1>15 DEF ShutdownNext, Break, ShutdownCount, ShutdownSignal,
                   ShutdownDelete, ShutdownFree, vars, workerVars
    <1> QED
      BY <1>2, <1>3, <1>4, <1>5, <1>6, <1>7, <1>8, <1>9, <1>10, <1>11, <1>12,
         <1>13, <1>14, <1>15
      DEF Next, WorkerNext

(* jobs_shutdown never goes back from deleting the files.                  *)
LEMMA DeletedStays ==
    ASSUME TypeOK, [Next]_vars, sd \in {"delete", "free", "gone"}
    PROVE  sd' \in {"delete", "free", "gone"}
    <1>1. CASE QuietStep
      BY <1>1 DEF QuietStep
    <1>2. ASSUME NEW w \in Workers,
                 \/ CmdClaim(w) \/ CmdOpen(w) \/ CmdOpenFails(w)
                 \/ CmdSpawn(w) \/ CmdSpawnFails(w) \/ CmdDrop(w)
          PROVE  sd' = sd
      BY <1>2 DEF CmdClaim, CmdOpen, CmdOpenFails, CmdSpawn, CmdSpawnFails,
                  CmdDrop, mainVars
    <1>3. ASSUME NEW i \in JobIds, job_entry(i) \/ ProcessEnds(i)
          PROVE  sd' = sd
      BY <1>3 DEF job_entry, ProcessEnds, mainVars
    <1>4. CASE ShutdownNext
      BY <1>4 DEF ShutdownNext, Break, ShutdownCount, ShutdownSignal,
                  ShutdownDelete, ShutdownFree
    <1> QED BY <1>1, <1>2, <1>3, <1>4, StepKinds

LEMMA NextEmptyOutput ==
    ASSUME TypeOK, TableInv, InfoInv, RepliesAreTrue, FilesOK,
           EmptyOutputOnlyWhenDropped, [Next]_vars, RepliesAreTrue', InfoInv',
           FilesOK'
    PROVE  EmptyOutputOnlyWhenDropped'
    <1> SUFFICES ASSUME NEW w \in Workers,
                        reply'[w].kind = "result", reply'[w].state = "EXITED",
                        reply'[w].out = "missing", sd' \notin {"delete", "free", "gone"},
                        NEW s \in Find(g_jobs', reply'[w].id)
                 PROVE  g_jobs'[s].output_deleted
      BY DEF EmptyOutputOnlyWhenDropped
    <1>1. sd \notin {"delete", "free", "gone"}
      BY DeletedStays
    <1>2. /\ s \in Slots /\ g_jobs'[s].in_use /\ g_jobs'[s].id = reply'[w].id
          /\ reply'[w].id \in JobIds
      BY DEF Find, InfoInv
    <1>3. CASE reply'[w] = reply[w]
      <2>1. /\ proc[reply[w].id] = "dead" /\ reply[w].id \in JobIds
            /\ reply[w].id < g_next_id /\ g_next_id \in Int
        BY <1>3, JobTableAssumption
        DEF RepliesAreTrue, InfoInv, TableInv, IdsInv, TypeOK
      <2>2. g_jobs'[s].id # g_next_id
        BY <1>2, <1>3, <2>1 DEF JobIds
      <2>3. /\ g_jobs[s].in_use /\ g_jobs'[s].id = g_jobs[s].id
            /\ g_jobs[s].output_deleted => g_jobs'[s].output_deleted
        BY <1>2, <2>2, RecordsAge
      <2>4. s \in Find(g_jobs, reply[w].id)
        BY <1>2, <1>3, <2>3 DEF Find
      <2> QED BY <1>1, <1>3, <2>3, <2>4 DEF EmptyOutputOnlyWhenDropped
    <1>4. CASE reply'[w] # reply[w]
      <2>1. reply'[w].id \notin files' /\ proc'[reply'[w].id] = "dead"
        BY <1>4, StepMissingIsGone DEF MissingIsGone, RepliesAreTrue
      <2> QED BY <1>2, <2>1 DEF FilesOK, FileInv
    <1> QED BY <1>3, <1>4

-----------------------------------------------------------------------------
(* The whole inductive invariant: slots, ids, processes, what handlers     *)
(* remember and said, shutdown and files hold together in every state.     *)
THEOREM JobInvariant == Spec => []JobInv
    <1>1. Init => JobInv
      <2>1. Init => LateInv
        BY DEF Init, LateInv, Alive, Starting
      <2>2. Init => EmptyOutputOnlyWhenDropped
        BY DEF Init, EmptyOutputOnlyWhenDropped, NoReply
      <2> QED
        BY <2>1, <2>2, InitType, InitTableInv, InitInfoInv, InitFiles
        DEF JobInv, FilesOK
    <1>2. JobInv /\ [Next]_vars => JobInv'
      <2> SUFFICES ASSUME JobInv, [Next]_vars PROVE JobInv'
        OBVIOUS
      <2>1. TypeOK /\ TableInv /\ FilesOK
        BY DEF JobInv, FilesOK
      <2>2. TypeOK' /\ TableInv' /\ FilesOK'
        BY <2>1, NextType, NextTableInv, NextFiles
      <2>3. InfoInv' /\ RepliesAreTrue'
        BY <2>1, NextInfoInv DEF JobInv
      <2>4. LateInv'
        BY <2>1, NextLateInv DEF JobInv
      <2>5. EmptyOutputOnlyWhenDropped'
        BY <2>1, <2>2, <2>3, NextEmptyOutput DEF JobInv
      <2> QED BY <2>2, <2>3, <2>4, <2>5 DEF JobInv, FilesOK
    <1> QED BY <1>1, <1>2, PTL DEF Spec

(* No handler tells a client that a job exited while it runs, or with      *)
(* another job's code, however many critical sections lie between what it  *)
(* looked at and what it answers (exec.c).                                 *)
THEOREM AnswersAreTrue == Spec => []RepliesAreTrue
    <1>1. JobInv => RepliesAreTrue
      BY DEF JobInv
    <1> QED BY <1>1, JobInvariant, PTL

(* jobs_shutdown frees the table only when every job that had an id at its *)
(* last count is over (jobs.c); what outlives the table was started by a   *)
(* worker after that count.                                                *)
THEOREM LateJobsOnly == Spec => []OnlyLateJobsOutliveTable
    <1>1. JobInv => OnlyLateJobsOutliveTable
      BY DEF JobInv, LateInv, OnlyLateJobsOutliveTable
    <1> QED BY <1>1, JobInvariant, PTL

(* No output file is left behind without a record that points to it,       *)
(* except one that a reader had open when it was deleted (jobs.c).         *)
THEOREM FilesHaveRecords == Spec => []NoOrphanFiles
    <1>1. JobInv => NoOrphanFiles
      BY DEF JobInv
    <1> QED BY <1>1, JobInvariant, PTL

(* A finished job's output reads as empty only when its record was evicted *)
(* or says that the output was dropped, or the daemon is shutting down     *)
(* (exec.c, amiga_read_output).                                            *)
THEOREM EmptyMeansDropped == Spec => []EmptyOutputOnlyWhenDropped
    <1>1. JobInv => EmptyOutputOnlyWhenDropped
      BY DEF JobInv
    <1> QED BY <1>1, JobInvariant, PTL

-----------------------------------------------------------------------------
(* 2. Transfer.                                                            *)

----------------------------------------------------------------------------
(* Prefixes, the local file and its chunks, element by element.            *)

LEMMA PrefixMeans ==
    ASSUME NEW S, NEW s \in Seq(S), NEW t \in Seq(S)
    PROVE  IsPrefix(s, t) <=> Len(s) <= Len(t) /\ \A i \in 1..Len(s) : s[i] = t[i]
<1>1. SubSeq(s, 1, Len(s)) = s
  BY SubSeqFull
<1>2. ASSUME Len(s) <= Len(t), \A i \in 1..Len(s) : s[i] = t[i]
      PROVE  SubSeq(t, 1, Len(s)) = s
  BY <1>2
<1>3. ASSUME Len(s) <= Len(t), SubSeq(t, 1, Len(s)) = s
      PROVE  \A i \in 1..Len(s) : s[i] = t[i]
  BY <1>3
<1> QED BY <1>1, <1>2, <1>3 DEF IsPrefix

LEMMA WholePrefix ==
    ASSUME NEW S, NEW s \in Seq(S), NEW t \in Seq(S), IsPrefix(s, t), Len(s) >= Len(t)
    PROVE  s = t
<1>1. Len(s) = Len(t) /\ \A i \in 1..Len(s) : s[i] = t[i]
  BY PrefixMeans
<1> QED BY <1>1

\* What SubSeq and \o return, for the provers.
LEMMA Cut ==
    ASSUME NEW S, NEW s \in Seq(S), NEW m \in Nat, m > 0, NEW n \in Nat, n <= Len(s)
    PROVE  /\ SubSeq(s, m, n) \in Seq(S)
           /\ Len(SubSeq(s, m, n)) = IF m <= n THEN (n - m) + 1 ELSE 0
           /\ \A i \in 1..Len(SubSeq(s, m, n)) : SubSeq(s, m, n)[i] = s[(m + i) - 1]
<1>1. \A i \in m..n : s[i] \in S
  BY ElementOfSeq, LenProperties
<1>2. /\ SubSeq(s, m, n) \in Seq(S)
      /\ Len(SubSeq(s, m, n)) = IF m <= n THEN (n - m) + 1 ELSE 0
      /\ \A i \in 1..((n - m) + 1) : SubSeq(s, m, n)[i] = s[(m + i) - 1]
  BY <1>1, SubSeqProperties
<1> QED BY <1>2

LEMMA Join ==
    ASSUME NEW S, NEW s \in Seq(S), NEW t \in Seq(S)
    PROVE  /\ s \o t \in Seq(S) /\ Len(s \o t) = Len(s) + Len(t)
           /\ Len(s) \in Nat /\ Len(t) \in Nat
           /\ \A i \in 1..Len(s) : (s \o t)[i] = s[i]
           /\ \A i \in 1..Len(t) : (s \o t)[Len(s) + i] = t[i]
<1>1. Len(s) \in Nat /\ Len(t) \in Nat
  BY LenProperties
<1>2. /\ s \o t \in Seq(S) /\ Len(s \o t) = Len(s) + Len(t)
      /\ \A i \in 1..Len(s) + Len(t) :
           (s \o t)[i] = IF i <= Len(s) THEN s[i] ELSE t[i - Len(s)]
  BY ConcatProperties
<1> QED BY <1>1, <1>2

LEMMA LocalFacts ==
    ASSUME TransferTypeOK
    PROVE  /\ total \in Nat /\ Local \in Seq(0..total) /\ Len(Local) = total
           /\ \A i \in 1..total : Local[i] = i
BY TransferAssumption DEF TransferTypeOK, Local

LEMMA ChunkFacts ==
    ASSUME TransferTypeOK, NEW off \in Nat
    PROVE  /\ Chunk(off) \in Seq(0..total)
           /\ Len(Chunk(off)) = IF off < total THEN Len2(off + ChunkSize, total) - off ELSE 0
           /\ off < total => Len(Chunk(off)) > 0 /\ off + Len(Chunk(off)) <= total
           /\ \A i \in 1..Len(Chunk(off)) : Chunk(off)[i] = off + i
<1> DEFINE m == Len2(off + ChunkSize, total)
<1>1. m \in Nat /\ m <= total /\ (off < total => off < m) /\ (off >= total => m <= off)
  BY LocalFacts, TransferAssumption DEF Len2
<1>2. Chunk(off) = SubSeq(Local, off + 1, m)
  BY DEF Chunk
<1> HIDE DEF m
<1>3. /\ SubSeq(Local, off + 1, m) \in Seq(0..total)
      /\ Len(SubSeq(Local, off + 1, m)) = IF off + 1 <= m THEN m - off ELSE 0
      /\ \A i \in 1..(m - off) : SubSeq(Local, off + 1, m)[i] = Local[off + i]
  BY <1>1, LocalFacts
<1>4. CASE off < total
  <2>1. Len(Chunk(off)) = m - off
    BY <1>1, <1>2, <1>3, <1>4, LocalFacts
  <2>2. ASSUME NEW i \in 1..(m - off) PROVE Local[off + i] = off + i
    BY <1>1, LocalFacts
  <2> QED BY <1>1, <1>2, <1>3, <1>4, <2>1, <2>2 DEF m
<1>5. CASE ~(off < total)
  BY <1>1, <1>2, <1>3, <1>5, LocalFacts
<1> QED BY <1>4, <1>5

\* The units a + 1, a + 2, ... of the local file.
Counts(s, a) == \A i \in 1..Len(s) : s[i] = a + i

LEMMA CountsJoin ==
    ASSUME NEW k \in Nat, NEW s \in Seq(0..k), NEW t \in Seq(0..k), NEW a \in Nat,
           Counts(s, a), Counts(t, a + Len(s))
    PROVE  Counts(s \o t, a)
<1>1. /\ Len(s \o t) = Len(s) + Len(t) /\ Len(s) \in Nat /\ Len(t) \in Nat
      /\ \A i \in 1..Len(s) : (s \o t)[i] = s[i]
      /\ \A i \in 1..Len(t) : (s \o t)[Len(s) + i] = t[i]
  BY Join
<1> SUFFICES ASSUME NEW i \in 1..Len(s) + Len(t) PROVE (s \o t)[i] = a + i
  BY <1>1 DEF Counts
<1>2. CASE i <= Len(s)
  <2>1. i \in 1..Len(s)
    BY <1>1, <1>2
  <2> QED BY <2>1, <1>1 DEF Counts
<1>3. CASE i > Len(s)
  <2> DEFINE j == i - Len(s)
  <2>1. j \in 1..Len(t) /\ Len(s) + j = i
    BY <1>1, <1>3
  <2>2. (s \o t)[Len(s) + j] = t[j] /\ t[j] = (a + Len(s)) + j
    BY <2>1, <1>1 DEF Counts
  <2>3. (a + Len(s)) + j = a + i
    BY <1>1, <1>3
  <2> QED BY <2>1, <2>2, <2>3
<1> QED BY <1>1, <1>2, <1>3

LEMMA CountsCut ==
    ASSUME NEW k \in Nat, NEW s \in Seq(0..k), NEW a \in Nat, Counts(s, a),
           NEW m \in Nat, NEW n \in Nat, n <= Len(s)
    PROVE  Counts(SubSeq(s, m + 1, n), a + m)
<1> DEFINE from == m + 1
<1>1. from \in Nat /\ from > 0
  OBVIOUS
<1> HIDE DEF from
<1>2. /\ Len(SubSeq(s, from, n)) = IF from <= n THEN (n - from) + 1 ELSE 0
      /\ \A i \in 1..Len(SubSeq(s, from, n)) : SubSeq(s, from, n)[i] = s[(from + i) - 1]
  BY <1>1, Cut
<1>3. Len(s) \in Nat
  BY LenProperties
<1> SUFFICES ASSUME NEW i \in 1..Len(SubSeq(s, from, n))
             PROVE  SubSeq(s, from, n)[i] = (a + m) + i
  BY DEF Counts, from
<1>4. m + i \in 1..Len(s) /\ (from + i) - 1 = m + i
  BY <1>2, <1>3 DEF from
<1>5. s[m + i] = a + (m + i)
  BY <1>4 DEF Counts
<1>6. SubSeq(s, from, n)[i] = s[m + i]
  BY <1>2, <1>4
<1>7. a + (m + i) = (a + m) + i
  OBVIOUS
<1> QED BY <1>5, <1>6, <1>7

LEMMA PrefixCounts ==
    ASSUME TransferTypeOK, NEW s \in Seq(0..total)
    PROVE  IsPrefix(s, Local) <=> Len(s) <= total /\ Counts(s, 0)
<1>1. Len(s) \in Nat
  BY LenProperties
<1>2. Len(s) <= total => \A i \in 1..Len(s) : Local[i] = i /\ 0 + i = i
  BY <1>1, LocalFacts
<1>3. IsPrefix(s, Local) <=> Len(s) <= total /\ \A i \in 1..Len(s) : s[i] = Local[i]
  BY LocalFacts, PrefixMeans
<1> QED BY <1>2, <1>3 DEF Counts

\* A beginning of the chunk at off.
LEMMA PartFacts ==
    ASSUME TransferTypeOK, NEW off \in Nat, NEW n \in 0..Len(Chunk(off))
    PROVE  /\ SubSeq(Chunk(off), 1, n) \in Seq(0..total)
           /\ Len(SubSeq(Chunk(off), 1, n)) = n
           /\ Counts(SubSeq(Chunk(off), 1, n), off)
<1>1. Chunk(off) \in Seq(0..total) /\ Len(Chunk(off)) \in Nat /\ total \in Nat
  BY ChunkFacts, LenProperties, LocalFacts
<1>2. Counts(Chunk(off), off)
  BY ChunkFacts DEF Counts
<1>3. n \in Nat /\ n <= Len(Chunk(off))
  BY <1>1
<1>4. SubSeq(Chunk(off), 1, n) \in Seq(0..total) /\ Len(SubSeq(Chunk(off), 1, n)) = n
  BY <1>1, <1>3, Cut
<1>5. 0 \in Nat /\ 0 + 1 = 1 /\ off + 0 = off
  OBVIOUS
<1>6. Counts(SubSeq(Chunk(off), 0 + 1, n), off + 0)
  BY <1>1, <1>2, <1>3, <1>5, CountsCut
<1> QED BY <1>4, <1>5, <1>6

LEMMA WrittenType ==
    ASSUME TransferTypeOK, NEW off \in Nat, NEW n \in 0..Len(Chunk(off))
    PROVE  Written(off, n) \in Seq(0..total)
<1> DEFINE data == SubSeq(Chunk(off), 1, n)
           gap == IF off > Len(remote) THEN off - Len(remote) ELSE 0
           hole == [i \in 1..gap |-> 0]
           head == SubSeq(remote, 1, Len2(off, Len(remote)))
           rest == SubSeq(remote, off + n + 1, Len(remote))
<1>1. data \in Seq(0..total)
  BY PartFacts
<1>0. Chunk(off) \in Seq(0..total) /\ remote \in Seq(0..total) /\ total \in Nat
  BY LocalFacts, ChunkFacts DEF TransferTypeOK
<1>2. remote \in Seq(0..total) /\ Len(remote) \in Nat /\ total \in Nat /\ n \in Nat
  BY <1>0, LenProperties
<1>3. gap \in Nat
  BY <1>2
<1>4. hole \in Seq(0..total)
  BY <1>2, <1>3
<1>5. Len2(off, Len(remote)) \in Nat /\ Len2(off, Len(remote)) <= Len(remote)
  BY <1>2 DEF Len2
<1>6. head \in Seq(0..total)
  BY <1>2, <1>5, Cut
<1>7. off + n + 1 \in Nat /\ off + n + 1 > 0 /\ Len(remote) <= Len(remote)
  BY <1>2
<1>8. rest \in Seq(0..total)
  BY <1>2, <1>7, Cut
<1>9. Written(off, n) = IF off = 0 THEN data ELSE head \o hole \o data \o rest
  BY DEF Written
<1> HIDE DEF data, hole, head, rest
<1>10. head \o hole \o data \o rest \in Seq(0..total)
  BY <1>1, <1>4, <1>6, <1>8
<1> QED BY <1>1, <1>9, <1>10

\* Writing a chunk where the file is known keeps it a beginning of ours.
LEMMA WrittenPrefix ==
    ASSUME TransferTypeOK, NEW off \in Nat, off < total, NEW n \in 0..Len(Chunk(off)),
           off = 0 \/ (IsPrefix(remote, Local) /\ off <= Len(remote))
    PROVE  IsPrefix(Written(off, n), Local) /\ Len(Written(off, n)) >= off + n
<1> DEFINE data == SubSeq(Chunk(off), 1, n)
           gap == IF off > Len(remote) THEN off - Len(remote) ELSE 0
           hole == [i \in 1..gap |-> 0]
           head == SubSeq(remote, 1, Len2(off, Len(remote)))
           rest == SubSeq(remote, off + n + 1, Len(remote))
<1>1. data \in Seq(0..total) /\ Len(data) = n /\ Counts(data, off)
  BY PartFacts
<1>2. n \in Nat /\ off + n <= total
  BY ChunkFacts, LocalFacts, LenProperties
<1>3. Written(off, n) \in Seq(0..total)
  BY WrittenType
<1>4. Written(off, n) = IF off = 0 THEN data ELSE head \o hole \o data \o rest
  BY DEF Written
<1>5. CASE off = 0
  <2>1. Written(off, n) = data
    BY <1>4, <1>5
  <2> HIDE DEF data
  <2>2. IsPrefix(data, Local)
    BY <1>1, <1>2, <1>5, LocalFacts, PrefixCounts
  <2> QED BY <1>1, <1>2, <1>5, <2>1, <2>2
<1>6. CASE off # 0
  <2>1. /\ remote \in Seq(0..total) /\ total \in Nat /\ Len(remote) \in Nat
        /\ IsPrefix(remote, Local) /\ off <= Len(remote)
    BY <1>6, LocalFacts, LenProperties DEF TransferTypeOK
  <2>2. Len(remote) <= total /\ Counts(remote, 0)
    BY <2>1, PrefixCounts
  <2>3. gap = 0
    BY <2>1
  <2>4. hole = <<>>
    BY <2>3
  <2>5. Len2(off, Len(remote)) = off
    BY <2>1 DEF Len2
  <2>6. head = SubSeq(remote, 0 + 1, off) /\ 0 + 0 = 0
    BY <2>5
  <2>7. head \in Seq(0..total) /\ Len(head) = off
    BY <2>1, <2>5, <1>6, Cut
  <2>8. Counts(SubSeq(remote, 0 + 1, off), 0 + 0)
    BY <2>1, <2>2, CountsCut
  <2>9. Counts(head, 0)
    BY <2>6, <2>8
  <2>10. off + n \in Nat /\ off + n + 1 \in Nat /\ off + n + 1 > 0
         /\ Len(remote) <= Len(remote) /\ 0 + (off + n) = off + n
    BY <1>2, <2>1
  <2>11. /\ rest \in Seq(0..total)
         /\ Len(rest) = IF off + n + 1 <= Len(remote)
                         THEN (Len(remote) - (off + n + 1)) + 1 ELSE 0
    BY <2>1, <2>10, Cut
  <2>12. Counts(SubSeq(remote, (off + n) + 1, Len(remote)), 0 + (off + n))
    BY <2>1, <2>2, <2>10, CountsCut
  <2>13. Counts(rest, off + n)
    BY <2>10, <2>12
  <2> HIDE DEF data, hole, head, rest
  <2>14. head \o hole = head
    BY <2>4, <2>7, ConcatEmptySeq
  <2>15. Written(off, n) = (head \o data) \o rest
    BY <1>4, <1>6, <2>14
  <2>16. Counts(data, 0 + Len(head)) /\ 0 \in Nat
    BY <1>1, <2>7
  <2>17. head \o data \in Seq(0..total) /\ Len(head \o data) = off + n
    BY <1>1, <2>7, Join
  <2>18. Counts(head \o data, 0)
    BY <1>1, <2>1, <2>7, <2>9, <2>16, CountsJoin
  <2>19. Counts(rest, 0 + Len(head \o data))
    BY <2>10, <2>13, <2>17
  <2>20. Counts((head \o data) \o rest, 0)
    BY <2>1, <2>11, <2>16, <2>17, <2>18, <2>19, CountsJoin
  <2>21. Len((head \o data) \o rest) = (off + n) + Len(rest) /\ Len(rest) \in Nat
    BY <2>11, <2>17, Join
  <2>22. (off + n) + Len(rest) <= total
    <3>1. CASE off + n + 1 <= Len(remote)
      BY <3>1, <1>2, <2>1, <2>2, <2>11
    <3>2. CASE ~(off + n + 1 <= Len(remote))
      BY <3>2, <1>2, <2>1, <2>2, <2>11
    <3> QED BY <3>1, <3>2
  <2>23. IsPrefix(Written(off, n), Local)
    <3> DEFINE w == Written(off, n)
    <3>1. w \in Seq(0..total) /\ Len(w) <= total /\ Counts(w, 0)
      BY <1>3, <2>15, <2>20, <2>21, <2>22
    <3> HIDE DEF w
    <3>2. IsPrefix(w, Local)
      BY <3>1, PrefixCounts
    <3> QED BY <3>2 DEF w
  <2> QED BY <2>15, <2>10, <2>21, <2>23
<1> QED BY <1>5, <1>6
----------------------------------------------------------------------------
(* The calls' ends.                                                        *)

LEMMA ExactIsBoolean == Exact \in BOOLEAN
<1>1. CASE call.op = "upload"
  <2>1. Exact = (exists /\ remote = Local)
    BY <1>1 DEF Exact
  <2> QED BY <2>1, Zenon
<1>2. CASE call.op # "upload"
  <2>1. Exact = (copy = remote)
    BY <1>2 DEF Exact
  <2> QED BY <2>1, Zenon
<1> QED BY <1>1, <1>2

\* The rest of the state a call's end leaves.
EndKeeps ==
    /\ total' = total /\ copy' \in Seq(0..total) /\ remote' \in Seq(0..total)
    /\ exists' \in BOOLEAN /\ offset' \in Nat /\ size' \in Nat
    /\ attempt' \in 0..Retries /\ net' \subseteq Request
    /\ calls' \in 0..MaxCalls /\ faults' \in 0..MaxFaults
    /\ kin' \in BOOLEAN /\ stale' \in BOOLEAN

LEMMA EndedInv ==
    ASSUME TransferInv, EndKeeps, NEW st \in {"ok", "short", "raised"},
           NEW verified \in BOOLEAN, Ended(st, verified),
           st = "ok" /\ total > 0 /\ (verified \/ (kin' /\ ~stale')) => Exact
    PROVE  TransferInv'
<1>1. /\ result' = [st |-> st, verified |-> verified, exact |-> Exact]
      /\ at' = "idle" /\ call' = NoCall
  BY DEF Ended
<1>2. result' \in [st: {"none", "ok", "short", "raised"}, verified: BOOLEAN,
                   exact: BOOLEAN]
  BY <1>1, ExactIsBoolean
<1>3. call' \in Calls /\ call'.op = "none"
  BY <1>1 DEF NoCall, Calls
<1>4. TransferTypeOK'
  BY <1>1, <1>2, <1>3 DEF EndKeeps, TransferTypeOK, TransferInv
<1>5. ControlInv'
  BY <1>1, <1>3 DEF ControlInv
<1>6. UploadInv' /\ DownloadInv'
  BY <1>3 DEF UploadInv, DownloadInv
<1>7. result'.st = st /\ result'.exact = Exact /\ result'.verified = verified
  BY <1>1
<1>8. TransferExact'
  BY <1>7 DEF TransferExact, EndKeeps
<1> QED BY <1>4, <1>5, <1>6, <1>8 DEF TransferInv

LEMMA FaultType ==
    ASSUME TransferTypeOK, Fault
    PROVE  faults' \in 0..MaxFaults
BY TransferAssumption DEF TransferTypeOK, Fault

\* A file that holds every chunk and nothing else is the local one.
LEMMA UploadedExact ==
    ASSUME TransferInv, call.op = "upload", kin, ~stale, total > 0, offset >= total
    PROVE  Exact
<1>1. /\ remote \in Seq(0..total) /\ total \in Nat /\ offset \in Nat
      /\ Local \in Seq(0..total) /\ Len(Local) = total /\ Len(remote) \in Nat
  BY LocalFacts, LenProperties DEF TransferInv, TransferTypeOK
<1>2. exists /\ IsPrefix(remote, Local) /\ Len(remote) >= offset
  BY <1>1 DEF TransferInv, UploadInv
<1>3. Len(remote) >= Len(Local)
  BY <1>1, <1>2
<1>4. remote = Local
  BY <1>1, <1>2, <1>3, WholePrefix
<1> QED BY <1>2, <1>4 DEF Exact

\* A copy that is a beginning of the file and as long is the file.
LEMMA DownloadedExact ==
    ASSUME TransferInv, call.op = "download", at = "read", kin, ~stale, offset >= size
    PROVE  Exact
<1>1. copy \in Seq(0..total) /\ remote \in Seq(0..total)
  BY DEF TransferInv, TransferTypeOK
<1>2. size = Len(remote) /\ offset = Len(copy) /\ IsPrefix(copy, remote)
  BY DEF TransferInv, DownloadInv
<1>3. copy = remote
  BY <1>1, <1>2, WholePrefix
<1> QED BY <1>3 DEF Exact

LEMMA HashInv ==
    ASSUME TransferInv, Hash
    PROVE  TransferInv'
<1>1. UNCHANGED <<total, remote, exists, copy, offset, size, attempt, net, calls, kin, stale>>
  BY DEF Hash, file
<1>2. ASSUME faults' \in 0..MaxFaults PROVE EndKeeps
  BY <1>1, <1>2 DEF EndKeeps, TransferInv, TransferTypeOK
<1>3. faults \in 0..MaxFaults
  BY DEF TransferInv, TransferTypeOK
<1>4. CASE exists /\ Exact /\ Ended("ok", TRUE) /\ UNCHANGED faults
  <2>1. EndKeeps
    BY <1>2, <1>3, <1>4
  <2> QED BY <1>4, <2>1, EndedInv
<1>5. CASE Ended("raised", FALSE) /\ UNCHANGED faults
  <2>1. EndKeeps
    BY <1>2, <1>3, <1>5
  <2> QED BY <1>5, <2>1, EndedInv
<1>6. CASE Fault /\ Ended("raised", FALSE)
  <2>1. EndKeeps
    BY <1>2, <1>6, FaultType DEF TransferInv
  <2> QED BY <1>6, <2>1, EndedInv
<1> QED BY <1>4, <1>5, <1>6 DEF Hash

----------------------------------------------------------------------------
(* The steps of an upload.                                                 *)

LEMMA UploadBeginInv ==
    ASSUME TransferInv, UploadBegin
    PROVE  TransferInv'
<1>1. /\ call' \in Calls /\ call'.op = "upload" /\ at' \in {"stat", "send"}
      /\ offset' = 0 /\ attempt' = 0 /\ kin' = TRUE /\ result' = NoResult
      /\ calls < MaxCalls /\ calls' = calls + 1
      /\ UNCHANGED <<total, remote, exists, copy, size, net, faults>>
  BY DEF UploadBegin, file
<1>2. stale' \in BOOLEAN
  BY Zenon DEF UploadBegin
<1>3. /\ offset' \in Nat /\ attempt' \in 0..Retries /\ calls' \in 0..MaxCalls
      /\ kin' \in BOOLEAN
  BY <1>1, TransferAssumption DEF TransferInv, TransferTypeOK
<1>4. result' \in [st: {"none", "ok", "short", "raised"}, verified: BOOLEAN,
                   exact: BOOLEAN]
  BY <1>1 DEF NoResult
<1>5. TransferTypeOK'
  BY <1>1, <1>2, <1>3, <1>4 DEF TransferInv, TransferTypeOK
<1>6. call' # NoCall
  BY <1>1 DEF NoCall
<1>7. ControlInv'
  BY <1>1, <1>6 DEF ControlInv
<1>8. UploadInv' /\ DownloadInv'
  BY <1>1 DEF UploadInv, DownloadInv
<1>9. TransferExact'
  BY <1>1 DEF TransferExact, NoResult
<1> QED BY <1>5, <1>7, <1>8, <1>9 DEF TransferInv

LEMMA UploadStatInv ==
    ASSUME TransferInv, UploadStat
    PROVE  TransferInv'
<1>1. /\ UNCHANGED <<total, remote, exists, copy, size, attempt, net, calls, stale>>
      /\ at = "stat" /\ call.op = "upload"
  BY DEF UploadStat, file
<1>2. remote \in Seq(0..total) /\ Len(remote) \in Nat
  BY LenProperties DEF TransferInv, TransferTypeOK
<1>3. call # NoCall /\ result = NoResult
  BY <1>1 DEF TransferInv, ControlInv, NoCall
<1>4. CASE exists /\ Ended("short", FALSE) /\ UNCHANGED <<offset, kin, faults>>
  <2>1. EndKeeps
    BY <1>1, <1>4 DEF EndKeeps, TransferInv, TransferTypeOK
  <2> QED BY <1>4, <2>1, EndedInv
<1>5. ASSUME at' = "send", UNCHANGED <<call, result>>, offset' \in Nat, kin' \in BOOLEAN,
             faults' \in 0..MaxFaults, UploadInv'
      PROVE  TransferInv'
  <2>1. TransferTypeOK'
    BY <1>1, <1>5 DEF TransferInv, TransferTypeOK
  <2>2. ControlInv'
    BY <1>1, <1>3, <1>5 DEF ControlInv
  <2>3. DownloadInv' /\ TransferExact'
    BY <1>1, <1>3, <1>5 DEF DownloadInv, TransferExact, NoResult
  <2> QED BY <1>5, <2>1, <2>2, <2>3 DEF TransferInv
<1>6. CASE /\ exists /\ Len(remote) < total /\ offset' = Len(remote) /\ at' = "send"
           /\ kin' = IsPrefix(remote, Local) /\ UNCHANGED <<call, result, faults>>
  <2>1. kin' \in BOOLEAN
    BY <1>6, Zenon DEF IsPrefix
  <2>2. Local' = Local
    BY <1>1 DEF Local
  <2>3. UploadInv'
    BY <1>1, <1>2, <1>6, <2>2 DEF UploadInv
  <2> QED BY <1>2, <1>5, <1>6, <2>1, <2>3 DEF TransferInv, TransferTypeOK
<1>7. CASE /\ at' = "send" /\ UNCHANGED <<offset, kin, call, result>>
           /\ faults' = faults \/ Fault
  <2>1. faults' \in 0..MaxFaults
    BY <1>7, FaultType DEF TransferInv, TransferTypeOK
  <2>2. UploadInv'
    BY <1>1, <1>7 DEF UploadInv, TransferInv, Local
  <2> QED BY <1>5, <1>7, <2>1, <2>2 DEF TransferInv, TransferTypeOK
<1> QED BY <1>4, <1>6, <1>7 DEF UploadStat

LEMMA TransferredInv ==
    ASSUME TransferInv, Transferred, at # "idle",
           UNCHANGED <<total, remote, exists, copy, offset, size, net, calls, kin>>,
           faults' \in 0..MaxFaults, stale' \in {stale, TRUE}, attempt' \in 0..Retries,
           kin /\ ~stale' /\ total > 0 => Exact
    PROVE  TransferInv'
<1>1. CASE at' = "hash" /\ UNCHANGED <<call, result>>
  <2>1. TransferTypeOK'
    BY <1>1 DEF TransferInv, TransferTypeOK
  <2>2. ControlInv'
    BY <1>1 DEF ControlInv, TransferInv
  <2>3. UploadInv'
    BY <1>1 DEF UploadInv, TransferInv, Local
  <2>4. DownloadInv' /\ TransferExact'
    BY <1>1 DEF DownloadInv, TransferExact, TransferInv
  <2> QED BY <2>1, <2>2, <2>3, <2>4 DEF TransferInv
<1>2. CASE Ended("ok", FALSE)
  <2>1. EndKeeps
    BY DEF EndKeeps, TransferInv, TransferTypeOK
  <2> QED BY <1>2, <2>1, EndedInv
<1> QED BY <1>1, <1>2 DEF Transferred

LEMMA SendInv ==
    ASSUME TransferInv, Send
    PROVE  TransferInv'
<1>1. /\ UNCHANGED <<total, remote, exists, copy, offset, size, attempt, calls, faults,
                     kin, stale>>
      /\ at = "send" /\ call.op = "upload"
  BY DEF Send, file, TransferInv, ControlInv
<1>2. CASE offset < total /\ at' = "wait" /\ UNCHANGED <<call, result>>
           /\ net' = net \cup {[off |-> offset, n |-> calls * 10 + attempt]}
  <2>1. offset \in Nat /\ calls * 10 + attempt \in Nat
    BY TransferAssumption DEF TransferInv, TransferTypeOK
  <2>2. net' \subseteq Request
    BY <1>2, <2>1 DEF TransferInv, TransferTypeOK, Request
  <2>3. TransferTypeOK'
    BY <1>1, <1>2, <2>2 DEF TransferInv, TransferTypeOK
  <2>4. ControlInv'
    BY <1>1, <1>2 DEF ControlInv, TransferInv
  <2>5. UploadInv'
    BY <1>1, <1>2 DEF UploadInv, TransferInv, Local
  <2>6. DownloadInv' /\ TransferExact'
    BY <1>1, <1>2 DEF DownloadInv, TransferExact, TransferInv
  <2> QED BY <2>3, <2>4, <2>5, <2>6 DEF TransferInv
<1>3. CASE offset >= total /\ Transferred /\ UNCHANGED net
  <2>1. attempt' \in 0..Retries
    BY <1>1 DEF TransferInv, TransferTypeOK
  <2>2. kin /\ ~stale' /\ total > 0 => Exact
    BY <1>1, <1>3, UploadedExact
  <2>3. faults' \in 0..MaxFaults /\ stale' \in {stale, TRUE} /\ at # "idle"
    BY <1>1 DEF TransferInv, TransferTypeOK
  <2> QED BY <1>1, <1>3, <2>1, <2>2, <2>3, TransferredInv
<1> QED BY <1>2, <1>3 DEF Send

\* What a write request leaves on the target while its answer is awaited.
WriteKeeps ==
    /\ remote' \in Seq(0..total) /\ exists' \in BOOLEAN
    /\ net' \subseteq Request /\ faults' \in 0..MaxFaults
    /\ kin /\ ~stale /\ offset > 0
         => exists' /\ IsPrefix(remote', Local) /\ Len(remote') >= offset

LEMMA RetryInv ==
    ASSUME TransferInv, at = "wait", WriteKeeps, Retry
    PROVE  TransferInv'
<1>1. call.op = "upload" /\ call # NoCall /\ result = NoResult
  BY DEF TransferInv, ControlInv, NoCall
<1>2. CASE /\ attempt < Retries /\ attempt' = attempt + 1 /\ at' = "send"
           /\ UNCHANGED <<total, copy, call, offset, size, calls, kin, stale, result>>
  <2>1. attempt' \in 0..Retries
    BY <1>2, TransferAssumption DEF TransferInv, TransferTypeOK
  <2>2. TransferTypeOK'
    BY <1>2, <2>1 DEF TransferInv, TransferTypeOK, WriteKeeps
  <2>3. ControlInv'
    BY <1>1, <1>2 DEF ControlInv
  <2>4. Local' = Local
    BY <1>2 DEF Local
  <2>5. UploadInv'
    BY <1>2, <2>4 DEF UploadInv, WriteKeeps
  <2>6. DownloadInv' /\ TransferExact'
    BY <1>1, <1>2 DEF DownloadInv, TransferExact, NoResult
  <2> QED BY <2>2, <2>3, <2>5, <2>6 DEF TransferInv
<1>3. CASE Raised /\ UNCHANGED attempt
  <2>1. EndKeeps
    BY <1>3 DEF Raised, EndKeeps, WriteKeeps, TransferInv, TransferTypeOK
  <2>2. Ended("raised", FALSE)
    BY <1>3 DEF Raised
  <2> QED BY <2>1, <2>2, EndedInv
<1> QED BY <1>2, <1>3 DEF Retry

\* An awaited write of the first n units of the chunk.
LEMMA WriteKept ==
    ASSUME TransferInv, at = "wait", NEW n \in 0..Len(Chunk(offset)),
           remote' = Written(offset, n), exists' = TRUE,
           net' \subseteq Request, faults' \in 0..MaxFaults
    PROVE  /\ WriteKeeps
           /\ kin /\ ~stale => IsPrefix(remote', Local) /\ Len(remote') >= offset + n
<1>1. TransferTypeOK /\ offset \in Nat /\ offset < total /\ call.op = "upload"
  BY DEF TransferInv, TransferTypeOK, ControlInv
<1>2. remote' \in Seq(0..total)
  BY <1>1, WrittenType
<1>3. n \in Nat
  <2>1. Chunk(offset) \in Seq(0..total)
    BY <1>1, ChunkFacts
  <2> QED BY <2>1, LenProperties
<1>4. kin /\ ~stale /\ offset > 0 => IsPrefix(remote, Local) /\ offset <= Len(remote)
  <2>1. Len(remote) \in Nat
    BY <1>1, LenProperties DEF TransferTypeOK
  <2> QED BY <1>1, <2>1 DEF TransferInv, UploadInv
<1>5. kin /\ ~stale => IsPrefix(remote', Local) /\ Len(remote') >= offset + n
  BY <1>1, <1>4, WrittenPrefix
<1>6. Len(remote') \in Nat
  BY <1>2, LenProperties
<1>7. kin /\ ~stale => Len(remote') >= offset
  BY <1>1, <1>3, <1>5, <1>6
<1> QED BY <1>2, <1>5, <1>7 DEF WriteKeeps

LEMMA AcceptedInv ==
    ASSUME TransferInv, at = "wait", WriteKeeps, Accepted,
           remote' = Written(offset, Len(Chunk(offset))), exists' = TRUE,
           kin /\ ~stale => /\ IsPrefix(remote', Local)
                            /\ Len(remote') >= offset + Len(Chunk(offset))
    PROVE  TransferInv'
<1>1. call.op = "upload" /\ call # NoCall /\ result = NoResult
  BY DEF TransferInv, ControlInv, NoCall
<1>2. /\ offset' = offset + Len(Chunk(offset)) /\ attempt' = 0 /\ at' = "send"
      /\ UNCHANGED <<total, copy, call, size, calls, kin, stale, result>>
  BY DEF Accepted
<1>3. offset \in Nat /\ TransferTypeOK
  BY DEF TransferInv, TransferTypeOK
<1>4. Len(Chunk(offset)) \in Nat
  <2>1. Chunk(offset) \in Seq(0..total)
    BY <1>3, ChunkFacts
  <2> QED BY <2>1, LenProperties
<1>5. offset' \in Nat /\ attempt' \in 0..Retries
  BY <1>2, <1>3, <1>4, TransferAssumption
<1>6. TransferTypeOK'
  BY <1>2, <1>3, <1>5 DEF TransferTypeOK, WriteKeeps
<1>7. ControlInv'
  BY <1>1, <1>2 DEF ControlInv
<1>8. Local' = Local
  BY <1>2 DEF Local
<1>9. UploadInv'
  BY <1>2, <1>8 DEF UploadInv
<1>10. DownloadInv' /\ TransferExact'
  BY <1>1, <1>2 DEF DownloadInv, TransferExact, NoResult
<1> QED BY <1>6, <1>7, <1>9, <1>10 DEF TransferInv

\* Whatever happens to the target once the call's promise is off.
LEMMA StaleInv ==
    ASSUME TransferInv, stale' = TRUE, remote' \in Seq(0..total), exists' \in BOOLEAN,
           net' \subseteq Request, faults' \in 0..MaxFaults,
           UNCHANGED <<total, copy, call, at, offset, size, attempt, calls, kin, result>>
    PROVE  TransferInv'
<1>1. TransferTypeOK'
  BY DEF TransferInv, TransferTypeOK
<1>2. ControlInv'
  BY DEF TransferInv, ControlInv
<1> QED BY <1>1, <1>2 DEF TransferInv, UploadInv, DownloadInv, TransferExact

LEMMA ExecuteInv ==
    ASSUME TransferInv, NEW r \in net, Execute(r)
    PROVE  TransferInv'
<1> DEFINE full == Len(Chunk(r.off))
<1>1. net' \subseteq Request /\ r \in Request /\ r.off \in Nat /\ TransferTypeOK
  BY DEF TransferInv, TransferTypeOK, Execute, Request
<1>2. full \in Nat /\ full \in 0..full
  <2>1. Chunk(r.off) \in Seq(0..total)
    BY <1>1, ChunkFacts
  <2> QED BY <2>1, LenProperties
<1>3. ASSUME Awaited(r) PROVE at = "wait" /\ r.off = offset /\ offset \in Nat
  BY <1>1, <1>3 DEF Awaited, TransferTypeOK
<1>4. ASSUME faults' = faults \/ Fault PROVE faults' \in 0..MaxFaults
  BY <1>1, <1>4, FaultType DEF TransferTypeOK
<1>5. CASE remote' = Written(r.off, full) /\ exists' = TRUE /\ Awaited(r)
           /\ \/ Accepted /\ UNCHANGED faults
              \/ Retry /\ Fault
  <2>1. faults' \in 0..MaxFaults
    BY <1>4, <1>5
  <2>2. /\ WriteKeeps
        /\ kin /\ ~stale => IsPrefix(remote', Local) /\ Len(remote') >= offset + full
    BY <1>1, <1>2, <1>3, <1>5, <2>1, WriteKept
  <2>3. CASE Accepted
    BY <1>3, <1>5, <2>2, <2>3, AcceptedInv
  <2>4. CASE Retry
    BY <1>3, <1>5, <2>2, <2>4, RetryInv
  <2> QED BY <1>5, <2>3, <2>4
<1>6. CASE /\ remote' = Written(r.off, full) /\ exists' = TRUE /\ stale' = TRUE
           /\ UNCHANGED <<total, copy, call, at, offset, size, attempt, calls, faults,
                          kin, result>>
  <2>1. remote' \in Seq(0..total) /\ faults' \in 0..MaxFaults /\ exists' \in BOOLEAN
    BY <1>1, <1>2, <1>6, WrittenType DEF TransferTypeOK
  <2> QED BY <1>1, <1>6, <2>1, StaleInv
<1>7. CASE /\ Awaited(r) /\ Fault /\ Retry
           /\ \E n \in 0..full - 1 : \/ remote' = Written(r.off, n) /\ exists' = TRUE
                                     \/ UNCHANGED <<remote, exists>>
  <2>1. faults' \in 0..MaxFaults
    BY <1>4, <1>7
  <2>2. PICK n \in 0..full - 1 : \/ remote' = Written(r.off, n) /\ exists' = TRUE
                                 \/ UNCHANGED <<remote, exists>>
    BY <1>7
  <2>3. n \in 0..full
    BY <1>2
  <2>4. CASE remote' = Written(r.off, n) /\ exists' = TRUE
    <3>1. WriteKeeps
      BY <1>1, <1>3, <1>7, <2>1, <2>3, <2>4, WriteKept
    <3> QED BY <1>3, <1>7, <3>1, RetryInv
  <2>5. CASE UNCHANGED <<remote, exists>>
    <3>1. WriteKeeps
      BY <1>1, <1>3, <1>7, <2>1, <2>5
         DEF WriteKeeps, TransferTypeOK, TransferInv, UploadInv, ControlInv
    <3> QED BY <1>3, <1>7, <3>1, RetryInv
  <2> QED BY <2>2, <2>4, <2>5
<1>8. CASE /\ Awaited(r) /\ r.off > Len(remote)
           /\ exists' = TRUE /\ UNCHANGED <<remote, faults>> /\ Retry
  <2>1. faults' \in 0..MaxFaults
    BY <1>4, <1>8
  <2>2. WriteKeeps
    BY <1>1, <1>3, <1>8, <2>1
       DEF WriteKeeps, TransferTypeOK, TransferInv, UploadInv, ControlInv
  <2> QED BY <1>3, <1>8, <2>2, RetryInv
<1> QED BY <1>5, <1>6, <1>7, <1>8 DEF Execute

LEMMA GiveUpInv ==
    ASSUME TransferInv, NEW r \in net, GiveUp(r)
    PROVE  TransferInv'
<1>1. /\ net' \subseteq Request /\ faults' \in 0..MaxFaults /\ at = "wait"
      /\ UNCHANGED <<remote, exists>> /\ Retry
  BY FaultType DEF TransferInv, TransferTypeOK, GiveUp, Awaited
<1>2. WriteKeeps
  BY <1>1 DEF WriteKeeps, TransferTypeOK, TransferInv, UploadInv, ControlInv
<1> QED BY <1>1, <1>2, RetryInv

LEMMA ForgetInv ==
    ASSUME TransferInv, NEW r \in net, Forget(r)
    PROVE  TransferInv'
<1>1. /\ net' \subseteq net
      /\ UNCHANGED <<total, remote, exists, copy, call, at, offset, size, attempt, calls,
                     faults, kin, stale, result>>
  BY DEF Forget, file
<1>2. TransferTypeOK'
  BY <1>1 DEF TransferInv, TransferTypeOK
<1>3. ControlInv' /\ UploadInv'
  BY <1>1 DEF TransferInv, ControlInv, UploadInv, Local
<1> QED BY <1>1, <1>2, <1>3 DEF TransferInv, DownloadInv, TransferExact

----------------------------------------------------------------------------
(* The steps of a download.                                                *)

LEMMA DownloadBeginInv ==
    ASSUME TransferInv, DownloadBegin
    PROVE  TransferInv'
<1>1. /\ call' \in Calls /\ call'.op = "download" /\ at' = "stat"
      /\ offset' = (IF call'.resume THEN Len(copy) ELSE 0)
      /\ attempt' = 0 /\ result' = NoResult
      /\ calls < MaxCalls /\ calls' = calls + 1
      /\ UNCHANGED <<total, remote, exists, copy, size, net, faults>>
  BY DEF DownloadBegin, file
<1>2. stale' \in BOOLEAN /\ kin' \in BOOLEAN
  BY Zenon DEF DownloadBegin
<1>3. /\ attempt' \in 0..Retries /\ calls' \in 0..MaxCalls
  BY <1>1, TransferAssumption DEF TransferInv, TransferTypeOK
<1>4. offset' \in Nat
  BY <1>1, LenProperties DEF TransferInv, TransferTypeOK
<1>5. result' \in [st: {"none", "ok", "short", "raised"}, verified: BOOLEAN,
                   exact: BOOLEAN]
  BY <1>1 DEF NoResult
<1>6. TransferTypeOK'
  BY <1>1, <1>2, <1>3, <1>4, <1>5 DEF TransferInv, TransferTypeOK
<1>7. call' # NoCall
  BY <1>1 DEF NoCall
<1>8. ControlInv'
  BY <1>1, <1>7 DEF ControlInv
<1>9. UploadInv' /\ TransferExact'
  BY <1>1 DEF UploadInv, TransferExact, NoResult
<1>10. offset' > 0 => call'.resume
  BY <1>1
<1>11. kin' /\ call'.resume => IsPrefix(copy, remote)
  BY DEF DownloadBegin
<1>12. DownloadInv'
  BY <1>1, <1>10, <1>11 DEF DownloadInv
<1> QED BY <1>6, <1>8, <1>9, <1>12 DEF TransferInv

LEMMA DownloadStatInv ==
    ASSUME TransferInv, DownloadStat
    PROVE  TransferInv'
<1>1. /\ UNCHANGED <<total, remote, exists, offset, attempt, net, calls, kin, stale>>
      /\ at = "stat" /\ call.op = "download"
  BY DEF DownloadStat, file
<1>2. call # NoCall /\ result = NoResult
  BY <1>1 DEF TransferInv, ControlInv, NoCall
<1>3. CASE /\ size' = Len(remote) /\ at' = "read"
           /\ copy' = (IF offset > 0 THEN copy ELSE <<>>)
           /\ UNCHANGED <<call, result, faults>>
  <2>1. /\ remote \in Seq(0..total) /\ copy \in Seq(0..total) /\ <<>> \in Seq(0..total)
        /\ offset \in Nat /\ Len(remote) \in Nat /\ Len(<<>>) = 0
    BY LenProperties, EmptySeq DEF TransferInv, TransferTypeOK
  <2>2. copy' \in Seq(0..total) /\ size' \in Nat
    BY <1>3, <2>1
  <2>3. TransferTypeOK'
    BY <1>1, <1>3, <2>2 DEF TransferInv, TransferTypeOK
  <2>4. ControlInv'
    BY <1>1, <1>2, <1>3 DEF ControlInv
  <2>5. UploadInv' /\ TransferExact'
    BY <1>1, <1>2, <1>3 DEF UploadInv, TransferExact, NoResult
  <2>6. IsPrefix(<<>>, remote)
    <3>1. SubSeq(<<>>, 1, 0) = <<>> /\ SubSeq(remote, 1, 0) = <<>>
      BY SubSeqEmpty
    <3> QED BY <2>1, <3>1 DEF IsPrefix
  <2>7. DownloadInv'
    <3>1. CASE offset > 0
      BY <1>1, <1>3, <3>1 DEF DownloadInv, TransferInv
    <3>2. CASE offset = 0
      BY <1>1, <1>3, <2>1, <2>6, <3>2 DEF DownloadInv
    <3> QED BY <2>1, <3>1, <3>2
  <2> QED BY <2>3, <2>4, <2>5, <2>7 DEF TransferInv
<1>4. CASE Ended("raised", FALSE) /\ UNCHANGED <<size, copy>> /\ (faults' = faults \/ Fault)
  <2>1. faults' \in 0..MaxFaults
    BY <1>4, FaultType DEF TransferInv, TransferTypeOK
  <2>2. EndKeeps
    BY <1>1, <1>4, <2>1 DEF EndKeeps, TransferInv, TransferTypeOK
  <2> QED BY <1>4, <2>2, EndedInv
<1> QED BY <1>3, <1>4 DEF DownloadStat

\* What one read answers, and where it leaves the copy.
Payload == SubSeq(remote, offset + 1, Len2(Len2(offset + ChunkSize, size), Len(remote)))

LEMMA PayloadFacts ==
    ASSUME TransferTypeOK
    PROVE  /\ Payload \in Seq(0..total) /\ Len(Payload) \in Nat
           /\ \A i \in 1..Len(Payload) : Payload[i] = remote[offset + i]
           /\ offset + Len(Payload) <= Len(remote) \/ Len(Payload) = 0
           /\ offset < size /\ size = Len(remote) => Len(Payload) > 0
<1> DEFINE from == offset + 1
           to == Len2(Len2(offset + ChunkSize, size), Len(remote))
<1>1. /\ remote \in Seq(0..total) /\ Len(remote) \in Nat /\ offset \in Nat /\ size \in Nat
      /\ ChunkSize \in Nat \ {0}
  BY LenProperties, TransferAssumption DEF TransferTypeOK
<1>2. /\ from \in Nat /\ from > 0 /\ to \in Nat /\ to <= Len(remote)
      /\ offset < size /\ size = Len(remote) => from <= to
  BY <1>1 DEF Len2
<1>3. Payload = SubSeq(remote, from, to)
  BY DEF Payload
<1> HIDE DEF from, to
<1>4. /\ Payload \in Seq(0..total)
      /\ Len(Payload) = IF from <= to THEN (to - from) + 1 ELSE 0
      /\ \A i \in 1..Len(Payload) : Payload[i] = remote[(from + i) - 1]
  <2>1. /\ SubSeq(remote, from, to) \in Seq(0..total)
        /\ Len(SubSeq(remote, from, to)) = IF from <= to THEN (to - from) + 1 ELSE 0
        /\ \A i \in 1..Len(SubSeq(remote, from, to)) :
              SubSeq(remote, from, to)[i] = remote[(from + i) - 1]
    <3>1. PICK a \in Nat, b \in Nat : a = from /\ b = to
      BY <1>2
    <3>2. a > 0 /\ b <= Len(remote)
      BY <1>2, <3>1
    <3>3. PICK D : D = 0..total
      OBVIOUS
    <3>4. PICK r \in Seq(D) : r = remote
      BY <1>1, <3>3
    <3>5. b <= Len(r)
      BY <3>2, <3>4
    <3>6. /\ SubSeq(r, a, b) \in Seq(D)
          /\ Len(SubSeq(r, a, b)) = IF a <= b THEN (b - a) + 1 ELSE 0
          /\ \A i \in 1..Len(SubSeq(r, a, b)) : SubSeq(r, a, b)[i] = r[(a + i) - 1]
      <4>1. a > 0
        BY <3>2
      <4> QED BY <3>5, <4>1, Cut
    <3> QED BY <3>1, <3>3, <3>4, <3>6
  <2> QED BY <2>1, <1>3
<1>5. Len(Payload) \in Nat
  BY <1>2, <1>4
<1>6. \A i \in 1..Len(Payload) : (from + i) - 1 = offset + i
  BY <1>1, <1>5 DEF from
<1>7. offset + Len(Payload) <= Len(remote) \/ Len(Payload) = 0
  BY <1>1, <1>2, <1>4 DEF from
<1>8. offset < size /\ size = Len(remote) => Len(Payload) > 0
  BY <1>2, <1>4
<1> QED BY <1>4, <1>5, <1>6, <1>7, <1>8

LEMMA CopyGrows ==
    ASSUME TransferTypeOK, offset = Len(copy), IsPrefix(copy, remote)
    PROVE  /\ IsPrefix(copy \o Payload, remote)
           /\ Len(copy \o Payload) = offset + Len(Payload)
<1>1. /\ copy \in Seq(0..total) /\ remote \in Seq(0..total)
      /\ Len(remote) \in Nat /\ Len(copy) \in Nat
  BY LenProperties DEF TransferTypeOK
<1>2. Len(copy) <= Len(remote) /\ \A i \in 1..Len(copy) : copy[i] = remote[i]
  BY <1>1, PrefixMeans
<1>3. /\ Payload \in Seq(0..total) /\ Len(Payload) \in Nat
      /\ \A i \in 1..Len(Payload) : Payload[i] = remote[offset + i]
      /\ offset + Len(Payload) <= Len(remote) \/ Len(Payload) = 0
  BY PayloadFacts
<1> DEFINE more == copy \o Payload
<1>4. /\ more \in Seq(0..total) /\ Len(more) = Len(copy) + Len(Payload)
      /\ \A i \in 1..Len(copy) : more[i] = copy[i]
      /\ \A i \in 1..Len(Payload) : more[Len(copy) + i] = Payload[i]
  BY <1>1, <1>3, Join
<1> HIDE DEF more
<1>5. Len(more) <= Len(remote)
  BY <1>1, <1>2, <1>3, <1>4
<1>6. ASSUME NEW i \in 1..Len(more) PROVE more[i] = remote[i]
  <2>1. CASE i <= Len(copy)
    <3>1. i \in 1..Len(copy)
      BY <1>1, <1>3, <1>4, <2>1
    <3> QED BY <3>1, <1>2, <1>4
  <2>2. CASE i > Len(copy)
    <3> DEFINE j == i - Len(copy)
    <3>1. j \in 1..Len(Payload) /\ Len(copy) + j = i
      BY <1>1, <1>3, <1>4, <2>2
    <3>2. more[Len(copy) + j] = Payload[j] /\ Payload[j] = remote[offset + j]
      BY <3>1, <1>3, <1>4
    <3> QED BY <3>1, <3>2
  <2> QED BY <1>1, <1>3, <1>4, <2>1, <2>2
<1>7. IsPrefix(more, remote)
  BY <1>1, <1>4, <1>5, <1>6, PrefixMeans
<1> QED BY <1>4, <1>7 DEF more

LEMMA DownloadReadInv ==
    ASSUME TransferInv, DownloadRead
    PROVE  TransferInv'
<1>1. /\ UNCHANGED <<total, remote, exists, size, net, calls, kin>>
      /\ at = "read" /\ call.op = "download" /\ TransferTypeOK /\ faults \in 0..MaxFaults
  BY DEF DownloadRead, file, TransferInv, ControlInv, TransferTypeOK
<1>2. call # NoCall /\ result = NoResult
  BY <1>1 DEF TransferInv, ControlInv, NoCall
<1>3. CASE /\ offset >= size /\ Transferred
           /\ UNCHANGED <<copy, offset, attempt, faults, stale>>
  <2>1. kin /\ ~stale' /\ total > 0 => Exact
    BY <1>1, <1>3, DownloadedExact
  <2>2. attempt' \in 0..Retries /\ faults' \in 0..MaxFaults /\ stale' \in {stale, TRUE}
    BY <1>1, <1>3 DEF TransferTypeOK
  <2> QED BY <1>1, <1>3, <2>1, <2>2, TransferredInv
<1>4. CASE /\ offset < size /\ exists
           /\ IF EmptyReply(Payload) THEN Transferred ELSE UNCHANGED <<at, call, result>>
           /\ copy' = copy \o Payload
           /\ offset' = offset + Len(Payload) /\ attempt' = 0
           /\ UNCHANGED <<faults, stale>>
  <2>1. /\ Payload \in Seq(0..total) /\ Len(Payload) \in Nat
        /\ offset < size /\ size = Len(remote) => Len(Payload) > 0
        /\ copy \in Seq(0..total) /\ offset \in Nat
    BY <1>1, PayloadFacts DEF TransferTypeOK
  <2>2. attempt' \in 0..Retries
    BY <1>4, TransferAssumption
  <2>3. CASE EmptyReply(Payload)
    <3>1. Payload = <<>> /\ Len(<<>>) = 0
      BY <2>3, EmptySeq DEF EmptyReply
    <3>2. offset' = offset /\ copy' = copy
      BY <1>4, <2>1, <3>1, ConcatEmptySeq
    <3>3. ~(kin /\ ~stale)
      <4>1. ASSUME kin, ~stale PROVE FALSE
        <5>1. size = Len(remote)
          BY <1>1, <4>1 DEF TransferInv, DownloadInv
        <5> QED BY <1>4, <2>1, <3>1, <5>1
      <4> QED BY <4>1
    <3>4. /\ Transferred /\ UNCHANGED <<copy, offset, faults, stale>>
          /\ faults' \in 0..MaxFaults /\ stale' \in {stale, TRUE}
      BY <1>1, <1>4, <2>3, <3>2 DEF TransferTypeOK
    <3> QED BY <1>1, <2>2, <3>3, <3>4, TransferredInv
  <2>4. CASE ~EmptyReply(Payload)
    <3>1. UNCHANGED <<at, call, result, stale>>
      BY <1>4, <2>4
    <3>2. copy' \in Seq(0..total) /\ offset' \in Nat
      BY <1>4, <2>1, Join
    <3>3. TransferTypeOK'
      BY <1>1, <1>4, <2>2, <3>1, <3>2 DEF TransferTypeOK
    <3>4. ControlInv'
      BY <1>1, <1>2, <3>1 DEF ControlInv
    <3>5. UploadInv' /\ TransferExact'
      BY <1>1, <1>2, <3>1 DEF UploadInv, TransferExact, NoResult
    <3>6. ASSUME kin, ~stale
          PROVE  size = Len(remote) /\ offset' = Len(copy') /\ IsPrefix(copy', remote)
      <4>1. size = Len(remote) /\ offset = Len(copy) /\ IsPrefix(copy, remote)
        BY <1>1, <3>6 DEF TransferInv, DownloadInv
      <4> QED BY <1>1, <1>4, <4>1, CopyGrows
    <3>7. DownloadInv'
      BY <1>1, <3>1, <3>6 DEF DownloadInv
    <3> QED BY <3>3, <3>4, <3>5, <3>7 DEF TransferInv
  <2> QED BY <2>3, <2>4
<1>5. CASE /\ offset < size /\ IF exists THEN Fault ELSE UNCHANGED faults
           /\ IF attempt < Retries
                THEN attempt' = attempt + 1 /\ UNCHANGED <<at, call, result>>
                ELSE Ended("raised", FALSE) /\ UNCHANGED attempt
           /\ UNCHANGED <<copy, offset, stale>>
  <2>1. faults' \in 0..MaxFaults
    BY <1>1, <1>5, FaultType DEF TransferTypeOK
  <2>2. CASE attempt' = attempt + 1 /\ attempt < Retries /\ UNCHANGED <<at, call, result>>
    <3>1. attempt' \in 0..Retries
      BY <1>1, <2>2, TransferAssumption DEF TransferTypeOK
    <3>2. TransferTypeOK'
      BY <1>1, <1>5, <2>1, <2>2, <3>1 DEF TransferTypeOK
    <3>3. ControlInv'
      BY <1>1, <1>2, <2>2 DEF ControlInv
    <3>4. UploadInv' /\ TransferExact' /\ DownloadInv'
      BY <1>1, <1>2, <1>5, <2>2
         DEF UploadInv, TransferExact, NoResult, DownloadInv, TransferInv
    <3> QED BY <3>2, <3>3, <3>4 DEF TransferInv
  <2>3. CASE Ended("raised", FALSE) /\ UNCHANGED attempt
    <3>1. EndKeeps
      BY <1>1, <1>5, <2>1, <2>3 DEF EndKeeps, TransferTypeOK
    <3> QED BY <2>3, <3>1, EndedInv
  <2> QED BY <1>5, <2>2, <2>3
<1>6. CASE /\ offset < size /\ exists /\ Fault
           /\ Transferred /\ attempt' = 0 /\ stale' = TRUE
           /\ UNCHANGED <<copy, offset>>
  <2>1. faults' \in 0..MaxFaults /\ attempt' \in 0..Retries /\ stale' \in {stale, TRUE}
    BY <1>1, <1>6, FaultType, TransferAssumption
  <2> QED BY <1>1, <1>6, <2>1, TransferredInv
<1> QED BY <1>3, <1>4, <1>5, <1>6 DEF DownloadRead, Payload

----------------------------------------------------------------------------
(* Other calls, and the whole specification.                               *)

LEMMA OtherCalledInv ==
    ASSUME TransferInv, OtherCalled
    PROVE  TransferInv'
<1>1. TransferTypeOK /\ total \in Nat
  BY LocalFacts DEF TransferInv
<1>2. ASSUME NEW units \in Seq(0..total), NEW there \in BOOLEAN, Changed(units, there)
      PROVE  TransferInv'
  <2>1. faults' \in 0..MaxFaults
    BY <1>1, <1>2, FaultType DEF Changed
  <2> QED BY <1>1, <1>2, <2>1, StaleInv DEF Changed, TransferTypeOK
<1>3. CASE fs_delete
  <2>1. <<>> \in Seq(0..total)
    BY EmptySeq
  <2> QED BY <1>2, <1>3, <2>1 DEF fs_delete
<1>4. CASE \E n \in Totals : fs_write(n)
  <2>1. PICK n \in Totals : fs_write(n)
    BY <1>4
  <2>2. n \in Nat
    BY TransferAssumption
  <2>3. [i \in 1..n |-> 0] \in Seq(0..total)
    BY <1>1, <2>2
  <2> QED BY <1>2, <2>1, <2>3 DEF fs_write
<1> QED BY <1>3, <1>4 DEF OtherCalled

LEMMA InitInv == TransferInit => TransferInv
<1> SUFFICES ASSUME TransferInit PROVE TransferInv
  OBVIOUS
<1>1. total \in Nat /\ total \in Totals
  BY TransferAssumption DEF TransferInit
<1>2. <<>> \in Seq(0..total) /\ [i \in 1..total + 1 |-> 0] \in Seq(0..total)
  BY <1>1
<1>3. remote \in Seq(0..total) /\ exists \in BOOLEAN /\ copy \in Seq(0..total)
  BY <1>2 DEF TransferInit
<1>4. call \in Calls /\ call.op = "none"
  BY DEF TransferInit, NoCall, Calls
<1>5. result \in [st: {"none", "ok", "short", "raised"}, verified: BOOLEAN,
                  exact: BOOLEAN] /\ result.st = "none"
  BY DEF TransferInit, NoResult
<1>6. TransferTypeOK
  <2>1. offset \in Nat /\ size \in Nat /\ attempt \in 0..Retries
    BY TransferAssumption DEF TransferInit
  <2>2. calls \in 0..MaxCalls /\ faults \in 0..MaxFaults
    BY TransferAssumption DEF TransferInit
  <2>3. at \in {"idle", "stat", "send", "wait", "read", "hash"} /\ net \subseteq Request
    BY DEF TransferInit
  <2>4. kin \in BOOLEAN /\ stale \in BOOLEAN
    BY DEF TransferInit
  <2> QED BY <1>1, <1>3, <1>4, <1>5, <2>1, <2>2, <2>3, <2>4 DEF TransferTypeOK
<1>7. ControlInv
  BY DEF TransferInit, ControlInv
<1> QED BY <1>4, <1>5, <1>6, <1>7
       DEF TransferInv, UploadInv, DownloadInv, TransferExact

LEMMA NextInv == TransferInv /\ [TransferNext]_transferVars => TransferInv'
<1> SUFFICES ASSUME TransferInv, [TransferNext]_transferVars PROVE TransferInv'
  OBVIOUS
<1>1. CASE Host
  BY <1>1, UploadBeginInv, DownloadBeginInv, UploadStatInv, SendInv, HashInv,
     DownloadStatInv, DownloadReadInv DEF Host, Called
<1>2. CASE OtherCalled
  BY <1>2, OtherCalledInv
<1>3. CASE \E r \in net : Execute(r) \/ GiveUp(r) \/ Forget(r)
  BY <1>3, ExecuteInv, GiveUpInv, ForgetInv
<1>4. CASE UNCHANGED transferVars
  <2>1. UNCHANGED <<total, remote, exists, copy, call, at, offset, size, attempt, net,
                    calls, faults, kin, stale, result>>
    BY <1>4 DEF transferVars
  <2>2. TransferTypeOK'
    BY <2>1 DEF TransferInv, TransferTypeOK
  <2>3. ControlInv' /\ UploadInv'
    BY <2>1 DEF TransferInv, ControlInv, UploadInv, Local
  <2> QED BY <2>1, <2>2, <2>3 DEF TransferInv, DownloadInv, TransferExact
<1> QED BY <1>1, <1>2, <1>3, <1>4 DEF TransferNext

(* The inductive invariant of fs.upload and fs.download: while a call is   *)
(* under way and nothing else has touched the file, the target holds a     *)
(* beginning of the local file with every accepted chunk in it             *)
(* (chunked_upload's offset), and a download's copy is the beginning of    *)
(* the remote file that ends at its offset (chunked_download).             *)
THEOREM TransferInvariant == TransferSpec => []TransferInv
BY InitInv, NextInv, PTL DEF TransferSpec

(* fs_upload and fs_download report success only for equal files, for any  *)
(* file length, chunk size and number of retries.                          *)
THEOREM TransfersAreExact == TransferSpec => []TransferExact
<1>1. TransferInv => TransferExact
  BY DEF TransferInv
<1> QED BY <1>1, TransferInvariant, PTL

(* Whatever chunk an upload is interrupted at, and however much of it the  *)
(* daemon's fs_write_chunk has written, what is on the target is a part    *)
(* that chunked_upload with resume=True may go on from.                    *)
THEOREM PartsAreResumable == TransferSpec => []ResumablePart
<1>1. TransferInv => ResumablePart
  BY DEF TransferInv, UploadInv, ResumablePart
<1> QED BY <1>1, TransferInvariant, PTL

=============================================================================
