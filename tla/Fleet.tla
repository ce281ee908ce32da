-------------------------------- MODULE Fleet --------------------------------
(***************************************************************************)
(* The fan-out tools of the host: fleet.run_on_all, fleet.barrier,         *)
(* fleet.quorum_run, fleet.snapshot (tools/fleet.py) and notify_fleet      *)
(* (tools/sys.py) over the transports of the registry (fleet.py).          *)
(*                                                                         *)
(* One fan-out at a time; another tool call may hold the lock of a         *)
(* target's transport.  A call names its targets in a sequence, possibly   *)
(* one twice, and has one task for each.  A request the host has cancelled *)
(* or given up on may still be executed by the target.                     *)
(*                                                                         *)
(* A request holds the lock of its transport while it is written; the      *)
(* drain() of that has no time limit, so a daemon that no longer reads its *)
(* connection keeps it, and everyone who waits for the lock.               *)
(***************************************************************************)
EXTENDS Naturals, SequencesExt

CONSTANTS
    Targets,    \* configured targets
    Disabled,   \* those without an enabled MCPd channel
    Tagged,     \* those with the tag a caller may select by
    Stranger,   \* a name that is not configured
    Lists,      \* explicit target lists a caller may give
    MaxCalls,   \* bound on fan-outs
    MaxFaults   \* bound on failing methods, lost replies and daemons going down

ASSUME FleetAssumption ==
    /\ IsFiniteSet(Targets) /\ Disabled \subseteq Targets /\ Tagged \subseteq Targets
    /\ Stranger \notin Targets
    /\ \A l \in Lists : l \in Seq(Targets \cup {Stranger})
    /\ MaxCalls \in Nat /\ MaxFaults \in Nat

VARIABLES
    op,       \* the fan-out under way: kind, target list, quorum
    task,     \* per position of op.list: where its coroutine is
    entry,    \* per position: what it came to
    results,  \* quorum_run: entries by name, so far
    taken,    \* quorum_run: positions taken from asyncio.wait
    lock,     \* per target: who holds the lock of its transport
    stuck,    \* targets whose lock holder is in a drain() that does not end
    up,       \* per target: whether its daemon is up
    wire,     \* requests written and not executed: <<call, position, target>>
    ran,      \* history: positions of this call whose method was executed
    calls, faults,
    result    \* what the last fan-out returned

tasks == <<op, task, entry, results, taken>>
vars == <<op, task, entry, results, taken, lock, stuck, up, wire, ran, calls, faults,
          result>>

Kinds == {"run_on_all", "barrier", "quorum_run", "notify", "snapshot"}
NoOp == [kind |-> "none", list |-> <<>>, quorum |-> 0]
NoResult == [st |-> "none", op |-> NoOp, entries |-> <<>>, reached |-> FALSE, ran |-> {}]

Positions == DOMAIN op.list
Entries == {"none", "ok", "error", "timeout", "cancelled", "bare"}

TypeOK ==
    /\ op \in [kind: Kinds \cup {"none"}, list: Seq(Targets \cup {Stranger}), quorum: Nat]
    /\ task \in [Positions -> {"new", "probed", "sent", "done"}]
    /\ entry \in [Positions -> Entries]
    /\ taken \subseteq Positions /\ ran \subseteq Positions
    /\ \A i \in Positions : task[i] = "done" <=> entry[i] # "none"
    /\ lock \in [Targets -> {"free", "other", "tool"}] /\ up \in [Targets -> BOOLEAN]
    /\ stuck \subseteq Targets
    /\ wire \subseteq (1..calls) \X (Nat \ {0}) \X (Targets \ Disabled)
    /\ calls \in 0..MaxCalls /\ faults \in 0..MaxFaults
    /\ result.st \in {"none", "refused", "returned"}

Init ==
    /\ op = NoOp /\ task = <<>> /\ entry = <<>> /\ results = <<>> /\ taken = {}
    /\ lock = [t \in Targets |-> "free"] /\ stuck = {}
    /\ up \in {f \in [Targets -> BOOLEAN] : \A t \in Disabled : ~f[t]}
    /\ wire = {} /\ ran = {} /\ calls = 0 /\ faults = 0 /\ result = NoResult

Fault == faults < MaxFaults /\ faults' = faults + 1

----------------------------------------------------------------------------
(* list_targets: every target, or those that have all the tags.            *)
list_targets(tags) == SetToSeq(IF tags THEN Tagged ELSE Targets)

\* Fewer targets than the quorum, or none asked for.
QuorumRefused(list, quorum) == quorum = 0 \/ quorum > Len(list)

(* A method that is not in _FANOUT, or a quorum that cannot be, is         *)
(* refused; nothing to do is an empty result.                              *)
Begin(kind, list, quorum, allowed) ==
    LET refused == \/ kind \in {"run_on_all", "barrier", "quorum_run"} /\ ~allowed
                   \/ kind = "quorum_run" /\ QuorumRefused(list, quorum)
        call == [kind |-> kind, list |-> list, quorum |-> quorum]
    IN  /\ op.kind = "none" /\ calls < MaxCalls /\ calls' = calls + 1
        /\ IF refused \/ list = <<>>
             THEN /\ result' = [NoResult EXCEPT !.st = IF refused THEN "refused" ELSE "returned",
                                                !.op = call]
                  /\ UNCHANGED <<op, task, entry>>
             ELSE /\ op' = call /\ result' = NoResult
                  /\ task' = [i \in DOMAIN list |-> "new"]
                  /\ entry' = [i \in DOMAIN list |-> "none"]
        /\ UNCHANGED <<results, taken, lock, stuck, up, wire, ran, faults>>

----------------------------------------------------------------------------
(* One target's coroutine (_one, _snapshot_one).                           *)

\* It comes to e; a transport it holds is free again.
Came(i, e) ==
    /\ task' = [task EXCEPT ![i] = "done"] /\ entry' = [entry EXCEPT ![i] = e]
    /\ lock' = [t \in Targets |-> IF task[i] = "sent" /\ op.list[i] = t THEN "free"
                                  ELSE lock[t]]
    /\ stuck' = IF task[i] = "sent" THEN stuck \ {op.list[i]} ELSE stuck
    /\ UNCHANGED <<op, results, taken>>

\* snapshot swallows what its three queries raise.
Failed == IF op.kind = "snapshot" THEN "bare" ELSE "error"

(* fleet.mcpd raises: an unknown target, or one without a channel.         *)
NotCapable(i) ==
    /\ task[i] = "new" /\ op.list[i] \notin Targets \ Disabled
    /\ Came(i, Failed)
    /\ UNCHANGED <<up, wire, ran, calls, faults, result>>

\* fleet_target_status: a TCP connection, made beside the transport.
target_status(t) == up[t]

(* _snapshot_one looks no further at a target that does not answer.        *)
Probe(i) ==
    /\ task[i] = "new" /\ op.kind = "snapshot" /\ op.list[i] \in Targets \ Disabled
    /\ IF target_status(op.list[i])
         THEN /\ task' = [task EXCEPT ![i] = "probed"]
              /\ UNCHANGED <<op, entry, results, taken, lock, stuck>>
         ELSE Came(i, "bare")
    /\ UNCHANGED <<up, wire, ran, calls, faults, result>>

(* McpdTransport.request, with the transport's lock: connect and send.     *)
Request(i) ==
    LET t == op.list[i]
    IN  /\ task[i] = IF op.kind = "snapshot" THEN "probed" ELSE "new"
        /\ t \in Targets \ Disabled /\ lock[t] = "free"
        /\ \/ /\ up[t]
              /\ task' = [task EXCEPT ![i] = "sent"]
              /\ lock' = [lock EXCEPT ![t] = "tool"]
              /\ stuck' \in {stuck, stuck \cup {t}}
              /\ wire' = wire \cup {<<calls, i, t>>}
              /\ UNCHANGED <<op, entry, results, taken>>
           \/ ~up[t] /\ Came(i, Failed) /\ UNCHANGED wire
        /\ UNCHANGED <<up, ran, calls, faults, result>>

Awaited(r) == r[1] = calls /\ op.kind # "none" /\ task[r[2]] = "sent"

(* The daemon executes a request, or refuses it; the reply may be lost.    *)
Execute(r) ==
    /\ r \in wire /\ wire' = wire \ {r} /\ up[r[3]]
    /\ ~(Awaited(r) /\ r[3] \in stuck)
    /\ \/ /\ ran' = ran \cup {i \in Positions : <<calls, i, op.list[i]>> = r}
          /\ \/ ~Awaited(r) /\ UNCHANGED <<tasks, lock, stuck, faults>>
             \/ Awaited(r) /\ Came(r[2], "ok") /\ UNCHANGED faults
             \/ Awaited(r) /\ Came(r[2], Failed) /\ Fault
       \/ Awaited(r) /\ Came(r[2], Failed) /\ Fault /\ UNCHANGED ran
    /\ UNCHANGED <<up, calls, result>>

(* The transport's own time limit, for the answer.                         *)
GiveUp(i) ==
    /\ task[i] = "sent" /\ op.list[i] \notin stuck /\ Came(i, Failed)
    /\ wire' \in {wire, wire \ {<<calls, i, op.list[i]>>}}
    /\ UNCHANGED <<up, ran, calls, faults, result>>

BarrierTimeoutSent(i) ==
    /\ op.kind = "barrier" /\ task[i] = "sent" /\ op.list[i] \in Targets \ Disabled
    /\ Came(i, "timeout")
    /\ UNCHANGED <<up, wire, ran, calls, faults, result>>

(* barrier's wait_for, also while the coroutine waits for the lock, or     *)
(* drains.                                                                 *)
BarrierTimeout(i) ==
    /\ op.kind = "barrier" /\ task[i] \in {"new", "sent"} /\ op.list[i] \in Targets \ Disabled
    /\ Came(i, "timeout")
    /\ UNCHANGED <<up, wire, ran, calls, faults, result>>

----------------------------------------------------------------------------
(* The ends.                                                               *)

Returned(entries, reached) ==
    /\ result' = [st |-> "returned", op |-> op, entries |-> entries, reached |-> reached,
                  ran |-> ran]
    /\ op' = NoOp /\ task' = <<>> /\ entry' = <<>> /\ results' = <<>> /\ taken' = {}
    /\ ran' = {}
    /\ UNCHANGED <<up, wire, calls, faults>>

(* gather: everyone has come to something; dict(pairs) keeps the last of   *)
(* two with one name.  (notify and snapshot return the list itself.)       *)
Gather ==
    /\ op.kind \in Kinds \ {"quorum_run"} /\ \A i \in Positions : task[i] = "done"
    /\ Returned([n \in Range(op.list) |->
                     entry[CHOOSE i \in Positions :
                             /\ op.list[i] = n
                             /\ \A j \in Positions : op.list[j] = n => j <= i]],
                FALSE)
    /\ UNCHANGED <<lock, stuck>>

CancelUnawaited(tk, res, reached) ==
    /\ Returned([n \in Range(op.list) |-> IF n \in DOMAIN res THEN res[n] ELSE "cancelled"], reached)
    /\ UNCHANGED <<lock, stuck>>

CancelUnlisted(tk, res, reached) ==
    /\ Returned(res, reached)
    /\ lock' = [t \in Targets |-> IF lock[t] = "tool" THEN "free" ELSE lock[t]]
    /\ stuck' = {t \in stuck : lock'[t] # "free"}

(* quorum_run cancels and awaits what is still pending, whose requests may *)
(* be out, and gives each name without an entry one that says cancelled.   *)
Cancel(tk, res, reached) ==
    /\ Returned([n \in Range(op.list) |-> IF n \in DOMAIN res THEN res[n] ELSE "cancelled"], reached)
    /\ lock' = [t \in Targets |->
                  IF \E i \in Positions \ tk : task[i] = "sent" /\ op.list[i] = t
                    THEN "free" ELSE lock[t]]
    /\ stuck' = {t \in stuck : lock'[t] # "free"}

OkCountAny(tk) == Cardinality(tk)
OkCount(tk) == Cardinality({i \in tk : entry[i] = "ok"})

GoesOn(tk) == tk # Positions /\ OkCount(tk) < op.quorum

Done == {i \in Positions \ taken : task[i] = "done"}

(* asyncio.wait has returned: all that are done by now, in any order.      *)
Collect ==
    /\ op.kind = "quorum_run" /\ Done # {}
    /\ \E order \in SetToSeqs(Done) :
         LET tk == taken \cup Done
             last(n) == CHOOSE k \in DOMAIN order :
                          /\ op.list[order[k]] = n
                          /\ \A m \in DOMAIN order : op.list[order[m]] = n => m <= k
             named == {op.list[i] : i \in Done}
             res == [n \in DOMAIN results \cup named |->
                        IF n \in named THEN entry[order[last(n)]] ELSE results[n]]
         IN  IF GoesOn(tk)
               THEN /\ taken' = tk /\ results' = res
                    /\ UNCHANGED <<op, task, entry, lock, stuck, up, wire, ran, calls,
                                   faults, result>>
               ELSE Cancel(tk, res, OkCount(tk) >= op.quorum)

(* The overall time limit, with nothing more done.                         *)
Deadline ==
    /\ op.kind = "quorum_run" /\ Done = {}
    /\ Cancel(taken, results, OkCount(taken) >= op.quorum)

----------------------------------------------------------------------------
(* Around it: other tool calls on the same transports, and the daemons.    *)

OtherTakes(t) ==
    /\ lock[t] = "free" /\ t \notin Disabled
    /\ lock' = [lock EXCEPT ![t] = "other"] /\ stuck' \in {stuck, stuck \cup {t}}
    /\ UNCHANGED <<tasks, up, wire, ran, calls, faults, result>>
OtherReleases(t) ==
    /\ lock[t] = "other" /\ t \notin stuck /\ lock' = [lock EXCEPT ![t] = "free"]
    /\ UNCHANGED <<tasks, stuck, up, wire, ran, calls, faults, result>>
(* A drain() that was stuck ends: the daemon reads again, or the           *)
(* connection breaks.                                                      *)
Drained(t) ==
    /\ t \in stuck /\ stuck' = stuck \ {t}
    /\ UNCHANGED <<tasks, lock, up, wire, ran, calls, faults, result>>
Down(t) ==
    /\ up[t] /\ Fault
    /\ up' = [up EXCEPT ![t] = FALSE] /\ wire' = {r \in wire : r[3] # t}
    /\ stuck' = stuck \ {t}
    /\ UNCHANGED <<tasks, lock, ran, calls, result>>

----------------------------------------------------------------------------
Task(i) == NotCapable(i) \/ Probe(i) \/ Request(i) \/ GiveUp(i) \/ BarrierTimeout(i)

\* Targets are named, or selected by tags; without either, all of them.
Selections == Lists \cup {list_targets(TRUE), list_targets(FALSE)}

fleet_snapshot(tags) == Begin("snapshot", list_targets(tags), 0, TRUE)
fleet_run_on_all(allowed) == \E list \in Selections : Begin("run_on_all", list, 0, allowed)
fleet_barrier(allowed) == \E list \in Selections : Begin("barrier", list, 0, allowed)
fleet_quorum_run(allowed) ==
    \E list \in Selections, quorum \in 0..2 : Begin("quorum_run", list, quorum, allowed)
notify_fleet == \E list \in Selections : Begin("notify", list, 0, TRUE)

\* What a client may call.
BeginAny ==
    \/ \E tags \in BOOLEAN : fleet_snapshot(tags)
    \/ \E allowed \in BOOLEAN :
         fleet_run_on_all(allowed) \/ fleet_barrier(allowed) \/ fleet_quorum_run(allowed)
    \/ notify_fleet

Next ==
    \/ BeginAny \/ Gather \/ Collect \/ Deadline
    \/ \E i \in Positions : Task(i)
    \/ \E r \in wire : Execute(r)
    \/ \E t \in Targets : OtherTakes(t) \/ OtherReleases(t) \/ Drained(t) \/ Down(t)

(* Fairness: coroutines that can go on do; an asyncio.Lock is handed on in *)
(* order, so one that waits for it gets it; a request that has been        *)
(* written ends by the transport's time limit at the latest, be it of the  *)
(* fan-out or of another tool call; barrier and quorum_run keep their own  *)
(* time limits.  Nothing is assumed of a drain() that is stuck.            *)
Fairness ==
    /\ WF_vars(Gather) /\ WF_vars(Collect) /\ WF_vars(Deadline)
    /\ WF_vars(\E i \in Positions : NotCapable(i) \/ Probe(i) \/ GiveUp(i))
    /\ WF_vars(\E i \in Positions : BarrierTimeout(i))
    /\ SF_vars(\E i \in Positions : Request(i))
    /\ \A t \in Targets : WF_vars(OtherReleases(t))

Spec == Init /\ [][Next]_vars /\ Fairness

----------------------------------------------------------------------------
(* Properties.                                                             *)

(* What a fan-out returns has an entry for every target it was asked       *)
(* about, and says ok only of one whose daemon executed the method for     *)
(* this very call, whatever timed out, was cancelled or came late.         *)
EntriesTrue ==
    result.st = "returned" =>
        /\ DOMAIN result.entries = Range(result.op.list)
        /\ \A n \in DOMAIN result.entries :
             result.entries[n] = "ok" => \E i \in result.ran : result.op.list[i] = n

(* quorum_run reports the quorum as reached just when that many of its     *)
(* calls were answered ok, on as many machines if none is named twice.     *)
QuorumHonest ==
    result.st = "returned" /\ result.op.kind = "quorum_run" =>
        LET oks == {n \in DOMAIN result.entries : result.entries[n] = "ok"}
        IN  /\ result.reached => Cardinality(result.ran) >= result.op.quorum
            /\ IsInjective(result.op.list) =>
                 (result.reached <=> Cardinality(oks) >= result.op.quorum)

(* The lock of a transport is held for a fan-out just while one of its     *)
(* tasks waits for an answer there: time-outs and cancellation leave every *)
(* transport free for the next call.                                       *)
LocksMatchTasks ==
    /\ TypeOK
    /\ \A t \in Targets :
          Cardinality({i \in Positions : task[i] = "sent" /\ op.list[i] = t})
              = IF lock[t] = "tool" THEN 1 ELSE 0

\* A fan-out without a time limit of its own has a task to come whose
\* target's transport is held by a drain() that does not end.
HeldUp ==
    /\ op.kind \in {"run_on_all", "notify", "snapshot"}
    /\ \E i \in Positions : task[i] # "done" /\ op.list[i] \in stuck

(* Every barrier and every quorum_run returns, also with daemons down,     *)
(* requests never answered, transports others use and drains that do not   *)
(* end.  The other fan-outs have no time limit: they return unless they    *)
(* are held up by such a drain, their own or another call's.               *)
FanOutReturns == op.kind # "none" ~> op.kind = "none" \/ HeldUp

(* What makes the three inductive.  A request of this fan-out names the    *)
(* target of its position.                                                 *)
WireInv ==
    op.kind # "none" =>
        /\ calls > 0
        /\ \A r \in wire : r[1] = calls => r[2] \in Positions /\ op.list[r[2]] = r[3]

(* Between fan-outs nothing is left of the last one.  An ok is that of an  *)
(* executed request, what quorum_run has taken is done, and it keeps an    *)
(* entry of each name it has taken.                                        *)
AnswerInv ==
    /\ op.kind = "none" => op = NoOp /\ taken = {} /\ ran = {} /\ results = <<>>
    /\ \A i \in Positions : entry[i] = "ok" => i \in ran
    /\ \A i \in taken : task[i] = "done"
    /\ DOMAIN results = {op.list[i] : i \in taken}
    /\ \A n \in DOMAIN results : \E i \in taken : op.list[i] = n /\ results[n] = entry[i]

FleetInv == LocksMatchTasks /\ EntriesTrue /\ QuorumHonest /\ WireInv /\ AnswerInv

=============================================================================
