----------------------------- MODULE FleetProofs -----------------------------
(***************************************************************************)
(* Proofs about Fleet, for any targets, any lists a caller may give, and   *)
(* any number of fan-outs and faults: the locks of the transports match    *)
(* the tasks, what is returned is true, and a quorum is what it says.      *)
(***************************************************************************)
EXTENDS Fleet, FiniteSetTheorems, WellFoundedInduction, TLAPS

-----------------------------------------------------------------------------
(* Facts about numbers, sets and lists.                                    *)

LEMMA LargestExists ==
    ASSUME NEW n \in Nat, NEW S \in SUBSET (1..n), S # {}
    PROVE  \E m \in S : \A k \in S : k <= m
    <1>1. PICK R : IsWellFoundedOn(R, Nat) /\ \A x, y \in Nat : x < y => <<x, y>> \in R
      <2>1. \A x, y \in Nat : x < y => <<x, y>> \in OpToRel(<, Nat)
        BY DEF OpToRel
      <2> QED BY <2>1, NatLessThanWellFounded
    <1>2. PICK T : T = {n - k : k \in S}
      OBVIOUS
    <1>3. T \subseteq Nat /\ T # {}
      <2>1. \A k \in S : n - k \in Nat
        OBVIOUS
      <2>2. PICK s \in S : TRUE
        OBVIOUS
      <2>3. n - s \in T
        BY <1>2
      <2>4. \A y \in T : \E k \in S : y = n - k
        BY <1>2
      <2> QED BY <2>1, <2>3, <2>4
    <1>4. PICK x \in T : \A y \in T : ~(<<y, x>> \in R)
      <2>1. IsWellFoundedOn(R, Nat)
        BY <1>1, Zenon
      <2>2. \A Q, U, V : IsWellFoundedOn(Q, U) /\ V \subseteq U /\ V # {}
                           => \E x \in V : \A y \in V : ~(<<y, x>> \in Q)
        BY WFMin, Zenon
      <2> QED BY <1>3, <2>1, <2>2, Zenon
    <1>5. ASSUME NEW y \in T PROVE x <= y
      <2>1. x \in Nat /\ y \in Nat
        BY <1>3
      <2>2. ~(y < x)
        BY <1>1, <1>4, <2>1, Zenon
      <2> QED BY <2>1, <2>2
    <1>6. PICK m \in S : x = n - m
      BY <1>2, <1>4
    <1>7. ASSUME NEW k \in S PROVE k <= m
      <2>1. n - k \in T
        BY <1>2
      <2>2. n - m <= n - k
        BY <1>5, <1>6, <2>1
      <2> QED BY <2>2
    <1> QED BY <1>7

LEMMA OneOrNone ==
    ASSUME NEW S, IsFiniteSet(S)
    PROVE  /\ Cardinality(S) = 0 <=> S = {}
           /\ Cardinality(S) = 1 <=> \E x : S = {x}
    BY FS_EmptySet, FS_Singleton

Names == Targets \cup {Stranger}

LEMMA Listing ==
    ASSUME NEW S, IsFiniteSet(S)
    PROVE  SetToSeq(S) \in Seq(S)
    <1>1. Cardinality(S) \in Nat /\ ExistsBijection(1..Cardinality(S), S)
      BY FS_CardinalityType
    <1>2. \E f \in [1..Cardinality(S) -> S] : IsInjective(f)
      BY <1>1 DEF ExistsBijection, Bijection, Injection
    <1>3. SetToSeq(S) \in [1..Cardinality(S) -> S]
      BY <1>2 DEF SetToSeq
    <1> QED BY <1>1, <1>3

LEMMA SelectionsAreLists ==
    /\ Selections \subseteq Seq(Names)
    /\ \A tags \in BOOLEAN : list_targets(tags) \in Seq(Names)
    <1>1. IsFiniteSet(Targets) /\ IsFiniteSet(Tagged) /\ Tagged \subseteq Targets
      BY FleetAssumption, FS_Subset
    <1>2. SetToSeq(Targets) \in Seq(Targets) /\ SetToSeq(Tagged) \in Seq(Tagged)
      BY <1>1, Listing
    <1>3. SetToSeq(Targets) \in Seq(Names) /\ SetToSeq(Tagged) \in Seq(Names)
      BY <1>1, <1>2 DEF Names
    <1>4. \A tags \in BOOLEAN : list_targets(tags) \in Seq(Names)
      BY <1>3 DEF list_targets
    <1>5. Lists \subseteq Seq(Names)
      BY FleetAssumption DEF Names
    <1> QED BY <1>4, <1>5 DEF Selections

LEMMA BoundsNat == MaxCalls \in Nat /\ MaxFaults \in Nat
    BY FleetAssumption

LEMMA FaultCounts ==
    ASSUME faults \in 0..MaxFaults, Fault \/ faults' = faults
    PROVE  faults' \in 0..MaxFaults
    BY BoundsNat DEF Fault

-----------------------------------------------------------------------------
(* The inductive invariant, in the parts the steps are proved by.          *)

TasksOK ==
    /\ op \in [kind: Kinds \cup {"none"}, list: Seq(Names), quorum: Nat]
    /\ task \in [Positions -> {"new", "probed", "sent", "done"}]
    /\ entry \in [Positions -> Entries]
    /\ taken \subseteq Positions /\ ran \subseteq Positions
    /\ \A i \in Positions : task[i] = "done" <=> entry[i] # "none"

RestOK ==
    /\ lock \in [Targets -> {"free", "other", "tool"}] /\ up \in [Targets -> BOOLEAN]
    /\ stuck \subseteq Targets
    /\ wire \subseteq (1..calls) \X (Nat \ {0}) \X (Targets \ Disabled)
    /\ calls \in 0..MaxCalls /\ faults \in 0..MaxFaults
    /\ result.st \in {"none", "refused", "returned"}

LEMMA TypeParts == TypeOK <=> TasksOK /\ RestOK
    BY Zenon DEF TypeOK, TasksOK, RestOK, Names

SentTo(t) == {i \in Positions : task[i] = "sent" /\ op.list[i] = t}

(* A lock is held for the fan-out just while one task waits there.         *)
Locked ==
    \A t \in Targets :
        /\ lock[t] = "tool" => \E i : SentTo(t) = {i}
        /\ lock[t] # "tool" => SentTo(t) = {}

Core == TasksOK /\ RestOK /\ Locked /\ WireInv /\ AnswerInv /\ EntriesTrue /\ QuorumHonest

LEMMA PositionsOf ==
    ASSUME TasksOK
    PROVE  /\ Positions = 1..Len(op.list) /\ Len(op.list) \in Nat
           /\ IsFiniteSet(Positions) /\ op.list \in [Positions -> Names]
    <1>1. op.list \in Seq(Names)
      BY DEF TasksOK
    <1>2. Positions = 1..Len(op.list) /\ Len(op.list) \in Nat
          /\ op.list \in [Positions -> Names]
      BY <1>1 DEF Positions
    <1> QED BY <1>2, FS_Interval

LEMMA CoreImplies == Core => FleetInv
    <1> SUFFICES ASSUME Core PROVE FleetInv
      OBVIOUS
    <1>1. TypeOK
      BY TypeParts DEF Core
    <1>2. ASSUME NEW t \in Targets
          PROVE  Cardinality(SentTo(t)) = IF lock[t] = "tool" THEN 1 ELSE 0
      <2>1. IsFiniteSet(SentTo(t))
        BY PositionsOf, FS_Subset DEF Core, SentTo
      <2> QED BY <2>1, OneOrNone DEF Core, Locked
    <1>3. LocksMatchTasks
      BY <1>1, <1>2 DEF LocksMatchTasks, SentTo
    <1> QED BY <1>3 DEF FleetInv, Core

-----------------------------------------------------------------------------
(* Steps that leave the tasks alone.                                       *)

LEMMA QuietStep ==
    ASSUME Core, UNCHANGED <<op, task, entry, results, taken, calls, result>>, RestOK',
           ran \subseteq ran', ran' \subseteq Positions, wire' \subseteq wire,
           \A t \in Targets : lock'[t] = "tool" <=> lock[t] = "tool"
    PROVE  Core'
    <1>1. Positions' = Positions /\ \A t \in Targets : SentTo(t)' = SentTo(t)
      BY DEF Positions, SentTo
    <1>2. TasksOK'
      BY <1>1 DEF Core, TasksOK
    <1>3. Locked'
      BY <1>1 DEF Core, Locked
    <1>4. WireInv'
      BY <1>1 DEF Core, WireInv
    <1>5. AnswerInv'
      <2>1. op.kind = "none" => ran' = {}
        BY DEF Core, AnswerInv, NoOp, Positions
      <2> QED BY <1>1, <2>1 DEF Core, AnswerInv
    <1>6. EntriesTrue' /\ QuorumHonest'
      BY DEF Core, EntriesTrue, QuorumHonest
    <1> QED BY <1>2, <1>3, <1>4, <1>5, <1>6 DEF Core

LEMMA OtherStep ==
    ASSUME Core, NEW t \in Targets, OtherTakes(t) \/ OtherReleases(t) \/ Drained(t) \/ Down(t)
    PROVE  Core'
    <1>0. RestOK /\ ran \subseteq Positions
      BY DEF Core, TasksOK
    <1>1. CASE OtherTakes(t) \/ OtherReleases(t)
      <2>1. UNCHANGED <<op, task, entry, results, taken, up, wire, ran, calls, faults, result>>
        BY <1>1 DEF OtherTakes, OtherReleases, tasks
      <2>2. lock' \in [Targets -> {"free", "other", "tool"}] /\ stuck' \subseteq Targets
            /\ \A x \in Targets : lock'[x] = "tool" <=> lock[x] = "tool"
        BY <1>0, <1>1 DEF OtherTakes, OtherReleases, RestOK
      <2>3. RestOK'
        BY <1>0, <2>1, <2>2 DEF RestOK
      <2> QED BY <1>0, <2>1, <2>2, <2>3, QuietStep
    <1>2. CASE Down(t)
      <2>1. UNCHANGED <<op, task, entry, results, taken, lock, ran, calls, result>>
            /\ wire' \subseteq wire /\ up' = [up EXCEPT ![t] = FALSE] /\ Fault
            /\ stuck' = stuck \ {t}
        BY <1>2 DEF Down, tasks
      <2>2. faults' \in 0..MaxFaults
        BY <1>0, <2>1, FaultCounts DEF RestOK
      <2>3. up' \in [Targets -> BOOLEAN]
        BY <1>0, <2>1 DEF RestOK
      <2>4. RestOK'
        BY <1>0, <2>1, <2>2, <2>3 DEF RestOK
      <2> QED BY <1>0, <2>1, <2>4, QuietStep
    <1>3. CASE Drained(t)
      <2>1. /\ UNCHANGED <<op, task, entry, results, taken, lock, up, wire, ran, calls, faults,
                           result>>
            /\ stuck' = stuck \ {t}
        BY <1>3 DEF Drained, tasks
      <2>2. RestOK'
        BY <1>0, <2>1 DEF RestOK
      <2> QED BY <1>0, <2>1, <2>2, QuietStep
    <1> QED BY <1>1, <1>2, <1>3

-----------------------------------------------------------------------------
(* A coroutine comes to something.                                         *)

LEMMA CameStep ==
    ASSUME Core, NEW i \in Positions, task[i] # "done",
           NEW e \in {"ok", "error", "timeout", "bare"}, Came(i, e),
           UNCHANGED <<up, calls, result>>, faults' \in 0..MaxFaults, wire' \subseteq wire,
           ran \subseteq ran', ran' \subseteq Positions, e = "ok" => i \in ran'
    PROVE  Core'
    <1>0. /\ TasksOK /\ RestOK /\ Locked /\ WireInv /\ AnswerInv
          /\ EntriesTrue /\ QuorumHonest
      BY DEF Core
    <1>1. /\ task' = [task EXCEPT ![i] = "done"] /\ entry' = [entry EXCEPT ![i] = e]
          /\ lock' = [t \in Targets |-> IF task[i] = "sent" /\ op.list[i] = t THEN "free"
                                        ELSE lock[t]]
          /\ stuck' = IF task[i] = "sent" THEN stuck \ {op.list[i]} ELSE stuck
          /\ UNCHANGED <<op, results, taken>>
      BY DEF Came
    <1>2. /\ Positions' = Positions
          /\ task' \in [Positions -> {"new", "probed", "sent", "done"}]
          /\ entry' \in [Positions -> Entries]
          /\ task'[i] = "done" /\ entry'[i] = e
          /\ \A j \in Positions : j # i => task'[j] = task[j] /\ entry'[j] = entry[j]
      BY <1>0, <1>1 DEF Positions, TasksOK, Entries
    <1>3. i \notin taken
      BY <1>0 DEF AnswerInv
    <1>4. TasksOK'
      BY <1>0, <1>1, <1>2 DEF TasksOK
    <1>5. RestOK'
      <2>1. lock' \in [Targets -> {"free", "other", "tool"}] /\ stuck' \subseteq Targets
        BY <1>0, <1>1 DEF RestOK
      <2> QED BY <1>0, <2>1 DEF RestOK
    <1>6. Locked'
      <2>1. ASSUME NEW t \in Targets
            PROVE  /\ lock'[t] = "tool" => \E j : SentTo(t)' = {j}
                   /\ lock'[t] # "tool" => SentTo(t)' = {}
        <3>1. SentTo(t)' = SentTo(t) \ {i}
          BY <1>1, <1>2 DEF SentTo
        <3>2. /\ lock[t] = "tool" => \E j : SentTo(t) = {j}
              /\ lock[t] # "tool" => SentTo(t) = {}
          BY <1>0 DEF Locked
        <3>3. CASE task[i] = "sent" /\ op.list[i] = t
          <4>1. i \in SentTo(t) /\ lock'[t] = "free"
            BY <1>1, <3>3 DEF SentTo
          <4> QED BY <3>1, <3>2, <4>1
        <3>4. CASE ~(task[i] = "sent" /\ op.list[i] = t)
          <4>1. i \notin SentTo(t) /\ lock'[t] = lock[t]
            BY <1>1, <3>4 DEF SentTo
          <4> QED BY <3>1, <3>2, <4>1
        <3> QED BY <3>3, <3>4
      <2> QED BY <2>1 DEF Locked
    <1>7. WireInv'
      BY <1>0, <1>1, <1>2 DEF WireInv
    <1>8. AnswerInv'
      <2>1. op.kind # "none"
        BY <1>0 DEF AnswerInv, NoOp, Positions
      <2>2. \A j \in Positions : entry'[j] = "ok" => j \in ran'
        BY <1>0, <1>2 DEF AnswerInv
      <2>3. \A j \in taken : task'[j] = "done" /\ entry'[j] = entry[j]
        BY <1>0, <1>2, <1>3 DEF AnswerInv, TasksOK
      <2>4. \A n \in DOMAIN results : \E j \in taken : op.list[j] = n /\ results[n] = entry'[j]
        BY <1>0, <2>3 DEF AnswerInv
      <2> QED BY <1>0, <1>1, <1>2, <2>1, <2>2, <2>3, <2>4 DEF AnswerInv
    <1>9. EntriesTrue' /\ QuorumHonest'
      BY <1>0 DEF EntriesTrue, QuorumHonest
    <1> QED BY <1>4, <1>5, <1>6, <1>7, <1>8, <1>9 DEF Core

(* A coroutine goes on without an end: a probe that found the port open,   *)
(* or a request that holds the lock.                                       *)
LEMMA GoesOnStep ==
    ASSUME Core, NEW i \in Positions, task[i] \in {"new", "probed"},
           NEW s \in {"probed", "sent"}, task' = [task EXCEPT ![i] = s],
           UNCHANGED <<op, entry, results, taken, up, ran, calls, faults, result>>,
           stuck' \subseteq Targets,
           \/ s = "probed" /\ UNCHANGED <<lock, wire>>
           \/ /\ s = "sent" /\ op.list[i] \in Targets \ Disabled /\ lock[op.list[i]] = "free"
              /\ lock' = [lock EXCEPT ![op.list[i]] = "tool"]
              /\ wire' = wire \cup {<<calls, i, op.list[i]>>}
    PROVE  Core'
    <1>0. /\ TasksOK /\ RestOK /\ Locked /\ WireInv /\ AnswerInv
          /\ EntriesTrue /\ QuorumHonest
      BY DEF Core
    <1>1. /\ Positions' = Positions
          /\ task' \in [Positions -> {"new", "probed", "sent", "done"}]
          /\ task'[i] = s /\ \A j \in Positions : j # i => task'[j] = task[j]
      BY <1>0 DEF Positions, TasksOK
    <1>2. op.kind # "none" /\ i \in Nat \ {0}
      <2>1. op.kind # "none"
        BY <1>0 DEF AnswerInv, NoOp, Positions
      <2>2. i \in 1..Len(op.list) /\ Len(op.list) \in Nat
        BY <1>0, PositionsOf
      <2> QED BY <2>1, <2>2
    <1>3. TasksOK'
      BY <1>0, <1>1 DEF TasksOK
    <1>4. RestOK'
      <2>1. CASE UNCHANGED <<lock, wire>>
        BY <1>0, <2>1 DEF RestOK
      <2>2. CASE s = "sent"
        <3>1. calls \in 1..calls
          <4>1. calls \in Nat
            BY <1>0, BoundsNat DEF RestOK
          <4>2. calls # 0
            BY <1>0, <1>2, <4>1 DEF WireInv
          <4> QED BY <4>1, <4>2
        <3>2. <<calls, i, op.list[i]>> \in (1..calls) \X (Nat \ {0}) \X (Targets \ Disabled)
          BY <1>2, <2>2, <3>1
        <3>3. wire' \subseteq (1..calls) \X (Nat \ {0}) \X (Targets \ Disabled)
          BY <1>0, <2>2, <3>2 DEF RestOK
        <3>4. lock' \in [Targets -> {"free", "other", "tool"}]
          BY <1>0, <2>2 DEF RestOK
        <3> QED BY <1>0, <3>3, <3>4 DEF RestOK
      <2> QED BY <2>1, <2>2
    <1>5. Locked'
      <2>1. ASSUME NEW t \in Targets
            PROVE  /\ lock'[t] = "tool" => \E j : SentTo(t)' = {j}
                   /\ lock'[t] # "tool" => SentTo(t)' = {}
        <3>1. /\ lock[t] = "tool" => \E j : SentTo(t) = {j}
              /\ lock[t] # "tool" => SentTo(t) = {}
          BY <1>0 DEF Locked
        <3>2. CASE s = "sent" /\ op.list[i] = t
          <4>1. lock[t] = "free" /\ lock'[t] = "tool"
            BY <1>0, <3>2 DEF RestOK
          <4>2. SentTo(t)' = {i}
            <5>1. SentTo(t) = {}
              BY <3>1, <4>1
            <5> QED BY <1>1, <3>2, <5>1 DEF SentTo
          <4> QED BY <4>1, <4>2
        <3>3. CASE ~(s = "sent" /\ op.list[i] = t)
          <4>1. lock'[t] = lock[t]
            BY <1>0, <3>3 DEF RestOK
          <4>2. SentTo(t)' = SentTo(t)
            BY <1>1, <3>3 DEF SentTo
          <4> QED BY <3>1, <4>1, <4>2
        <3> QED BY <3>2, <3>3
      <2> QED BY <2>1 DEF Locked
    <1>6. WireInv'
      BY <1>0, <1>1 DEF WireInv
    <1>7. AnswerInv'
      <2>1. \A j \in taken : task'[j] = "done"
        BY <1>0, <1>1 DEF AnswerInv, TasksOK
      <2>2. op' = op /\ entry' = entry /\ results' = results /\ taken' = taken /\ ran' = ran
        OBVIOUS
      <2>3. /\ \A j \in Positions' : entry'[j] = "ok" => j \in ran'
            /\ DOMAIN results' = {op'.list[j] : j \in taken'}
            /\ \A n \in DOMAIN results' :
                 \E j \in taken' : op'.list[j] = n /\ results'[n] = entry'[j]
        <3>1. /\ \A j \in Positions : entry[j] = "ok" => j \in ran
              /\ DOMAIN results = {op.list[j] : j \in taken}
              /\ \A n \in DOMAIN results :
                   \E j \in taken : op.list[j] = n /\ results[n] = entry[j]
          BY <1>0 DEF AnswerInv
        <3> QED BY <1>1, <2>2, <3>1
      <2> QED BY <1>2, <2>1, <2>2, <2>3, Zenon DEF AnswerInv
    <1>8. EntriesTrue' /\ QuorumHonest'
      BY <1>0 DEF EntriesTrue, QuorumHonest
    <1> QED BY <1>3, <1>4, <1>5, <1>6, <1>7, <1>8 DEF Core

LEMMA TaskStep ==
    ASSUME Core, NEW i \in Positions, Task(i)
    PROVE  Core'
    <1>0. RestOK /\ ran \subseteq Positions
      BY DEF Core, TasksOK
    <1>1. Failed \in {"ok", "error", "timeout", "bare"} /\ Failed # "ok"
      BY DEF Failed
    <1>2. faults \in 0..MaxFaults
      BY <1>0 DEF RestOK
    <1>3. ASSUME NotCapable(i) PROVE Core'
      <2>1. task[i] = "new" /\ Came(i, Failed) /\ UNCHANGED <<up, wire, ran, calls, faults, result>>
        BY <1>3 DEF NotCapable
      <2> QED BY <1>0, <1>1, <1>2, <2>1, CameStep
    <1>4. ASSUME Probe(i) PROVE Core'
      <2>1. task[i] = "new" /\ UNCHANGED <<up, wire, ran, calls, faults, result>>
        BY <1>4 DEF Probe
      <2>2. CASE target_status(op.list[i])
        <3>1. task' = [task EXCEPT ![i] = "probed"] /\ UNCHANGED <<op, entry, results, taken, lock>>
              /\ stuck' \subseteq Targets
          BY <1>0, <1>4, <2>2 DEF Probe, RestOK
        <3> QED BY <2>1, <3>1, GoesOnStep
      <2>3. CASE ~target_status(op.list[i])
        <3>1. Came(i, "bare")
          BY <1>4, <2>3 DEF Probe
        <3> QED BY <1>0, <1>2, <2>1, <3>1, CameStep
      <2> QED BY <2>2, <2>3
    <1>5. ASSUME Request(i) PROVE Core'
      <2>1. /\ task[i] \in {"new", "probed"} /\ op.list[i] \in Targets \ Disabled
            /\ lock[op.list[i]] = "free" /\ UNCHANGED <<up, ran, calls, faults, result>>
        BY <1>5 DEF Request
      <2>2. CASE up[op.list[i]]
        <3>1. /\ task' = [task EXCEPT ![i] = "sent"]
              /\ lock' = [lock EXCEPT ![op.list[i]] = "tool"]
              /\ wire' = wire \cup {<<calls, i, op.list[i]>>}
              /\ UNCHANGED <<op, entry, results, taken>> /\ stuck' \subseteq Targets
          BY <1>0, <1>5, <2>1, <2>2 DEF Request, RestOK
        <3> QED BY <2>1, <3>1, GoesOnStep
      <2>3. CASE ~up[op.list[i]]
        <3>1. Came(i, Failed) /\ wire' = wire
          BY <1>5, <2>3 DEF Request
        <3> QED BY <1>0, <1>1, <1>2, <2>1, <3>1, CameStep
      <2> QED BY <2>2, <2>3
    <1>6. ASSUME GiveUp(i) PROVE Core'
      <2>1. /\ task[i] = "sent" /\ Came(i, Failed) /\ wire' \subseteq wire
            /\ UNCHANGED <<up, ran, calls, faults, result>>
        BY <1>6 DEF GiveUp
      <2> QED BY <1>0, <1>1, <1>2, <2>1, CameStep
    <1>7. ASSUME BarrierTimeout(i) PROVE Core'
      <2>1. /\ task[i] # "done" /\ Came(i, "timeout")
            /\ UNCHANGED <<up, wire, ran, calls, faults, result>>
        BY <1>7 DEF BarrierTimeout
      <2> QED BY <1>0, <1>2, <2>1, CameStep
    <1> QED BY <1>3, <1>4, <1>5, <1>6, <1>7 DEF Task

LEMMA ExecuteStep ==
    ASSUME Core, NEW r \in wire, Execute(r)
    PROVE  Core'
    <1>0. RestOK /\ ran \subseteq Positions /\ WireInv
      BY DEF Core, TasksOK
    <1>1. Failed \in {"ok", "error", "timeout", "bare"} /\ Failed # "ok"
      BY DEF Failed
    <1>2. wire' \subseteq wire /\ UNCHANGED <<up, calls, result>>
      BY DEF Execute
    <1>3. r \in (1..calls) \X (Nat \ {0}) \X (Targets \ Disabled)
      BY <1>0 DEF RestOK
    <1>4. r = <<r[1], r[2], r[3]>>
      BY <1>3
    <1>5. ASSUME Awaited(r)
          PROVE  /\ r[2] \in Positions /\ task[r[2]] = "sent"
                 /\ <<calls, r[2], op.list[r[2]]>> = r
      <2>1. r[1] = calls /\ op.kind # "none" /\ task[r[2]] = "sent"
        BY <1>5 DEF Awaited
      <2>2. r[2] \in Positions /\ op.list[r[2]] = r[3]
        BY <1>0, <2>1 DEF WireInv
      <2> QED BY <1>4, <2>1, <2>2
    <1>6. ASSUME ran' = ran \cup {i \in Positions : <<calls, i, op.list[i]>> = r}
          PROVE  ran \subseteq ran' /\ ran' \subseteq Positions
                 /\ (Awaited(r) => r[2] \in ran')
      BY <1>0, <1>5, <1>6
    <1>7. ASSUME ran' = ran \cup {i \in Positions : <<calls, i, op.list[i]>> = r},
                 UNCHANGED <<tasks, lock, stuck, faults>>
          PROVE  Core'
      <2>1. UNCHANGED <<op, task, entry, results, taken, lock, stuck, faults>>
        BY <1>7 DEF tasks
      <2>2. RestOK'
        BY <1>0, <1>2, <2>1 DEF RestOK
      <2> QED BY <1>2, <1>6, <1>7, <2>1, <2>2, QuietStep
    <1>8. ASSUME ran' = ran \cup {i \in Positions : <<calls, i, op.list[i]>> = r},
                 Awaited(r), Came(r[2], "ok"), faults' = faults
          PROVE  Core'
      <2>1. faults' \in 0..MaxFaults
        BY <1>0, <1>8 DEF RestOK
      <2>2. ran \subseteq ran' /\ ran' \subseteq Positions /\ r[2] \in ran'
        BY <1>6, <1>8
      <2>3. r[2] \in Positions /\ task[r[2]] # "done"
        BY <1>5, <1>8
      <2> QED BY <1>2, <1>8, <2>1, <2>2, <2>3, CameStep
    <1>9. ASSUME Awaited(r), Came(r[2], Failed), Fault,
                 \/ ran' = ran \cup {i \in Positions : <<calls, i, op.list[i]>> = r}
                 \/ ran' = ran
          PROVE  Core'
      <2>1. faults' \in 0..MaxFaults
        BY <1>0, <1>9, FaultCounts DEF RestOK
      <2>2. ran \subseteq ran' /\ ran' \subseteq Positions
        BY <1>0, <1>6, <1>9
      <2>3. r[2] \in Positions /\ task[r[2]] # "done"
        BY <1>5, <1>9
      <2> QED BY <1>1, <1>2, <1>9, <2>1, <2>2, <2>3, CameStep
    <1> QED BY <1>7, <1>8, <1>9 DEF Execute

-----------------------------------------------------------------------------
(* The beginning and the ends of a fan-out.                                *)

LEMMA NothingUnderWay ==
    ASSUME Core, op.kind = "none"
    PROVE  /\ Positions = {} /\ taken = {} /\ ran = {} /\ results = <<>>
           /\ \A t \in Targets : lock[t] # "tool"
    <1>1. op = NoOp /\ taken = {} /\ ran = {} /\ results = <<>>
      BY DEF Core, AnswerInv
    <1>2. Positions = {}
      BY <1>1 DEF Positions, NoOp
    <1>3. \A t \in Targets : SentTo(t) = {}
      BY <1>2 DEF SentTo
    <1> QED BY <1>1, <1>2, <1>3 DEF Core, Locked

LEMMA WireGrows ==
    ASSUME calls \in Nat, calls' = calls + 1,
           wire \subseteq (1..calls) \X (Nat \ {0}) \X (Targets \ Disabled)
    PROVE  wire \subseteq (1..calls') \X (Nat \ {0}) \X (Targets \ Disabled)
    <1>1. 1..calls \subseteq 1..calls'
      OBVIOUS
    <1> QED BY <1>1

LEMMA BeginStep ==
    ASSUME Core, NEW kind \in Kinds, NEW list \in Seq(Names), NEW quorum \in Nat,
           NEW allowed \in BOOLEAN, Begin(kind, list, quorum, allowed)
    PROVE  Core'
    <1>0. /\ TasksOK /\ RestOK /\ WireInv /\ AnswerInv /\ Locked
          /\ EntriesTrue /\ QuorumHonest
      BY DEF Core
    <1> DEFINE refused == \/ kind \in {"run_on_all", "barrier", "quorum_run"} /\ ~allowed
                          \/ kind = "quorum_run" /\ QuorumRefused(list, quorum)
               new == [kind |-> kind, list |-> list, quorum |-> quorum]
    <1>1. /\ op.kind = "none" /\ calls < MaxCalls /\ calls' = calls + 1
          /\ UNCHANGED <<results, taken, lock, stuck, up, wire, ran, faults>>
          /\ IF refused \/ list = <<>>
               THEN /\ result' = [NoResult EXCEPT
                                    !.st = IF refused THEN "refused" ELSE "returned",
                                    !.op = new]
                    /\ UNCHANGED <<op, task, entry>>
               ELSE /\ op' = new /\ result' = NoResult
                    /\ task' = [i \in DOMAIN list |-> "new"]
                    /\ entry' = [i \in DOMAIN list |-> "none"]
      BY DEF Begin
    <1>2. /\ Positions = {} /\ taken = {} /\ ran = {} /\ results = <<>>
          /\ \A t \in Targets : lock[t] # "tool"
      BY <1>1, NothingUnderWay
    <1>3. calls \in Nat /\ calls' \in 0..MaxCalls
      BY <1>0, <1>1, BoundsNat DEF RestOK
    <1>4. wire' \subseteq (1..calls') \X (Nat \ {0}) \X (Targets \ Disabled)
      BY <1>0, <1>1, <1>3, WireGrows DEF RestOK
    <1>5. ASSUME result'.st \in {"none", "refused", "returned"} PROVE RestOK'
      BY <1>0, <1>1, <1>3, <1>4, <1>5 DEF RestOK
    <1>6. new.kind = kind /\ new.list = list /\ new.quorum = quorum
          /\ new \in [kind: Kinds \cup {"none"}, list: Seq(Names), quorum: Nat]
      OBVIOUS
    <1>7. kind = "quorum_run" /\ list = <<>> => refused
      BY DEF QuorumRefused
    <1> HIDE DEF refused, new
    <1>8. CASE refused \/ list = <<>>
      <2>1. UNCHANGED <<op, task, entry>>
        BY <1>1, <1>8
      <2>2. PICK st \in {"refused", "returned"} :
              /\ result' = [st |-> st, op |-> new, entries |-> <<>>, reached |-> FALSE, ran |-> {}]
              /\ st = "returned" => ~refused
        <3>1. CASE refused
          BY <1>1, <1>8, <3>1 DEF NoResult
        <3>2. CASE ~refused
          BY <1>1, <1>8, <3>2 DEF NoResult
        <3> QED BY <3>1, <3>2
      <2>3. /\ result'.st = st /\ result'.op = new /\ result'.entries = <<>>
        BY <2>2
      <2>4. RestOK'
        BY <1>5, <2>3
      <2>5. Positions' = Positions /\ \A t \in Targets : SentTo(t)' = SentTo(t)
        BY <2>1 DEF Positions, SentTo
      <2>6. TasksOK'
        BY <1>0, <1>1, <2>1, <2>5 DEF TasksOK
      <2>7. Locked'
        BY <1>0, <1>1, <2>5 DEF Locked
      <2>8. WireInv'
        BY <1>1, <2>1 DEF WireInv
      <2>9. AnswerInv'
        BY <1>0, <1>1, <2>1, <2>5 DEF AnswerInv
      <2>10. EntriesTrue'
        <3> SUFFICES ASSUME result'.st = "returned" PROVE EntriesTrue'
          BY DEF EntriesTrue
        <3>1. list = <<>>
          BY <1>8, <2>2, <2>3
        <3>2. DOMAIN result'.entries = {} /\ Range(result'.op.list) = {}
          BY <1>6, <2>3, <3>1 DEF Range
        <3> QED BY <3>2 DEF EntriesTrue
      <2>11. QuorumHonest'
        <3>1. ~(result'.st = "returned" /\ result'.op.kind = "quorum_run")
          BY <1>6, <1>7, <1>8, <2>2, <2>3
        <3> QED BY <3>1 DEF QuorumHonest
      <2> QED BY <2>4, <2>6, <2>7, <2>8, <2>9, <2>10, <2>11 DEF Core
    <1>9. CASE ~(refused \/ list = <<>>)
      <2>1. /\ op' = new /\ result' = NoResult
            /\ task' = [i \in DOMAIN list |-> "new"]
            /\ entry' = [i \in DOMAIN list |-> "none"]
        BY <1>1, <1>9
      <2>2. result'.st = "none"
        BY <2>1 DEF NoResult
      <2>3. RestOK'
        BY <1>5, <2>2
      <2>4. Positions' = DOMAIN list
        BY <1>6, <2>1 DEF Positions
      <2>5. TasksOK'
        BY <1>1, <1>2, <1>6, <2>1, <2>4 DEF TasksOK, Entries
      <2>6. Locked'
        <3>1. \A t \in Targets : SentTo(t)' = {}
          BY <2>1, <2>4 DEF SentTo
        <3> QED BY <1>1, <1>2, <3>1 DEF Locked
      <2>7. WireInv'
        <3>1. calls' > 0 /\ \A k \in 1..calls : k # calls'
          BY <1>1, <1>3
        <3>2. \A r \in wire : r[1] \in 1..calls
          BY <1>0 DEF RestOK
        <3>3. \A r \in wire' : r[1] # calls'
          BY <1>1, <3>1, <3>2
        <3> QED BY <3>1, <3>3 DEF WireInv
      <2>8. AnswerInv'
        <3>1. op'.kind # "none"
          BY <1>6, <2>1 DEF Kinds
        <3>2. \A i \in Positions' : entry'[i] # "ok"
          BY <2>1, <2>4
        <3>3. DOMAIN results' = {} /\ taken' = {}
          BY <1>1, <1>2
        <3> QED BY <3>1, <3>2, <3>3 DEF AnswerInv
      <2>9. EntriesTrue' /\ QuorumHonest'
        BY <2>2 DEF EntriesTrue, QuorumHonest
      <2> QED BY <2>3, <2>5, <2>6, <2>7, <2>8, <2>9 DEF Core
    <1> QED BY <1>8, <1>9

LEMMA BeginAnyStep ==
    ASSUME Core, BeginAny
    PROVE  Core'
    <1>1. 0 \in Nat /\ TRUE \in BOOLEAN /\ 0..2 \subseteq Nat
      OBVIOUS
    <1>2. {"snapshot", "run_on_all", "barrier", "quorum_run", "notify"} \subseteq Kinds
      BY DEF Kinds
    <1>3. ASSUME NEW tags \in BOOLEAN, fleet_snapshot(tags) PROVE Core'
      BY <1>1, <1>2, <1>3, SelectionsAreLists, BeginStep DEF fleet_snapshot
    <1>4. ASSUME NEW allowed \in BOOLEAN, fleet_run_on_all(allowed) PROVE Core'
      BY <1>1, <1>2, <1>4, SelectionsAreLists, BeginStep DEF fleet_run_on_all
    <1>5. ASSUME NEW allowed \in BOOLEAN, fleet_barrier(allowed) PROVE Core'
      BY <1>1, <1>2, <1>5, SelectionsAreLists, BeginStep DEF fleet_barrier
    <1>6. ASSUME NEW allowed \in BOOLEAN, fleet_quorum_run(allowed) PROVE Core'
      <2>1. PICK list \in Selections, quorum \in 0..2 : Begin("quorum_run", list, quorum, allowed)
        BY <1>6 DEF fleet_quorum_run
      <2>2. list \in Seq(Names) /\ quorum \in Nat
        BY <1>1, SelectionsAreLists
      <2> QED BY <1>2, <2>1, <2>2, BeginStep
    <1>7. ASSUME notify_fleet PROVE Core'
      BY <1>1, <1>2, <1>7, SelectionsAreLists, BeginStep DEF notify_fleet
    <1> QED BY <1>3, <1>4, <1>5, <1>6, <1>7 DEF BeginAny

LEMMA ReturnStep ==
    ASSUME Core, NEW entries, NEW reached, Returned(entries, reached),
           lock' \in [Targets -> {"free", "other", "tool"}], stuck' \subseteq Targets,
           \A t \in Targets : lock'[t] # "tool",
           DOMAIN entries = Range(op.list),
           \A n \in DOMAIN entries : entries[n] = "ok" => \E i \in ran : op.list[i] = n,
           op.kind = "quorum_run" =>
             /\ reached => Cardinality(ran) >= op.quorum
             /\ IsInjective(op.list) =>
                  (reached <=> Cardinality({n \in DOMAIN entries : entries[n] = "ok"})
                                 >= op.quorum)
    PROVE  Core'
    <1>0. RestOK
      BY DEF Core
    <1>1. /\ result' = [st |-> "returned", op |-> op, entries |-> entries,
                        reached |-> reached, ran |-> ran]
          /\ op' = NoOp /\ task' = <<>> /\ entry' = <<>> /\ results' = <<>> /\ taken' = {}
          /\ ran' = {} /\ UNCHANGED <<up, wire, calls, faults>>
      BY DEF Returned
    <1>2. /\ result'.st = "returned" /\ result'.op = op /\ result'.entries = entries
          /\ result'.reached = reached /\ result'.ran = ran
      BY <1>1
    <1>3. Positions' = {} /\ op'.kind = "none"
      BY <1>1 DEF Positions, NoOp
    <1>4. TasksOK'
      <2>1. op' \in [kind: Kinds \cup {"none"}, list: Seq(Names), quorum: Nat]
        BY <1>1 DEF NoOp
      <2>2. task' \in [{} -> {"new", "probed", "sent", "done"}] /\ entry' \in [{} -> Entries]
        BY <1>1
      <2> QED BY <1>1, <1>3, <2>1, <2>2 DEF TasksOK
    <1>5. RestOK'
      BY <1>0, <1>1, <1>2 DEF RestOK
    <1>6. Locked'
      BY <1>3 DEF Locked, SentTo
    <1>7. WireInv'
      BY <1>3 DEF WireInv
    <1>8. AnswerInv'
      <2>1. DOMAIN results' = {}
        BY <1>1
      <2> QED BY <1>1, <1>3, <2>1 DEF AnswerInv
    <1>9. EntriesTrue'
      BY <1>2 DEF EntriesTrue
    <1>10. QuorumHonest'
      BY <1>2 DEF QuorumHonest
    <1> QED BY <1>4, <1>5, <1>6, <1>7, <1>8, <1>9, <1>10 DEF Core

(* gather: the last entry of each name.                                    *)
LEMMA GatherStep ==
    ASSUME Core, Gather
    PROVE  Core'
    <1>0. TasksOK /\ RestOK /\ Locked /\ AnswerInv
      BY DEF Core
    <1> DEFINE of(n) == CHOOSE i \in Positions :
                          /\ op.list[i] = n
                          /\ \A j \in Positions : op.list[j] = n => j <= i
               entries == [n \in Range(op.list) |-> entry[of(n)]]
    <1>1. /\ op.kind # "quorum_run" /\ (\A i \in Positions : task[i] = "done")
          /\ Returned(entries, FALSE) /\ lock' = lock /\ stuck' = stuck
      BY DEF Gather
    <1>2. \A t \in Targets : lock'[t] # "tool"
      <2>1. \A t \in Targets : SentTo(t) = {}
        BY <1>1 DEF SentTo
      <2> QED BY <1>0, <1>1, <2>1 DEF Locked
    <1>3. lock' \in [Targets -> {"free", "other", "tool"}] /\ stuck' \subseteq Targets
      BY <1>0, <1>1 DEF RestOK
    <1>4. ASSUME NEW n \in Range(op.list)
          PROVE  of(n) \in Positions /\ op.list[of(n)] = n
      <2> DEFINE S == {i \in Positions : op.list[i] = n}
      <2>1. Positions = 1..Len(op.list) /\ Len(op.list) \in Nat
        BY <1>0, PositionsOf
      <2>2. S \in SUBSET (1..Len(op.list)) /\ S # {}
        BY <1>4, <2>1 DEF Range, Positions
      <2>3. \E m \in S : \A k \in S : k <= m
        BY <2>1, <2>2, LargestExists
      <2>4. \E i \in Positions :
              /\ op.list[i] = n
              /\ \A j \in Positions : op.list[j] = n => j <= i
        BY <2>3
      <2> HIDE DEF S
      <2> QED BY <2>4
    <1> HIDE DEF of
    <1>5. DOMAIN entries = Range(op.list)
      OBVIOUS
    <1>6. ASSUME NEW n \in DOMAIN entries, entries[n] = "ok"
          PROVE  \E i \in ran : op.list[i] = n
      <2>1. n \in Range(op.list) /\ entry[of(n)] = "ok"
        BY <1>6
      <2>2. of(n) \in Positions /\ op.list[of(n)] = n
        BY <1>4, <2>1
      <2>3. of(n) \in ran
        BY <1>0, <2>1, <2>2 DEF AnswerInv
      <2> QED BY <2>2, <2>3
    <1> HIDE DEF entries
    <1> QED BY <1>1, <1>2, <1>3, <1>5, <1>6, ReturnStep

(* What quorum_run has made of the tasks it has taken.                     *)
ResultsOf(tk, res) ==
    /\ tk \subseteq Positions /\ \A i \in tk : task[i] = "done"
    /\ DOMAIN res = {op.list[i] : i \in tk}
    /\ \A n \in DOMAIN res : \E i \in tk : op.list[i] = n /\ res[n] = entry[i]

LEMMA CancelStep ==
    ASSUME Core, op.kind = "quorum_run", NEW tk, NEW res, ResultsOf(tk, res),
           Cancel(tk, res, OkCount(tk) >= op.quorum)
    PROVE  Core'
    <1>0. TasksOK /\ RestOK /\ Locked /\ AnswerInv
      BY DEF Core
    <1> DEFINE reached == OkCount(tk) >= op.quorum
               entries == [n \in Range(op.list) |->
                             IF n \in DOMAIN res THEN res[n] ELSE "cancelled"]
               A == {i \in tk : entry[i] = "ok"}
               B == {n \in DOMAIN entries : entries[n] = "ok"}
    <1>1. /\ Returned(entries, reached)
          /\ lock' = [t \in Targets |->
                        IF \E i \in Positions \ tk : task[i] = "sent" /\ op.list[i] = t
                          THEN "free" ELSE lock[t]]
          /\ stuck' = {t \in stuck : lock'[t] # "free"}
      BY DEF Cancel
    <1>2. lock' \in [Targets -> {"free", "other", "tool"}] /\ stuck' \subseteq Targets
      BY <1>0, <1>1 DEF RestOK
    <1>3. ASSUME NEW t \in Targets PROVE lock'[t] # "tool"
      <2>1. CASE lock[t] = "tool"
        <3>1. PICK i : SentTo(t) = {i}
          BY <1>0, <2>1 DEF Locked
        <3>2. i \in Positions /\ task[i] = "sent" /\ op.list[i] = t
          BY <3>1 DEF SentTo
        <3>3. i \notin tk
          BY <3>2 DEF ResultsOf
        <3> QED BY <1>1, <3>2, <3>3
      <2>2. CASE lock[t] # "tool"
        BY <1>1, <2>2
      <2> QED BY <2>1, <2>2
    <1>4. DOMAIN entries = Range(op.list) /\ DOMAIN res \subseteq Range(op.list)
      BY DEF ResultsOf, Range, Positions
    <1>5. ASSUME NEW n \in B
          PROVE  \E i \in A : op.list[i] = n
      <2>1. n \in DOMAIN res /\ res[n] = "ok"
        BY <1>5
      <2> QED BY <2>1 DEF ResultsOf
    <1>6. A \subseteq ran
      BY <1>0 DEF AnswerInv, ResultsOf
    <1>7. \A n \in DOMAIN entries : entries[n] = "ok" => \E i \in ran : op.list[i] = n
      BY <1>5, <1>6
    <1>8. IsFiniteSet(Positions) /\ ran \subseteq Positions
      BY <1>0, PositionsOf DEF TasksOK
    <1>9. IsFiniteSet(ran) /\ IsFiniteSet(A) /\ Cardinality(A) <= Cardinality(ran)
          /\ Cardinality(A) \in Nat /\ Cardinality(ran) \in Nat
      BY <1>6, <1>8, FS_Subset, FS_CardinalityType
    <1>10. OkCount(tk) = Cardinality(A) /\ op.quorum \in Nat
      BY <1>0 DEF OkCount, TasksOK
    <1>11. reached => Cardinality(ran) >= op.quorum
      BY <1>9, <1>10
    <1>12. ASSUME IsInjective(op.list)
           PROVE  Cardinality(B) = Cardinality(A)
      <2> DEFINE f == [i \in A |-> op.list[i]]
      <2>1. ASSUME NEW i \in A PROVE op.list[i] \in B
        <3>1. i \in tk /\ i \in Positions /\ entry[i] = "ok"
          BY DEF ResultsOf
        <3>2. PICK j \in tk : op.list[j] = op.list[i] /\ res[op.list[i]] = entry[j]
          BY <3>1 DEF ResultsOf
        <3>3. j \in Positions
          BY <3>2 DEF ResultsOf
        <3>4. j = i
          BY <1>12, <3>1, <3>2, <3>3 DEF IsInjective, Positions
        <3>5. op.list[i] \in DOMAIN res
          BY <3>1 DEF ResultsOf
        <3> QED BY <1>4, <3>1, <3>2, <3>4, <3>5
      <2>2. f \in [A -> B]
        BY <2>1
      <2>3. \A i, j \in A : f[i] = f[j] => i = j
        <3>1. A \subseteq DOMAIN op.list
          BY DEF ResultsOf, Positions
        <3> QED BY <1>12, <3>1 DEF IsInjective
      <2>4. \A n \in B : \E i \in A : f[i] = n
        BY <1>5
      <2> HIDE DEF f
      <2>5. f \in Bijection(A, B)
        BY <2>2, <2>3, <2>4 DEF Bijection, Injection, Surjection, IsInjective
      <2>6. ExistsBijection(A, B)
        BY <2>5 DEF ExistsBijection
      <2> QED BY <1>9, <2>6, FS_Bijection
    <1>13. IsInjective(op.list) => (reached <=> Cardinality(B) >= op.quorum)
      BY <1>10, <1>12
    <1> HIDE DEF entries, reached
    <1> QED BY <1>1, <1>2, <1>3, <1>4, <1>7, <1>11, <1>13, ReturnStep

(* Whatever the order asyncio.wait hands them out in.                      *)
LEMMA CollectStep ==
    ASSUME Core, Collect
    PROVE  Core'
    <1>0. TasksOK /\ RestOK /\ Locked /\ WireInv /\ AnswerInv /\ EntriesTrue /\ QuorumHonest
      BY DEF Core
    <1>1. op.kind = "quorum_run"
      BY DEF Collect
    <1>2. PICK order \in SetToSeqs(Done) :
         LET tk == taken \cup Done
             last(n) == CHOOSE k \in DOMAIN order :
                          /\ op.list[order[k]] = n
                          /\ \A m \in DOMAIN order : op.list[order[m]] = n => m <= k
             named == {op.list[i] : i \in Done}
             res == [n \in DOMAIN results \cup named |->
                        IF n \in named THEN entry[order[last(n)]] ELSE results[n]]
         IN  IF GoesOn(tk)
               THEN /\ taken' = tk /\ results' = res
                    /\ UNCHANGED <<op, task, entry, lock, stuck, up, wire, ran, calls,
                                   faults, result>>
               ELSE Cancel(tk, res, OkCount(tk) >= op.quorum)
      BY DEF Collect
    <1> DEFINE tk == taken \cup Done
               last(n) == CHOOSE k \in DOMAIN order :
                            /\ op.list[order[k]] = n
                            /\ \A m \in DOMAIN order : op.list[order[m]] = n => m <= k
               named == {op.list[i] : i \in Done}
               res == [n \in DOMAIN results \cup named |->
                          IF n \in named THEN entry[order[last(n)]] ELSE results[n]]
    <1>3. Done \subseteq Positions /\ (\A i \in Done : task[i] = "done")
      BY DEF Done
    <1>4. IsFiniteSet(Done)
      BY <1>0, <1>3, PositionsOf, FS_Subset
    <1> DEFINE c == Cardinality(Done)
    <1>5. c \in Nat /\ order \in [1..c -> Done] /\ DOMAIN order = 1..c
          /\ \A i, j \in 1..c : i # j => order[i] # order[j]
      BY <1>4, FS_CardinalityType DEF SetToSeqs
    <1>6. \A i \in Done : \E k \in 1..c : order[k] = i
      <2>1. order \in Injection(1..c, Done)
        BY <1>5 DEF Injection, IsInjective
      <2>2. Cardinality(1..c) = c
        BY <1>5, FS_Interval
      <2>3. order \in Surjection(1..c, Done)
        BY <1>4, <2>1, <2>2, FS_Injection
      <2> QED BY <2>3 DEF Surjection
    <1>7. ASSUME NEW n \in named
          PROVE  order[last(n)] \in Done /\ op.list[order[last(n)]] = n
      <2> DEFINE S == {k \in 1..c : op.list[order[k]] = n}
      <2>1. S \in SUBSET (1..c) /\ S # {}
        BY <1>6, <1>7
      <2>2. \E m \in S : \A k \in S : k <= m
        BY <1>5, <2>1, LargestExists
      <2>3. \E k \in DOMAIN order :
              /\ op.list[order[k]] = n
              /\ \A m \in DOMAIN order : op.list[order[m]] = n => m <= k
        BY <1>5, <2>2
      <2> HIDE DEF S
      <2>4. last(n) \in DOMAIN order /\ op.list[order[last(n)]] = n
        BY <2>3
      <2> QED BY <1>5, <2>4
    <1> HIDE DEF last
    <1>8. ResultsOf(tk, res)
      <2>1. tk \subseteq Positions /\ \A i \in tk : task[i] = "done"
        BY <1>0, <1>3 DEF TasksOK, AnswerInv
      <2>2. DOMAIN res = {op.list[i] : i \in tk}
        <3>1. DOMAIN res = DOMAIN results \cup named
          OBVIOUS
        <3>2. DOMAIN results = {op.list[i] : i \in taken}
          BY <1>0 DEF AnswerInv
        <3> QED BY <3>1, <3>2
      <2>3. ASSUME NEW n \in DOMAIN res
            PROVE  \E i \in tk : op.list[i] = n /\ res[n] = entry[i]
        <3>1. CASE n \in named
          <4>1. res[n] = entry[order[last(n)]]
            BY <3>1
          <4> QED BY <1>7, <3>1, <4>1
        <3>2. CASE n \notin named
          <4>1. n \in DOMAIN results /\ res[n] = results[n]
            BY <2>3, <3>2
          <4> QED BY <1>0, <4>1 DEF AnswerInv
        <3> QED BY <3>1, <3>2
      <2> QED BY <2>1, <2>2, <2>3 DEF ResultsOf
    <1>9. \/ Cancel(tk, res, OkCount(tk) >= op.quorum)
          \/ /\ taken' = tk /\ results' = res
             /\ UNCHANGED <<op, task, entry, lock, stuck, up, wire, ran, calls, faults,
                            result>>
      BY <1>2 DEF last
    <1> HIDE DEF tk, res
    <1>10. CASE Cancel(tk, res, OkCount(tk) >= op.quorum)
      BY <1>1, <1>8, <1>10, CancelStep
    <1>11. CASE /\ taken' = tk /\ results' = res
                /\ UNCHANGED <<op, task, entry, lock, stuck, up, wire, ran, calls, faults,
                               result>>
      <2>1. Positions' = Positions /\ \A t \in Targets : SentTo(t)' = SentTo(t)
        BY <1>11 DEF Positions, SentTo
      <2>2. TasksOK'
        BY <1>0, <1>8, <1>11, <2>1 DEF TasksOK, ResultsOf
      <2>3. RestOK'
        BY <1>0, <1>11 DEF RestOK
      <2>4. Locked'
        BY <1>0, <1>11, <2>1 DEF Locked
      <2>5. WireInv'
        BY <1>0, <1>11, <2>1 DEF WireInv
      <2>6. AnswerInv'
        BY <1>0, <1>1, <1>8, <1>11, <2>1 DEF AnswerInv, ResultsOf
      <2>7. EntriesTrue' /\ QuorumHonest'
        BY <1>0, <1>11 DEF EntriesTrue, QuorumHonest
      <2> QED BY <2>2, <2>3, <2>4, <2>5, <2>6, <2>7 DEF Core
    <1> QED BY <1>9, <1>10, <1>11

LEMMA DeadlineStep ==
    ASSUME Core, Deadline
    PROVE  Core'
    <1>1. op.kind = "quorum_run" /\ Cancel(taken, results, OkCount(taken) >= op.quorum)
      BY DEF Deadline
    <1>2. ResultsOf(taken, results)
      BY DEF Core, TasksOK, AnswerInv, ResultsOf
    <1> QED BY <1>1, <1>2, CancelStep

-----------------------------------------------------------------------------
LEMMA InitCore == Init => Core
    <1> SUFFICES ASSUME Init PROVE Core
      OBVIOUS
    <1>1. /\ op = NoOp /\ task = <<>> /\ entry = <<>> /\ results = <<>> /\ taken = {}
          /\ lock = [t \in Targets |-> "free"] /\ stuck = {} /\ up \in [Targets -> BOOLEAN]
          /\ wire = {} /\ ran = {} /\ calls = 0 /\ faults = 0 /\ result = NoResult
      BY DEF Init
    <1>2. Positions = {} /\ op.kind = "none" /\ result.st = "none"
      BY <1>1 DEF Positions, NoOp, NoResult
    <1>3. TasksOK
      <2>1. op \in [kind: Kinds \cup {"none"}, list: Seq(Names), quorum: Nat]
        BY <1>1 DEF NoOp
      <2>2. task \in [{} -> {"new", "probed", "sent", "done"}] /\ entry \in [{} -> Entries]
        BY <1>1
      <2> QED BY <1>1, <1>2, <2>1, <2>2 DEF TasksOK
    <1>4. RestOK
      BY <1>1, <1>2, BoundsNat DEF RestOK
    <1>5. Locked
      BY <1>1, <1>2 DEF Locked, SentTo
    <1>6. WireInv
      BY <1>2 DEF WireInv
    <1>7. AnswerInv
      <2>1. DOMAIN results = {}
        BY <1>1
      <2> QED BY <1>1, <1>2, <2>1 DEF AnswerInv
    <1>8. EntriesTrue /\ QuorumHonest
      BY <1>2 DEF EntriesTrue, QuorumHonest
    <1> QED BY <1>3, <1>4, <1>5, <1>6, <1>7, <1>8 DEF Core

LEMMA NextCore == Core /\ [Next]_vars => Core'
    <1> SUFFICES ASSUME Core, [Next]_vars PROVE Core'
      OBVIOUS
    <1>1. CASE UNCHANGED vars
      <2>1. UNCHANGED <<op, task, entry, results, taken, lock, stuck, up, wire, ran, calls,
                        faults, result>>
        BY <1>1 DEF vars
      <2>2. RestOK' /\ ran \subseteq Positions
        BY <2>1 DEF Core, RestOK, TasksOK
      <2> QED BY <2>1, <2>2, QuietStep
    <1>2. CASE Next
      BY <1>2, BeginAnyStep, GatherStep, CollectStep, DeadlineStep, TaskStep, ExecuteStep,
         OtherStep DEF Next
    <1> QED BY <1>1, <1>2

(* The invariant of the fan-out tools (tools/fleet.py, notify_fleet):      *)
(* whatever times out, is cancelled, comes late or goes down.              *)
THEOREM FleetInvariant == Spec => []FleetInv
    <1>1. Spec => []Core
      BY InitCore, NextCore, PTL DEF Spec
    <1> QED BY <1>1, CoreImplies, PTL

(* What a fan-out returns names every target it was asked about, and says  *)
(* ok only of one whose daemon executed the method for this very call.     *)
THEOREM ReturnsAreTrue == Spec => []EntriesTrue
    <1>1. FleetInv => EntriesTrue
      BY DEF FleetInv
    <1> QED BY <1>1, FleetInvariant, PTL

(* fleet_quorum_run reports the quorum as reached just when that many      *)
(* calls were answered ok.                                                 *)
THEOREM QuorumsAreHonest == Spec => []QuorumHonest
    <1>1. FleetInv => QuorumHonest
      BY DEF FleetInv
    <1> QED BY <1>1, FleetInvariant, PTL

(* McpdTransport's lock is held for a fan-out just while one of its tasks  *)
(* waits for an answer there: a time-out or a cancelled task leaves it     *)
(* free.                                                                   *)
THEOREM LocksFollowTasks == Spec => []LocksMatchTasks
    <1>1. FleetInv => LocksMatchTasks
      BY DEF FleetInv
    <1> QED BY <1>1, FleetInvariant, PTL
=============================================================================
