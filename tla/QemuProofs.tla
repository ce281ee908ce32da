----------------------------- MODULE QemuProofs -----------------------------
(***************************************************************************)
(* Proofs about Qemu, for any number of calls, processes, writes and       *)
(* faults: a stop keeps what was written before it, a reset replaces the   *)
(* guest, and the host leaves no guest of its own behind.                  *)
(***************************************************************************)
EXTENDS Qemu, TLAPS

-----------------------------------------------------------------------------
(* Steps that change no call.                                              *)

Environment ==
    \/ \E p \in Pids : Bind(p) \/ Boot(p) \/ Gone(p) \/ Crash(p)
    \/ WriteBack \/ OtherStarts \/ UseQmp \/ system_reset
    \/ qemu_savevm \/ qemu_delete_snapshot
    \/ \E byUs \in BOOLEAN : Write(byUs)

(* What may happen to the processes and to the guest's cache.              *)
ProcStays == proc' = proc /\ (unflushed' \subseteq unflushed \/ McpdUp # {})
ProcDies == \E p \in Pids, st \in {"closing", "dead"} : Alive(p) /\ Killed(p, st)
ProcResets == \E p \in QmpUp : Killed(p, "up")
ProcLoads == \E p \in QmpUp : proc' = [proc EXCEPT ![p] = "booted"]
ProcBinds ==
    /\ unflushed' = unflushed
    /\ \E p \in Pids :
         /\ proc[p] = "new"
         /\ proc' = [proc EXCEPT ![p] = IF Listening = {} THEN "up" ELSE "dead"]
ProcBoots ==
    /\ unflushed' = unflushed
    /\ \E p \in Pids : proc[p] = "up" /\ proc' = [proc EXCEPT ![p] = "booted"]
ProcStarts ==
    /\ unflushed' = unflushed
    /\ \E p \in Pids : proc[p] = "none" /\ proc' = [proc EXCEPT ![p] = "new"]

ProcKind ==
    \/ ProcStays \/ ProcDies \/ ProcResets \/ ProcLoads
    \/ ProcBinds \/ ProcBoots \/ ProcStarts

(* What all of them have in common.                                        *)
ProcFacts ==
    \A p \in Pids :
        /\ proc'[p] = "none" => proc[p] = "none"
        /\ proc'[p] \in {"new", "up", "booted", "closing"} /\ proc[p] # "none"
             => Alive(p)
        /\ proc[p] \in {"closing", "dead"} => proc'[p] \in {"closing", "dead"}
        /\ proc[p] \in {"up", "booted"}
             => proc'[p] \in {"up", "booted", "closing", "dead"}
        /\ proc'[p] = "up" => proc[p] \in {"new", "up"} \/ hasQmp

States == {"none", "new", "up", "booted", "closing", "dead"}

LEMMA ProcEffects ==
    ASSUME proc \in [Pids -> States], ProcKind
    PROVE  proc' \in [Pids -> States] /\ ProcFacts
    <1> USE DEF States
    <1>1. CASE ProcStays
      BY <1>1 DEF ProcStays, ProcFacts, Alive
    <1>2. CASE ProcDies
      BY <1>2 DEF ProcDies, ProcFacts, Killed, Alive
    <1>3. CASE ProcResets
      BY <1>3 DEF ProcResets, ProcFacts, Killed, QmpUp, Listening, Alive
    <1>4. CASE ProcLoads
      BY <1>4 DEF ProcLoads, ProcFacts, QmpUp, Listening, Alive
    <1>5. CASE ProcBinds
      BY <1>5 DEF ProcBinds, ProcFacts, Alive
    <1>6. CASE ProcBoots
      BY <1>6 DEF ProcBoots, ProcFacts, Alive
    <1>7. CASE ProcStarts
      BY <1>7 DEF ProcStarts, ProcFacts, Alive
    <1> QED BY <1>1, <1>2, <1>3, <1>4, <1>5, <1>6, <1>7 DEF ProcKind

(* One guest at most answers, and the cache is that of a booted one.       *)
OneGuest ==
    /\ \A p, q \in Listening : p = q
    /\ McpdUp = {} => unflushed = {}

LEMMA OneGuestStays ==
    ASSUME proc \in [Pids -> States], OneGuest, ProcKind
    PROVE  OneGuest'
    <1> USE DEF OneGuest, Listening, McpdUp
    <1>1. CASE ProcStays
      BY <1>1 DEF ProcStays
    <1>2. CASE ProcDies
      <2>1. PICK p \in Pids, st \in {"closing", "dead"} : Alive(p) /\ Killed(p, st)
        BY <1>2 DEF ProcDies
      <2>2. \A q \in Pids : q # p => proc'[q] = proc[q]
        BY <2>1 DEF Killed
      <2>3. proc'[p] \in {"closing", "dead"}
        BY <2>1 DEF Killed
      <2>4. \A q \in Listening' : q \in Listening
        BY <2>2, <2>3
      <2>5. CASE p \in Listening
        <3>1. unflushed' = {}
          BY <2>1, <2>5 DEF Killed
        <3> QED BY <2>4, <3>1
      <2>6. CASE p \notin Listening
        <3>1. unflushed' = unflushed
          BY <2>1, <2>6 DEF Killed
        <3>2. McpdUp' = McpdUp
          BY <2>2, <2>3, <2>6
        <3> QED BY <2>4, <3>1, <3>2
      <2> QED BY <2>5, <2>6
    <1>3. CASE ProcResets
      <2>1. PICK p \in QmpUp : Killed(p, "up")
        BY <1>3 DEF ProcResets
      <2>2. p \in Listening
        BY <2>1 DEF QmpUp
      <2>3. unflushed' = {}
        BY <2>1, <2>2 DEF Killed
      <2>4. \A q \in Listening' : q \in Listening
        BY <2>1, <2>2 DEF Killed
      <2> QED BY <2>3, <2>4
    <1>4. CASE ProcLoads
      <2>1. PICK p \in QmpUp : proc' = [proc EXCEPT ![p] = "booted"]
        BY <1>4 DEF ProcLoads
      <2>2. p \in Listening
        BY <2>1 DEF QmpUp
      <2>3. p \in McpdUp'
        BY <2>1, <2>2
      <2>4. \A q \in Listening' : q \in Listening
        BY <2>1, <2>2
      <2> QED BY <2>3, <2>4
    <1>5. CASE ProcBinds
      <2>1. PICK p \in Pids :
              /\ proc[p] = "new"
              /\ proc' = [proc EXCEPT ![p] = IF Listening = {} THEN "up" ELSE "dead"]
        BY <1>5 DEF ProcBinds
      <2>2. McpdUp' = McpdUp /\ unflushed' = unflushed
        BY <1>5, <2>1 DEF ProcBinds
      <2>3. \A q \in Listening' : q \in Listening \/ (q = p /\ Listening = {})
        BY <2>1
      <2> QED BY <2>2, <2>3
    <1>6. CASE ProcBoots
      <2>1. PICK p \in Pids : proc[p] = "up" /\ proc' = [proc EXCEPT ![p] = "booted"]
        BY <1>6 DEF ProcBoots
      <2>2. p \in McpdUp' /\ Listening' = Listening
        BY <2>1
      <2> QED BY <2>2
    <1>7. CASE ProcStarts
      <2>1. PICK p \in Pids : proc[p] = "none" /\ proc' = [proc EXCEPT ![p] = "new"]
        BY <1>7 DEF ProcStarts
      <2>2. McpdUp' = McpdUp /\ Listening' = Listening /\ unflushed' = unflushed
        BY <1>7, <2>1 DEF ProcStarts
      <2> QED BY <2>2
    <1> QED BY <1>1, <1>2, <1>3, <1>4, <1>5, <1>6, <1>7 DEF ProcKind

-----------------------------------------------------------------------------
(* The records of calls.                                                   *)

Ends == {"idle", "ok", "raised"}

LEMMA IntervalGrows ==
    ASSUME NEW a \in Nat, NEW b \in Nat, a <= b
    PROVE  1..a \subseteq 1..b
    OBVIOUS

LEMMA RecordsGrow ==
    ASSUME writes \in Nat, writes' = writes \/ writes' = writes + 1, NEW P
    PROVE  /\ 1..writes \subseteq 1..writes'
           /\ CallRecords(P) \subseteq CallRecords(P)'
    <1>1. writes' \in Nat /\ writes <= writes'
      <2>1. CASE writes' = writes
        BY <2>1
      <2>2. CASE writes' = writes + 1
        BY <2>2
      <2> QED BY <2>1, <2>2
    <1>3. 1..writes \subseteq 1..writes'
      BY <1>1, IntervalGrows
    <1> QED BY <1>3 DEF CallRecords

LEMMA NoCallRecord ==
    ASSUME NEW P, "idle" \in P
    PROVE  NoCall \in CallRecords(P)
    <1>1. MaxPids \in Nat
      BY QemuAssumption
    <1> QED BY <1>1 DEF NoCall, CallRecords, Settlings

LEMMA ReturnFacts ==
    ASSUME NEW c \in Calls, call \in [Calls -> CallRecords(Stages)],
           NEW st \in {"ok", "raised"}, NEW l \in SUBSET (1..writes),
           Return(c, st, l)
    PROVE  /\ call' = [call EXCEPT ![c] = NoCall]
           /\ result' \in CallRecords(Ends)
           /\ result'.op = call[c].op /\ result'.pc = st
           /\ result'.before = call[c].before /\ result'.lost = l
           /\ result'.settled = call[c].settled
           /\ result'.old = call[c].old \cap (IF hasQmp THEN Listening ELSE McpdUp)
    <1>1. MaxPids \in Nat
      BY QemuAssumption
    <1>2. call[c] \in CallRecords(Stages)
      OBVIOUS
    <1> DEFINE o == call[c].old \cap (IF hasQmp THEN Listening ELSE McpdUp)
    <1>3. result' = [call[c] EXCEPT !.pc = st, !.pid = 0, !.lost = l, !.old = o]
      BY DEF Return
    <1>4. o \in SUBSET Pids
      BY <1>2 DEF CallRecords
    <1> HIDE DEF o
    <1>5. /\ result' \in CallRecords(Ends)
          /\ result'.op = call[c].op /\ result'.pc = st
          /\ result'.before = call[c].before /\ result'.lost = l
          /\ result'.settled = call[c].settled
          /\ result'.old = o
      <2>1. result' = [op |-> call[c].op, pc |-> st, pid |-> 0,
                       before |-> call[c].before, lost |-> l,
                       settled |-> call[c].settled, old |-> o]
        BY <1>2, <1>3 DEF CallRecords
      <2>2. 0 \in 0..MaxPids
        BY <1>1
      <2> QED BY <1>2, <1>4, <2>1, <2>2 DEF CallRecords, Ends
    <1> QED BY <1>5 DEF Return, o

(* What the invariants ask of one call's record m.                         *)
FlushOK(m, u) ==
    /\ m.settled \notin Unflushed => m.before \cap m.lost = {}
    /\ m.pc \in {"settle", "sync"} => m.lost = {}
    /\ m.pc \in {"decide", "quit", "quitUnowned", "poll"} /\ m.settled \notin Unflushed
         => m.before \cap u = {}

ResetOK(m, f, q) ==
    \A p \in m.old :
        /\ f[p] \in {"up", "booted", "closing", "dead"}
        /\ f[p] = "up" => q
        /\ m.pc \in {"popen", "register"} => f[p] \in {"closing", "dead"}

PidOK(m, f) ==
    /\ m.pc = "register" => m.pid # 0 /\ f[m.pid] # "none"
    /\ m.pc \in {"quit", "poll"} => m.pid # 0

(* A result is that of a stop that kept what it had to, and of a reset     *)
(* that replaced the guest.                                                *)
ResultOK(r) ==
    /\ r.settled \notin Unflushed => r.before \cap r.lost = {}
    /\ r.op = "reset" /\ r.pc = "ok" => r.old = {}

LEMMA NoCallOK ==
    ASSUME NEW u, NEW f, NEW q
    PROVE  FlushOK(NoCall, u) /\ ResetOK(NoCall, f, q) /\ PidOK(NoCall, f)
           /\ ResultOK(NoCall) /\ NoCall.pc = "idle"
    BY DEF NoCall, FlushOK, ResetOK, PidOK, ResultOK

(* The part of the invariant about single calls and the result.            *)
CallsOK ==
    /\ \A c \in Calls : /\ FlushOK(call[c], unflushed)
                        /\ ResetOK(call[c], proc, hasQmp)
                        /\ PidOK(call[c], proc)
    /\ ResultOK(result)

LEMMA CallsOKParts ==
    CallsOK => FlushInv /\ ResetInv /\ ResetReplaces
               /\ \A r \in {result} \cup {call[c] : c \in Calls} :
                     r.settled \notin Unflushed => r.before \cap r.lost = {}
    BY DEF CallsOK, FlushOK, ResetOK, ResultOK, FlushInv, ResetInv, ResetReplaces

(* A call whose record stays is kept by what the others and the guest do.  *)
LEMMA RecordStays ==
    ASSUME NEW m \in CallRecords(Stages), NEW u, NEW v,
           FlushOK(m, u), ResetOK(m, proc, hasQmp), PidOK(m, proc),
           m.before \cap v \subseteq u, ProcFacts
    PROVE  FlushOK(m, v) /\ ResetOK(m, proc', hasQmp) /\ PidOK(m, proc')
    <1>1. FlushOK(m, v)
      BY DEF FlushOK
    <1>2. \A p \in m.old : p \in Pids
      BY DEF CallRecords
    <1>3. ResetOK(m, proc', hasQmp)
      BY <1>2 DEF ResetOK, ProcFacts
    <1>4. m.pid # 0 => m.pid \in Pids
      BY DEF CallRecords, Pids
    <1>5. PidOK(m, proc')
      BY <1>4 DEF PidOK, ProcFacts
    <1> QED BY <1>1, <1>3, <1>5

-----------------------------------------------------------------------------
(* Type correctness of what is neither a process nor a call.               *)

HostOK ==
    /\ ours \subseteq Pids /\ excused \in BOOLEAN
    /\ reg \in 0..MaxPids /\ client \in 0..MaxPids
    /\ mcpd \in {"none", "clean", "written"}
    /\ calls \in 0..MaxCalls /\ foreign \in 0..MaxForeign /\ faults \in 0..MaxFaults
    /\ closed \in BOOLEAN /\ hasQmp \in BOOLEAN

DiskOK ==
    /\ unflushed \subseteq 1..writes /\ writes \in 0..MaxWrites
    /\ snap \in [st: {"none", "saved"}, cache: SUBSET (1..writes)]

LEMMA TypeParts ==
    TypeOK <=> /\ HostOK /\ DiskOK /\ proc \in [Pids -> States]
               /\ call \in [Calls -> CallRecords(Stages)]
               /\ result \in CallRecords(Ends)
    BY Zenon DEF TypeOK, HostOK, DiskOK, States, Ends

LEMMA TypeJoins ==
    ASSUME HostOK', DiskOK', proc' \in [Pids -> States],
           call' \in [Calls -> CallRecords(Stages)'], result' \in CallRecords(Ends)'
    PROVE  TypeOK'
    BY Zenon DEF TypeOK, HostOK, DiskOK, States, Ends

LEMMA BoundsNat ==
    /\ MaxPids \in Nat /\ MaxForeign \in Nat /\ MaxWrites \in Nat
    /\ MaxCalls \in Nat /\ MaxFaults \in Nat
    BY QemuAssumption

LEMMA FaultCounts ==
    ASSUME faults \in 0..MaxFaults, Fault \/ faults' = faults
    PROVE  faults' \in 0..MaxFaults
    BY BoundsNat DEF Fault

(* What a step of the environment leaves alone, and what it may do.        *)
LEMMA EnvironmentEffects ==
    ASSUME TypeOK, Environment
    PROVE  /\ UNCHANGED <<call, result, ours, excused, reg, calls, closed, hasQmp>>
           /\ ProcKind /\ HostOK' /\ DiskOK'
           /\ writes' = writes \/ writes' = writes + 1
           /\ unflushed' \subseteq unflushed \cup {writes + 1}
    <1>0. /\ HostOK /\ DiskOK /\ proc \in [Pids -> States]
      BY TypeParts
    <1>a. writes \in Nat
      BY <1>0, BoundsNat DEF DiskOK
    <1> DEFINE G ==
          /\ UNCHANGED <<call, result, ours, excused, reg, calls, closed, hasQmp>>
          /\ ProcKind /\ HostOK' /\ DiskOK'
          /\ writes' = writes \/ writes' = writes + 1
          /\ unflushed' \subseteq unflushed \cup {writes + 1}
          U == UNCHANGED <<call, result, ours, excused, reg, calls, closed, hasQmp>>
    <1>1. ASSUME U, client' \in 0..MaxPids, mcpd' \in {"none", "clean", "written"},
                 foreign' \in 0..MaxForeign, faults' \in 0..MaxFaults
          PROVE  HostOK'
      BY <1>0, <1>1 DEF HostOK
    <1>2. ASSUME writes' = writes, unflushed' \subseteq unflushed,
                 snap' \in [st: {"none", "saved"}, cache: SUBSET (1..writes)]
          PROVE  DiskOK' /\ unflushed' \subseteq unflushed \cup {writes + 1}
      BY <1>0, <1>2 DEF DiskOK
    <1>3. ASSUME NEW p \in Pids, Bind(p) PROVE G
      <2>1. U /\ UNCHANGED <<client, mcpd, foreign, faults, writes, snap, unflushed>>
        BY <1>3 DEF Bind, guestOnly, launched
      <2>2. ProcKind
        BY <1>3, <2>1 DEF Bind, ProcKind, ProcBinds
      <2> QED BY <1>0, <1>1, <1>2, <2>1, <2>2 DEF HostOK, DiskOK
    <1>4. ASSUME NEW p \in Pids, Boot(p) PROVE G
      <2>1. U /\ UNCHANGED <<client, mcpd, foreign, faults, writes, snap, unflushed>>
        BY <1>4 DEF Boot, guestOnly, launched
      <2>2. ProcKind
        BY <1>4, <2>1 DEF Boot, ProcKind, ProcBoots
      <2> QED BY <1>0, <1>1, <1>2, <2>1, <2>2 DEF HostOK, DiskOK
    <1>5. ASSUME NEW p \in Pids, Gone(p) PROVE G
      <2>1. U /\ UNCHANGED <<client, mcpd, foreign, faults, writes, snap, unflushed>>
        BY <1>5 DEF Gone, guestOnly, launched
      <2>2. Alive(p) /\ Killed(p, "dead")
        BY <1>5, <2>1 DEF Gone, Alive, Killed, Listening
      <2>3. ProcKind
        BY <2>2 DEF ProcKind, ProcDies
      <2> QED BY <1>0, <1>1, <1>2, <2>1, <2>3 DEF HostOK, DiskOK
    <1>6. ASSUME NEW p \in Pids, Crash(p) PROVE G
      <2>1. U /\ UNCHANGED <<client, mcpd, foreign, writes, snap>> /\ unflushed' = {}
        BY <1>6 DEF Crash, guestOnly, launched
      <2>2. Alive(p) /\ Killed(p, "dead")
        BY <1>6, <2>1 DEF Crash, Alive, Killed, Listening
      <2>3. ProcKind
        BY <2>2 DEF ProcKind, ProcDies
      <2>4. faults' \in 0..MaxFaults
        BY <1>0, <1>6, FaultCounts DEF Crash, HostOK
      <2> QED BY <1>0, <1>1, <1>2, <2>1, <2>3, <2>4 DEF HostOK, DiskOK
    <1>7. ASSUME WriteBack PROVE G
      <2>1. U /\ UNCHANGED <<client, mcpd, foreign, faults, writes, snap, proc>>
            /\ unflushed' = {}
        BY <1>7 DEF WriteBack, guestOnly, launched
      <2>2. ProcKind
        BY <2>1 DEF ProcKind, ProcStays
      <2> QED BY <1>0, <1>1, <1>2, <2>1, <2>2 DEF HostOK, DiskOK
    <1>8. ASSUME OtherStarts PROVE G
      <2>1. U /\ UNCHANGED <<client, mcpd, faults, writes, snap, unflushed>>
        BY <1>8 DEF OtherStarts, launched, host, disk
      <2>2. ProcKind
        BY <1>8, <2>1 DEF OtherStarts, ProcKind, ProcStarts
      <2>3. foreign' \in 0..MaxForeign
        BY <1>0, <1>8, BoundsNat DEF OtherStarts, HostOK
      <2> QED BY <1>0, <1>1, <1>2, <2>1, <2>2, <2>3 DEF HostOK, DiskOK
    <1>9. ASSUME UseQmp \/ system_reset \/ qemu_savevm \/ qemu_delete_snapshot PROVE G
      <2>1. U /\ UNCHANGED <<mcpd, foreign, faults, writes>>
        BY <1>9 DEF UseQmp, system_reset, qemu_savevm, qemu_delete_snapshot,
                    rawOnly, launched, disk
      <2>2. client' \in 0..MaxPids
        <3>1. \A p \in Pids : QmpAnswers(p) => client' \in 0..MaxPids
          BY BoundsNat DEF QmpAnswers, Pids
        <3>2. McpdUp \subseteq Pids
          BY DEF McpdUp
        <3> QED BY <1>9, <3>1, <3>2 DEF UseQmp, system_reset, qemu_savevm,
                                        qemu_delete_snapshot
      <2>3. ProcKind /\ unflushed' \subseteq unflushed
        <3>1. CASE system_reset
          <4>1. PICK p \in Pids : QmpAnswers(p) /\ Killed(p, "up")
            BY <3>1 DEF system_reset
          <4>2. p \in QmpUp /\ p \in Listening
            BY <4>1 DEF QmpAnswers, QmpUp
          <4> QED BY <4>1, <4>2 DEF ProcKind, ProcResets, Killed
        <3>2. CASE UseQmp \/ qemu_savevm \/ qemu_delete_snapshot
          BY <3>2 DEF UseQmp, qemu_savevm, qemu_delete_snapshot, disk,
                      ProcKind, ProcStays
        <3> QED BY <1>9, <3>1, <3>2
      <2>4. snap' \in [st: {"none", "saved"}, cache: SUBSET (1..writes)]
        <3>1. CASE snap' = snap
          BY <1>0, <3>1 DEF DiskOK
        <3>2. CASE qemu_savevm
          BY <1>0, <3>2 DEF qemu_savevm, DiskOK
        <3>3. CASE qemu_delete_snapshot
          BY <3>3 DEF qemu_delete_snapshot, NoSnap
        <3> QED BY <1>9, <3>1, <3>2, <3>3 DEF UseQmp, system_reset, disk
      <2> QED BY <1>0, <1>1, <1>2, <2>1, <2>2, <2>3, <2>4 DEF HostOK
    <1>10. ASSUME NEW byUs \in BOOLEAN, Write(byUs) PROVE G
      <2>1. U /\ UNCHANGED <<client, foreign, faults, snap, proc>>
            /\ writes' = writes + 1 /\ unflushed' = unflushed \cup {writes + 1}
            /\ McpdUp # {} /\ writes < MaxWrites
        BY <1>10 DEF Write, launched
      <2>2. mcpd' \in {"none", "clean", "written"}
        BY <1>0, <1>10 DEF Write, HostOK
      <2>3. ProcKind
        BY <2>1 DEF ProcKind, ProcStays
      <2>4. writes' \in 0..MaxWrites /\ 1..writes \subseteq 1..writes'
            /\ writes + 1 \in 1..writes'
        BY <1>a, <2>1, BoundsNat
      <2>5. DiskOK'
        <3>1. unflushed' \subseteq 1..writes'
          BY <1>0, <2>1, <2>4 DEF DiskOK
        <3>2. snap' \in [st: {"none", "saved"}, cache: SUBSET (1..writes')]
          BY <1>0, <2>1, <2>4 DEF DiskOK
        <3> QED BY <2>4, <3>1, <3>2 DEF DiskOK
      <2> QED BY <1>0, <1>1, <2>1, <2>2, <2>3, <2>5 DEF HostOK
    <1> HIDE DEF G
    <1>11. G
      BY <1>3, <1>4, <1>5, <1>6, <1>7, <1>8, <1>9, <1>10, Zenon DEF Environment
    <1> QED BY <1>11 DEF G

-----------------------------------------------------------------------------
(* The inductive invariant, in the parts the steps are proved by.          *)

Existing ==
    /\ \A p \in ours : proc[p] # "none"
    /\ reg # 0 => proc[reg] # "none"

Owned ==
    ~excused =>
      /\ \A p \in ours : Alive(p) =>
           /\ ~closed
           /\ p = reg \/ \E c \in Calls : call[c].pc = "register" /\ call[c].pid = p
      /\ \A c \in Calls :
           /\ Stopping(c) => reg \in {0, call[c].pid}
           /\ Launching(c) => reg = 0 \/ ~Alive(reg)
           /\ \A d \in Calls : Launching(c) /\ (Launching(d) \/ Stopping(d)) => c = d

Core == TypeOK /\ OneGuest /\ CallsOK /\ Existing /\ Owned

LEMMA CoreImplies == Core => QemuInv
    <1> SUFFICES ASSUME Core PROVE QemuInv
      OBVIOUS
    <1>1. TypeOK /\ OneGuest /\ CallsOK /\ Existing /\ Owned
      BY DEF Core
    <1>2. StopKeepsWrites /\ ResetReplaces /\ FlushInv /\ ResetInv
      BY <1>1, CallsOKParts DEF StopKeepsWrites
    <1>3. GuestInv
      BY <1>1 DEF GuestInv, OneGuest, Existing
    <1>4. HandleInv
      BY <1>1 DEF HandleInv, Owned, CallsOK, PidOK, Stopping
    <1>5. NoOrphans
      BY <1>1 DEF NoOrphans, Owned
    <1> QED BY <1>2, <1>3, <1>4, <1>5 DEF QemuInv

(* Steps that leave the handles alone keep them.                           *)
LEMMA HandlesStay ==
    ASSUME Core, ProcFacts, ours' = ours, reg' = reg, excused' = excused, closed' = closed,
           \A c \in Calls : call'[c].pc = call[c].pc /\ call'[c].pid = call[c].pid
    PROVE  Existing' /\ Owned'
    <1>1. Existing /\ Owned /\ ours \subseteq Pids /\ (reg # 0 => reg \in Pids)
      BY BoundsNat DEF Core, TypeOK, Pids
    <1>2. \A p \in ours : proc'[p] # "none" /\ (Alive(p)' => Alive(p))
      BY <1>1 DEF Existing, ProcFacts, Alive
    <1>3. reg # 0 => proc'[reg] # "none" /\ (Alive(reg)' => Alive(reg))
      BY <1>1 DEF Existing, ProcFacts, Alive
    <1>4. Existing'
      BY <1>2, <1>3 DEF Existing
    <1>5. Owned'
      BY <1>1, <1>2, <1>3 DEF Owned, Launching, Stopping
    <1> QED BY <1>4, <1>5

LEMMA EnvironmentStep ==
    ASSUME Core, Environment
    PROVE  Core'
    <1>1. /\ TypeOK /\ OneGuest /\ CallsOK
          /\ HostOK /\ DiskOK /\ proc \in [Pids -> States]
          /\ call \in [Calls -> CallRecords(Stages)] /\ result \in CallRecords(Ends)
      BY TypeParts DEF Core
    <1>2. /\ UNCHANGED <<call, result, ours, excused, reg, calls, closed, hasQmp>>
          /\ ProcKind /\ HostOK' /\ DiskOK'
          /\ writes' = writes \/ writes' = writes + 1
          /\ unflushed' \subseteq unflushed \cup {writes + 1}
      BY <1>1, EnvironmentEffects
    <1>3. proc' \in [Pids -> States] /\ ProcFacts /\ OneGuest'
      BY <1>1, <1>2, ProcEffects, OneGuestStays
    <1>4. writes \in Nat
      BY <1>1, BoundsNat DEF DiskOK
    <1>5. TypeOK'
      <2>1. CallRecords(Stages) \subseteq CallRecords(Stages)'
            /\ CallRecords(Ends) \subseteq CallRecords(Ends)'
        BY <1>2, <1>4, RecordsGrow
      <2>2. /\ call' \in [Calls -> CallRecords(Stages)']
            /\ result' \in CallRecords(Ends)'
        BY <1>1, <1>2, <2>1
      <2> QED BY <1>2, <1>3, <2>2, TypeJoins
    <1>6. CallsOK'
      <2>1. ASSUME NEW c \in Calls
            PROVE  FlushOK(call[c], unflushed') /\ ResetOK(call[c], proc', hasQmp)
                   /\ PidOK(call[c], proc')
        <3>1. call[c] \in CallRecords(Stages)
          BY <1>1
        <3>2. writes + 1 \notin call[c].before
          BY <1>4, <3>1 DEF CallRecords
        <3>3. call[c].before \cap unflushed' \subseteq unflushed
          BY <1>2, <3>2
        <3>4. FlushOK(call[c], unflushed) /\ ResetOK(call[c], proc, hasQmp)
              /\ PidOK(call[c], proc)
          BY <1>1 DEF CallsOK
        <3> QED BY <1>3, <3>1, <3>3, <3>4, RecordStays
      <2> QED BY <1>1, <1>2, <2>1 DEF CallsOK
    <1>7. Existing' /\ Owned'
      BY <1>2, <1>3, HandlesStay
    <1> QED BY <1>3, <1>5, <1>6, <1>7 DEF Core

-----------------------------------------------------------------------------
(* A step of call c gives it the record m and leaves the other calls; it   *)
(* writes nothing to the disk.                                             *)

Moves(c, m) ==
    /\ call' = [call EXCEPT ![c] = m] /\ m \in CallRecords(Stages)
    /\ writes' = writes /\ snap' = snap /\ hasQmp' = hasQmp
    /\ unflushed' \subseteq unflushed /\ ProcKind /\ HostOK'
    /\ FlushOK(m, unflushed') /\ ResetOK(m, proc', hasQmp) /\ PidOK(m, proc')
    /\ result' \in CallRecords(Ends) /\ ResultOK(result')

LEMMA MoveKeeps ==
    ASSUME Core, NEW c \in Calls, NEW m, Moves(c, m)
    PROVE  TypeOK' /\ OneGuest' /\ CallsOK' /\ ProcFacts
    <1>1. /\ TypeOK /\ OneGuest /\ CallsOK
          /\ HostOK /\ DiskOK /\ proc \in [Pids -> States]
          /\ call \in [Calls -> CallRecords(Stages)] /\ result \in CallRecords(Ends)
      BY TypeParts DEF Core
    <1>2. proc' \in [Pids -> States] /\ ProcFacts /\ OneGuest'
      BY <1>1, ProcEffects, OneGuestStays DEF Moves
    <1>3. TypeOK'
      <2>1. CallRecords(Stages)' = CallRecords(Stages) /\ CallRecords(Ends)' = CallRecords(Ends)
        BY DEF Moves, CallRecords
      <2>2. call' \in [Calls -> CallRecords(Stages)'] /\ result' \in CallRecords(Ends)'
        BY <1>1, <2>1 DEF Moves
      <2>3. DiskOK'
        BY <1>1 DEF DiskOK, Moves
      <2> QED BY <1>2, <2>2, <2>3, TypeJoins DEF Moves
    <1>4. ASSUME NEW d \in Calls
          PROVE  FlushOK(call'[d], unflushed') /\ ResetOK(call'[d], proc', hasQmp)
                 /\ PidOK(call'[d], proc')
      <2>1. CASE d = c
        <3>1. call'[d] = m
          BY <1>1, <2>1 DEF Moves
        <3> QED BY <3>1 DEF Moves
      <2>2. CASE d # c
        <3>1. call'[d] = call[d] /\ call[d] \in CallRecords(Stages)
          BY <1>1, <2>2 DEF Moves
        <3>2. FlushOK(call[d], unflushed) /\ ResetOK(call[d], proc, hasQmp)
              /\ PidOK(call[d], proc)
          BY <1>1 DEF CallsOK
        <3>3. call[d].before \cap unflushed' \subseteq unflushed
          BY DEF Moves
        <3>4. FlushOK(call[d], unflushed') /\ ResetOK(call[d], proc', hasQmp)
              /\ PidOK(call[d], proc')
          BY <1>2, <3>1, <3>2, <3>3, RecordStays
        <3> QED BY <3>1, <3>4
      <2> QED BY <2>1, <2>2
    <1>5. CallsOK'
      BY <1>4 DEF CallsOK, Moves
    <1> QED BY <1>2, <1>3, <1>5

LEMMA MoveCore ==
    ASSUME Core, NEW c \in Calls, NEW m, Moves(c, m), Existing', Owned'
    PROVE  Core'
    BY MoveKeeps DEF Core

Live == {"new", "up", "booted", "closing"}

(* The handles after such a step that launches nothing: the registered one *)
(* is dropped only when its process is gone.                               *)
LEMMA HandlesMove ==
    ASSUME Core, NEW c \in Calls, NEW m, call' = [call EXCEPT ![c] = m],
           ~excused, ProcFacts, ours' = ours, closed' = closed, call[c].pc # "register",
           reg' = reg \/ (reg' = 0 /\ (reg # 0 => proc'[reg] \notin Live)),
           m.pc # "register",
           m.pc = "popen" => /\ reg' = 0 \/ proc'[reg'] \notin Live
                             /\ \A d \in Calls \ {c} : ~Launching(d) /\ ~Stopping(d),
           m.pc \in {"quit", "poll"} => /\ reg' \in {0, m.pid}
                                       /\ \A d \in Calls \ {c} : ~Launching(d)
    PROVE  Owned'
    <1>1. /\ call \in [Calls -> CallRecords(Stages)] /\ ours \subseteq Pids
          /\ Existing /\ (reg # 0 => reg \in Pids)
      BY BoundsNat DEF Core, TypeOK, Pids
    <1>2. /\ \A p \in ours : Alive(p) =>
               /\ ~closed
               /\ p = reg \/ \E d \in Calls : call[d].pc = "register" /\ call[d].pid = p
          /\ \A d \in Calls :
               /\ Stopping(d) => reg \in {0, call[d].pid}
               /\ Launching(d) => reg = 0 \/ ~Alive(reg)
               /\ \A e \in Calls : Launching(d) /\ (Launching(e) \/ Stopping(e)) => d = e
      BY DEF Core, Owned
    <1>3. call'[c] = m /\ \A d \in Calls \ {c} : call'[d] = call[d]
      BY <1>1
    <1>4. \A p \in Pids : proc[p] # "none" /\ Alive(p)' => Alive(p)
      BY DEF ProcFacts, Alive
    <1>5. ASSUME NEW p \in ours, Alive(p)'
          PROVE  /\ ~closed'
                 /\ p = reg' \/ \E d \in Calls : call'[d].pc = "register" /\ call'[d].pid = p
      <2>1. Alive(p) /\ p \in Pids /\ p # 0
        BY <1>1, <1>4, <1>5, BoundsNat DEF Existing, Pids
      <2>2. CASE p = reg
        BY <1>2, <1>5, <2>1, <2>2 DEF Alive, Live
      <2>3. CASE p # reg
        <3>1. PICK d \in Calls : call[d].pc = "register" /\ call[d].pid = p
          BY <1>2, <2>1, <2>3
        <3>2. call'[d] = call[d]
          BY <1>3, <3>1
        <3> QED BY <1>2, <2>1, <3>1, <3>2
      <2> QED BY <2>2, <2>3
    <1>6. reg' = 0 \/ reg' = reg
      OBVIOUS
    <1>7. ASSUME NEW d \in Calls
          PROVE  /\ Stopping(d)' => reg' \in {0, call'[d].pid}
                 /\ Launching(d)' => reg' = 0 \/ proc'[reg'] \notin Live
      <2>1. CASE d = c
        BY <1>3, <2>1 DEF Stopping, Launching, Alive, Live
      <2>2. CASE d # c
        <3>1. (Stopping(d)' <=> Stopping(d)) /\ (Launching(d)' <=> Launching(d))
              /\ call'[d].pid = call[d].pid
          BY <1>3, <2>2 DEF Stopping, Launching
        <3>2. Launching(d) => reg' = 0 \/ proc'[reg'] \notin Live
          <4>1. CASE reg' = 0
            BY <4>1
          <4>2. CASE reg' # 0
            BY <1>1, <1>2, <1>4, <1>6, <4>2 DEF Existing, Alive, Live
          <4> QED BY <4>1, <4>2
        <3> QED BY <1>2, <1>6, <3>1, <3>2
      <2> QED BY <2>1, <2>2
    <1>8. ASSUME NEW d \in Calls, NEW e \in Calls, Launching(d)', Launching(e)' \/ Stopping(e)'
          PROVE  d = e
      <2>1. \A x \in Calls \ {c} : /\ Launching(x)' <=> Launching(x)
                                   /\ Stopping(x)' <=> Stopping(x)
        BY <1>3 DEF Stopping, Launching
      <2>2. Launching(c)' => m.pc = "popen"
        BY <1>3 DEF Launching
      <2>3. Stopping(c)' => m.pc \in {"quit", "poll"}
        BY <1>3 DEF Stopping
      <2> QED BY <1>2, <1>8, <2>1, <2>2, <2>3
    <1> QED BY <1>5, <1>7, <1>8 DEF Owned, Alive, Live

(* The records a step makes of a call's record.                            *)
Upd(m, pc, pid, l, s) ==
    [op |-> m.op, pc |-> pc, pid |-> pid, before |-> m.before, lost |-> l,
     settled |-> s, old |-> m.old]

LEMMA UpdFacts ==
    ASSUME NEW m \in CallRecords(Stages), NEW pc \in Stages, NEW pid \in 0..MaxPids,
           NEW l \in SUBSET (1..writes),
           NEW s \in Settlings
    PROVE  /\ Upd(m, pc, pid, l, s) \in CallRecords(Stages)
           /\ Upd(m, pc, pid, l, s).op = m.op /\ Upd(m, pc, pid, l, s).pc = pc
           /\ Upd(m, pc, pid, l, s).pid = pid /\ Upd(m, pc, pid, l, s).before = m.before
           /\ Upd(m, pc, pid, l, s).lost = l /\ Upd(m, pc, pid, l, s).settled = s
           /\ Upd(m, pc, pid, l, s).old = m.old
    BY DEF CallRecords, Upd

(* The forms in which the actions write a new record.                      *)
LEMMA EditPc ==
    ASSUME call \in [Calls -> CallRecords(Stages)], NEW c \in Calls, NEW pc \in Stages,
           call' = [call EXCEPT ![c].pc = pc]
    PROVE  call' = [call EXCEPT ![c] = Upd(call[c], pc, call[c].pid, call[c].lost, call[c].settled)]
    <1>1. call[c] \in CallRecords(Stages)
      OBVIOUS
    <1>2. call' = [call EXCEPT ![c] = [call[c] EXCEPT !.pc = pc]]
      OBVIOUS
    <1>3. ASSUME NEW x, x = [call[c] EXCEPT !.pc = pc]
          PROVE  x = Upd(call[c], pc, call[c].pid, call[c].lost, call[c].settled)
      BY <1>1, <1>3 DEF CallRecords, Upd
    <1> QED BY <1>2, <1>3, Zenon

LEMMA EditPcPid ==
    ASSUME call \in [Calls -> CallRecords(Stages)], NEW c \in Calls, NEW pc \in Stages,
           NEW pid \in 0..MaxPids,
           call' = [call EXCEPT ![c].pc = pc, ![c].pid = pid]
    PROVE  call' = [call EXCEPT ![c] = Upd(call[c], pc, pid, call[c].lost, call[c].settled)]
    <1>1. call[c] \in CallRecords(Stages)
      OBVIOUS
    <1>2. call' = [call EXCEPT ![c] = [call[c] EXCEPT !.pc = pc, !.pid = pid]]
      OBVIOUS
    <1>3. ASSUME NEW x, x = [call[c] EXCEPT !.pc = pc, !.pid = pid]
          PROVE  x = Upd(call[c], pc, pid, call[c].lost, call[c].settled)
      BY <1>1, <1>3 DEF CallRecords, Upd
    <1> QED BY <1>2, <1>3, Zenon

LEMMA EditPidPc ==
    ASSUME call \in [Calls -> CallRecords(Stages)], NEW c \in Calls, NEW pc \in Stages,
           NEW pid \in 0..MaxPids,
           call' = [call EXCEPT ![c].pid = pid, ![c].pc = pc]
    PROVE  call' = [call EXCEPT ![c] = Upd(call[c], pc, pid, call[c].lost, call[c].settled)]
    <1>1. call[c] \in CallRecords(Stages)
      OBVIOUS
    <1>2. call' = [call EXCEPT ![c] = [call[c] EXCEPT !.pid = pid, !.pc = pc]]
      OBVIOUS
    <1>3. ASSUME NEW x, x = [call[c] EXCEPT !.pid = pid, !.pc = pc]
          PROVE  x = Upd(call[c], pc, pid, call[c].lost, call[c].settled)
      BY <1>1, <1>3 DEF CallRecords, Upd
    <1> QED BY <1>2, <1>3, Zenon

LEMMA EditLost ==
    ASSUME call \in [Calls -> CallRecords(Stages)], NEW c \in Calls, NEW pc \in Stages,
           NEW l \in SUBSET (1..writes),
           call' = [call EXCEPT ![c].pc = pc, ![c].lost = l]
    PROVE  call' = [call EXCEPT ![c] = Upd(call[c], pc, call[c].pid, l, call[c].settled)]
    <1>1. call[c] \in CallRecords(Stages)
      OBVIOUS
    <1>2. call' = [call EXCEPT ![c] = [call[c] EXCEPT !.pc = pc, !.lost = l]]
      OBVIOUS
    <1>3. ASSUME NEW x, x = [call[c] EXCEPT !.pc = pc, !.lost = l]
          PROVE  x = Upd(call[c], pc, call[c].pid, l, call[c].settled)
      BY <1>1, <1>3 DEF CallRecords, Upd
    <1> QED BY <1>2, <1>3, Zenon

LEMMA EditSettled ==
    ASSUME call \in [Calls -> CallRecords(Stages)], NEW c \in Calls,
           NEW s \in Settlings, Settled(c, s)
    PROVE  call' = [call EXCEPT ![c] = Upd(call[c], "decide", call[c].pid, call[c].lost, s)]
    <1>1. call[c] \in CallRecords(Stages)
      OBVIOUS
    <1>2. call' = [call EXCEPT ![c] = [call[c] EXCEPT !.pc = "decide", !.settled = s]]
      BY DEF Settled
    <1>3. ASSUME NEW x, x = [call[c] EXCEPT !.pc = "decide", !.settled = s]
          PROVE  x = Upd(call[c], "decide", call[c].pid, call[c].lost, s)
      BY <1>1, <1>3 DEF CallRecords, Upd
    <1> QED BY <1>2, <1>3, Zenon

-----------------------------------------------------------------------------
(* The steps of a call.                                                    *)

LEMMA CallNow ==
    ASSUME Core, NEW c \in Calls
    PROVE  /\ HostOK /\ DiskOK /\ proc \in [Pids -> States]
           /\ call \in [Calls -> CallRecords(Stages)] /\ result \in CallRecords(Ends)
           /\ call[c] \in CallRecords(Stages) /\ call[c].pid \in 0..MaxPids
           /\ call[c].lost \in SUBSET (1..writes) /\ call[c].old \subseteq Pids
           /\ call[c].settled \in Settlings
           /\ FlushOK(call[c], unflushed) /\ ResetOK(call[c], proc, hasQmp)
           /\ PidOK(call[c], proc) /\ ResultOK(result) /\ OneGuest
    <1>1. /\ HostOK /\ DiskOK /\ proc \in [Pids -> States]
          /\ call \in [Calls -> CallRecords(Stages)] /\ result \in CallRecords(Ends)
          /\ CallsOK /\ OneGuest
      BY TypeParts DEF Core
    <1>2. call[c] \in CallRecords(Stages)
      BY <1>1
    <1> QED BY <1>1, <1>2 DEF CallRecords, CallsOK

LEMMA ExistingKept ==
    ASSUME Core, ProcFacts, ours' = ours, reg' = reg \/ reg' = 0
    PROVE  Existing'
    <1>1. Existing /\ ours \subseteq Pids /\ (reg # 0 => reg \in Pids)
      BY BoundsNat DEF Core, TypeOK, Pids
    <1> QED BY <1>1 DEF Existing, ProcFacts

LEMMA ReturnMoves ==
    ASSUME Core, NEW c \in Calls, NEW st \in {"ok", "raised"}, NEW l \in SUBSET (1..writes),
           Return(c, st, l), UNCHANGED <<writes, snap, hasQmp>>,
           unflushed' \subseteq unflushed, ProcKind, HostOK',
           call[c].settled \notin Unflushed => call[c].before \cap l = {},
           call[c].op = "reset" /\ st = "ok"
             => call[c].old \cap (IF hasQmp THEN Listening ELSE McpdUp) = {}
    PROVE  Moves(c, NoCall) /\ NoCall.pc = "idle"
    <1>1. call \in [Calls -> CallRecords(Stages)]
      BY CallNow
    <1>2. /\ call' = [call EXCEPT ![c] = NoCall]
          /\ result' \in CallRecords(Ends)
          /\ result'.op = call[c].op /\ result'.pc = st
          /\ result'.before = call[c].before /\ result'.lost = l
          /\ result'.settled = call[c].settled
          /\ result'.old = call[c].old \cap (IF hasQmp THEN Listening ELSE McpdUp)
      BY <1>1, ReturnFacts
    <1>3. ResultOK(result')
      BY <1>2 DEF ResultOK
    <1>4. NoCall \in CallRecords(Stages)
      BY NoCallRecord DEF Stages
    <1>5. FlushOK(NoCall, unflushed') /\ ResetOK(NoCall, proc', hasQmp)
          /\ PidOK(NoCall, proc') /\ NoCall.pc = "idle"
      BY NoCallOK
    <1> QED BY <1>2, <1>3, <1>4, <1>5 DEF Moves

LEMMA StoppedMoves ==
    ASSUME Core, NEW c \in Calls, NEW l \in SUBSET (1..writes),
           Stopped(c, l), UNCHANGED <<writes, snap, hasQmp>>,
           unflushed' \subseteq unflushed, ProcKind, HostOK',
           call[c].settled \notin Unflushed => call[c].before \cap l = {}
    PROVE  \E m : Moves(c, m) /\ m.pc \in {"idle", "check"}
    <1>0. /\ call \in [Calls -> CallRecords(Stages)] /\ result \in CallRecords(Ends)
          /\ call[c] \in CallRecords(Stages) /\ call[c].pid \in 0..MaxPids
          /\ call[c].settled \in Settlings
          /\ ResetOK(call[c], proc, hasQmp) /\ ResultOK(result) /\ call[c].old \subseteq Pids
          /\ proc \in [Pids -> States]
      BY CallNow
    <1>1. CASE call[c].op = "reset"
      <2> DEFINE m == Upd(call[c], "check", call[c].pid, l, call[c].settled)
      <2>0. "check" \in Stages
        BY DEF Stages
      <2>1. call' = [call EXCEPT ![c].pc = "check", ![c].lost = l] /\ result' = result
        BY <1>1 DEF Stopped
      <2>2. call' = [call EXCEPT ![c] = m]
        BY <1>0, <2>0, <2>1, EditLost
      <2>3. /\ m \in CallRecords(Stages) /\ m.pc = "check" /\ m.before = call[c].before
            /\ m.lost = l /\ m.settled = call[c].settled /\ m.old = call[c].old
        BY <1>0, <2>0, UpdFacts
      <2> HIDE DEF m
      <2>4. FlushOK(m, unflushed') /\ PidOK(m, proc')
        BY <2>3 DEF FlushOK, PidOK
      <2>5. ProcFacts
        BY <1>0, ProcEffects
      <2>6. ResetOK(m, proc', hasQmp)
        BY <1>0, <2>3, <2>5 DEF ResetOK, ProcFacts
      <2>7. Moves(c, m)
        BY <1>0, <2>1, <2>2, <2>3, <2>4, <2>6 DEF Moves
      <2> QED BY <2>3, <2>7
    <1>2. CASE call[c].op # "reset"
      <2>1. Return(c, "ok", l)
        BY <1>2 DEF Stopped
      <2>2. Moves(c, NoCall) /\ NoCall.pc = "idle"
        BY <1>2, <2>1, ReturnMoves
      <2> QED BY <2>2
    <1> QED BY <1>1, <1>2

LEMMA BeginStep ==
    ASSUME Core, NEW c \in Calls, NEW op \in {"start", "stop", "reset"}, Begin(c, op)
    PROVE  Core'
    <1>0. /\ HostOK /\ DiskOK /\ proc \in [Pids -> States]
          /\ call \in [Calls -> CallRecords(Stages)] /\ OneGuest
      BY CallNow
    <1> DEFINE o == IF op = "reset" THEN QmpUp \cup McpdUp ELSE {}
               q == IF op = "start" THEN "check" ELSE "settle"
               w == IF op = "start" THEN {} ELSE 1..writes
               m == [NoCall EXCEPT !.op = op, !.pc = q, !.before = w, !.old = o]
    <1>1. /\ call[c].pc = "idle" /\ calls < MaxCalls /\ calls' = calls + 1
          /\ call' = [call EXCEPT ![c] = m] /\ result' = NoCall
          /\ UNCHANGED <<proc, ours, excused, reg, client, mcpd, unflushed, writes, snap, foreign,
                         faults, closed, hasQmp>>
      BY DEF Begin, host, disk, launched
    <1>2. w \in SUBSET (1..writes)
          /\ o \subseteq Pids /\ \A p \in o : proc[p] \in {"up", "booted"} /\ (proc[p] = "up" => hasQmp)
      BY DEF QmpUp, McpdUp, Listening
    <1>3. q \in {"check", "settle"}
      OBVIOUS
    <1> HIDE DEF o, q, w
    <1>4. ASSUME NEW x, x = m
          PROVE  x = [op |-> op, pc |-> q, pid |-> 0, before |-> w, lost |-> {},
                      settled |-> "none", old |-> o]
      BY <1>4 DEF NoCall
    <1>a. m = [op |-> op, pc |-> q, pid |-> 0, before |-> w, lost |-> {},
               settled |-> "none", old |-> o]
      BY <1>4, Zenon
    <1> HIDE DEF m
    <1>5. m \in CallRecords(Stages) /\ m.pc = q /\ m.lost = {} /\ m.old = o
      BY <1>2, <1>3, <1>a, BoundsNat DEF CallRecords, Stages, Settlings
    <1>6. FlushOK(m, unflushed') /\ PidOK(m, proc')
      BY <1>3, <1>5 DEF FlushOK, PidOK
    <1>7. ResetOK(m, proc', hasQmp)
      BY <1>1, <1>2, <1>3, <1>5 DEF ResetOK
    <1>8. HostOK'
      <2>1. calls' \in 0..MaxCalls
        BY <1>0, <1>1, BoundsNat DEF HostOK
      <2> QED BY <1>0, <1>1, <2>1 DEF HostOK
    <1>9. ProcKind
      BY <1>1 DEF ProcKind, ProcStays
    <1>10. result' \in CallRecords(Ends) /\ ResultOK(result')
      BY <1>1, NoCallRecord, NoCallOK DEF Ends
    <1>11. Moves(c, m)
      BY <1>1, <1>5, <1>6, <1>7, <1>8, <1>9, <1>10 DEF Moves
    <1>12. ProcFacts
      BY <1>0, <1>9, ProcEffects
    <1>13. Existing'
      BY <1>1, <1>12, ExistingKept
    <1>14. Owned'
      <2>1. m.pc # "register" /\ m.pc \notin {"quit", "poll"} /\ m.pc # "popen"
        BY <1>3, <1>5
      <2>2. CASE excused
        BY <1>1, <2>2 DEF Owned
      <2>3. CASE ~excused
        BY <1>1, <1>12, <2>1, <2>3, HandlesMove
      <2> QED BY <2>2, <2>3
    <1> QED BY <1>11, <1>13, <1>14, MoveCore

LEMMA StartCheckStep ==
    ASSUME Core, NEW c \in Calls, StartCheck(c)
    PROVE  Core'
    <1>0. /\ HostOK /\ proc \in [Pids -> States]
          /\ call \in [Calls -> CallRecords(Stages)] /\ result \in CallRecords(Ends)
          /\ call[c] \in CallRecords(Stages) /\ call[c].pid \in 0..MaxPids
          /\ call[c].lost \in SUBSET (1..writes) /\ call[c].old \subseteq Pids
          /\ call[c].settled \in Settlings
          /\ FlushOK(call[c], unflushed) /\ ResetOK(call[c], proc, hasQmp)
          /\ ResultOK(result)
      BY CallNow
    <1>1. /\ call[c].pc = "check"
          /\ UNCHANGED <<proc, ours, reg, client, mcpd, unflushed, writes, snap,
                         calls, foreign, faults, closed, hasQmp>>
      BY DEF StartCheck, host, disk
    <1>a. StartRefused => excused' = excused
      BY Zenon DEF StartCheck
    <1>b. ~StartRefused =>
            excused' = (excused \/ \E d \in Calls \ {c} : Launching(d) \/ Stopping(d))
      BY Zenon DEF StartCheck
    <1>2. HostOK'
      <2>1. excused' \in BOOLEAN
        <3>1. excused \in BOOLEAN
          BY <1>0 DEF HostOK
        <3> QED BY <1>a, <1>b, <3>1, Zenon
      <2> QED BY <1>0, <1>1, <2>1 DEF HostOK
    <1>3. ProcKind
      BY <1>1 DEF ProcKind, ProcStays
    <1>4. ProcFacts /\ Existing'
      BY <1>0, <1>1, <1>3, ProcEffects, ExistingKept
    <1>5. call[c].settled \notin Unflushed => call[c].before \cap call[c].lost = {}
      BY <1>0 DEF FlushOK
    <1>6. CASE StartRefused
      <2>1. Return(c, "raised", call[c].lost)
        BY <1>6 DEF StartCheck
      <2>2. Moves(c, NoCall) /\ NoCall.pc = "idle"
        BY <1>0, <1>1, <1>2, <1>3, <1>5, <2>1, ReturnMoves
      <2>3. Owned'
        <3>1. CASE excused
          BY <1>6, <1>a, <3>1 DEF Owned
        <3>2. CASE ~excused
          BY <1>1, <1>4, <2>2, <3>2, HandlesMove DEF Moves
        <3> QED BY <3>1, <3>2
      <2> QED BY <1>4, <2>2, <2>3, MoveCore
    <1>7. CASE ~StartRefused
      <2> DEFINE m == Upd(call[c], "popen", call[c].pid, call[c].lost, call[c].settled)
      <2>0. "popen" \in Stages
        BY DEF Stages
      <2>1. call' = [call EXCEPT ![c].pc = "popen"] /\ result' = result
        BY <1>7 DEF StartCheck, Goto
      <2>2. call' = [call EXCEPT ![c] = m]
        BY <1>0, <2>0, <2>1, EditPc
      <2>3. /\ m \in CallRecords(Stages) /\ m.pc = "popen" /\ m.before = call[c].before
            /\ m.lost = call[c].lost /\ m.settled = call[c].settled /\ m.old = call[c].old
        BY <1>0, <2>0, UpdFacts
      <2> HIDE DEF m
      <2>4. FlushOK(m, unflushed') /\ PidOK(m, proc')
        BY <1>5, <2>3 DEF FlushOK, PidOK
      <2>5. ResetOK(m, proc', hasQmp)
        <3>1. (hasQmp => Listening = {}) /\ McpdUp = {}
          BY <1>7 DEF StartRefused, QmpUp
        <3>2. \A p \in call[c].old : proc[p] \in {"closing", "dead"}
          BY <1>0, <3>1 DEF ResetOK, Listening, McpdUp
        <3> QED BY <1>1, <2>3, <3>2 DEF ResetOK
      <2>6. Moves(c, m)
        BY <1>0, <1>1, <1>2, <1>3, <2>1, <2>2, <2>3, <2>4, <2>5 DEF Moves
      <2>7. CASE excused'
        BY <1>4, <2>6, <2>7, MoveCore DEF Owned
      <2>8. CASE ~excused'
        <3>1. ~excused /\ \A d \in Calls \ {c} : ~Launching(d) /\ ~Stopping(d)
          BY <1>7, <1>b, <2>8
        <3>2. reg' = 0 \/ proc'[reg'] \notin Live
          BY <1>1, <1>7 DEF StartRefused, Alive, Live
        <3>3. Owned'
          BY <1>1, <1>4, <2>2, <2>3, <3>1, <3>2, HandlesMove
        <3> QED BY <1>4, <2>6, <3>3, MoveCore
      <2> QED BY <2>7, <2>8
    <1> QED BY <1>6, <1>7

LEMMA RegisterStep ==
    ASSUME Core, NEW c \in Calls, register_qemu_process(c)
    PROVE  Core'
    <1>0. /\ HostOK /\ proc \in [Pids -> States]
          /\ call[c].pid \in 0..MaxPids /\ call[c].lost \in SUBSET (1..writes)
          /\ call[c].old \subseteq Pids
          /\ FlushOK(call[c], unflushed) /\ ResetOK(call[c], proc, hasQmp)
          /\ PidOK(call[c], proc)
      BY CallNow
    <1>1. /\ call[c].pc = "register" /\ reg' = call[c].pid
          /\ Return(c, "ok", call[c].lost)
          /\ UNCHANGED <<proc, ours, excused, client, mcpd, unflushed, writes, snap,
                         calls, foreign, faults, closed, hasQmp>>
      BY DEF register_qemu_process, launched, disk
    <1>2. HostOK'
      BY <1>0, <1>1 DEF HostOK
    <1>3. ProcKind
      BY <1>1 DEF ProcKind, ProcStays
    <1>4. call[c].settled \notin Unflushed => call[c].before \cap call[c].lost = {}
      BY <1>0 DEF FlushOK
    <1>5. call[c].old \cap (IF hasQmp THEN Listening ELSE McpdUp) = {}
      BY <1>0, <1>1 DEF ResetOK, Listening, McpdUp
    <1>6. Moves(c, NoCall) /\ NoCall.pc = "idle"
      BY <1>0, <1>1, <1>2, <1>3, <1>4, <1>5, ReturnMoves
    <1>7. Existing'
      BY <1>0, <1>1 DEF Core, Existing, PidOK
    <1>8. Owned'
      <2>1. CASE excused
        BY <1>1, <2>1 DEF Owned
      <2>2. CASE ~excused
        <3>1. /\ Launching(c) /\ ours \subseteq Pids
              /\ call \in [Calls -> CallRecords(Stages)]
          BY <1>0, <1>1, CallNow DEF Launching, HostOK
        <3>2. /\ \A p \in ours : Alive(p) =>
                   /\ ~closed
                   /\ p = reg \/ \E d \in Calls : call[d].pc = "register" /\ call[d].pid = p
              /\ reg = 0 \/ ~Alive(reg)
              /\ \A d \in Calls : Launching(d) \/ Stopping(d) => c = d
          BY <2>2, <3>1 DEF Core, Owned
        <3>3. call'[c] = NoCall /\ \A d \in Calls \ {c} : call'[d] = call[d]
          BY <1>6, <3>1 DEF Moves
        <3>4. \A d \in Calls : ~Launching(d)' /\ ~Stopping(d)'
          BY <1>6, <3>2, <3>3 DEF Launching, Stopping
        <3>5. ASSUME NEW p \in ours, Alive(p)'
              PROVE  ~closed' /\ p = reg'
          <4>1. Alive(p) /\ p # 0
            BY <1>1, <3>1, <3>5, BoundsNat DEF Alive, Pids
          <4>2. p # reg
            BY <3>2, <4>1
          <4>3. PICK d \in Calls : call[d].pc = "register" /\ call[d].pid = p
            BY <3>2, <4>1, <4>2
          <4>4. d = c
            BY <3>2, <4>3 DEF Launching
          <4> QED BY <1>1, <3>2, <4>1, <4>3, <4>4
        <3> QED BY <1>1, <3>4, <3>5 DEF Owned
      <2> QED BY <2>1, <2>2
    <1> QED BY <1>6, <1>7, <1>8, MoveCore

(* A step that only sends the call to its next stage.                      *)
LEMMA PlainMove ==
    ASSUME Core, NEW c \in Calls, call[c].pc \notin {"idle", "register"},
           NEW pc \in {"settle", "sync", "decide", "quit", "quitUnowned", "poll"},
           NEW pid \in 0..MaxPids, NEW l \in SUBSET (1..writes),
           NEW s \in Settlings,
           call' = [call EXCEPT ![c] = Upd(call[c], pc, pid, l, s)],
           UNCHANGED <<result, writes, snap, hasQmp, ours, reg, closed, excused>>,
           unflushed' \subseteq unflushed, ProcKind, HostOK',
           s \notin Unflushed => call[c].before \cap l = {},
           pc \in {"settle", "sync"} => l = {},
           pc \in {"decide", "quit", "quitUnowned", "poll"} /\ s \notin Unflushed
             => call[c].before \cap unflushed' = {},
           pc \in {"quit", "poll"} =>
             /\ pid # 0
             /\ ~excused => reg \in {0, pid} /\ \A d \in Calls \ {c} : ~Launching(d)
    PROVE  Core'
    <1>0. /\ proc \in [Pids -> States] /\ result \in CallRecords(Ends) /\ ResultOK(result)
          /\ call[c] \in CallRecords(Stages) /\ call[c].old \subseteq Pids
          /\ ResetOK(call[c], proc, hasQmp)
      BY CallNow
    <1> DEFINE m == Upd(call[c], pc, pid, l, s)
    <1>1. pc \in Stages
      BY DEF Stages
    <1>2. /\ m \in CallRecords(Stages) /\ m.pc = pc /\ m.pid = pid
          /\ m.before = call[c].before /\ m.lost = l /\ m.settled = s /\ m.old = call[c].old
      BY <1>0, <1>1, UpdFacts
    <1>3. call' = [call EXCEPT ![c] = m]
      OBVIOUS
    <1> HIDE DEF m
    <1>4. FlushOK(m, unflushed')
      BY <1>2 DEF FlushOK
    <1>5. PidOK(m, proc')
      BY <1>2 DEF PidOK
    <1>6. ProcFacts
      BY <1>0, ProcEffects
    <1>7. ResetOK(m, proc', hasQmp)
      BY <1>0, <1>2, <1>6 DEF ResetOK, ProcFacts
    <1>8. Moves(c, m)
      BY <1>0, <1>2, <1>3, <1>4, <1>5, <1>7 DEF Moves
    <1>9. Existing'
      BY <1>6, ExistingKept
    <1>10. Owned'
      <2>1. CASE excused
        BY <2>1 DEF Owned
      <2>2. CASE ~excused
        <3>1. m.pc # "register" /\ m.pc # "popen"
          BY <1>2
        <3>2. m.pc \in {"quit", "poll"} =>
                reg' \in {0, m.pid} /\ \A d \in Calls \ {c} : ~Launching(d)
          BY <1>2, <2>2
        <3> QED BY <1>3, <1>6, <2>2, <3>1, <3>2, HandlesMove
      <2> QED BY <2>1, <2>2
    <1> QED BY <1>8, <1>9, <1>10, MoveCore

LEMMA PopenStep ==
    ASSUME Core, ~closed, NEW c \in Calls, Popen(c)
    PROVE  Core'
    <1>0. /\ HostOK /\ proc \in [Pids -> States]
          /\ call \in [Calls -> CallRecords(Stages)] /\ result \in CallRecords(Ends)
          /\ call[c] \in CallRecords(Stages) /\ call[c].pid \in 0..MaxPids
          /\ call[c].lost \in SUBSET (1..writes) /\ call[c].old \subseteq Pids
          /\ call[c].settled \in Settlings
          /\ FlushOK(call[c], unflushed) /\ ResetOK(call[c], proc, hasQmp)
          /\ ResultOK(result) /\ Existing
      BY CallNow DEF Core
    <1>1. /\ call[c].pc = "popen"
          /\ UNCHANGED <<excused, reg, client, mcpd, unflushed, writes, snap,
                         calls, foreign, closed, hasQmp>>
      BY DEF Popen, host, disk
    <1>2. call[c].settled \notin Unflushed => call[c].before \cap call[c].lost = {}
      BY <1>0 DEF FlushOK
    <1>3. CASE Fault /\ Return(c, "raised", call[c].lost) /\ UNCHANGED <<proc, ours>>
      <2>1. HostOK'
        <3>1. faults' \in 0..MaxFaults
          BY <1>0, <1>3, FaultCounts DEF HostOK
        <3> QED BY <1>0, <1>1, <1>3, <3>1 DEF HostOK
      <2>2. ProcKind
        BY <1>1, <1>3 DEF ProcKind, ProcStays
      <2>3. ProcFacts /\ Existing'
        BY <1>0, <1>1, <1>3, <2>2, ProcEffects, ExistingKept
      <2>4. Moves(c, NoCall) /\ NoCall.pc = "idle"
        BY <1>0, <1>1, <1>2, <1>3, <2>1, <2>2, ReturnMoves
      <2>5. Owned'
        <3>1. CASE excused
          BY <1>1, <3>1 DEF Owned
        <3>2. CASE ~excused
          BY <1>1, <1>3, <2>3, <2>4, <3>2, HandlesMove DEF Moves
        <3> QED BY <3>1, <3>2
      <2> QED BY <2>3, <2>4, <2>5, MoveCore
    <1>4. ASSUME NEW p \in Pids, proc[p] = "none",
                 proc' = [proc EXCEPT ![p] = "new"], ours' = ours \cup {p},
                 call' = [call EXCEPT ![c].pc = "register", ![c].pid = p],
                 UNCHANGED <<faults, result>>
          PROVE  Core'
      <2> DEFINE m == Upd(call[c], "register", p, call[c].lost, call[c].settled)
      <2>0. "register" \in Stages /\ p \in 0..MaxPids /\ p # 0
        BY BoundsNat DEF Stages, Pids
      <2>1. call' = [call EXCEPT ![c] = m]
        BY <1>0, <1>4, <2>0, EditPcPid
      <2>2. /\ m \in CallRecords(Stages) /\ m.pc = "register" /\ m.before = call[c].before
            /\ m.lost = call[c].lost /\ m.settled = call[c].settled /\ m.old = call[c].old
            /\ m.pid = p
        BY <1>0, <2>0, UpdFacts
      <2> HIDE DEF m
      <2>3. HostOK'
        BY <1>0, <1>1, <1>4 DEF HostOK
      <2>4. ProcKind
        BY <1>1, <1>4 DEF ProcKind, ProcStarts
      <2>5. ProcFacts
        BY <1>0, <2>4, ProcEffects
      <2>6. proc'[p] = "new" /\ \A x \in Pids : x # p => proc'[x] = proc[x]
        BY <1>0, <1>4
      <2>7. FlushOK(m, unflushed') /\ PidOK(m, proc')
        BY <1>2, <2>0, <2>2, <2>6 DEF FlushOK, PidOK
      <2>8. ResetOK(m, proc', hasQmp)
        BY <1>0, <1>1, <2>2, <2>5 DEF ResetOK, ProcFacts
      <2>9. Moves(c, m)
        BY <1>0, <1>1, <1>4, <2>1, <2>2, <2>3, <2>4, <2>7, <2>8 DEF Moves
      <2>10. reg # 0 => reg \in Pids /\ reg # p
        BY <1>0, <1>4, BoundsNat DEF HostOK, Pids, Existing
      <2>11. Existing'
        BY <1>0, <1>1, <1>4, <2>5, <2>6, <2>10 DEF Existing, ProcFacts, HostOK
      <2>12. Owned'
        <3>1. CASE excused
          BY <1>1, <3>1 DEF Owned
        <3>2. CASE ~excused
          <4>1. Launching(c) /\ ours \subseteq Pids
            BY <1>0, <1>1 DEF Launching, HostOK
          <4>2. /\ \A x \in ours : Alive(x) =>
                     /\ ~closed
                     /\ x = reg \/ \E d \in Calls : call[d].pc = "register" /\ call[d].pid = x
                /\ reg = 0 \/ ~Alive(reg)
                /\ \A d \in Calls : Launching(d) \/ Stopping(d) => c = d
            BY <3>2, <4>1 DEF Core, Owned
          <4>3. call'[c] = m /\ \A d \in Calls \ {c} : call'[d] = call[d]
            BY <1>0, <2>1
          <4>4. \A d \in Calls : (Launching(d)' \/ Stopping(d)') => d = c
            BY <4>2, <4>3 DEF Launching, Stopping
          <4>5. ~Stopping(c)'
            BY <2>2, <4>3 DEF Stopping
          <4>6. reg' = 0 \/ proc'[reg'] \notin Live
            BY <1>1, <2>6, <2>10, <4>2 DEF Alive, Live
          <4>7. ASSUME NEW x \in ours', Alive(x)' PROVE x = p
            <5> SUFFICES ASSUME x # p PROVE FALSE
              OBVIOUS
            <5>1. x \in ours /\ x \in Pids
              BY <1>4, <4>1
            <5>2. Alive(x)
              BY <2>6, <4>7, <5>1 DEF Alive
            <5>a. x # reg
              BY <4>2, <5>1, <5>2, BoundsNat DEF Pids
            <5>3. PICK d \in Calls : call[d].pc = "register" /\ call[d].pid = x
              BY <4>2, <5>1, <5>2, <5>a
            <5>4. d = c
              BY <4>2, <5>3 DEF Launching
            <5> QED BY <1>1, <5>3, <5>4
          <4>8. \A x \in ours' : Alive(x)' =>
                  /\ ~closed'
                  /\ x = reg' \/ \E d \in Calls : call'[d].pc = "register" /\ call'[d].pid = x
            BY <1>1, <2>2, <4>3, <4>7
          <4> QED BY <4>4, <4>5, <4>6, <4>8 DEF Owned, Alive, Live
        <3> QED BY <3>1, <3>2
      <2> QED BY <2>9, <2>11, <2>12, MoveCore
    <1> QED BY <1>3, <1>4 DEF Popen

LEMMA SettleStep ==
    ASSUME Core, NEW c \in Calls, Settle(c)
    PROVE  Core'
    <1>0. /\ HostOK /\ OneGuest
          /\ call \in [Calls -> CallRecords(Stages)]
          /\ call[c].pid \in 0..MaxPids /\ call[c].lost \in SUBSET (1..writes)
          /\ call[c].settled \in Settlings
          /\ FlushOK(call[c], unflushed)
      BY CallNow
    <1>1. /\ call[c].pc = "settle"
          /\ UNCHANGED <<proc, ours, excused, reg, client, unflushed, writes, snap, calls,
                         foreign, result, closed, hasQmp>>
      BY DEF Settle, launched, disk
    <1>2. HostOK'
      <2>1. (Fault \/ faults' = faults) /\ mcpd' \in {"none", "clean", "written"}
        BY <1>0 DEF Settle, HostOK
      <2>2. faults' \in 0..MaxFaults
        BY <1>0, <2>1, FaultCounts DEF HostOK
      <2> QED BY <1>0, <1>1, <2>1, <2>2 DEF HostOK
    <1>3. ProcKind
      BY <1>1 DEF ProcKind, ProcStays
    <1>4. call[c].lost = {}
      BY <1>0, <1>1 DEF FlushOK
    <1>5. "decide" \in Stages /\ "sync" \in Stages
          /\ "silent" \in Settlings /\ "unreachable" \in Settlings
      BY DEF Stages, Settlings
    <1>6. ASSUME NEW x \in {"silent", "unreachable"}, Settled(c, x),
                 x = "silent" => McpdUp = {}
          PROVE  Core'
      <2>1. call' = [call EXCEPT ![c].pc = "decide", ![c].settled = x] /\ x \in Settlings
        BY <1>5, <1>6 DEF Settled
      <2>2. call' = [call EXCEPT ![c] = Upd(call[c], "decide", call[c].pid, call[c].lost, x)]
        BY <1>0, <1>6, <2>1, EditSettled
      <2>3. x \notin Unflushed => unflushed' = {}
        BY <1>0, <1>1, <1>6 DEF OneGuest, Unflushed
      <2>4. /\ call[c].before \cap call[c].lost = {} /\ unflushed' \subseteq unflushed
            /\ x \notin Unflushed => call[c].before \cap unflushed' = {}
        BY <1>1, <1>4, <2>3
      <2>5. /\ call[c].pc \notin {"idle", "register"} /\ call[c].pid \in 0..MaxPids
            /\ call[c].lost \in SUBSET (1..writes) /\ x \in Settlings
            /\ UNCHANGED <<result, writes, snap, hasQmp, ours, reg, closed, excused>>
            /\ x \notin Unflushed => call[c].before \cap call[c].lost = {}
        BY <1>0, <1>1, <2>1, <2>4
      <2> QED BY <1>2, <1>3, <2>2, <2>4, <2>5, PlainMove
    <1>7. ASSUME Goto(c, "sync") PROVE Core'
      <2>1. call' = [call EXCEPT ![c].pc = "sync"]
        BY <1>7 DEF Goto
      <2>2. call' = [call EXCEPT ![c] = Upd(call[c], "sync", call[c].pid, call[c].lost,
                                            call[c].settled)]
        BY <1>0, <1>5, <2>1, EditPc
      <2> QED BY <1>0, <1>1, <1>2, <1>3, <1>4, <2>2, PlainMove
    <1> QED BY <1>6, <1>7 DEF Settle

LEMMA SyncStep ==
    ASSUME Core, NEW c \in Calls, Sync(c)
    PROVE  Core'
    <1>0. /\ HostOK
          /\ call \in [Calls -> CallRecords(Stages)]
          /\ call[c].pid \in 0..MaxPids /\ call[c].lost \in SUBSET (1..writes)
          /\ FlushOK(call[c], unflushed)
      BY CallNow
    <1>1. /\ call[c].pc = "sync"
          /\ UNCHANGED <<proc, ours, excused, reg, client, mcpd, writes, snap, calls,
                         foreign, result, closed, hasQmp>>
      BY DEF Sync, launched, host
    <1>2. call[c].lost = {}
      BY <1>0, <1>1 DEF FlushOK
    <1>3. HostOK'
      <2>1. Fault \/ faults' = faults
        BY DEF Sync
      <2>2. faults' \in 0..MaxFaults
        BY <1>0, <2>1, FaultCounts DEF HostOK
      <2> QED BY <1>0, <1>1, <2>2 DEF HostOK
    <1>4. unflushed' \subseteq unflushed
      BY DEF Sync
    <1>5. ProcKind
      BY <1>1, <1>4 DEF ProcKind, ProcStays
    <1>6. "decide" \in Stages
      BY DEF Stages
    <1>7. PICK x \in {"flushed", "refused", "waited", "failed"} :
            Settled(c, x) /\ (x = "flushed" => unflushed' = {})
      BY DEF Sync
    <1>8. x \in Settlings /\ (x \notin Unflushed => unflushed' = {})
      BY <1>7 DEF Settlings, Unflushed
    <1>10. call' = [call EXCEPT ![c] = Upd(call[c], "decide", call[c].pid, call[c].lost, x)]
      BY <1>0, <1>7, <1>8, EditSettled
    <1>11. /\ call[c].before \cap call[c].lost = {}
           /\ x \notin Unflushed => call[c].before \cap unflushed' = {}
      BY <1>2, <1>8
    <1> QED BY <1>0, <1>1, <1>3, <1>4, <1>5, <1>8, <1>10, <1>11, PlainMove

(* A step that ends the call, or its stop.                                 *)
LEMMA EndMove ==
    ASSUME Core, NEW c \in Calls, call[c].pc \notin {"idle", "register"},
           NEW m, Moves(c, m), m.pc \in {"idle", "check"},
           ours' = ours, closed' = closed, excused => excused',
           \/ reg' = reg
           \/ reg' = 0 /\ (~excused' /\ reg # 0 => proc'[reg] \notin Live)
    PROVE  Core'
    <1>1. ProcFacts
      BY MoveKeeps
    <1>2. Existing'
      BY <1>1, ExistingKept
    <1>3. Owned'
      <2>1. CASE excused'
        BY <2>1 DEF Owned
      <2>2. CASE ~excused'
        <3>1. ~excused /\ m.pc # "register" /\ m.pc # "popen" /\ m.pc \notin {"quit", "poll"}
          BY <2>2
        <3>2. reg' = reg \/ (reg' = 0 /\ (reg # 0 => proc'[reg] \notin Live))
          BY <2>2
        <3> QED BY <1>1, <3>1, <3>2, HandlesMove DEF Moves
      <2> QED BY <2>1, <2>2
    <1> QED BY <1>2, <1>3, MoveCore

LEMMA DecideStep ==
    ASSUME Core, NEW c \in Calls, Decide(c)
    PROVE  Core'
    <1>0. /\ HostOK /\ call \in [Calls -> CallRecords(Stages)]
          /\ call[c].pid \in 0..MaxPids /\ call[c].lost \in SUBSET (1..writes)
          /\ call[c].settled \in Settlings
          /\ FlushOK(call[c], unflushed)
      BY CallNow
    <1>1. /\ call[c].pc = "decide"
          /\ UNCHANGED <<proc, ours, excused, unflushed, writes, snap,
                         calls, foreign, faults, closed, hasQmp>>
      BY DEF Decide, launched, disk
    <1>2. ProcKind
      BY <1>1 DEF ProcKind, ProcStays
    <1>3. /\ call[c].settled \notin Unflushed => call[c].before \cap call[c].lost = {}
          /\ call[c].settled \notin Unflushed => call[c].before \cap unflushed' = {}
      BY <1>0, <1>1 DEF FlushOK
    <1>4. ASSUME reg = 0, Goto(c, "quitUnowned"), UNCHANGED <<host, result>> PROVE Core'
      <2>1. "quitUnowned" \in Stages
        BY DEF Stages
      <2>2. call' = [call EXCEPT ![c] = Upd(call[c], "quitUnowned", call[c].pid, call[c].lost,
                                            call[c].settled)]
        BY <1>0, <1>4, <2>1, EditPc DEF Goto
      <2>3. HostOK' /\ UNCHANGED <<reg, result>>
        BY <1>0, <1>1, <1>4 DEF HostOK, host
      <2> QED BY <1>0, <1>1, <1>2, <1>3, <2>2, <2>3, PlainMove
    <1>5. ASSUME Return(c, "raised", {}), UNCHANGED host PROVE Core'
      <2>1. HostOK' /\ reg' = reg
        BY <1>0, <1>1, <1>5 DEF HostOK, host
      <2>2. Moves(c, NoCall) /\ NoCall.pc = "idle"
        BY <1>1, <1>2, <1>5, <2>1, ReturnMoves
      <2> QED BY <1>1, <2>1, <2>2, EndMove
    <1>6. ASSUME Stopped(c, {}),
                 UNCHANGED host \/ (reg # 0 /\ ~Alive(reg) /\ drop_qemu_process)
          PROVE  Core'
      <2>1. HostOK'
        BY <1>0, <1>1, <1>6, BoundsNat DEF HostOK, host, drop_qemu_process
      <2>2. PICK m : Moves(c, m) /\ m.pc \in {"idle", "check"}
        BY <1>1, <1>2, <1>6, <2>1, StoppedMoves
      <2>3. \/ reg' = reg
            \/ reg' = 0 /\ (~excused' /\ reg # 0 => proc'[reg] \notin Live)
        BY <1>1, <1>6 DEF host, drop_qemu_process, Alive, Live
      <2> QED BY <1>1, <2>2, <2>3, EndMove
    <1>7. ASSUME reg # 0, Alive(reg),
                 call' = [call EXCEPT ![c].pid = reg, ![c].pc = IF hasQmp THEN "quit" ELSE "poll"],
                 UNCHANGED <<host, result>>
          PROVE  Core'
      <2>1. HostOK' /\ UNCHANGED <<reg, result>> /\ reg \in 0..MaxPids
        BY <1>0, <1>1, <1>7 DEF HostOK, host
      <2>a. /\ call[c].pc \notin {"idle", "register"}
            /\ call[c].lost \in SUBSET (1..writes)
            /\ call[c].settled \in Settlings
            /\ UNCHANGED <<result, writes, snap, hasQmp, ours, reg, closed, excused>>
            /\ unflushed' \subseteq unflushed
            /\ call[c].settled \notin Unflushed => call[c].before \cap call[c].lost = {}
            /\ call[c].settled \notin Unflushed => call[c].before \cap unflushed' = {}
            /\ reg # 0
        BY <1>0, <1>1, <1>3, <1>7, <2>1
      <2>b. ~excused => \A d \in Calls \ {c} : ~Launching(d)
        BY <1>7 DEF Core, Owned
      <2>2. CASE hasQmp
        <3>1. "quit" \in Stages /\ call' = [call EXCEPT ![c].pid = reg, ![c].pc = "quit"]
          BY <1>7, <2>2 DEF Stages
        <3>2. call' = [call EXCEPT ![c] = Upd(call[c], "quit", reg, call[c].lost,
                                              call[c].settled)]
          BY <1>0, <2>1, <3>1, EditPidPc
        <3> QED BY <1>2, <2>1, <2>a, <2>b, <3>2, PlainMove
      <2>3. CASE ~hasQmp
        <3>1. "poll" \in Stages /\ call' = [call EXCEPT ![c].pid = reg, ![c].pc = "poll"]
          BY <1>7, <2>3 DEF Stages
        <3>2. call' = [call EXCEPT ![c] = Upd(call[c], "poll", reg, call[c].lost,
                                              call[c].settled)]
          BY <1>0, <2>1, <3>1, EditPidPc
        <3> QED BY <1>2, <2>1, <2>a, <2>b, <3>2, PlainMove
      <2> QED BY <2>2, <2>3
    <1> QED BY <1>4, <1>5, <1>6, <1>7 DEF Decide

(* What a quit or a kill of p does.                                        *)
LEMMA KilledFacts ==
    ASSUME Core, NEW p \in Pids, Alive(p), NEW st \in {"closing", "dead"}, Killed(p, st)
    PROVE  /\ ProcKind /\ unflushed' \subseteq unflushed /\ proc'[p] = st
           /\ Takes(p) \in SUBSET (1..writes) /\ Takes(p) \subseteq unflushed
    <1>1. proc \in [Pids -> States] /\ unflushed \subseteq 1..writes
      BY TypeParts DEF Core, TypeOK
    <1>2. ProcKind
      BY DEF ProcKind, ProcDies
    <1> QED BY <1>1, <1>2 DEF Killed, Takes

(* A stop that waits keeps launches away, and what it may drop is the      *)
(* handle of the process it waits for.                                     *)
LEMMA HandleOfStop ==
    ASSUME Core, NEW c \in Calls, Stopping(c), ~excused
    PROVE  reg \in {0, call[c].pid} /\ \A d \in Calls \ {c} : ~Launching(d)
    BY DEF Core, Owned

LEMMA QuitStep ==
    ASSUME Core, NEW c \in Calls, Quit(c)
    PROVE  Core'
    <1>0. /\ HostOK /\ call \in [Calls -> CallRecords(Stages)]
          /\ call[c].pid \in 0..MaxPids /\ call[c].lost \in SUBSET (1..writes)
          /\ call[c].settled \in Settlings
          /\ FlushOK(call[c], unflushed) /\ PidOK(call[c], proc)
      BY CallNow
    <1>1. /\ call[c].pc = "quit"
          /\ UNCHANGED <<ours, writes, snap, calls, foreign, closed, hasQmp>>
      BY DEF Quit
    <1>2. /\ call[c].settled \notin Unflushed => call[c].before \cap call[c].lost = {}
          /\ call[c].settled \notin Unflushed => call[c].before \cap unflushed = {}
      BY <1>0, <1>1 DEF FlushOK
    <1>3. /\ call[c].pid # 0
          /\ ~excused => reg \in {0, call[c].pid} /\ \A d \in Calls \ {c} : ~Launching(d)
      BY <1>0, <1>1, HandleOfStop DEF PidOK, Stopping
    <1>4. "poll" \in Stages
      BY DEF Stages
    <1>5. ASSUME NEW p \in QuitReaches, Killed(p, "closing"), client' = 0,
                 call' = [call EXCEPT ![c].pc = "poll", ![c].lost = Takes(p)],
                 UNCHANGED <<reg, mcpd, faults, result, excused>>
          PROVE  Core'
      <2>1. p \in Pids /\ Alive(p)
        BY <1>5 DEF QuitReaches, Listening, Alive
      <2>2. /\ ProcKind /\ unflushed' \subseteq unflushed
            /\ Takes(p) \in SUBSET (1..writes) /\ Takes(p) \subseteq unflushed
        BY <1>5, <2>1, KilledFacts
      <2>3. HostOK'
        BY <1>0, <1>1, <1>5, BoundsNat DEF HostOK
      <2>4. call' = [call EXCEPT ![c] = Upd(call[c], "poll", call[c].pid, Takes(p),
                                            call[c].settled)]
        BY <1>0, <1>4, <1>5, <2>2, EditLost
      <2>5. /\ call[c].settled \notin Unflushed => call[c].before \cap Takes(p) = {}
            /\ call[c].settled \notin Unflushed => call[c].before \cap unflushed' = {}
        BY <1>2, <2>2
      <2>6. /\ call[c].pc \notin {"idle", "register"}
            /\ call[c].pid \in 0..MaxPids
            /\ call[c].settled \in Settlings
            /\ UNCHANGED <<result, writes, snap, hasQmp, ours, reg, closed, excused>>
        BY <1>0, <1>1, <1>5
      <2> QED BY <1>3, <2>2, <2>3, <2>4, <2>5, <2>6, PlainMove
    <1>6. ASSUME Goto(c, "poll"), Fault \/ faults' = faults, client' \in {0, client},
                 UNCHANGED <<reg, mcpd, proc, unflushed, result, excused>>
          PROVE  Core'
      <2>1. faults' \in 0..MaxFaults
        BY <1>0, <1>6, FaultCounts DEF HostOK
      <2>2. HostOK'
        BY <1>0, <1>1, <1>6, <2>1, BoundsNat DEF HostOK
      <2>3. ProcKind
        BY <1>6 DEF ProcKind, ProcStays
      <2>4. call' = [call EXCEPT ![c] = Upd(call[c], "poll", call[c].pid, call[c].lost,
                                            call[c].settled)]
        BY <1>0, <1>4, <1>6, EditPc DEF Goto
      <2>5. call[c].settled \notin Unflushed => call[c].before \cap unflushed' = {}
        BY <1>2, <1>6
      <2> QED BY <1>0, <1>1, <1>2, <1>3, <1>6, <2>2, <2>3, <2>4, <2>5, PlainMove
    <1>7. ASSUME drop_qemu_process, Return(c, "raised", {}), excused' = TRUE,
                 UNCHANGED <<proc, unflushed, faults>>
          PROVE  Core'
      <2>1. HostOK'
        BY <1>0, <1>1, <1>7, BoundsNat DEF HostOK, drop_qemu_process
      <2>2. ProcKind
        BY <1>7 DEF ProcKind, ProcStays
      <2>3. Moves(c, NoCall) /\ NoCall.pc = "idle"
        BY <1>1, <1>7, <2>1, <2>2, ReturnMoves
      <2> QED BY <1>1, <1>7, <2>3, EndMove DEF drop_qemu_process
    <1> QED BY <1>5, <1>6, <1>7 DEF Quit, host

LEMMA QuitUnownedStep ==
    ASSUME Core, NEW c \in Calls, QuitUnowned(c)
    PROVE  Core'
    <1>0. /\ HostOK /\ FlushOK(call[c], unflushed)
      BY CallNow
    <1>1. /\ call[c].pc = "quitUnowned" /\ client' = 0
          /\ UNCHANGED <<ours, excused, reg, mcpd, writes, snap, calls, foreign, closed, hasQmp>>
      BY DEF QuitUnowned, launched
    <1>2. call[c].settled \notin Unflushed => call[c].before \cap unflushed = {}
      BY <1>0, <1>1 DEF FlushOK
    <1>3. HostOK'
      <2>1. Fault \/ faults' = faults
        BY DEF QuitUnowned
      <2>2. faults' \in 0..MaxFaults
        BY <1>0, <2>1, FaultCounts DEF HostOK
      <2> QED BY <1>0, <1>1, <2>2, BoundsNat DEF HostOK
    <1>4. ASSUME NEW p \in QuitReaches, Killed(p, "closing"), Stopped(c, Takes(p)) PROVE Core'
      <2>1. p \in Pids /\ Alive(p)
        BY <1>4 DEF QuitReaches, Listening, Alive
      <2>2. /\ ProcKind /\ unflushed' \subseteq unflushed
            /\ Takes(p) \in SUBSET (1..writes) /\ Takes(p) \subseteq unflushed
        BY <1>4, <2>1, KilledFacts
      <2>3. PICK m : Moves(c, m) /\ m.pc \in {"idle", "check"}
        BY <1>1, <1>2, <1>3, <1>4, <2>2, StoppedMoves
      <2> QED BY <1>1, <2>3, EndMove
    <1>5. ASSUME Return(c, "raised", {}), UNCHANGED <<proc, unflushed>> PROVE Core'
      <2>1. ProcKind
        BY <1>5 DEF ProcKind, ProcStays
      <2>2. Moves(c, NoCall) /\ NoCall.pc = "idle"
        BY <1>1, <1>3, <1>5, <2>1, ReturnMoves
      <2> QED BY <1>1, <2>2, EndMove
    <1> QED BY <1>4, <1>5 DEF QuitUnowned

LEMMA PollStep ==
    ASSUME Core, NEW c \in Calls, Poll(c)
    PROVE  Core'
    <1> DEFINE p == call[c].pid
    <1>0. /\ HostOK /\ FlushOK(call[c], unflushed) /\ PidOK(call[c], proc)
          /\ call[c].pid \in 0..MaxPids /\ call[c].lost \in SUBSET (1..writes)
      BY CallNow
    <1>1. /\ call[c].pc = "poll" /\ drop_qemu_process
          /\ UNCHANGED <<ours, writes, snap, calls, foreign, closed, hasQmp>>
      BY DEF Poll
    <1>2. /\ call[c].settled \notin Unflushed => call[c].before \cap call[c].lost = {}
          /\ call[c].settled \notin Unflushed => call[c].before \cap unflushed = {}
      BY <1>0, <1>1 DEF FlushOK
    <1>3. p \in Pids /\ (~excused => reg \in {0, p})
      BY <1>0, <1>1, HandleOfStop, BoundsNat DEF PidOK, Pids, Stopping
    <1>4. HostOK'
      <2>1. (Fault \/ faults' = faults) /\ (excused' = excused \/ excused' = TRUE)
        BY DEF Poll
      <2>2. faults' \in 0..MaxFaults
        BY <1>0, <2>1, FaultCounts DEF HostOK
      <2>3. excused' \in BOOLEAN
        BY <1>0, <2>1, Zenon DEF HostOK
      <2>4. /\ reg' \in 0..MaxPids /\ client' \in 0..MaxPids
            /\ mcpd' \in {"none", "clean", "written"}
        BY <1>1, BoundsNat DEF drop_qemu_process
      <2> QED BY <1>0, <1>1, <2>2, <2>3, <2>4 DEF HostOK
    <1>5. reg' = 0
      BY <1>1 DEF drop_qemu_process
    <1>6. ASSUME ~Alive(p), Stopped(c, call[c].lost), UNCHANGED <<proc, unflushed, excused>>
          PROVE  Core'
      <2>1. ProcKind
        BY <1>6 DEF ProcKind, ProcStays
      <2>2. PICK m : Moves(c, m) /\ m.pc \in {"idle", "check"}
        BY <1>0, <1>1, <1>2, <1>4, <1>6, <2>1, StoppedMoves
      <2>3. ~excused' /\ reg # 0 => proc'[reg] \notin Live
        BY <1>3, <1>6 DEF Alive, Live
      <2> QED BY <1>1, <1>5, <1>6, <2>2, <2>3, EndMove
    <1>7. ASSUME Alive(p), Killed(p, "dead"), excused' = excused,
                 Stopped(c, call[c].lost \cup Takes(p))
          PROVE  Core'
      <2>1. /\ ProcKind /\ unflushed' \subseteq unflushed /\ proc'[p] = "dead"
            /\ Takes(p) \in SUBSET (1..writes) /\ Takes(p) \subseteq unflushed
        BY <1>3, <1>7, KilledFacts
      <2>2. /\ call[c].lost \cup Takes(p) \in SUBSET (1..writes)
            /\ call[c].settled \notin Unflushed
                 => call[c].before \cap (call[c].lost \cup Takes(p)) = {}
        BY <1>0, <1>2, <2>1
      <2>3. PICK m : Moves(c, m) /\ m.pc \in {"idle", "check"}
        BY <1>1, <1>4, <1>7, <2>1, <2>2, StoppedMoves
      <2>4. ~excused' /\ reg # 0 => proc'[reg] \notin Live
        BY <1>3, <1>7, <2>1 DEF Live
      <2> QED BY <1>1, <1>5, <1>7, <2>3, <2>4, EndMove
    <1>8. ASSUME Return(c, "raised", call[c].lost), excused' = TRUE,
                 UNCHANGED <<proc, unflushed>>
          PROVE  Core'
      <2>1. ProcKind
        BY <1>8 DEF ProcKind, ProcStays
      <2>2. Moves(c, NoCall) /\ NoCall.pc = "idle"
        BY <1>0, <1>1, <1>2, <1>4, <1>8, <2>1, ReturnMoves
      <2> QED BY <1>1, <1>5, <1>8, <2>2, EndMove
    <1> QED BY <1>6, <1>7, <1>8 DEF Poll

-----------------------------------------------------------------------------
(* The two steps that reach every call at once.                            *)

LEMMA LoadStep ==
    ASSUME Core, qemu_loadvm
    PROVE  Core'
    <1>0. /\ HostOK /\ DiskOK /\ proc \in [Pids -> States] /\ OneGuest /\ CallsOK
          /\ call \in [Calls -> CallRecords(Stages)] /\ result \in CallRecords(Ends)
      BY TypeParts DEF Core
    <1>1. /\ unflushed' = snap.cache /\ snap' = NoSnap
          /\ call' = [c \in Calls |-> [call[c] EXCEPT !.before = {}]]
          /\ UNCHANGED <<ours, excused, reg, mcpd, writes, calls, foreign, faults, result,
                         closed, hasQmp>>
      BY DEF qemu_loadvm, rawOnly, launched
    <1>2. PICK p \in Pids : QmpAnswers(p) /\ proc' = [proc EXCEPT ![p] = "booted"]
      BY DEF qemu_loadvm
    <1>3. ProcKind
      BY <1>2 DEF QmpAnswers, ProcKind, ProcLoads
    <1>4. proc' \in [Pids -> States] /\ ProcFacts /\ OneGuest'
      BY <1>0, <1>3, ProcEffects, OneGuestStays
    <1>5. HostOK'
      <2>1. client' \in 0..MaxPids
        BY <1>2, BoundsNat DEF QmpAnswers, Pids
      <2> QED BY <1>0, <1>1, <2>1 DEF HostOK
    <1>6. DiskOK'
      BY <1>0, <1>1 DEF DiskOK, NoSnap
    <1>7. ASSUME NEW c \in Calls
          PROVE  /\ call'[c] \in CallRecords(Stages)
                 /\ call'[c].pc = call[c].pc /\ call'[c].pid = call[c].pid
                 /\ call'[c].before = {} /\ call'[c].lost = call[c].lost
                 /\ call'[c].old = call[c].old
      <2>1. call[c] \in CallRecords(Stages) /\ call'[c] = [call[c] EXCEPT !.before = {}]
        BY <1>0, <1>1
      <2> QED BY <2>1 DEF CallRecords
    <1>8. TypeOK'
      <2>1. CallRecords(Stages)' = CallRecords(Stages) /\ CallRecords(Ends)' = CallRecords(Ends)
        BY <1>1 DEF CallRecords
      <2>2. call' \in [Calls -> CallRecords(Stages)]
        <3> DEFINE F(c) == [call[c] EXCEPT !.before = {}]
        <3>1. call' = [c \in Calls |-> F(c)]
          BY <1>1
        <3>2. \A c \in Calls : F(c) \in CallRecords(Stages)
          BY <1>7, <3>1
        <3> HIDE DEF F
        <3> QED BY <3>1, <3>2
      <2> QED BY <1>0, <1>1, <1>4, <1>5, <1>6, <2>1, <2>2, TypeJoins
    <1>9. CallsOK'
      <2>1. ASSUME NEW c \in Calls
            PROVE  /\ FlushOK(call'[c], unflushed') /\ ResetOK(call'[c], proc', hasQmp)
                   /\ PidOK(call'[c], proc')
        <3>1. /\ FlushOK(call[c], unflushed) /\ ResetOK(call[c], proc, hasQmp)
              /\ PidOK(call[c], proc) /\ call[c] \in CallRecords(Stages)
          BY <1>0 DEF CallsOK
        <3>2. FlushOK(call'[c], unflushed')
          BY <1>7, <3>1 DEF FlushOK
        <3>3. \A x \in call[c].old : x \in Pids
          BY <3>1 DEF CallRecords
        <3>4. ResetOK(call'[c], proc', hasQmp)
          BY <1>4, <1>7, <3>1, <3>3 DEF ResetOK, ProcFacts
        <3>5. call[c].pid # 0 => call[c].pid \in Pids
          BY <3>1 DEF CallRecords, Pids
        <3>6. PidOK(call'[c], proc')
          BY <1>4, <1>7, <3>1, <3>5 DEF PidOK, ProcFacts
        <3> QED BY <3>2, <3>4, <3>6
      <2> QED BY <1>0, <1>1, <2>1 DEF CallsOK
    <1>10. Existing' /\ Owned'
      BY <1>1, <1>4, <1>7, HandlesStay
    <1> QED BY <1>4, <1>8, <1>9, <1>10 DEF Core

LEMMA CloseStep ==
    ASSUME Core, CloseAll
    PROVE  Core'
    <1>0. /\ HostOK /\ DiskOK /\ proc \in [Pids -> States] /\ OneGuest
      BY TypeParts DEF Core
    <1>1. /\ closed' = TRUE /\ reg' = 0 /\ client' = 0 /\ mcpd' = "none"
          /\ call' = [c \in Calls |-> NoCall] /\ result' = NoCall
          /\ UNCHANGED <<ours, writes, snap, calls, foreign, hasQmp>>
      BY DEF CloseAll, drop_qemu_process
    <1>2. /\ ProcKind /\ unflushed' \subseteq unflushed
          /\ ~excused' /\ reg # 0 => proc'[reg] \notin Live
          /\ Fault \/ faults' = faults
      <2>1. CASE /\ reg # 0 /\ Alive(reg) /\ Killed(reg, "dead") /\ UNCHANGED faults
        <3>1. reg \in Pids
          BY <1>0, <2>1, BoundsNat DEF HostOK, Pids
        <3>2. ProcKind /\ unflushed' \subseteq unflushed /\ proc'[reg] = "dead"
          BY <2>1, <3>1, KilledFacts
        <3> QED BY <2>1, <3>2 DEF Live
      <2>2. CASE ~(reg # 0 /\ Alive(reg)) /\ UNCHANGED <<proc, unflushed, faults>>
        BY <2>2 DEF ProcKind, ProcStays, Alive, Live
      <2>3. CASE Fault /\ excused' = TRUE /\ UNCHANGED <<proc, unflushed>>
        BY <2>3 DEF ProcKind, ProcStays
      <2> QED BY <2>1, <2>2, <2>3 DEF CloseAll
    <1>a. excused' \in BOOLEAN
      BY Zenon DEF CloseAll
    <1>b. ~excused' => ~excused /\ \A c \in Calls : ~Launching(c)
      BY DEF CloseAll
    <1>3. proc' \in [Pids -> States] /\ ProcFacts /\ OneGuest'
      BY <1>0, <1>2, ProcEffects, OneGuestStays
    <1>4. TypeOK'
      <2>1. CallRecords(Stages)' = CallRecords(Stages) /\ CallRecords(Ends)' = CallRecords(Ends)
        BY <1>1 DEF CallRecords
      <2>2. HostOK'
        <3>1. faults' \in 0..MaxFaults
          BY <1>0, <1>2, FaultCounts DEF HostOK
        <3> QED BY <1>0, <1>1, <1>a, <3>1, BoundsNat DEF HostOK
      <2>3. DiskOK'
        BY <1>0, <1>1, <1>2 DEF DiskOK
      <2>4. NoCall \in CallRecords(Stages) /\ NoCall \in CallRecords(Ends)
        BY NoCallRecord DEF Stages, Ends
      <2>5. call' \in [Calls -> CallRecords(Stages)] /\ result' \in CallRecords(Ends)
        BY <1>1, <2>4
      <2> QED BY <1>3, <2>1, <2>2, <2>3, <2>5, TypeJoins
    <1>5. CallsOK'
      BY <1>1, NoCallOK DEF CallsOK
    <1>6. Existing'
      BY <1>1, <1>3, ExistingKept
    <1>7. Owned'
      <2> SUFFICES ASSUME ~excused' PROVE Owned'
        BY DEF Owned
      <2>1. \A p \in ours : p \in Pids /\ p # 0 /\ (Alive(p)' => Alive(p))
        BY <1>0, <1>3, BoundsNat DEF HostOK, Core, Existing, ProcFacts, Alive, Pids
      <2>2. \A p \in ours : Alive(p) =>
              p = reg \/ \E d \in Calls : call[d].pc = "register" /\ call[d].pid = p
        BY <1>b DEF Core, Owned
      <2>3. \A d \in Calls : call[d].pc # "register"
        BY <1>b DEF Launching
      <2>4. \A p \in ours : ~Alive(p)'
        BY <1>2, <2>1, <2>2, <2>3 DEF Alive, Live
      <2>5. \A c \in Calls : ~Launching(c)' /\ ~Stopping(c)'
        BY <1>1, NoCallOK DEF Launching, Stopping
      <2> QED BY <1>1, <2>4, <2>5 DEF Owned
    <1> QED BY <1>3, <1>4, <1>5, <1>6, <1>7 DEF Core

(* A cancelled call ends as one that raises; a stop that waits, and a      *)
(* start that has launched, lose a handle.                                 *)
LEMMA CancelStep ==
    ASSUME Core, NEW c \in Calls, Cancel(c)
    PROVE  Core'
    <1>0. /\ HostOK /\ FlushOK(call[c], unflushed) /\ PidOK(call[c], proc)
          /\ call[c].pid \in 0..MaxPids /\ call[c].lost \in SUBSET (1..writes)
          /\ call \in [Calls -> CallRecords(Stages)] /\ proc \in [Pids -> States]
      BY CallNow
    <1>1. UNCHANGED <<ours, writes, snap, calls, foreign, faults, closed, hasQmp>>
      BY DEF Cancel
    <1>2. call[c].settled \notin Unflushed => call[c].before \cap call[c].lost = {}
      BY <1>0 DEF FlushOK
    <1>3. ASSUME NEW l \in SUBSET (1..writes), Return(c, "raised", l), HostOK', ProcKind,
                 unflushed' \subseteq unflushed, excused => excused',
                 call[c].settled \notin Unflushed => call[c].before \cap l = {},
                 reg' \in {0, reg},
                 ~excused' => reg' = reg /\ call[c].pc # "register"
          PROVE  Core'
      <2>1. Moves(c, NoCall) /\ NoCall.pc = "idle"
        BY <1>1, <1>3, ReturnMoves
      <2>2. ProcFacts
        BY <1>0, <1>3, ProcEffects
      <2>3. Existing'
        BY <1>1, <1>3, <2>2, ExistingKept
      <2>4. CASE excused'
        BY <2>1, <2>3, <2>4, MoveCore DEF Owned
      <2>5. CASE ~excused'
        <3>1. ~excused /\ reg' = reg /\ call[c].pc # "register"
          BY <1>3, <2>5
        <3>2. Owned'
          BY <1>1, <2>1, <2>2, <3>1, HandlesMove DEF Moves
        <3> QED BY <2>1, <2>3, <3>2, MoveCore
      <2> QED BY <2>4, <2>5
    <1>4. ASSUME NEW p \in Pids, Alive(p), NEW st \in {"closing", "dead"}, Killed(p, st),
                 call[c].pc \in {"quit", "quitUnowned", "poll"}
          PROVE  /\ ProcKind /\ unflushed' \subseteq unflushed
                 /\ Takes(p) \in SUBSET (1..writes)
                 /\ call[c].lost \cup Takes(p) \in SUBSET (1..writes)
                 /\ call[c].settled \notin Unflushed =>
                      /\ call[c].before \cap Takes(p) = {}
                      /\ call[c].before \cap (call[c].lost \cup Takes(p)) = {}
      <2>1. /\ ProcKind /\ unflushed' \subseteq unflushed
            /\ Takes(p) \in SUBSET (1..writes) /\ Takes(p) \subseteq unflushed
        BY <1>4, KilledFacts
      <2>2. call[c].settled \notin Unflushed => call[c].before \cap unflushed = {}
        BY <1>0, <1>4 DEF FlushOK
      <2> QED BY <1>0, <1>2, <2>1, <2>2
    <1>5. UNCHANGED <<proc, unflushed>> => ProcKind /\ unflushed' \subseteq unflushed
      BY DEF ProcKind, ProcStays
    <1>6. ASSUME call[c].pc \in {"check", "popen", "register", "settle", "sync", "decide"},
                 excused' = (excused \/ call[c].pc = "register"),
                 Return(c, "raised", call[c].lost), UNCHANGED <<host, proc, unflushed>>
          PROVE  Core'
      <2>1. excused' \in BOOLEAN /\ (excused => excused')
            /\ (~excused' => call[c].pc # "register")
        BY <1>6, Zenon
      <2>2. HostOK' /\ reg' = reg
        BY <1>0, <1>1, <1>6, <2>1 DEF HostOK, host
      <2> QED BY <1>0, <1>2, <1>3, <1>5, <1>6, <2>1, <2>2
    <1>7. ASSUME call[c].pc = "quitUnowned", client' = 0, UNCHANGED <<reg, mcpd, excused>>,
                 NEW l \in SUBSET (1..writes), Return(c, "raised", l),
                 ProcKind, unflushed' \subseteq unflushed,
                 call[c].settled \notin Unflushed => call[c].before \cap l = {}
          PROVE  Core'
      <2>1. HostOK'
        BY <1>0, <1>1, <1>7, BoundsNat DEF HostOK
      <2> QED BY <1>3, <1>7, <2>1
    <1>8. ASSUME drop_qemu_process, excused' = TRUE,
                 NEW l \in SUBSET (1..writes), Return(c, "raised", l),
                 ProcKind, unflushed' \subseteq unflushed,
                 call[c].settled \notin Unflushed => call[c].before \cap l = {}
          PROVE  Core'
      <2>1. HostOK' /\ reg' = 0
        BY <1>0, <1>1, <1>8, BoundsNat DEF HostOK, drop_qemu_process
      <2> QED BY <1>3, <1>8, <2>1
    <1>9. \A p \in QuitReaches : p \in Pids /\ Alive(p)
      BY DEF QuitReaches, Listening, Alive
    <1>10. CASE call[c].pc = "quitUnowned" /\ client' = 0 /\ UNCHANGED <<reg, mcpd, excused>>
      <2>1. CASE Return(c, "raised", call[c].lost) /\ UNCHANGED <<proc, unflushed>>
        BY <1>0, <1>2, <1>5, <1>7, <1>10, <2>1
      <2>2. ASSUME NEW p \in QuitReaches, Killed(p, "closing"), Return(c, "raised", Takes(p))
            PROVE  Core'
        BY <1>4, <1>7, <1>9, <1>10, <2>2
      <2> QED BY <1>10, <2>1, <2>2 DEF Cancel, Stopping
    <1>11. CASE Stopping(c) /\ drop_qemu_process /\ excused' = TRUE
      <2>1. CASE Return(c, "raised", call[c].lost) /\ UNCHANGED <<proc, unflushed>>
        BY <1>0, <1>2, <1>5, <1>8, <1>11, <2>1
      <2>2. ASSUME NEW p \in QuitReaches, Killed(p, "closing"), call[c].pc = "quit",
                   Return(c, "raised", call[c].lost \cup Takes(p))
            PROVE  Core'
        BY <1>4, <1>8, <1>9, <1>11, <2>2
      <2>3. ASSUME call[c].pc = "poll", Alive(call[c].pid), Killed(call[c].pid, "dead"),
                   Return(c, "raised", call[c].lost \cup Takes(call[c].pid))
            PROVE  Core'
        <3>1. call[c].pid \in Pids
          BY <1>0, <2>3, BoundsNat DEF PidOK, Pids
        <3> QED BY <1>4, <1>8, <1>11, <2>3, <3>1
      <2> QED BY <1>11, <2>1, <2>2, <2>3 DEF Cancel, Stopping
    <1> QED BY <1>6, <1>10, <1>11 DEF Cancel

-----------------------------------------------------------------------------
LEMMA InitCore == Init => Core
    <1> SUFFICES ASSUME Init PROVE Core
      OBVIOUS
    <1>1. /\ proc = [p \in Pids |-> "none"] /\ call = [c \in Calls |-> NoCall]
          /\ ours = {} /\ excused = FALSE /\ reg = 0 /\ client = 0 /\ mcpd = "none"
          /\ unflushed = {} /\ writes = 0 /\ snap = NoSnap /\ calls = 0
          /\ foreign = 0 /\ faults = 0 /\ result = NoCall /\ closed = FALSE
          /\ hasQmp \in BOOLEAN
      BY DEF Init
    <1>2. NoCall \in CallRecords(Stages) /\ NoCall \in CallRecords(Ends)
      BY NoCallRecord DEF Stages, Ends
    <1>3. TypeOK
      <2>1. HostOK
        <3>1. excused \in BOOLEAN /\ closed \in BOOLEAN /\ hasQmp \in BOOLEAN
              /\ ours \subseteq Pids /\ mcpd \in {"none", "clean", "written"}
          BY <1>1, Zenon
        <3>2. /\ reg \in 0..MaxPids /\ client \in 0..MaxPids /\ calls \in 0..MaxCalls
              /\ foreign \in 0..MaxForeign /\ faults \in 0..MaxFaults
          BY <1>1, BoundsNat
        <3> QED BY <3>1, <3>2, Zenon DEF HostOK
      <2>2. DiskOK
        <3>1. snap = [st |-> "none", cache |-> {}]
          BY <1>1, Zenon DEF NoSnap
        <3>2. 0 \in 0..MaxWrites
          BY BoundsNat
        <3> QED BY <1>1, <3>1, <3>2 DEF DiskOK
      <2>3. proc \in [Pids -> States]
        BY <1>1 DEF States
      <2>4. call \in [Calls -> CallRecords(Stages)] /\ result \in CallRecords(Ends)
        BY <1>1, <1>2
      <2> QED BY <2>1, <2>2, <2>3, <2>4, TypeParts
    <1>4. OneGuest /\ Existing
      BY <1>1 DEF OneGuest, Existing, Listening, McpdUp
    <1>5. CallsOK
      BY <1>1, NoCallOK DEF CallsOK
    <1>6. Owned
      BY <1>1, NoCallOK DEF Owned, Launching, Stopping
    <1> QED BY <1>3, <1>4, <1>5, <1>6 DEF Core

LEMMA NextCore == Core /\ [Next]_vars => Core'
    <1> SUFFICES ASSUME Core, [Next]_vars PROVE Core'
      OBVIOUS
    <1>1. CASE UNCHANGED vars
      BY <1>1 DEF vars, Core, TypeOK, CallRecords, OneGuest, Listening, McpdUp, CallsOK,
                  FlushOK, ResetOK, PidOK, ResultOK, Existing, Owned, Alive, Launching, Stopping
    <1>2. CASE Next
      <2>1. ASSUME NEW c \in Calls, Step(c) PROVE Core'
        <3>1. ~closed
          BY <1>2 DEF Next
        <3> QED BY <2>1, <3>1, BeginStep, StartCheckStep, PopenStep, RegisterStep,
                   SettleStep, SyncStep, DecideStep, QuitStep, QuitUnownedStep, PollStep,
                   CancelStep
                DEF Step, Called
      <2>2. ASSUME Environment PROVE Core'
        BY <2>2, EnvironmentStep
      <2> QED BY <1>2, <2>1, <2>2, LoadStep, CloseStep
              DEF Next, Environment, SnapshotCalled
    <1> QED BY <1>1, <1>2

(* Through any interleaving of tool calls with each other, with the guest, *)
(* and with what somebody else does to it, the invariant of the QEMU       *)
(* tools holds: qemu_start, qemu_stop, qemu_reset, the snapshot tools and  *)
(* the registry in fleet.py.                                               *)
THEOREM QemuInvariant == Spec => []QemuInv
    <1>1. Spec => []Core
      BY InitCore, NextCore, PTL DEF Spec
    <1> QED BY <1>1, CoreImplies, PTL

(* qemu_stop (and the stop of qemu_reset), whether it returns, raises or   *)
(* is cancelled, takes down no write made to SYS: before it was called,    *)
(* unless the guest did not let _settle_before_stop flush it.              *)
THEOREM StopKeeps == Spec => []StopKeepsWrites
    <1>1. QemuInv => StopKeepsWrites
      BY DEF QemuInv
    <1> QED BY <1>1, QemuInvariant, PTL

(* When qemu_reset returns, the guest that answered when it was called     *)
(* does not answer any more, whoever had started it.                       *)
THEOREM ResetReplacesGuest == Spec => []ResetReplaces
    <1>1. QemuInv => ResetReplaces
      BY DEF QemuInv
    <1> QED BY <1>1, QemuInvariant, PTL

(* register_qemu_process, drop_qemu_process and close_all leave no running *)
(* guest without a handle, whatever calls overlap or are cancelled, but    *)
(* for a launch in the way of another or of a stop, one cancelled before   *)
(* its registration, a stop that ends by an exception, and a failed kill.  *)
THEOREM HostLeavesNoOrphans == Spec => []NoOrphans
    <1>1. QemuInv => NoOrphans
      BY DEF QemuInv
    <1> QED BY <1>1, QemuInvariant, PTL
=============================================================================
