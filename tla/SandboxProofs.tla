---------------------------- MODULE SandboxProofs ----------------------------
(***************************************************************************)
(* Proofs about Sandbox, for any set of calls and paths, any number of     *)
(* guests in a batch and any size of the debug ring: the output a result   *)
(* shows is its own, and all_clean is said only of batches whose guests    *)
(* all returned 0.                                                         *)
(***************************************************************************)
EXTENDS Sandbox, SequenceTheorems, FiniteSetTheorems, WellFoundedInduction, TLAPS

----------------------------------------------------------------------------
(* The state's types, one conjunct for each variable.                      *)
Typed ==
    /\ kind \in [Calls -> Tools] /\ pc \in [Calls -> AnyPC]
    /\ path \in [Calls -> Paths \cup {NoPath}] /\ left \in [Calls -> Seq(Paths)]
    /\ size \in [Calls -> 0..SANDBOXVM_MAX_GUESTS] /\ cache \in Paths \cup {NoPath}
    /\ lock \in Calls \cup {NoCall} /\ machine \in {"extmem", "pegasos2"}
    /\ bins \in [Paths -> {"none", "part", "old", "new"}]
    /\ proc \in [Calls -> {"none", "running", "exited", "aborted"}]
    /\ truth \in [Calls -> Seq(GuestRC)] /\ \A c \in Calls : Len(truth[c]) <= size[c]
    /\ capt \in [Names -> Runs \cup {NoRun}] /\ wrote \in [Calls -> SUBSET Idx]
    /\ pending \in Seq(Line) /\ ring \in Seq(Line)
    /\ Len(pending) + Len(ring) <= RingSize
    /\ tries \in [Calls -> 0..RetryCount] /\ exits \in [Calls -> Seq(GuestRC)]
    /\ usable \in [Calls -> BOOLEAN] /\ res \in [Calls -> Result]

LEMMA TypedMeans == Typed <=> TypeOK /\ ShapeInv
<1>1. ASSUME Typed PROVE TypeOK /\ ShapeInv
  <2>1. Len(pending) \in Nat /\ Len(ring) \in Nat /\ RingSize \in Nat
    BY <1>1, LenProperties, SandboxAssumption DEF Typed
  <2>2. Len(ring) <= RingSize
    BY <1>1, <2>1 DEF Typed
  <2>3. ShapeInv
    BY <1>1 DEF Typed, ShapeInv
  <2>4. \A c \in Calls : /\ res[c].st \in {"none", "ok", "running", "raised"}
                         /\ res[c].agg \in ExitCodes
                         /\ res[c].entries \in Seq(Entry)
    BY <1>1 DEF Typed, Result
  <2>5. \A c \in Calls : left[c] \in Seq(Paths) /\ exits[c] \in Seq(GuestRC)
    BY <1>1 DEF Typed
  <2>6. \A c \in Calls : truth[c] \in Seq(GuestRC) /\ Len(truth[c]) <= size[c]
    BY <1>1 DEF Typed
  <2> QED BY <1>1, <2>2, <2>3, <2>4, <2>5, <2>6 DEF Typed, TypeOK
<1>2. ASSUME TypeOK, ShapeInv PROVE Typed
  BY <1>2 DEF TypeOK, ShapeInv, Typed
<1> QED BY <1>1, <1>2

LEMMA TypedMeansNext == Typed' <=> TypeOK' /\ ShapeInv'
<1>1. ASSUME Typed' PROVE (TypeOK /\ ShapeInv)'
  <2>1. Len(pending') \in Nat /\ Len(ring') \in Nat /\ RingSize \in Nat
    BY <1>1, LenProperties, SandboxAssumption DEF Typed
  <2>2. Len(ring') <= RingSize
    BY <1>1, <2>1 DEF Typed
  <2>3. ShapeInv'
    BY <1>1 DEF Typed, ShapeInv
  <2>4. \A c \in Calls : /\ res'[c].st \in {"none", "ok", "running", "raised"}
                         /\ res'[c].agg \in ExitCodes
                         /\ res'[c].entries \in Seq(Entry)
    BY <1>1 DEF Typed, Result
  <2>5. \A c \in Calls : left'[c] \in Seq(Paths) /\ exits'[c] \in Seq(GuestRC)
    BY <1>1 DEF Typed
  <2>6. \A c \in Calls : truth'[c] \in Seq(GuestRC) /\ Len(truth'[c]) <= size'[c]
    BY <1>1 DEF Typed
  <2> QED BY <1>1, <2>2, <2>3, <2>4, <2>5, <2>6 DEF Typed, TypeOK
<1>2. ASSUME TypeOK', ShapeInv' PROVE Typed'
  BY <1>2 DEF TypeOK, ShapeInv, Typed
<1> QED BY <1>1, <1>2

----------------------------------------------------------------------------
(* What a step of one call leaves of the others.                           *)
CallInv(c) == PlaceInv(c) /\ ProcInv(c) /\ ResInv(c)

SameAt(d) ==
    /\ pc'[d] = pc[d] /\ left'[d] = left[d] /\ size'[d] = size[d] /\ proc'[d] = proc[d]
    /\ truth'[d] = truth[d] /\ exits'[d] = exits[d] /\ res'[d] = res[d]
    /\ wrote'[d] = wrote[d]
    /\ lock' = d <=> lock = d

\* What is over stays over: a raised call, and one that has left the section.
EndsStay ==
    \A d \in Calls :
       /\ res[d].st = "raised" => res'[d].st = "raised"
       /\ pc[d] \in {"trap", "done"} => pc'[d] \in {"trap", "done"}

LEMMA SameSets ==
    ASSUME kind' = kind
    PROVE  /\ Guests' = Guests /\ Batches' = Batches /\ Jobs' = Jobs /\ Deploys' = Deploys
           /\ Probes' = Probes /\ Runners' = Runners
BY DEF Guests, Batches, Jobs, Deploys, Probes, Runners

LEMMA SameNames ==
    ASSUME kind' = kind, NEW c, NEW i
    PROVE  NameOf(c, i)' = NameOf(c, i)
BY SameSets DEF NameOf, JobName

LEMMA SameExit ==
    ASSUME NEW d, truth'[d] = truth[d], proc'[d] = proc[d]
    PROVE  ExitCode(d)' = ExitCode(d)
BY DEF ExitCode

LEMMA CallKept ==
    ASSUME NEW d \in Calls, kind' = kind, SameAt(d), CallInv(d)
    PROVE  CallInv(d)'
<1>1. PlaceInv(d)'
  BY SameSets DEF CallInv, PlaceInv, SameAt
<1>2. ProcInv(d)'
  BY SameSets DEF CallInv, ProcInv, SameAt, Over
<1>3. ExitCode(d)' = ExitCode(d)
  BY SameExit DEF SameAt
<1>4. ResInv(d)'
  BY <1>3, SameSets DEF CallInv, ResInv, SameAt, Over
<1> QED BY <1>1, <1>2, <1>4 DEF CallInv

LEMMA MineKept ==
    ASSUME NEW c, NEW i, NEW n, NEW r \in Runs \cup {NoRun}, kind' = kind, EndsStay,
           wrote'[c] = wrote[c], Mine(c, i, n, r)
    PROVE  Mine(c, i, n, r)'
<1>1. CASE r \in {NoRun, <<c, i>>}
  BY <1>1 DEF Mine, NoRun
<1>2. CASE r \notin {NoRun, <<c, i>>}
  <2>1. r[1] \in Calls
    BY <1>2 DEF Runs
  <2>2. c \notin Jobs' /\ Left(r, c)'
    BY <1>2, <2>1, SameSets DEF Mine, EndsStay, Left
  <2>3. NameOf(c, i)' = NameOf(c, i)
    BY SameNames
  <2>4. res'[r[1]].st = "raised" \/ n # NameOf(c, i) \/ i \notin wrote'[c]
    BY <1>2, <2>1 DEF Mine, EndsStay
  <2> QED BY <2>2, <2>3, <2>4 DEF Mine
<1> QED BY <1>1, <1>2

LEMMA KeptStays ==
    ASSUME NEW c, NEW i, NEW r \in Runs \cup {NoRun}, kind' = kind, EndsStay, Kept(c, i, r)
    PROVE  Kept(c, i, r)'
<1>1. CASE r \in {NoRun, <<c, i>>}
  BY <1>1 DEF Kept, NoRun
<1>2. CASE r \notin {NoRun, <<c, i>>}
  <2>1. r[1] \in Calls
    BY <1>2 DEF Runs
  <2> QED BY <1>2, <2>1, SameSets DEF Kept, EndsStay, NoRun
<1> QED BY <1>1, <1>2

\* Whose files: any step that keeps the sizes of what has been started.
LEMMA FileKept ==
    ASSUME Typed, kind' = kind, NEW n \in Names, FileInv(n), capt'[n] \in {capt[n], NoRun},
           \A d \in Calls : proc[d] # "none" => proc'[d] # "none" /\ size'[d] = size[d]
    PROVE  FileInv(n)'
<1>1. capt[n] \in Runs \cup {NoRun}
  BY DEF Typed
<1>2. CASE capt'[n] = NoRun
  BY <1>2 DEF FileInv, NoRun
<1>3. CASE capt'[n] = capt[n] /\ capt[n] # NoRun
  <2>1. PICK d \in Calls, i \in Idx : capt[n] = <<d, i>>
    BY <1>1, <1>3 DEF Runs
  <2>2. proc[d] # "none" /\ i \in 1..size[d] /\ NameOf(d, i) = n
    BY <1>3, <2>1 DEF FileInv
  <2>3. NameOf(d, i)' = NameOf(d, i)
    BY SameNames
  <2>4. proc'[d] # "none" /\ i \in 1..size'[d]
    BY <2>2
  <2> QED BY <1>3, <2>1, <2>2, <2>3, <2>4 DEF FileInv, NoRun
<1> QED BY <1>2, <1>3
Opened == {"wait", "codes", "read", "delete"}

\* The files a call reads, and the entries it has, one call at a time.
FilesMine(c) == \A i \in wrote[c] : Kept(c, i, capt[NameOf(c, i)])
MineAll(c, es) == \A i \in DOMAIN es : Mine(c, i, es[i].name, es[i].out)
EntriesMine(c) == MineAll(c, res[c].entries)

LEMMA OwnMeans ==
    ASSUME NEW c
    PROVE  OwnInv(c) <=> (pc[c] \in Opened => FilesMine(c)) /\ EntriesMine(c)
BY DEF OwnInv, Opened, FilesMine, EntriesMine, MineAll

LEMMA OwnMeansNext ==
    ASSUME NEW c
    PROVE  OwnInv(c)' <=> (pc'[c] \in Opened => FilesMine(c)') /\ EntriesMine(c)'
BY DEF OwnInv, Opened, FilesMine, EntriesMine, MineAll

LEMMA NameIn ==
    ASSUME NEW c \in Calls, NEW i \in Idx, c \in Guests \cup Jobs => i = 1,
           c \in Runners
    PROVE  NameOf(c, i) \in Names
<1>1. CASE c \in Jobs
  BY <1>1 DEF NameOf, JobName, Names
<1>2. CASE c \notin Jobs /\ c \in Batches
  BY <1>2 DEF NameOf, Names, SharedNames
<1>3. CASE c \notin Jobs /\ c \notin Batches
  BY <1>3 DEF NameOf, Names, SharedNames, Idx
<1> QED BY <1>1, <1>2, <1>3

\* The files of a call that makes none and that nobody makes anew.
LEMMA FilesKept ==
    ASSUME Typed, NEW c \in Calls, kind' = kind, EndsStay, wrote'[c] = wrote[c],
           c \in Runners, ProcInv(c), size[c] \in Idx,
           \A n \in Names : capt'[n] \in {capt[n], NoRun},
           FilesMine(c)
    PROVE  FilesMine(c)'
<1> SUFFICES ASSUME NEW i \in wrote'[c]
             PROVE  Kept(c, i, capt[NameOf(c, i)])'
  BY DEF FilesMine
<1>1. i \in wrote[c] /\ i \in 1..size[c] /\ i \in Idx /\ (c \notin Batches => i = 1)
  BY SandboxAssumption DEF Typed, Idx, ProcInv
<1>2. NameOf(c, i) \in Names /\ NameOf(c, i)' = NameOf(c, i)
  <2>1. c \in Guests \cup Jobs => c \notin Batches
    BY DEF Guests, Jobs, Batches
  <2> QED BY <1>1, <2>1, NameIn, SameNames
<1>3. PICK r \in Runs \cup {NoRun} : r = capt[NameOf(c, i)]
  BY <1>2 DEF Typed
<1>4. Kept(c, i, r)
  BY <1>1, <1>3 DEF FilesMine
<1>5. Kept(c, i, r)'
  BY <1>4, KeptStays
<1>6. capt'[NameOf(c, i)] \in {r, NoRun}
  BY <1>2, <1>3
<1>7. CASE capt'[NameOf(c, i)] = NoRun
  BY <1>2, <1>7 DEF Kept, NoRun
<1>8. CASE capt'[NameOf(c, i)] = r
  BY <1>2, <1>5, <1>8 DEF Kept, NoRun
<1> QED BY <1>6, <1>7, <1>8

LEMMA EntriesKept ==
    ASSUME NEW c \in Calls, kind' = kind, EndsStay, wrote'[c] = wrote[c],
           res'[c].entries \in Seq(Entry), MineAll(c, res'[c].entries)
    PROVE  EntriesMine(c)'
<1>1. PICK es \in Seq(Entry) : es = res'[c].entries
  OBVIOUS
<1>2. ASSUME NEW i \in DOMAIN es PROVE Mine(c, i, es[i].name, es[i].out)'
  <2>1. PICK r, n : r = es[i].out /\ n = es[i].name
    OBVIOUS
  <2>2. r \in Runs \cup {NoRun}
    <3>1. es[i] \in Entry
      BY <1>2, LenProperties, ElementOfSeq
    <3> QED BY <2>1, <3>1 DEF Entry
  <2>3. Mine(c, i, n, r)
    BY <1>1, <1>2, <2>1 DEF MineAll
  <2>4. Mine(c, i, n, r)'
    BY <2>2, <2>3, MineKept
  <2> QED BY <2>1, <2>4
<1> QED BY <1>1, <1>2 DEF EntriesMine, MineAll

LEMMA OwnKept ==
    ASSUME SandboxInv, NEW d \in Calls, kind' = kind, EndsStay, SameAt(d),
           \A n \in Names : capt'[n] \in {capt[n], NoRun}
    PROVE  OwnInv(d)'
<1>1. Typed /\ PlaceInv(d) /\ ProcInv(d) /\ OwnInv(d)
  BY TypedMeans DEF SandboxInv
<1>2. EntriesMine(d)'
  <2>1. res'[d].entries \in Seq(Entry)
    BY <1>1 DEF Typed, Result, SameAt
  <2>2. MineAll(d, res'[d].entries)
    BY <1>1, OwnMeans DEF SameAt, EntriesMine
  <2> QED BY <2>1, <2>2, EntriesKept DEF SameAt
<1>3. ASSUME pc'[d] \in Opened PROVE FilesMine(d)'
  <2>1. pc[d] \in Opened /\ FilesMine(d)
    BY <1>1, <1>3, OwnMeans DEF SameAt
  <2>2. d \in Runners /\ size[d] \in Idx
    BY <1>1, <2>1 DEF PlaceInv, ProcInv, Opened, Section
  <2> QED BY <1>1, <2>1, <2>2, FilesKept DEF SameAt
<1> QED BY <1>2, <1>3, OwnMeansNext

\* A step of call c, or of its process, that makes no capture file.
HostKeeps(c) ==
    /\ kind' = kind /\ wrote' = wrote
    /\ \A n \in Names : capt'[n] \in {capt[n], NoRun}
    /\ \A d \in Calls \ {c} : SameAt(d)
    /\ pc[c] # "done" \/ res' = res
    /\ pc[c] \in {"trap", "done"} => pc'[c] \in {"trap", "done"}
    /\ proc[c] # "none" => proc'[c] # "none" /\ size'[c] = size[c]

LEMMA HostStep ==
    ASSUME SandboxInv, NEW c \in Calls, HostKeeps(c), Typed', CallInv(c)',
           pc'[c] \in Opened => pc[c] \in Opened \/ wrote[c] = {},
           MineAll(c, res'[c].entries)
    PROVE  SandboxInv'
<1>1. Typed /\ PlaceInv(c) /\ ProcInv(c) /\ ResInv(c) /\ OwnInv(c)
  BY TypedMeans DEF SandboxInv
<1>2. EndsStay
  <2>1. ASSUME NEW d \in Calls, d # c
        PROVE  /\ res[d].st = "raised" => res'[d].st = "raised"
               /\ pc[d] \in {"trap", "done"} => pc'[d] \in {"trap", "done"}
    BY <2>1 DEF HostKeeps, SameAt
  <2>2. res[c].st = "raised" => res'[c].st = "raised"
    BY <1>1 DEF ResInv, HostKeeps
  <2>3. pc[c] \in {"trap", "done"} => pc'[c] \in {"trap", "done"}
    BY DEF HostKeeps
  <2> QED BY <2>1, <2>2, <2>3 DEF EndsStay
<1>3. kind' = kind /\ wrote' = wrote /\ \A n \in Names : capt'[n] \in {capt[n], NoRun}
  BY DEF HostKeeps
<1>4. ASSUME NEW d \in Calls, d # c PROVE CallInv(d)' /\ OwnInv(d)'
  <2>1. SameAt(d) /\ CallInv(d)
    BY <1>4 DEF HostKeeps, SandboxInv, CallInv
  <2> QED BY <1>2, <1>3, <2>1, CallKept, OwnKept
<1>5. OwnInv(c)'
  <2>1. res'[c].entries \in Seq(Entry)
    BY DEF Typed, Result
  <2>2. EntriesMine(c)'
    BY <1>2, <1>3, <2>1, EntriesKept
  <2>3. ASSUME pc'[c] \in Opened PROVE FilesMine(c)'
    <3>1. CASE wrote[c] = {}
      BY <1>3, <3>1 DEF FilesMine
    <3>2. CASE pc[c] \in Opened
      <4>1. FilesMine(c)
        BY <1>1, <3>2, OwnMeans
      <4>2. c \in Runners /\ size[c] \in Idx
        BY <1>1, <3>2 DEF PlaceInv, ProcInv, Opened, Section
      <4> QED BY <1>1, <1>2, <1>3, <4>1, <4>2, FilesKept
    <3> QED BY <2>3, <3>1, <3>2
  <2> QED BY <2>2, <2>3, OwnMeansNext
<1>6. \A d \in Calls : proc[d] # "none" => proc'[d] # "none" /\ size'[d] = size[d]
  BY DEF HostKeeps, SameAt
<1>7. ASSUME NEW n \in Names PROVE FileInv(n)'
  BY <1>1, <1>3, <1>6, FileKept DEF SandboxInv
<1>8. \A d \in Calls : CallInv(d)' /\ OwnInv(d)'
  BY <1>4, <1>5
<1>9. TypeOK' /\ ShapeInv'
  BY TypedMeansNext
<1> QED BY <1>7, <1>8, <1>9 DEF SandboxInv, CallInv

\* The one most steps are instances of: nothing on the target changes but bins.
HostOnly(c) ==
    /\ UNCHANGED <<kind, machine, proc, truth, capt, wrote, pending, ring>>
    /\ \A d \in Calls \ {c} : SameAt(d)
    /\ pc[c] # "done" /\ (pc[c] = "trap" => pc'[c] \in {"trap", "done"})
    /\ size'[c] = size[c] \/ proc[c] = "none"

LEMMA HostOnlyKeeps ==
    ASSUME NEW c \in Calls, HostOnly(c)
    PROVE  HostKeeps(c)
BY DEF HostOnly, HostKeeps

\* Ways for a step to leave the other calls alone.
LEMMA SameOthers ==
    ASSUME Typed, NEW c \in Calls,
           \E v : pc' = [pc EXCEPT ![c] = v],
           left' = left \/ \E v : left' = [left EXCEPT ![c] = v],
           size' = size \/ \E v : size' = [size EXCEPT ![c] = v],
           exits' = exits \/ \E v : exits' = [exits EXCEPT ![c] = v],
           res' = res \/ \E v : res' = [res EXCEPT ![c] = v],
           proc' = proc \/ \E v : proc' = [proc EXCEPT ![c] = v],
           truth' = truth \/ \E v : truth' = [truth EXCEPT ![c] = v],
           wrote' = wrote \/ \E v : wrote' = [wrote EXCEPT ![c] = v],
           lock' = lock \/ {lock, lock'} \subseteq {c, NoCall}
    PROVE  \A d \in Calls \ {c} : SameAt(d)
<1> SUFFICES ASSUME NEW d \in Calls \ {c} PROVE SameAt(d)
  OBVIOUS
<1>1. d # c /\ d # NoCall
  BY SandboxAssumption
<1>2. pc'[d] = pc[d] /\ left'[d] = left[d] /\ size'[d] = size[d]
  BY <1>1 DEF Typed
<1>3. proc'[d] = proc[d] /\ truth'[d] = truth[d] /\ exits'[d] = exits[d]
  BY <1>1 DEF Typed
<1>4. res'[d] = res[d] /\ wrote'[d] = wrote[d]
  BY <1>1 DEF Typed
<1>5. lock' = d <=> lock = d
  BY <1>1
<1> QED BY <1>2, <1>3, <1>4, <1>5 DEF SameAt

----------------------------------------------------------------------------
(* Ends of a call.                                                         *)

LEMMA PlainResult ==
    ASSUME NEW st \in {"ok", "running", "raised"}
    PROVE  /\ [NoRes EXCEPT !.st = st] = [st |-> st, agg |-> 0, entries |-> <<>>]
           /\ [NoRes EXCEPT !.st = st] \in Result
<1>1. [NoRes EXCEPT !.st = st] = [st |-> st, agg |-> 0, entries |-> <<>>]
  BY DEF NoRes
<1>2. 0 \in ExitCodes /\ <<>> \in Seq(Entry)
  BY EmptySeq DEF ExitCodes
<1> QED BY <1>1, <1>2 DEF Result

LEMMA PlainEndKeeps ==
    ASSUME SandboxInv, NEW c \in Calls, HostKeeps(c), Typed', lock' # c,
           UNCHANGED <<proc, truth>>, NEW st \in {"ok", "running", "raised"},
           Return(c, [NoRes EXCEPT !.st = st]),
           st = "ok" => c \notin Runners, st = "running" => c \in Jobs,
           Len(exits'[c]) <= size'[c]
    PROVE  SandboxInv'
<1>1. Typed /\ PlaceInv(c) /\ ProcInv(c) /\ ResInv(c)
  BY TypedMeans DEF SandboxInv
<1>2. /\ pc'[c] = "done" /\ res'[c].st = st /\ res'[c].entries = <<>>
  BY <1>1, PlainResult DEF Return, Go, Typed
<1>3. UNCHANGED <<kind, proc, truth, wrote>>
  BY DEF HostKeeps
<1>4. PlaceInv(c)'
  BY <1>2, <1>3 DEF PlaceInv, Section
<1>5. ProcInv(c)'
  BY <1>1, <1>2, <1>3, SameSets DEF ProcInv, HostKeeps, Early, Reading, Over
<1>6. Len(<<>>) = 0 /\ size'[c] \in Nat /\ DOMAIN <<>> = {}
  BY EmptySeq, SandboxAssumption DEF Typed
<1>7. ResInv(c)'
  BY <1>2, <1>3, <1>6, SameSets DEF ResInv, Early, Over
<1>8. MineAll(c, res'[c].entries)
  BY <1>2, <1>6 DEF MineAll
<1>9. pc'[c] \notin Opened
  BY <1>2 DEF Opened
<1> QED BY <1>4, <1>5, <1>7, <1>8, <1>9, HostStep DEF CallInv

LEMMA PlainEnd ==
    ASSUME SandboxInv, NEW c \in Calls, HostOnly(c), Typed', lock' # c,
           NEW st \in {"ok", "running", "raised"},
           Return(c, [NoRes EXCEPT !.st = st]),
           st = "ok" => c \notin Runners, st = "running" => c \in Jobs,
           Len(exits'[c]) <= size'[c]
    PROVE  SandboxInv'
BY HostOnlyKeeps, PlainEndKeeps DEF HostOnly

LEMMA RaiseInv ==
    ASSUME SandboxInv, NEW c \in Calls, pc[c] # "done", Raise(c)
    PROVE  SandboxInv'
<1>1. Typed /\ ResInv(c)
  BY TypedMeans DEF SandboxInv
<1>2. /\ pc' = [pc EXCEPT ![c] = "done"]
      /\ res' = [res EXCEPT ![c] = [NoRes EXCEPT !.st = "raised"]]
      /\ lock' = (IF lock = c THEN NoCall ELSE lock)
      /\ UNCHANGED <<path, cache, kind, machine, bins, proc, truth, capt, wrote, pending, ring,
                     left, size, tries, exits, usable>>
  BY DEF Raise, Return, Go, target, host
<1>3. [NoRes EXCEPT !.st = "raised"] \in Result /\ "done" \in AnyPC
  BY PlainResult DEF AnyPC
<1>4. Typed'
  <2>1. pc' \in [Calls -> AnyPC] /\ res' \in [Calls -> Result] /\ lock' \in Calls \cup {NoCall}
    BY <1>1, <1>2, <1>3 DEF Typed
  <2> QED BY <1>1, <1>2, <2>1 DEF Typed
<1>5. \A d \in Calls \ {c} : SameAt(d)
  BY <1>1, <1>2, SameOthers
<1>6. HostOnly(c)
  <2>1. pc'[c] = "done"
    BY <1>1, <1>2 DEF Typed
  <2> QED BY <1>2, <1>5, <2>1 DEF HostOnly
<1>7. lock' # c /\ Len(exits'[c]) <= size'[c]
  BY <1>1, <1>2, SandboxAssumption DEF ResInv
<1>8. Return(c, [NoRes EXCEPT !.st = "raised"])
  BY DEF Raise
<1> QED BY <1>4, <1>6, <1>7, <1>8, PlainEnd

----------------------------------------------------------------------------
(* The probe gate and deploy.                                              *)

\* A step of a call that is still on its way to the lock or to "exec".
LEMMA EarlyStep ==
    ASSUME SandboxInv, NEW c \in Calls, HostOnly(c), Typed', UNCHANGED <<res, exits>>,
           lock' = lock, pc[c] \in Early \ {"exec"}, pc'[c] \in Early,
           Len(exits[c]) <= size'[c],
           size'[c] \in Idx /\ (c \notin Batches => size'[c] = 1),
           pc'[c] = "stat" => left'[c] # <<>>,
           pc'[c] \in {"makedir", "upload"} => c \in Deploys,
           pc'[c] = "lock" => c \in Runners /\ c \notin Jobs,
           pc'[c] = "exec" => c \in Jobs, pc'[c] # "idle"
    PROVE  SandboxInv'
<1>1. Typed /\ PlaceInv(c) /\ ProcInv(c) /\ ResInv(c) /\ EntriesMine(c)
  BY TypedMeans, OwnMeans DEF SandboxInv
<1>2. /\ UNCHANGED <<kind, proc, truth, wrote>>
      /\ proc[c] = "none" /\ truth[c] = <<>> /\ wrote[c] = {}
  BY <1>1 DEF HostOnly, ProcInv
<1>3. c \in Jobs => c \in Runners
  BY DEF Runners
<1>4. lock # c /\ lock' # c
  BY <1>1 DEF PlaceInv, Section, Early
<1>5. PlaceInv(c)'
  BY <1>2, <1>3, <1>4, SameSets DEF PlaceInv, Section, Early
<1>6. ProcInv(c)'
  BY <1>2, SameSets DEF ProcInv, Early, Reading, Over
<1>7. /\ res[c].entries = <<>> /\ res[c].st = "none" /\ Len(<<>>) = 0 /\ DOMAIN <<>> = {}
      /\ exits[c] = <<>>
  BY <1>1, EmptySeq DEF ResInv, Early, Over
<1>8. size'[c] \in Nat
  BY SandboxAssumption DEF Typed
<1>9. ResInv(c)'
  BY <1>2, <1>7, <1>8 DEF ResInv, Early, Over
<1>10. MineAll(c, res'[c].entries)
  BY <1>7 DEF MineAll
<1>11. pc'[c] \notin Opened
  BY DEF Opened, Early
<1> QED BY <1>5, <1>6, <1>9, <1>10, <1>11, HostOnlyKeeps, HostStep DEF CallInv

LEMMA KindFacts ==
    ASSUME NEW c
    PROVE  /\ c \in Probes => c \notin Runners /\ c \notin Deploys
           /\ c \in Deploys => c \notin Runners
           /\ c \in Jobs => c \in Runners /\ c \notin Batches /\ c \notin Guests
           /\ c \in Batches => c \in Runners /\ c \notin Guests
           /\ c \in Guests => c \in Runners
           /\ c \in Runners /\ c \notin Jobs /\ c \notin Batches => c \in Guests
BY DEF Probes, Runners, Deploys, Jobs, Batches, Guests

LEMMA AvailableInv ==
    ASSUME SandboxInv, NEW c \in Calls, NEW p \in Paths \cup {NoPath}, Available(c, p), c \in Runners,
           pc[c] \in Early \ {"exec"}, cache' \in Paths \cup {NoPath},
           size' \in [Calls -> 0..SANDBOXVM_MAX_GUESTS],
           size' = size \/ \E v : size' = [size EXCEPT ![c] = v],
           size'[c] \in Idx /\ (c \notin Batches => size'[c] = 1),
           UNCHANGED <<left, res, lock, kind, machine, bins, proc, truth, capt, wrote, pending, ring,
                       tries, exits, usable>>
    PROVE  SandboxInv'
<1>1. Typed /\ PlaceInv(c) /\ ProcInv(c) /\ ResInv(c)
  BY TypedMeans DEF SandboxInv
<1>2. /\ path' = [path EXCEPT ![c] = p]
      /\ pc' = [pc EXCEPT ![c] = IF c \in Jobs THEN "exec" ELSE "lock"]
  BY DEF Available, Go
<1>3. {"exec", "lock"} \subseteq AnyPC
  BY DEF AnyPC
<1>4. \A d \in Calls \ {c} : SameAt(d)
  BY <1>1, <1>2, SameOthers
<1>5. truth[c] = <<>> /\ Len(<<>>) = 0 /\ size'[c] \in Nat /\ proc[c] = "none"
  BY <1>1, EmptySeq, SandboxAssumption DEF ProcInv, Idx
<1>6. \A d \in Calls : Len(truth[d]) <= size'[d]
  <2>1. ASSUME NEW d \in Calls, d # c PROVE Len(truth[d]) <= size'[d]
    BY <1>1, <1>4, <2>1 DEF Typed, SameAt
  <2>2. Len(truth[c]) <= size'[c]
    BY <1>5
  <2> QED BY <2>1, <2>2
<1>7. Typed'
  <2>1. pc' \in [Calls -> AnyPC]
    BY <1>1, <1>2, <1>3 DEF Typed
  <2>2. path' \in [Calls -> Paths \cup {NoPath}]
    BY <1>1, <1>2 DEF Typed
  <2> QED BY <1>1, <1>6, <2>1, <2>2 DEF Typed
<1>8. HostOnly(c)
  BY <1>4, <1>5 DEF HostOnly, Early
<1>9. pc'[c] \in {"exec", "lock"} /\ (pc'[c] = "exec" <=> c \in Jobs)
  BY <1>1, <1>2 DEF Typed
<1>10. Len(exits[c]) <= size'[c]
  <2>1. exits[c] = <<>>
    BY <1>1 DEF ResInv
  <2> QED BY <1>5, <2>1
<1> QED BY <1>7, <1>8, <1>9, <1>10, EarlyStep DEF Early

\* The ends and the search of a probe.
LEMMA SearchInv ==
    ASSUME SandboxInv, NEW c \in Calls, pc[c] \in Early \ {"exec"},
           NEW where \in {"stat", "banner", "version", "makedir", "upload"}, Go(c, where),
           path' \in [Calls -> Paths \cup {NoPath}], left' \in [Calls -> Seq(Paths)],
           left' = left \/ \E v : left' = [left EXCEPT ![c] = v],
           where = "stat" => left'[c] # <<>>,
           where \in {"makedir", "upload"} => c \in Deploys,
           cache' \in Paths \cup {NoPath},
           bins' \in [Paths -> {"none", "part", "old", "new"}],
           size' \in [Calls -> 0..SANDBOXVM_MAX_GUESTS],
           size' = size \/ \E v : size' = [size EXCEPT ![c] = v],
           size'[c] \in Idx /\ (c \notin Batches => size'[c] = 1),
           UNCHANGED <<res, lock, kind, machine, proc, truth, capt, wrote, pending, ring,
                       tries, exits, usable>>
    PROVE  SandboxInv'
<1>1. Typed /\ PlaceInv(c) /\ ProcInv(c) /\ ResInv(c)
  BY TypedMeans DEF SandboxInv
<1>2. pc' = [pc EXCEPT ![c] = where] /\ where \in AnyPC /\ where \in Early
  BY DEF Go, AnyPC, Early
<1>3. \A d \in Calls \ {c} : SameAt(d)
  BY <1>1, <1>2, SameOthers
<1>4. /\ truth[c] = <<>> /\ exits[c] = <<>> /\ Len(<<>>) = 0 /\ size'[c] \in Nat
      /\ proc[c] = "none"
  BY <1>1, EmptySeq, SandboxAssumption DEF ProcInv, ResInv, Idx
<1>5. \A d \in Calls : Len(truth[d]) <= size'[d]
  <2>1. ASSUME NEW d \in Calls, d # c PROVE Len(truth[d]) <= size'[d]
    BY <1>1, <1>3, <2>1 DEF Typed, SameAt
  <2>2. Len(truth[c]) <= size'[c]
    BY <1>4
  <2> QED BY <2>1, <2>2
<1>6. Typed'
  <2>1. pc' \in [Calls -> AnyPC]
    BY <1>1, <1>2 DEF Typed
  <2> QED BY <1>1, <1>5, <2>1 DEF Typed
<1>7. HostOnly(c)
  BY <1>3, <1>4 DEF HostOnly, Early
<1>8. pc'[c] = where
  BY <1>1, <1>2 DEF Typed
<1>9. Len(exits[c]) <= size'[c]
  BY <1>4
<1> QED BY <1>2, <1>6, <1>7, <1>8, <1>9, EarlyStep

LEMMA SearchEndInv ==
    ASSUME SandboxInv, NEW c \in Calls, pc[c] \in Early \ {"exec"},
           NEW st \in {"ok", "raised"}, Return(c, [NoRes EXCEPT !.st = st]),
           st = "ok" => c \notin Runners,
           cache' \in Paths \cup {NoPath},
           bins' \in [Paths -> {"none", "part", "old", "new"}],
           size' \in [Calls -> 0..SANDBOXVM_MAX_GUESTS],
           size' = size \/ \E v : size' = [size EXCEPT ![c] = v],
           left' \in [Calls -> Seq(Paths)],
           left' = left \/ \E v : left' = [left EXCEPT ![c] = v],
           UNCHANGED <<path, lock, kind, machine, proc, truth, capt, wrote, pending, ring,
                       tries, exits, usable>>
    PROVE  SandboxInv'
<1>1. Typed /\ PlaceInv(c) /\ ProcInv(c) /\ ResInv(c)
  BY TypedMeans DEF SandboxInv
<1>2. /\ pc' = [pc EXCEPT ![c] = "done"] /\ "done" \in AnyPC
      /\ res' = [res EXCEPT ![c] = [NoRes EXCEPT !.st = st]]
      /\ [NoRes EXCEPT !.st = st] \in Result
  BY PlainResult DEF Return, Go, AnyPC
<1>3. \A d \in Calls \ {c} : SameAt(d)
  BY <1>1, <1>2, SameOthers
<1>4. /\ truth[c] = <<>> /\ exits[c] = <<>> /\ Len(<<>>) = 0 /\ size'[c] \in Nat
      /\ proc[c] = "none"
  BY <1>1, EmptySeq, SandboxAssumption DEF ProcInv, ResInv
<1>5. \A d \in Calls : Len(truth[d]) <= size'[d]
  <2>1. ASSUME NEW d \in Calls, d # c PROVE Len(truth[d]) <= size'[d]
    BY <1>1, <1>3, <2>1 DEF Typed, SameAt
  <2>2. Len(truth[c]) <= size'[c]
    BY <1>4
  <2> QED BY <2>1, <2>2
<1>6. Typed'
  <2>1. pc' \in [Calls -> AnyPC] /\ res' \in [Calls -> Result]
    BY <1>1, <1>2 DEF Typed
  <2> QED BY <1>1, <1>5, <2>1 DEF Typed
<1>7. HostOnly(c)
  BY <1>3, <1>4 DEF HostOnly, Early
<1>8. lock' # c /\ Len(exits'[c]) <= size'[c]
  BY <1>1, <1>4 DEF PlaceInv, Section, Early
<1> QED BY <1>6, <1>7, <1>8, PlainEnd

LEMMA BeginInv ==
    ASSUME SandboxInv, NEW c \in Calls, Begin(c)
    PROVE  SandboxInv'
<1>1. /\ Typed /\ pc[c] \in Early \ {"exec"} /\ pc[c] = "idle"
      /\ UNCHANGED <<cache, lock, kind, machine, bins, proc, truth, capt, wrote, pending, ring,
                     tries, exits, usable>>
  BY TypedMeans DEF SandboxInv, Begin, target, Early
<1>2. cache' \in Paths \cup {NoPath} /\ bins' \in [Paths -> {"none", "part", "old", "new"}]
  BY <1>1 DEF Typed
<1>3. PICK n \in 0..SANDBOXVM_MAX_GUESTS + 1 :
         /\ n = 1 \/ c \in Batches
         /\ \/ /\ ~GuestCount(n)
               /\ Return(c, [NoRes EXCEPT !.st = "raised"])
               /\ UNCHANGED <<path, left, size>>
            \/ /\ GuestCount(n)
               /\ size' = [size EXCEPT ![c] = n]
               /\ \/ /\ c \in Runners /\ cache # NoPath
                     /\ Available(c, cache)
                     /\ UNCHANGED <<left, res>>
                  \/ /\ c \in Probes \/ (c \in Runners /\ cache = NoPath)
                     /\ ProbeStart(c)
                     /\ UNCHANGED path
                  \/ /\ c \in Deploys
                     /\ Go(c, "makedir")
                     /\ UNCHANGED <<path, left, res>>
  BY DEF Begin
<1>4. CASE Return(c, [NoRes EXCEPT !.st = "raised"]) /\ UNCHANGED <<path, left, size>>
  <2>1. size' \in [Calls -> 0..SANDBOXVM_MAX_GUESTS] /\ left' \in [Calls -> Seq(Paths)]
    BY <1>1, <1>4 DEF Typed
  <2> QED BY <1>1, <1>2, <1>4, <2>1, SearchEndInv
<1>5. ASSUME GuestCount(n), size' = [size EXCEPT ![c] = n]
      PROVE  /\ size' \in [Calls -> 0..SANDBOXVM_MAX_GUESTS]
             /\ size'[c] \in Idx /\ (c \notin Batches => size'[c] = 1)
  BY <1>1, <1>3, <1>5, SandboxAssumption DEF Typed, GuestCount, Idx
<1>6. CASE /\ GuestCount(n) /\ size' = [size EXCEPT ![c] = n] /\ c \in Runners
           /\ cache # NoPath /\ Available(c, cache) /\ UNCHANGED <<left, res>>
  <2>1. cache \in Paths
    BY <1>1, <1>6 DEF Typed
  <2> QED BY <1>1, <1>2, <1>5, <1>6, <2>1, AvailableInv
<1>7. CASE /\ GuestCount(n) /\ size' = [size EXCEPT ![c] = n]
           /\ c \in Probes \/ c \in Runners
           /\ ProbeStart(c) /\ UNCHANGED path
  <2>1. path' \in [Calls -> Paths \cup {NoPath}]
    BY <1>1, <1>7 DEF Typed
  <2>2. CASE machine = "pegasos2"
    <3> DEFINE st == IF c \in Probes THEN "ok" ELSE "raised"
    <3>1. Return(c, [NoRes EXCEPT !.st = st]) /\ UNCHANGED left
      BY <1>7, <2>2 DEF ProbeStart
    <3>2. st \in {"ok", "raised"} /\ (st = "ok" => c \notin Runners)
      BY KindFacts
    <3>3. left' \in [Calls -> Seq(Paths)]
      BY <1>1, <3>1 DEF Typed
    <3> HIDE DEF st
    <3> QED BY <1>1, <1>2, <1>5, <1>7, <3>1, <3>2, <3>3, SearchEndInv
  <2>3. CASE machine # "pegasos2"
    <3>1. /\ left' = [left EXCEPT ![c] = DEFAULT_AOS_SEARCH] /\ Go(c, "stat")
          /\ UNCHANGED res
      BY <1>7, <2>3 DEF ProbeStart
    <3>2. left' \in [Calls -> Seq(Paths)] /\ left'[c] # <<>>
      BY <1>1, <3>1, SandboxAssumption DEF Typed
    <3> QED BY <1>1, <1>2, <1>5, <1>7, <2>1, <3>1, <3>2, SearchInv
  <2> QED BY <2>2, <2>3
<1>8. CASE /\ GuestCount(n) /\ size' = [size EXCEPT ![c] = n] /\ c \in Deploys
           /\ Go(c, "makedir") /\ UNCHANGED <<path, left, res>>
  <2>1. path' \in [Calls -> Paths \cup {NoPath}] /\ left' \in [Calls -> Seq(Paths)]
    BY <1>1, <1>8 DEF Typed
  <2> QED BY <1>1, <1>2, <1>5, <1>8, <2>1, SearchInv
<1> QED BY <1>3, <1>4, <1>6, <1>7, <1>8

\* At a probe's await the call's size is the one it began with.
LEMMA UnderWay ==
    ASSUME SandboxInv, NEW c \in Calls, pc[c] \notin {"idle", "done"}
    PROVE  size[c] \in Idx /\ (c \notin Batches => size[c] = 1)
BY DEF SandboxInv, ProcInv

LEMMA ProbeFailsInv ==
    ASSUME SandboxInv, NEW c \in Calls, pc[c] \in Early \ {"exec"}, ProbeFails(c),
           UNCHANGED <<lock, kind, machine, bins, proc, truth, capt, wrote, pending, ring, size,
                       tries, exits, usable>>
    PROVE  SandboxInv'
<1> DEFINE st == IF c \in Runners THEN "raised" ELSE "ok"
<1>1. /\ Return(c, [NoRes EXCEPT !.st = st]) /\ UNCHANGED <<path, cache>>
      /\ left' = [left EXCEPT ![c] = <<>>]
  BY DEF ProbeFails
<1>2. st \in {"ok", "raised"} /\ (st = "ok" => c \notin Runners)
  OBVIOUS
<1>3. /\ cache' \in Paths \cup {NoPath} /\ bins' \in [Paths -> {"none", "part", "old", "new"}]
      /\ size' \in [Calls -> 0..SANDBOXVM_MAX_GUESTS]
  BY <1>1, TypedMeans DEF SandboxInv, Typed
<1>4. left' \in [Calls -> Seq(Paths)]
  <2>1. <<>> \in Seq(Paths)
    BY EmptySeq
  <2> QED BY <1>1, <2>1, TypedMeans DEF SandboxInv, Typed
<1> HIDE DEF st
<1> QED BY <1>1, <1>2, <1>3, <1>4, SearchEndInv

LEMMA ProbeSucceedsInv ==
    ASSUME SandboxInv, NEW c \in Calls, pc[c] \in {"banner", "version"}, ProbeSucceeds(c),
           UNCHANGED <<lock, kind, machine, bins, proc, truth, capt, wrote, pending, ring, size,
                       tries, exits, usable>>
    PROVE  SandboxInv'
<1>1. /\ Typed /\ cache' = path[c] /\ UNCHANGED left /\ pc[c] \in Early \ {"exec"}
      /\ size[c] \in Idx /\ (c \notin Batches => size[c] = 1)
  BY TypedMeans, UnderWay DEF SandboxInv, ProbeSucceeds, Early
<1>2. /\ cache' \in Paths \cup {NoPath} /\ bins' \in [Paths -> {"none", "part", "old", "new"}]
      /\ size' \in [Calls -> 0..SANDBOXVM_MAX_GUESTS] /\ path[c] \in Paths \cup {NoPath}
      /\ left' \in [Calls -> Seq(Paths)]
  BY <1>1 DEF Typed
<1>3. CASE c \in Runners
  <2>1. Available(c, path[c]) /\ UNCHANGED res
    BY <1>3 DEF ProbeSucceeds
  <2> QED BY <1>1, <1>2, <1>3, <2>1, AvailableInv
<1>4. CASE c \notin Runners
  <2>1. Return(c, [NoRes EXCEPT !.st = "ok"]) /\ UNCHANGED path
    BY <1>4 DEF ProbeSucceeds
  <2> QED BY <1>1, <1>2, <1>4, <2>1, SearchEndInv
<1> QED BY <1>3, <1>4

LEMMA ProbeStatInv ==
    ASSUME SandboxInv, NEW c \in Calls, ProbeStat(c)
    PROVE  SandboxInv'
<1>1. /\ Typed /\ pc[c] = "stat" /\ pc[c] \in Early \ {"exec"} /\ left[c] # <<>>
      /\ UNCHANGED <<lock, kind, machine, bins, proc, truth, capt, wrote, pending, ring, size,
                     tries, exits, usable>>
      /\ size[c] \in Idx /\ (c \notin Batches => size[c] = 1)
  BY TypedMeans, UnderWay DEF SandboxInv, ProbeStat, target, Early, PlaceInv
<1>2. /\ bins' \in [Paths -> {"none", "part", "old", "new"}]
      /\ size' \in [Calls -> 0..SANDBOXVM_MAX_GUESTS] /\ left[c] \in Seq(Paths)
  BY <1>1 DEF Typed
<1>3. CASE /\ path' = [path EXCEPT ![c] = Head(left[c])] /\ Go(c, "banner")
           /\ left' = [left EXCEPT ![c] = <<>>] /\ UNCHANGED <<res, cache>>
  <2>1. Head(left[c]) \in Paths /\ <<>> \in Seq(Paths)
    BY <1>1, <1>2, HeadTailProperties, EmptySeq
  <2>2. /\ path' \in [Calls -> Paths \cup {NoPath}] /\ left' \in [Calls -> Seq(Paths)]
        /\ cache' \in Paths \cup {NoPath}
    BY <1>1, <1>3, <2>1 DEF Typed
  <2> QED BY <1>1, <1>2, <1>3, <2>2, SearchInv
<1>4. CASE /\ Len(left[c]) > 1 /\ left' = [left EXCEPT ![c] = Tail(@)]
           /\ UNCHANGED <<pc, path, res, cache>>
  <2>1. Tail(left[c]) \in Seq(Paths) /\ Len(Tail(left[c])) = Len(left[c]) - 1
    BY <1>1, <1>2, HeadTailProperties
  <2>2. Tail(left[c]) # <<>>
    <3>1. Len(left[c]) \in Nat /\ Len(<<>>) = 0
      BY <1>2, LenProperties, EmptySeq
    <3> DEFINE t == Tail(left[c])
    <3>2. Len(t) > 0
      BY <1>4, <2>1, <3>1
    <3> HIDE DEF t
    <3>3. t # <<>>
      BY <3>1, <3>2
    <3> QED BY <3>3 DEF t
  <2>3. /\ path' \in [Calls -> Paths \cup {NoPath}] /\ left' \in [Calls -> Seq(Paths)]
        /\ cache' \in Paths \cup {NoPath} /\ left'[c] # <<>>
        /\ left' = [left EXCEPT ![c] = Tail(left[c])]
    BY <1>1, <1>4, <2>1, <2>2 DEF Typed
  <2>4. Go(c, "stat")
    BY <1>1, <1>4 DEF Typed, Go
  <2> QED BY <1>1, <1>2, <1>4, <2>3, <2>4, SearchInv
<1>5. CASE ProbeFails(c)
  BY <1>1, <1>5, ProbeFailsInv
<1> QED BY <1>3, <1>4, <1>5 DEF ProbeStat

LEMMA ProbeBannerInv ==
    ASSUME SandboxInv, NEW c \in Calls, ProbeBanner(c)
    PROVE  SandboxInv'
<1>1. /\ Typed /\ pc[c] = "banner" /\ pc[c] \in Early \ {"exec"}
      /\ UNCHANGED <<lock, kind, machine, bins, proc, truth, capt, wrote, pending, ring, size,
                     tries, exits, usable>>
      /\ size[c] \in Idx /\ (c \notin Batches => size[c] = 1)
  BY TypedMeans, UnderWay DEF SandboxInv, ProbeBanner, target, Early
<1>2. CASE ProbeSucceeds(c)
  BY <1>1, <1>2, ProbeSucceedsInv
<1>3. CASE Go(c, "version") /\ UNCHANGED <<path, left, res, cache>>
  <2>1. /\ bins' \in [Paths -> {"none", "part", "old", "new"}]
        /\ size' \in [Calls -> 0..SANDBOXVM_MAX_GUESTS]
        /\ path' \in [Calls -> Paths \cup {NoPath}] /\ left' \in [Calls -> Seq(Paths)]
        /\ cache' \in Paths \cup {NoPath}
    BY <1>1, <1>3 DEF Typed
  <2> QED BY <1>1, <1>3, <2>1, SearchInv
<1>4. CASE ProbeFails(c)
  BY <1>1, <1>4, ProbeFailsInv
<1> QED BY <1>2, <1>3, <1>4 DEF ProbeBanner

LEMMA ProbeVersionInv ==
    ASSUME SandboxInv, NEW c \in Calls, ProbeVersion(c)
    PROVE  SandboxInv'
BY ProbeSucceedsInv DEF ProbeVersion, target

LEMMA DeployMakeDirInv ==
    ASSUME SandboxInv, NEW c \in Calls, DeployMakeDir(c)
    PROVE  SandboxInv'
<1>1. /\ Typed /\ pc[c] = "makedir" /\ pc[c] \in Early \ {"exec"} /\ c \in Deploys
      /\ bins' = [bins EXCEPT ![DeployPath] = "part"] /\ Go(c, "upload")
      /\ UNCHANGED <<path, cache, lock, left, size, tries, exits, usable, res, kind,
                     machine, proc, truth, capt, wrote, pending, ring>>
      /\ size[c] \in Idx /\ (c \notin Batches => size[c] = 1)
  BY TypedMeans, UnderWay DEF SandboxInv, DeployMakeDir, host, Early, PlaceInv
<1>2. /\ bins' \in [Paths -> {"none", "part", "old", "new"}]
      /\ size' \in [Calls -> 0..SANDBOXVM_MAX_GUESTS]
      /\ path' \in [Calls -> Paths \cup {NoPath}] /\ left' \in [Calls -> Seq(Paths)]
      /\ cache' \in Paths \cup {NoPath}
  BY <1>1 DEF Typed
<1> QED BY <1>1, <1>2, SearchInv

LEMMA DeployUploadedInv ==
    ASSUME SandboxInv, NEW c \in Calls, DeployUploaded(c)
    PROVE  SandboxInv'
<1>1. /\ Typed /\ pc[c] = "upload" /\ pc[c] \in Early \ {"exec"} /\ c \in Deploys
      /\ bins' = [bins EXCEPT ![DeployPath] = "new"] /\ cache' = NoPath
      /\ UNCHANGED <<path, lock, size, tries, exits, usable, kind,
                     machine, proc, truth, capt, wrote, pending, ring>>
      /\ size[c] \in Idx /\ (c \notin Batches => size[c] = 1)
  BY TypedMeans, UnderWay DEF SandboxInv, DeployUploaded, Early, PlaceInv
<1>2. /\ bins' \in [Paths -> {"none", "part", "old", "new"}]
      /\ size' \in [Calls -> 0..SANDBOXVM_MAX_GUESTS]
      /\ path' \in [Calls -> Paths \cup {NoPath}] /\ cache' \in Paths \cup {NoPath}
  BY <1>1 DEF Typed
<1>3. CASE Return(c, [NoRes EXCEPT !.st = "ok"]) /\ UNCHANGED left
  <2>1. left' \in [Calls -> Seq(Paths)]
    BY <1>1, <1>3 DEF Typed
  <2> QED BY <1>1, <1>2, <1>3, <2>1, KindFacts, SearchEndInv
<1>4. CASE left' = [left EXCEPT ![c] = <<DeployPath>>] /\ Go(c, "stat") /\ UNCHANGED res
  <2>1. <<DeployPath>> \in Seq(Paths) /\ <<DeployPath>> # <<>>
    BY SandboxAssumption
  <2>2. left' \in [Calls -> Seq(Paths)] /\ left'[c] # <<>>
    BY <1>1, <1>4, <2>1 DEF Typed
  <2> QED BY <1>1, <1>2, <1>4, <2>2, SearchInv
<1> QED BY <1>3, <1>4 DEF DeployUploaded, PinnedProbe

LEMMA CacheExpiresInv ==
    ASSUME SandboxInv, CacheExpires
    PROVE  SandboxInv'
<1>1. /\ cache' = NoPath
      /\ UNCHANGED <<pc, path, lock, left, size, tries, exits, usable, res, kind,
                     machine, bins, proc, truth, capt, wrote, pending, ring>>
  BY DEF CacheExpires, target, host
<1>2. Typed /\ Typed'
  <2>1. Typed
    BY TypedMeans DEF SandboxInv
  <2> QED BY <1>1, <2>1 DEF Typed
<1>3. EndsStay /\ \A d \in Calls : SameAt(d)
  BY <1>1 DEF EndsStay, SameAt
<1>4. \A d \in Calls : CallInv(d)' /\ OwnInv(d)'
  BY <1>1, <1>3, CallKept, OwnKept DEF SandboxInv, CallInv
<1>5. \A n \in Names : FileInv(n)'
  BY <1>1, <1>2, FileKept DEF SandboxInv
<1> QED BY <1>2, <1>4, <1>5, TypedMeansNext DEF SandboxInv, CallInv

----------------------------------------------------------------------------
(* The first and the last of some numbers.                                 *)

LEMMA SmallestIs ==
    ASSUME NEW S \in SUBSET Nat, S # {}
    PROVE  \E m \in S : \A k \in S : m <= k
<1>1. PICK R : IsWellFoundedOn(R, Nat) /\ \A x, y \in Nat : x < y => <<x, y>> \in R
  <2>1. \A x, y \in Nat : x < y => <<x, y>> \in OpToRel(<, Nat)
    BY DEF OpToRel
  <2> QED BY <2>1, NatLessThanWellFounded
<1>2. PICK m \in S : \A y \in S : ~(<<y, m>> \in R)
  <2>1. \A Q, U, V : IsWellFoundedOn(Q, U) /\ V \subseteq U /\ V # {}
                       => \E x \in V : \A y \in V : ~(<<y, x>> \in Q)
    BY WFMin, Zenon
  <2>2. S \subseteq Nat /\ S # {}
    OBVIOUS
  <2>3. IsWellFoundedOn(R, Nat)
    BY <1>1, Zenon
  <2> QED BY <2>1, <2>2, <2>3, Zenon
<1>3. ASSUME NEW k \in S PROVE m <= k
  <2>1. m \in Nat /\ k \in Nat
    OBVIOUS
  <2>2. ~(k < m)
    BY <1>1, <1>2, <2>1, Zenon
  <2> QED BY <2>1, <2>2
<1> QED BY <1>3

LEMMA LargestIs ==
    ASSUME NEW n \in Nat, NEW S \in SUBSET (1..n), S # {}
    PROVE  \E m \in S : \A k \in S : k <= m
<1>1. PICK T : T = {n - k : k \in S}
  OBVIOUS
<1>2. T \in SUBSET Nat
  <2>1. \A k \in S : n - k \in Nat
    OBVIOUS
  <2>2. \A y \in T : \E k \in S : y = n - k
    BY <1>1
  <2> QED BY <2>1, <2>2
<1>3. T # {}
  <2>1. PICK s \in S : TRUE
    OBVIOUS
  <2>2. n - s \in T
    BY <1>1
  <2> QED BY <2>2
<1>4. PICK x \in T : \A y \in T : x <= y
  BY <1>2, <1>3, SmallestIs
<1>5. PICK m \in S : x = n - m
  BY <1>1, <1>4
<1>6. ASSUME NEW k \in S PROVE k <= m
  <2>1. n - k \in T
    BY <1>1
  <2>2. n - m <= n - k
    BY <1>4, <1>5, <2>1
  <2> QED BY <2>2
<1> QED BY <1>6

----------------------------------------------------------------------------
(* What is read back.                                                      *)

LEMMA LastNonzeroIn ==
    ASSUME NEW t \in Seq(GuestRC), Nonzero(t) # {}
    PROVE  LastNonzero(t) \in GuestRC /\ LastNonzero(t) # 0
<1>1. Len(t) \in Nat /\ DOMAIN t = 1..Len(t)
  BY LenProperties
<1>2. Nonzero(t) \in SUBSET (1..Len(t))
  BY <1>1 DEF Nonzero
<1>3. \E m \in Nonzero(t) : \A k \in Nonzero(t) : k <= m
  BY <1>1, <1>2, LargestIs
<1>4. PICK m \in Nonzero(t) : LastNonzero(t) = t[m]
  BY <1>3 DEF LastNonzero
<1>5. m \in 1..Len(t) /\ t[m] # 0
  BY <1>2, <1>4 DEF Nonzero
<1> QED BY <1>4, <1>5, ElementOfSeq

\* A process leaves with 0 only when all its guests returned 0.
LEMMA ExitCodeFacts ==
    ASSUME Typed, NEW c \in Calls
    PROVE  /\ ExitCode(c) \in ExitCodes
           /\ ExitCode(c) = 0 => /\ proc[c] # "aborted" /\ truth[c] # <<>>
                                 /\ \A i \in 1..Len(truth[c]) : truth[c][i] = 0
<1>1. truth[c] \in Seq(GuestRC) /\ DOMAIN truth[c] = 1..Len(truth[c])
  BY LenProperties DEF Typed
<1>2. {0, 20, 50, 51} \subseteq ExitCodes /\ GuestRC \subseteq ExitCodes
  BY SandboxAssumption
     DEF ExitCodes, SANDBOXVM_RC_TRAP, SANDBOXVM_RC_ABORTED, Vectors, TRAP_KIND_BY_EXIT_CODE
<1>3. CASE proc[c] = "aborted"
  BY <1>2, <1>3 DEF ExitCode, SANDBOXVM_RC_ABORTED
<1>4. CASE proc[c] # "aborted" /\ truth[c] = <<>>
  BY <1>2, <1>4 DEF ExitCode
<1>5. CASE proc[c] # "aborted" /\ truth[c] # <<>> /\ Nonzero(truth[c]) = {}
  <2>1. ExitCode(c) = 0
    BY <1>5 DEF ExitCode
  <2>2. \A i \in 1..Len(truth[c]) : truth[c][i] = 0
    BY <1>1, <1>5 DEF Nonzero
  <2> QED BY <1>2, <1>5, <2>1, <2>2
<1>6. CASE proc[c] # "aborted" /\ truth[c] # <<>> /\ Nonzero(truth[c]) # {}
  <2>1. LastNonzero(truth[c]) \in GuestRC /\ LastNonzero(truth[c]) # 0
    BY <1>1, <1>6, LastNonzeroIn
  <2>2. ExitCode(c) = 50 \/ ExitCode(c) = LastNonzero(truth[c])
    BY <1>6 DEF ExitCode, SANDBOXVM_RC_TRAP
  <2> QED BY <1>2, <2>1, <2>2
<1> QED BY <1>3, <1>4, <1>5, <1>6

LEMMA ExitLinesFacts ==
    ASSUME NEW lines \in Seq(Line)
    PROVE  /\ ExitLines(lines) \in SUBSET (1..Len(lines))
           /\ Len(lines) \in Nat /\ IsFiniteSet(ExitLines(lines))
           /\ Cardinality(ExitLines(lines)) \in Nat
           /\ \A p \in ExitLines(lines) : lines[p].rc \in GuestRC
<1>1. Len(lines) \in Nat /\ DOMAIN lines = 1..Len(lines)
  BY LenProperties
<1>2. ExitLines(lines) \in SUBSET (1..Len(lines))
  BY <1>1 DEF ExitLines
<1>3. IsFiniteSet(1..Len(lines))
  <2>1. 1 \in Int /\ Len(lines) \in Int
    BY <1>1
  <2> QED BY <2>1, FS_Interval, Zenon
<1>4. IsFiniteSet(ExitLines(lines)) /\ Cardinality(ExitLines(lines)) \in Nat
  BY <1>2, <1>3, FS_Subset, FS_CardinalityType
<1>5. ASSUME NEW p \in ExitLines(lines) PROVE lines[p].rc \in GuestRC
  <2>1. lines[p] \in Line
    BY <1>2, ElementOfSeq
  <2> QED BY <2>1 DEF Line
<1> QED BY <1>1, <1>2, <1>4, <1>5

\* Counted from the end, there is a first, a second ... of some numbers.
LEMMA FromTheEnd ==
    ASSUME NEW n \in Nat, NEW E \in SUBSET (1..n), IsFiniteSet(E),
           NEW k \in Nat, k >= 1, k <= Cardinality(E)
    PROVE  \E p \in E : Cardinality({q \in E : q >= p}) = k
<1> DEFINE From(x) == {q \in E : q >= x}
<1>1. \A x : IsFiniteSet(From(x)) /\ Cardinality(From(x)) \in Nat
  BY FS_Subset, FS_CardinalityType
<1>2. E # {} /\ Cardinality(E) \in Nat
  BY FS_EmptySet, FS_CardinalityType
<1>3. E \in SUBSET Nat
  OBVIOUS
<1>4. PICK T : T = {x \in E : Cardinality(From(x)) >= k}
  OBVIOUS
<1>5. T \in SUBSET (1..n) /\ T # {}
  <2>1. PICK m \in E : \A q \in E : m <= q
    BY <1>2, <1>3, SmallestIs
  <2>2. From(m) = E
    BY <1>3, <2>1
  <2>3. m \in T
    BY <1>4, <2>2
  <2> QED BY <1>4, <2>3
<1>6. PICK p \in T : \A q \in T : q <= p
  BY <1>5, LargestIs
<1>7. p \in E /\ p \in Nat /\ Cardinality(From(p)) >= k
  BY <1>3, <1>4, <1>6
<1>8. PICK U : U = {q \in E : q > p}
  OBVIOUS
<1>9. p \notin U /\ U \in SUBSET E
  BY <1>3, <1>7, <1>8
<1>10. From(p) = U \cup {p}
  <2>1. \A q \in E : q \in From(p) <=> q \in U \/ q = p
    <3>1. ASSUME NEW q \in E PROVE q >= p <=> q > p \/ q = p
      <4>1. q \in Nat /\ p \in Nat
        BY <1>3, <1>7
      <4> QED BY <4>1
    <3> QED BY <1>8, <3>1
  <2>2. From(p) \subseteq E /\ U \cup {p} \subseteq E
    BY <1>7, <1>9
  <2> HIDE DEF From
  <2> QED BY <2>1, <2>2
<1>11. IsFiniteSet(U) /\ Cardinality(U) \in Nat
  BY <1>9, FS_Subset, FS_CardinalityType
<1>12. Cardinality(From(p)) = Cardinality(U) + 1
  BY <1>9, <1>10, <1>11, FS_AddElement
<1>13. Cardinality(U) < k
  <2>1. CASE U = {}
    BY <2>1, FS_EmptySet
  <2>2. CASE U # {}
    <3>1. U \in SUBSET Nat
      BY <1>3, <1>9
    <3>2. PICK q \in U : \A r \in U : q <= r
      BY <2>2, <3>1, SmallestIs
    <3>3. q \in E /\ q \in Nat /\ q > p
      BY <1>3, <1>8, <3>1
    <3>4. From(q) = U
      <4>1. \A r \in E : r \in From(q) <=> r \in U
        <5>1. ASSUME NEW r \in E, r >= q PROVE r \in U
          <6>1. r \in Nat /\ p \in Nat /\ q \in Nat /\ q > p
            BY <1>3, <1>7, <3>3
          <6>2. r > p
            BY <5>1, <6>1
          <6> QED BY <1>8, <6>2
        <5>2. ASSUME NEW r \in U PROVE r >= q
          <6>1. r \in Nat /\ q \in Nat /\ q <= r
            BY <3>1, <3>2, <3>3
          <6> QED BY <6>1
        <5> QED BY <5>1, <5>2
      <4>2. From(q) \subseteq E
        OBVIOUS
      <4> HIDE DEF From
      <4> QED BY <1>9, <4>1, <4>2
    <3>5. q \notin T
      BY <1>6, <1>7, <3>3
    <3>6. ~(Cardinality(From(q)) >= k)
      BY <1>4, <3>3, <3>5
    <3> QED BY <1>11, <3>4, <3>6
  <2> QED BY <2>1, <2>2
<1>14. Cardinality(From(p)) = k
  BY <1>7, <1>11, <1>12, <1>13
<1> QED BY <1>7, <1>14

LEMMA ExitLineAt ==
    ASSUME NEW lines \in Seq(Line), NEW k \in 1..Cardinality(ExitLines(lines))
    PROVE  \E p \in ExitLines(lines) : ExitsFrom(lines, p) = k
<1>1. /\ ExitLines(lines) \in SUBSET (1..Len(lines)) /\ Len(lines) \in Nat
      /\ IsFiniteSet(ExitLines(lines)) /\ Cardinality(ExitLines(lines)) \in Nat
  BY ExitLinesFacts
<1>2. k \in Nat /\ k >= 1 /\ k <= Cardinality(ExitLines(lines))
  BY <1>1
<1> QED BY <1>1, <1>2, FromTheEnd DEF ExitsFrom

LEMMA PerGuestExitsType ==
    ASSUME NEW lines \in Seq(Line), NEW n \in Nat
    PROVE  /\ PerGuestExits(lines, n) \in Seq(GuestRC)
           /\ Len(PerGuestExits(lines, n)) <= n
<1> DEFINE all == Cardinality(ExitLines(lines))
           m == IF all > n THEN n ELSE all
           at(i) == lines[CHOOSE p \in ExitLines(lines) : ExitsFrom(lines, p) = m + 1 - i].rc
<1>1. all \in Nat /\ \A p \in ExitLines(lines) : lines[p].rc \in GuestRC
  BY ExitLinesFacts
<1>2. m \in Nat /\ m <= all /\ m <= n
  BY <1>1
<1>3. ASSUME NEW i \in 1..m PROVE at(i) \in GuestRC
  <2>1. m + 1 - i \in 1..all
    BY <1>1, <1>2
  <2>2. \E p \in ExitLines(lines) : ExitsFrom(lines, p) = m + 1 - i
    BY <2>1, ExitLineAt
  <2> QED BY <1>1, <2>2
<1>4. PerGuestExits(lines, n) = [i \in 1..m |-> at(i)]
  BY DEF PerGuestExits
<1> HIDE DEF m, at
<1>5. [i \in 1..m |-> at(i)] \in Seq(GuestRC) /\ Len([i \in 1..m |-> at(i)]) = m
  BY <1>2, <1>3
<1> QED BY <1>2, <1>4, <1>5

----------------------------------------------------------------------------
(* Names of capture files, and who can still be writing to one.            *)

LEMMA NamesApart ==
    ASSUME NEW c, NEW d, NEW i, NEW j, NameOf(c, i) = NameOf(d, j)
    PROVE  /\ c \in Jobs => d = c
           /\ d \in Jobs => d = c
           /\ c = d /\ c \in Batches => i = j
<1>1. c \in Batches => c \notin Jobs
  BY DEF Batches, Jobs
<1> QED BY <1>1 DEF NameOf, JobName

LEMMA NameOfGuest ==
    ASSUME SandboxInv, NEW c \in Calls, c \in Runners, NEW i \in 1..size[c],
           size[c] \in Idx, c \notin Batches => size[c] = 1
    PROVE  i \in Idx /\ NameOf(c, i) \in Names
<1>1. i \in Idx /\ (c \notin Batches => i = 1)
  BY SandboxAssumption DEF Idx
<1> QED BY <1>1, NameIn, KindFacts

\* Nobody but the job itself writes a job's file.
LEMMA JobFile ==
    ASSUME SandboxInv, NEW c \in Jobs, NEW i, NameOf(c, i) \in Names
    PROVE  capt[NameOf(c, i)] \in {NoRun, <<c, 1>>}
<1>1. Typed /\ FileInv(NameOf(c, i)) /\ c \in Calls
  BY TypedMeans DEF SandboxInv, Jobs
<1>2. capt[NameOf(c, i)] \in Runs \cup {NoRun}
  BY <1>1 DEF Typed
<1>3. CASE capt[NameOf(c, i)] # NoRun
  <2>1. PICK d \in Calls, j \in Idx : capt[NameOf(c, i)] = <<d, j>>
    BY <1>2, <1>3 DEF Runs
  <2>2. proc[d] # "none" /\ j \in 1..size[d] /\ NameOf(d, j) = NameOf(c, i)
    BY <1>1, <1>3, <2>1 DEF FileInv
  <2>3. d = c
    BY <2>2, NamesApart
  <2>4. size[d] = 1
    BY <2>2, <2>3, KindFacts DEF SandboxInv, ProcInv
  <2>5. j = 1
    BY <2>2, <2>4
  <2> QED BY <2>1, <2>3, <2>5
<1> QED BY <1>3

\* A guest that runs while another call holds the lock has outlived its call.
LEMMA LoneRunner ==
    ASSUME SandboxInv, NEW c \in Calls, lock = c, NEW d \in Calls, d # c, d \notin Jobs,
           proc[d] = "running"
    PROVE  res[d].st = "raised"
<1>1. Typed /\ PlaceInv(d) /\ ProcInv(d) /\ ResInv(d)
  BY TypedMeans DEF SandboxInv
<1>2. pc[d] \notin Section /\ pc[d] \notin Early /\ pc[d] \notin Reading /\ pc[d] \in AnyPC
  BY <1>1, SandboxAssumption DEF PlaceInv, ProcInv, Typed, Over
<1>3. pc[d] = "done"
  BY <1>2 DEF Section, Early, Reading, AnyPC
<1>4. res[d].st # "none" /\ res[d].st # "running" /\ res[d].st # "ok"
  BY <1>1, <1>3 DEF ResInv, ProcInv, Over
<1>5. res[d].st \in {"none", "ok", "running", "raised"}
  BY <1>1 DEF Typed, Result
<1> QED BY <1>4, <1>5

\* A guest of c opens a file that call d reads: then c is long gone.
LEMMA OpenedOver ==
    ASSUME SandboxInv, NEW c \in Calls, NEW d \in Calls, c # d, NEW i, NEW j,
           proc[c] = "running", pc[d] \in Opened, NameOf(c, j) = NameOf(d, i)
    PROVE  d \notin Jobs /\ res[c].st = "raised"
<1>1. c \notin Jobs /\ d \notin Jobs
  BY NamesApart
<1>2. PlaceInv(c) /\ PlaceInv(d)
  BY DEF SandboxInv
<1>3. lock = d
  BY <1>1, <1>2 DEF PlaceInv, Opened, Section
<1> QED BY <1>1, <1>3, LoneRunner

\* Whoever has written to a file the holder of the lock reads has left.
LEMMA WriterLeft ==
    ASSUME SandboxInv, NEW c \in Calls, lock = c, NEW n \in SharedNames,
           NEW r \in Runs, r = capt[n]
    PROVE  Left(r, c)
<1>1. PICK d \in Calls, j \in Idx : r = <<d, j>>
  BY DEF Runs
<1>2. n \in Names /\ r # NoRun
  BY <1>1, SandboxAssumption DEF Names, NoRun
<1>3. proc[d] # "none" /\ NameOf(d, j) = n
  <2>1. FileInv(n)
    BY <1>2 DEF SandboxInv
  <2> QED BY <1>1, <1>2, <2>1 DEF FileInv
<1>4. d \notin Jobs
  <2>1. <<"job", d>> \notin SharedNames
    BY DEF SharedNames
  <2> QED BY <1>3, <2>1 DEF NameOf, JobName
<1>5. CASE d = c
  BY <1>1, <1>5 DEF Left
<1>6. CASE d # c
  <2>1. Typed /\ PlaceInv(d) /\ ProcInv(d)
    BY TypedMeans DEF SandboxInv
  <2>2. pc[d] \notin Section /\ pc[d] \notin Early /\ pc[d] \in AnyPC
    BY <1>3, <1>4, <1>6, <2>1 DEF PlaceInv, ProcInv, Typed
  <2>3. pc[d] \in {"trap", "done"}
    BY <2>2 DEF Section, Early, AnyPC
  <2> QED BY <1>1, <2>3 DEF Left
<1> QED BY <1>5, <1>6

----------------------------------------------------------------------------
(* Steps of a process.                                                     *)

LEMMA ExecStartsInv ==
    ASSUME SandboxInv, NEW c \in Calls, ExecStarts(c)
    PROVE  SandboxInv'
<1>1. /\ Typed /\ PlaceInv(c) /\ ProcInv(c) /\ ResInv(c) /\ pc[c] = "exec"
      /\ c \in Runners /\ size[c] \in Idx /\ (c \notin Batches => size[c] = 1)
  BY TypedMeans, UnderWay DEF SandboxInv, ExecStarts, PlaceInv, Section
<1>2. /\ pc' = [pc EXCEPT ![c] = "wait"] /\ "wait" \in AnyPC
      /\ UNCHANGED <<path, cache, lock, left, size, tries, exits, usable, res, kind, machine,
                     bins, truth, capt, wrote, pending, ring>>
  BY DEF ExecStarts, Go, host, AnyPC
<1>3. /\ proc[c] = "none" /\ truth[c] = <<>> /\ wrote[c] = {}
      /\ res[c].entries = <<>> /\ res[c].st = "none"
  BY <1>1 DEF ProcInv, ResInv, Early
<1>4. PICK v \in {"running", "exited"} : proc' = [proc EXCEPT ![c] = v]
  BY DEF ExecStarts
<1>5. proc'[c] = v /\ pc'[c] = "wait"
  BY <1>1, <1>2, <1>4 DEF Typed
<1>6. HostKeeps(c)
  <2>1. \A d \in Calls \ {c} : SameAt(d)
    BY <1>1, <1>2, <1>4, SameOthers
  <2> QED BY <1>1, <1>2, <1>3, <2>1 DEF HostKeeps
<1>7. Typed'
  <2>1. /\ pc' \in [Calls -> AnyPC]
        /\ proc' \in [Calls -> {"none", "running", "exited", "aborted"}]
    BY <1>1, <1>2, <1>4 DEF Typed
  <2> QED BY <1>1, <1>2, <2>1 DEF Typed
<1>8. CallInv(c)'
  <2>1. PlaceInv(c)'
    BY <1>1, <1>2, <1>5, SameSets DEF PlaceInv, Section
  <2>2. Len(<<>>) = 0 /\ size[c] > 0
    BY <1>1, SandboxAssumption, EmptySeq DEF Idx
  <2>3. ProcInv(c)'
    BY <1>1, <1>2, <1>3, <1>5, <2>2, SameSets DEF ProcInv, Early, Reading
  <2>4. ResInv(c)'
    BY <1>1, <1>2, <1>3, <1>5, SameSets DEF ResInv, Early
  <2> QED BY <2>1, <2>3, <2>4 DEF CallInv
<1>9. MineAll(c, res'[c].entries)
  <2>1. DOMAIN <<>> = {}
    BY EmptySeq
  <2> QED BY <1>2, <1>3, <2>1 DEF MineAll
<1> QED BY <1>3, <1>6, <1>7, <1>8, <1>9, HostStep

\* A guest makes its capture file: the one step that can put another's output
\* where a call will look for it.
LEMMA GuestWritesInv ==
    ASSUME SandboxInv, NEW c \in Runners, GuestWrites(c)
    PROVE  SandboxInv'
<1>1. /\ c \in Calls /\ Typed /\ proc[c] = "running"
      /\ UNCHANGED <<pc, path, cache, lock, left, size, tries, exits, usable, res, kind,
                     machine, bins, proc, truth, pending, ring>>
  BY TypedMeans DEF SandboxInv, GuestWrites, host, Running, Runners, Guests, Batches, Jobs
<1>2. /\ PlaceInv(c) /\ ProcInv(c) /\ ResInv(c) /\ OwnInv(c)
      /\ size[c] \in Idx /\ (c \notin Batches => size[c] = 1)
  BY <1>1 DEF SandboxInv, ProcInv
<1>3. PICK m \in 1..size[c] : m = Current(c)
  <2>1. truth[c] \in Seq(GuestRC) /\ Len(truth[c]) \in Nat /\ Len(truth[c]) < size[c]
    BY <1>1, <1>2, LenProperties DEF Typed, ProcInv
  <2>2. size[c] \in Nat
    BY <1>2, SandboxAssumption DEF Idx
  <2> QED BY <2>1, <2>2 DEF Current
<1>4. PICK n \in Names : n = NameOf(c, m)
  BY <1>1, <1>2, <1>3, NameOfGuest
<1>5. m \in Idx /\ <<c, m>> \in Runs
  BY <1>1, <1>2, <1>3, NameOfGuest DEF Runs
<1>6. capt' = [capt EXCEPT ![n] = <<c, m>>] /\ wrote' = [wrote EXCEPT ![c] = @ \cup {m}]
  BY <1>3, <1>4 DEF GuestWrites
<1>7. /\ capt'[n] = <<c, m>> /\ \A k \in Names \ {n} : capt'[k] = capt[k]
      /\ wrote'[c] = wrote[c] \cup {m} /\ \A d \in Calls \ {c} : wrote'[d] = wrote[d]
  BY <1>1, <1>4, <1>6 DEF Typed
<1>8. Typed'
  <2>1. capt' \in [Names -> Runs \cup {NoRun}]
    BY <1>1, <1>5, <1>6 DEF Typed
  <2>2. wrote[c] \cup {m} \in SUBSET Idx
    BY <1>1, <1>5 DEF Typed
  <2>3. wrote' \in [Calls -> SUBSET Idx]
    BY <1>1, <1>6, <2>2 DEF Typed
  <2> QED BY <1>1, <2>1, <2>3 DEF Typed
<1>9. EndsStay /\ \A d \in Calls \ {c} : SameAt(d)
  BY <1>1, <1>7 DEF EndsStay, SameAt
<1>10. CallInv(c)'
  <2>1. PlaceInv(c)'
    BY <1>1, <1>2, SameSets DEF PlaceInv
  <2>2. ProcInv(c)'
    BY <1>1, <1>2, <1>3, <1>7, SameSets DEF ProcInv, Over
  <2>3. ExitCode(c)' = ExitCode(c)
    BY <1>1, SameExit
  <2>4. ResInv(c)'
    BY <1>1, <1>2, <2>3, SameSets DEF ResInv, Over
  <2> QED BY <2>1, <2>2, <2>4 DEF CallInv
<1>11. OwnInv(c)'
  <2>1. EntriesMine(c)'
    <3>1. res[c].entries = <<>> /\ DOMAIN <<>> = {}
      BY <1>1, <1>2, EmptySeq DEF ResInv, Over
    <3> QED BY <1>1, <3>1 DEF EntriesMine, MineAll
  <2>2. ASSUME pc'[c] \in Opened, NEW i \in wrote'[c]
        PROVE  Kept(c, i, capt[NameOf(c, i)])'
    <3>1. NameOf(c, i)' = NameOf(c, i)
      BY <1>1, SameNames
    <3>2. CASE i = m
      BY <1>4, <1>7, <3>1, <3>2 DEF Kept
    <3>3. CASE i # m
      <4>1. i \in wrote[c] /\ i \in 1..size[c]
        BY <1>2, <1>7, <2>2, <3>3 DEF ProcInv
      <4>2. NameOf(c, i) \in Names
        BY <1>1, <1>2, <4>1, NameOfGuest
      <4>3. NameOf(c, i) # n
        <5>1. c \in Batches
          BY <1>2, <1>3, <3>3, <4>1
        <5> QED BY <1>4, <3>3, <5>1, NamesApart
      <4>4. PICK r \in Runs \cup {NoRun} : r = capt[NameOf(c, i)]
        BY <1>1, <4>2 DEF Typed
      <4>5. Kept(c, i, r)
        BY <1>1, <1>2, <2>2, <4>1, <4>4, OwnMeans DEF FilesMine
      <4>6. Kept(c, i, r)'
        BY <1>1, <1>9, <4>5, KeptStays
      <4>7. capt'[NameOf(c, i)'] = r
        BY <1>7, <3>1, <4>2, <4>3, <4>4
      <4> QED BY <4>6, <4>7 DEF Kept
    <3> QED BY <3>2, <3>3
  <2>3. pc'[c] \in Opened => FilesMine(c)'
    BY <2>2 DEF FilesMine
  <2> QED BY <2>1, <2>3, OwnMeansNext
<1>12. ASSUME NEW d \in Calls, d # c PROVE CallInv(d)' /\ OwnInv(d)'
  <2>1. Typed /\ PlaceInv(d) /\ ProcInv(d) /\ ResInv(d) /\ OwnInv(d) /\ SameAt(d)
    BY <1>1, <1>9, <1>12 DEF SandboxInv
  <2>2. CallInv(d)'
    BY <1>1, <2>1, CallKept DEF CallInv
  <2>3. EntriesMine(d)'
    <3>1. res'[d].entries \in Seq(Entry) /\ MineAll(d, res'[d].entries)
      BY <2>1, OwnMeans DEF Typed, Result, SameAt, EntriesMine
    <3> QED BY <1>1, <1>9, <2>1, <3>1, EntriesKept DEF SameAt
  <2>4. ASSUME pc'[d] \in Opened, NEW i \in wrote'[d]
        PROVE  Kept(d, i, capt[NameOf(d, i)])'
    <3>1. pc[d] \in Opened /\ i \in wrote[d] /\ i \in 1..size[d] /\ FilesMine(d)
      BY <2>1, <2>4, OwnMeans DEF SameAt, ProcInv
    <3>2. d \in Runners /\ size[d] \in Idx /\ (d \notin Batches => size[d] = 1)
      BY <2>1, <3>1 DEF PlaceInv, ProcInv, Opened, Section
    <3>3. NameOf(d, i) \in Names /\ NameOf(d, i)' = NameOf(d, i)
      BY <1>1, <3>1, <3>2, NameOfGuest, SameNames
    <3>4. PICK r \in Runs \cup {NoRun} : r = capt[NameOf(d, i)]
      BY <1>1, <3>3 DEF Typed
    <3>5. CASE NameOf(d, i) = n
      <4>1. d \notin Jobs /\ res[c].st = "raised"
        BY <1>1, <1>4, <1>12, <3>1, <3>5, OpenedOver
      <4>2. d \notin Jobs' /\ res'[c].st = "raised"
        BY <1>1, <4>1, SameSets
      <4> QED BY <1>7, <3>3, <3>5, <4>2 DEF Kept
    <3>6. CASE NameOf(d, i) # n
      <4>1. Kept(d, i, r)
        BY <3>1, <3>4 DEF FilesMine
      <4>2. Kept(d, i, r)'
        BY <1>1, <1>9, <4>1, KeptStays
      <4>3. capt'[NameOf(d, i)'] = r
        BY <1>7, <3>3, <3>4, <3>6
      <4> QED BY <4>2, <4>3 DEF Kept
    <3> QED BY <3>5, <3>6
  <2>5. pc'[d] \in Opened => FilesMine(d)'
    BY <2>4 DEF FilesMine
  <2> QED BY <2>2, <2>3, <2>5, OwnMeansNext
<1>13. ASSUME NEW k \in Names PROVE FileInv(k)'
  <2>1. CASE k = n
    <3>1. NameOf(c, m)' = n /\ proc'[c] # "none" /\ m \in 1..size'[c]
      BY <1>1, <1>3, <1>4, SameNames
    <3> QED BY <1>7, <2>1, <3>1 DEF FileInv
  <2>2. CASE k # n
    <3>1. capt'[k] = capt[k] /\ FileInv(k)
      BY <1>7, <2>2 DEF SandboxInv
    <3> QED BY <1>1, <3>1, FileKept
  <2> QED BY <2>1, <2>2
<1>14. \A d \in Calls : CallInv(d)' /\ OwnInv(d)'
  BY <1>10, <1>11, <1>12
<1> QED BY <1>8, <1>13, <1>14, TypedMeansNext DEF SandboxInv, CallInv

----------------------------------------------------------------------------
(* A guest ends or is aborted; the kernel takes a line.                    *)

LEMMA FittingFacts ==
    ASSUME Typed, NEW lines \in Seq(Line)
    PROVE  /\ Fitting(lines) \in Seq(Line)
           /\ Len(Fitting(lines)) + Len(ring) <= RingSize
<1>1. /\ Len(lines) \in Nat /\ Len(ring) \in Nat /\ Len(pending) \in Nat
      /\ RingSize \in Nat /\ Len(pending) + Len(ring) <= RingSize
  BY LenProperties, SandboxAssumption DEF Typed
<1>2. PICK room \in Nat : room = RingSize - Len(ring)
  BY <1>1
<1>3. CASE Len(lines) > room
  <2>1. Fitting(lines) = SubSeq(lines, 1, room)
    BY <1>2, <1>3 DEF Fitting
  <2>2. \A i \in 1..room : lines[i] \in Line
    BY <1>1, <1>2, <1>3, ElementOfSeq
  <2>3. 1 \in Int /\ room \in Int /\ 1 <= room + 1
    BY <1>2
  <2>4. SubSeq(lines, 1, room) \in Seq(Line) /\ Len(SubSeq(lines, 1, room)) = room
    BY <1>1, <1>2, <1>3, <2>2
  <2> QED BY <1>1, <1>2, <2>1, <2>4
<1>4. CASE ~(Len(lines) > room)
  <2>1. Fitting(lines) = lines
    BY <1>2, <1>4 DEF Fitting
  <2> QED BY <1>1, <1>2, <1>4, <2>1
<1> QED BY <1>3, <1>4

LEMMA RingWriteInv ==
    ASSUME SandboxInv, RingWrite
    PROVE  SandboxInv'
<1>1. /\ pending # <<>> /\ pending' = Tail(pending) /\ ring' = Append(ring, Head(pending))
      /\ UNCHANGED <<pc, path, cache, lock, left, size, tries, exits, usable, res, kind,
                     machine, bins, proc, truth, capt, wrote>>
  BY DEF RingWrite, host
<1>2. Typed
  BY TypedMeans DEF SandboxInv
<1>3. /\ Head(pending) \in Line /\ Tail(pending) \in Seq(Line)
      /\ Len(Tail(pending)) = Len(pending) - 1
  BY <1>1, <1>2, HeadTailProperties DEF Typed
<1>4. ring' \in Seq(Line) /\ Len(ring') = Len(ring) + 1
  BY <1>1, <1>2, <1>3, AppendProperties DEF Typed
<1>5. Len(pending') + Len(ring') <= RingSize
  <2>1. Len(pending) \in Nat /\ Len(ring) \in Nat /\ RingSize \in Nat
    BY <1>2, LenProperties, SandboxAssumption DEF Typed
  <2>2. Len(pending') = Len(pending) - 1
    BY <1>1, <1>3
  <2> QED BY <1>2, <1>4, <2>1, <2>2 DEF Typed
<1>6. Typed'
  BY <1>1, <1>2, <1>3, <1>4, <1>5 DEF Typed
<1>7. EndsStay /\ \A d \in Calls : SameAt(d)
  BY <1>1 DEF EndsStay, SameAt
<1>8. \A d \in Calls : CallInv(d)' /\ OwnInv(d)'
  BY <1>1, <1>7, CallKept, OwnKept DEF SandboxInv, CallInv
<1>9. \A n \in Names : FileInv(n)'
  BY <1>1, <1>2, FileKept DEF SandboxInv
<1> QED BY <1>6, <1>8, <1>9, TypedMeansNext DEF SandboxInv, CallInv

LEMMA GuestEndsInv ==
    ASSUME SandboxInv, NEW c \in Runners, GuestEnds(c)
    PROVE  SandboxInv'
<1>1. /\ c \in Calls /\ Typed /\ proc[c] = "running"
      /\ UNCHANGED <<pc, path, cache, lock, left, size, tries, exits, usable, res, kind,
                     machine, bins, ring>>
  BY TypedMeans DEF SandboxInv, GuestEnds, host, Running, Runners, Guests, Batches, Jobs
<1>2. /\ PlaceInv(c) /\ ProcInv(c) /\ ResInv(c) /\ OwnInv(c)
      /\ size[c] \in Idx /\ (c \notin Batches => size[c] = 1)
  BY <1>1 DEF SandboxInv, ProcInv
<1>3. PICK m \in Nat : m = Current(c) /\ m = Len(truth[c]) + 1 /\ m <= size[c] /\ m \in Idx
  <2>1. truth[c] \in Seq(GuestRC) /\ Len(truth[c]) \in Nat /\ Len(truth[c]) < size[c]
    BY <1>1, <1>2, LenProperties DEF Typed, ProcInv
  <2>2. size[c] \in Nat /\ size[c] <= SANDBOXVM_MAX_GUESTS /\ SANDBOXVM_MAX_GUESTS \in Nat
    BY <1>2, SandboxAssumption DEF Idx
  <2> QED BY <2>1, <2>2 DEF Current, Idx
<1>4. PICK rc \in GuestRC :
         LET ex == [by |-> "exit", run |-> <<c, m>>, rc |-> rc]
         IN  /\ truth' = [truth EXCEPT ![c] = Append(@, rc)]
             /\ pending' = Fitting(pending \o
                  (IF rc \in Vectors THEN <<[ex EXCEPT !.by = "trap"]>>
                                     ELSE <<>>) \o <<ex>>)
  BY <1>3 DEF GuestEnds
<1>5. /\ truth'[c] = Append(truth[c], rc) /\ truth'[c] \in Seq(GuestRC)
      /\ Len(truth'[c]) = m /\ truth'[c] # <<>>
  <2>1. truth[c] \in Seq(GuestRC) /\ truth'[c] = Append(truth[c], rc)
    BY <1>1, <1>4 DEF Typed
  <2>2. Append(truth[c], rc) \in Seq(GuestRC) /\ Len(Append(truth[c], rc)) = Len(truth[c]) + 1
    BY <2>1, AppendProperties
  <2>3. Len(truth'[c]) = m /\ m # 0
    BY <1>3, <2>1, <2>2
  <2>4. truth'[c] # <<>>
    BY <2>3, EmptySeq
  <2> QED BY <2>1, <2>2, <2>3, <2>4
<1>6. pending' \in Seq(Line) /\ Len(pending') + Len(ring') <= RingSize
  <2> DEFINE ex == [by |-> "exit", run |-> <<c, m>>, rc |-> rc]
             tr == IF rc \in Vectors THEN <<[ex EXCEPT !.by = "trap"]>> ELSE <<>>
  <2>1. <<c, m>> \in Runs
    BY <1>1, <1>3 DEF Runs
  <2>2. ex \in Line /\ [ex EXCEPT !.by = "trap"] \in Line
    BY <1>4, <2>1 DEF Line
  <2>3. pending \in Seq(Line)
    BY <1>1 DEF Typed
  <2>4. tr \in Seq(Line) /\ <<ex>> \in Seq(Line)
    BY <2>2
  <2>5. pending' = Fitting(pending \o tr \o <<ex>>)
    BY <1>4
  <2> HIDE DEF ex, tr
  <2>6. pending \o tr \o <<ex>> \in Seq(Line)
    BY <2>3, <2>4, ConcatProperties
  <2>7. PICK l \in Seq(Line) : l = pending \o tr \o <<ex>>
    BY <2>6
  <2>8. Fitting(l) \in Seq(Line) /\ Len(Fitting(l)) + Len(ring) <= RingSize
    BY <1>1, FittingFacts
  <2> QED BY <1>1, <2>5, <2>7, <2>8
<1>7. UNCHANGED <<capt, wrote>>
  BY DEF GuestEnds
<1>8. /\ proc' = [proc EXCEPT ![c] = "exited"] \/ proc' = proc
      /\ proc'[c] \in {"running", "exited"} /\ (proc'[c] = "exited" <=> m = size[c])
  BY <1>1, <1>3 DEF GuestEnds, Typed
<1>9. HostKeeps(c)
  <2>0. pc' = [pc EXCEPT ![c] = pc[c]]
    BY <1>1 DEF Typed
  <2>1. \A d \in Calls \ {c} : SameAt(d)
    BY <1>1, <1>4, <1>7, <1>8, <2>0, SameOthers
  <2> QED BY <1>1, <1>7, <1>8, <2>1 DEF HostKeeps
<1>10. Typed'
  <2>1. proc' \in [Calls -> {"none", "running", "exited", "aborted"}]
    BY <1>1, <1>8 DEF Typed
  <2>2. truth' \in [Calls -> Seq(GuestRC)]
    BY <1>1, <1>4, <1>5 DEF Typed
  <2>3. \A d \in Calls : Len(truth'[d]) <= size'[d]
    <3>1. ASSUME NEW d \in Calls, d # c PROVE Len(truth'[d]) <= size'[d]
      BY <1>1, <1>9, <3>1 DEF Typed, HostKeeps, SameAt
    <3>2. Len(truth'[c]) <= size'[c]
      BY <1>1, <1>3, <1>5
    <3> QED BY <3>1, <3>2
  <2> QED BY <1>1, <1>6, <1>7, <2>1, <2>2, <2>3 DEF Typed
<1>11. CallInv(c)'
  <2>1. PlaceInv(c)'
    BY <1>1, <1>2, SameSets DEF PlaceInv
  <2>2. /\ pc[c] \notin Early /\ pc[c] \notin Reading /\ res[c].st # "ok"
        /\ res[c].entries = <<>>
    BY <1>1, <1>2, KindFacts DEF ProcInv, ResInv, Over
  <2>3. proc'[c] = "running" => m < size[c]
    BY <1>2, <1>3, <1>8, SandboxAssumption DEF Idx
  <2>4. ProcInv(c)'
    BY <1>1, <1>2, <1>5, <1>7, <1>8, <2>2, <2>3, SameSets DEF ProcInv
  <2>5. ResInv(c)'
    BY <1>1, <1>2, <2>2, SameSets DEF ResInv
  <2> QED BY <2>1, <2>4, <2>5 DEF CallInv
<1>12. MineAll(c, res'[c].entries)
  BY <1>1, <1>2, OwnMeans DEF EntriesMine
<1>13. pc'[c] \in Opened => pc[c] \in Opened
  BY <1>1
<1> QED BY <1>1, <1>9, <1>10, <1>11, <1>12, <1>13, HostStep

LEMMA GuestAbortedInv ==
    ASSUME SandboxInv, NEW c \in Runners, GuestAborted(c)
    PROVE  SandboxInv'
<1>1. /\ c \in Calls /\ Typed /\ proc[c] = "running" /\ proc' = [proc EXCEPT ![c] = "aborted"]
      /\ UNCHANGED <<pc, path, cache, lock, left, size, tries, exits, usable, res, kind,
                     machine, bins, truth, capt, wrote, pending, ring>>
  BY TypedMeans DEF SandboxInv, GuestAborted, host, Running, Runners, Guests, Batches, Jobs
<1>2. PlaceInv(c) /\ ProcInv(c) /\ ResInv(c) /\ OwnInv(c)
  BY <1>1 DEF SandboxInv
<1>3. proc'[c] = "aborted"
  BY <1>1 DEF Typed
<1>4. HostKeeps(c)
  <2>0. pc' = [pc EXCEPT ![c] = pc[c]]
    BY <1>1 DEF Typed
  <2>1. \A d \in Calls \ {c} : SameAt(d)
    BY <1>1, <2>0, SameOthers
  <2> QED BY <1>1, <1>3, <2>1 DEF HostKeeps
<1>5. Typed'
  <2>1. proc' \in [Calls -> {"none", "running", "exited", "aborted"}]
    BY <1>1 DEF Typed
  <2> QED BY <1>1, <2>1 DEF Typed
<1>6. CallInv(c)'
  <2>1. PlaceInv(c)'
    BY <1>1, <1>2, SameSets DEF PlaceInv
  <2>2. /\ pc[c] \notin Early /\ pc[c] \notin Reading /\ res[c].st # "ok"
        /\ res[c].entries = <<>>
    BY <1>1, <1>2 DEF ProcInv, ResInv, Over
  <2>3. ProcInv(c)'
    BY <1>1, <1>2, <1>3, <2>2, SameSets DEF ProcInv
  <2>4. ResInv(c)'
    BY <1>1, <1>2, <2>2, SameSets DEF ResInv
  <2> QED BY <2>1, <2>3, <2>4 DEF CallInv
<1>7. MineAll(c, res'[c].entries)
  BY <1>1, <1>2, OwnMeans DEF EntriesMine
<1>8. pc'[c] \in Opened => pc[c] \in Opened
  BY <1>1
<1> QED BY <1>1, <1>4, <1>5, <1>6, <1>7, <1>8, HostStep

----------------------------------------------------------------------------
(* Running a command and reading back what it left.                        *)

\* The call moves on and nothing else changes, but perhaps the lock.
LEMMA MoveInv ==
    ASSUME SandboxInv, NEW c \in Calls, pc[c] \notin {"trap", "done"},
           NEW w \in AnyPC \ {"done"}, Go(c, w),
           lock' \in {lock, c}, lock' = c => lock \in {c, NoCall},
           UNCHANGED <<path, cache, target, host, res>>,
           CallInv(c)', w \in Opened => pc[c] \in Opened
    PROVE  SandboxInv'
<1>1. Typed /\ OwnInv(c)
  BY TypedMeans DEF SandboxInv
<1>2. /\ pc' = [pc EXCEPT ![c] = w]
      /\ UNCHANGED <<path, cache, left, size, tries, exits, usable, res, kind, machine, bins,
                     proc, truth, capt, wrote, pending, ring>>
  BY DEF Go, target, host
<1>3. pc'[c] = w
  BY <1>1, <1>2 DEF Typed
<1>4. Typed'
  <2>1. pc' \in [Calls -> AnyPC] /\ lock' \in Calls \cup {NoCall}
    BY <1>1, <1>2 DEF Typed
  <2> QED BY <1>1, <1>2, <2>1 DEF Typed
<1>5. \A d \in Calls \ {c} : SameAt(d)
  <2>1. lock' = lock \/ {lock, lock'} \subseteq {c, NoCall}
    OBVIOUS
  <2> QED BY <1>1, <1>2, <2>1, SameOthers
<1>6. HostOnly(c)
  BY <1>2, <1>5 DEF HostOnly
<1>7. MineAll(c, res'[c].entries)
  BY <1>1, <1>2, OwnMeans DEF EntriesMine
<1>8. pc'[c] \in Opened => pc[c] \in Opened
  BY <1>3
<1> QED BY <1>4, <1>6, <1>7, <1>8, HostOnlyKeeps, HostStep

\* The call's own conjuncts, when it moves on and nothing else changes.
LEMMA MoveCall ==
    ASSUME Typed, NEW c \in Calls, CallInv(c), pc[c] # "done", NEW w, Go(c, w),
           UNCHANGED <<path, cache, target, host, res>>
    PROVE  /\ pc'[c] = w /\ ExitCode(c)' = ExitCode(c)
           /\ UNCHANGED <<size, proc, truth, wrote, exits, res, kind, left>>
           /\ PlaceInv(c) /\ ProcInv(c) /\ ResInv(c) /\ res[c].st = "none"
<1>1. UNCHANGED <<size, proc, truth, wrote, exits, res, kind, left>>
  BY DEF target, host
<1>2. ExitCode(c)' = ExitCode(c)
  BY <1>1, SameExit
<1>3. pc'[c] = w
  BY DEF Typed, Go
<1> QED BY <1>1, <1>2, <1>3 DEF CallInv, ResInv

LEMMA TakeLockInv ==
    ASSUME SandboxInv, NEW c \in Calls, TakeLock(c)
    PROVE  SandboxInv'
<1>1. /\ Typed /\ CallInv(c) /\ pc[c] = "lock" /\ lock = NoCall /\ lock' = c /\ Go(c, "exec")
      /\ UNCHANGED <<path, cache, target, host, res>>
  BY TypedMeans DEF SandboxInv, TakeLock, CallInv
<1>2. /\ pc'[c] = "exec" /\ ExitCode(c)' = ExitCode(c)
      /\ UNCHANGED <<size, proc, truth, wrote, exits, res, kind, left>>
      /\ PlaceInv(c) /\ ProcInv(c) /\ ResInv(c) /\ res[c].st = "none"
  BY <1>1, MoveCall
<1>3. PlaceInv(c)'
  BY <1>1, <1>2, SameSets DEF PlaceInv, Section
<1>4. ProcInv(c)'
  BY <1>1, <1>2, SameSets DEF ProcInv, Early, Reading, Over
<1>5. ResInv(c)'
  BY <1>1, <1>2, SameSets DEF ResInv, Early, Over
<1>6. "exec" \in AnyPC \ {"done"} /\ "exec" \notin Opened
  BY DEF AnyPC, Opened
<1> QED BY <1>1, <1>3, <1>4, <1>5, <1>6, MoveInv DEF CallInv

LEMMA ExecRaisesInv ==
    ASSUME SandboxInv, NEW c \in Calls, ExecRaises(c)
    PROVE  SandboxInv'
<1>1. Typed /\ CallInv(c) /\ pc[c] \in {"exec", "wait"}
  BY TypedMeans DEF SandboxInv, ExecRaises, CallInv
<1>2. CASE Raise(c)
  BY <1>1, <1>2, RaiseInv
<1>3. CASE /\ c \in Guests /\ Go(c, "slurp")
           /\ UNCHANGED <<path, cache, lock, target, host, res>>
  <2>1. /\ pc'[c] = "slurp" /\ ExitCode(c)' = ExitCode(c)
        /\ UNCHANGED <<size, proc, truth, wrote, exits, res, kind, left>>
        /\ PlaceInv(c) /\ ProcInv(c) /\ ResInv(c) /\ res[c].st = "none"
    BY <1>1, <1>3, MoveCall
  <2>2. PlaceInv(c)'
    BY <1>1, <1>3, <2>1, SameSets DEF PlaceInv, Section
  <2>3. ProcInv(c)'
    BY <1>1, <2>1, SameSets DEF ProcInv, Early, Reading, Over
  <2>4. ResInv(c)'
    BY <1>1, <2>1, SameSets DEF ResInv, Early, Over
  <2>5. "slurp" \in AnyPC \ {"done"} /\ "slurp" \notin Opened
    BY DEF AnyPC, Opened
  <2>6. lock' \in {lock, c} /\ (lock' = c => lock \in {c, NoCall})
    BY <1>3
  <2> QED BY <1>1, <1>3, <2>2, <2>3, <2>4, <2>5, <2>6, MoveInv DEF CallInv
<1> QED BY <1>2, <1>3 DEF ExecRaises

LEMMA ExecExitedInv ==
    ASSUME SandboxInv, NEW c \in Calls, ExecExited(c)
    PROVE  SandboxInv'
<1>1. PICK w \in {"codes", "read"} :
        /\ w = "codes" <=> c \in Batches
        /\ Typed /\ CallInv(c) /\ pc[c] = "wait" /\ Over(c) /\ Go(c, w)
        /\ UNCHANGED <<path, cache, lock, target, host, res>>
  BY TypedMeans DEF SandboxInv, ExecExited, CallInv
<1>2. /\ pc'[c] = w /\ ExitCode(c)' = ExitCode(c)
      /\ UNCHANGED <<size, proc, truth, wrote, exits, res, kind, left>>
      /\ PlaceInv(c) /\ ProcInv(c) /\ ResInv(c) /\ res[c].st = "none"
  BY <1>1, MoveCall
<1>3. PlaceInv(c)'
  BY <1>1, <1>2, SameSets DEF PlaceInv, Section
<1>4. ProcInv(c)'
  BY <1>1, <1>2, SameSets DEF ProcInv, Early, Reading, Over
<1>5. Len(<<>>) = 0 /\ size[c] > 0 /\ res[c].entries = <<>>
  BY <1>1, <1>2, SandboxAssumption, EmptySeq DEF ProcInv, ResInv, Idx
<1>6. ResInv(c)'
  BY <1>1, <1>2, <1>5, SameSets DEF ResInv, Early, Over
<1>7. w \in AnyPC \ {"done"} /\ pc[c] \in Opened
  BY <1>1 DEF AnyPC, Opened
<1>8. lock' \in {lock, c} /\ (lock' = c => lock \in {c, NoCall})
  BY <1>1
<1> QED BY <1>1, <1>3, <1>4, <1>6, <1>7, <1>8, MoveInv DEF CallInv

LEMMA ExecStillRunningInv ==
    ASSUME SandboxInv, NEW c \in Calls, ExecStillRunning(c)
    PROVE  SandboxInv'
<1>1. /\ Typed /\ CallInv(c) /\ pc[c] = "wait" /\ c \in Jobs
      /\ Return(c, [NoRes EXCEPT !.st = "running"])
      /\ UNCHANGED <<path, cache, lock, left, size, tries, exits, usable, kind, machine, bins,
                     proc, truth, capt, wrote, pending, ring>>
  BY TypedMeans DEF SandboxInv, ExecStillRunning, CallInv, target, host
<1>2. /\ pc' = [pc EXCEPT ![c] = "done"] /\ "done" \in AnyPC
      /\ res' = [res EXCEPT ![c] = [NoRes EXCEPT !.st = "running"]]
      /\ [NoRes EXCEPT !.st = "running"] \in Result
  BY <1>1, PlainResult DEF Return, Go, AnyPC
<1>3. Typed'
  <2>1. pc' \in [Calls -> AnyPC] /\ res' \in [Calls -> Result]
    BY <1>1, <1>2 DEF Typed
  <2> QED BY <1>1, <1>2, <2>1 DEF Typed
<1>4. \A d \in Calls \ {c} : SameAt(d)
  BY <1>1, <1>2, SameOthers
<1>5. HostOnly(c)
  BY <1>1, <1>4 DEF HostOnly
<1>6. lock' # c /\ Len(exits'[c]) <= size'[c] /\ c \in Runners
  BY <1>1, KindFacts DEF CallInv, PlaceInv, ResInv
<1> QED BY <1>1, <1>3, <1>5, <1>6, PlainEnd

LEMMA SlurpInv ==
    ASSUME SandboxInv, NEW c \in Calls, Slurp(c)
    PROVE  SandboxInv'
<1>1. Typed /\ CallInv(c) /\ pc[c] = "slurp"
  BY TypedMeans DEF SandboxInv, Slurp, CallInv
<1>2. CASE Raise(c)
  BY <1>1, <1>2, RaiseInv
<1>3. CASE Go(c, "drop") /\ UNCHANGED <<path, cache, lock, target, host, res>>
  <2>1. /\ pc'[c] = "drop" /\ ExitCode(c)' = ExitCode(c)
        /\ UNCHANGED <<size, proc, truth, wrote, exits, res, kind, left>>
        /\ PlaceInv(c) /\ ProcInv(c) /\ ResInv(c) /\ res[c].st = "none"
    BY <1>1, <1>3, MoveCall
  <2>2. PlaceInv(c)'
    BY <1>1, <1>3, <2>1, SameSets DEF PlaceInv, Section
  <2>3. ProcInv(c)'
    BY <1>1, <2>1, SameSets DEF ProcInv, Early, Reading, Over
  <2>4. ResInv(c)'
    BY <1>1, <2>1, SameSets DEF ResInv, Early, Over
  <2>5. "drop" \in AnyPC \ {"done"} /\ "drop" \notin Opened
    BY DEF AnyPC, Opened
  <2>6. lock' \in {lock, c} /\ (lock' = c => lock \in {c, NoCall})
    BY <1>3
  <2> QED BY <1>1, <1>3, <2>2, <2>3, <2>4, <2>5, <2>6, MoveInv DEF CallInv
<1> QED BY <1>2, <1>3 DEF Slurp

\* What a failed or a successful _delete_capture leaves of the files.
LEMMA DeletedFacts ==
    ASSUME Typed, NEW n, capt' \in {capt, Deleted(n)}
    PROVE  /\ capt' \in [Names -> Runs \cup {NoRun}]
           /\ \A k \in Names : capt'[k] \in {capt[k], NoRun}
<1>1. capt' = capt \/ capt' = [capt EXCEPT ![n] = NoRun]
  BY DEF Deleted
<1> QED BY <1>1 DEF Typed

LEMMA SlurpDeleteInv ==
    ASSUME SandboxInv, NEW c \in Calls, SlurpDelete(c)
    PROVE  SandboxInv'
<1>1. /\ Typed /\ PlaceInv(c) /\ ResInv(c) /\ pc[c] = "drop" /\ lock' = NoCall
      /\ capt' \in {capt, Deleted(NameOf(c, 1))}
      /\ Return(c, [NoRes EXCEPT !.st = "raised"])
      /\ UNCHANGED <<path, cache, left, size, tries, exits, usable, kind, machine, bins,
                     proc, truth, wrote, pending, ring>>
  BY TypedMeans DEF SandboxInv, SlurpDelete, host
<1>2. /\ pc' = [pc EXCEPT ![c] = "done"] /\ "done" \in AnyPC
      /\ res' = [res EXCEPT ![c] = [NoRes EXCEPT !.st = "raised"]]
      /\ [NoRes EXCEPT !.st = "raised"] \in Result
  BY <1>1, PlainResult DEF Return, Go, AnyPC
<1>3. lock = c
  BY <1>1, KindFacts DEF PlaceInv, Section
<1>4. /\ capt' \in [Names -> Runs \cup {NoRun}]
      /\ \A k \in Names : capt'[k] \in {capt[k], NoRun}
  BY <1>1, DeletedFacts
<1>5. Typed'
  <2>1. pc' \in [Calls -> AnyPC] /\ res' \in [Calls -> Result]
    BY <1>1, <1>2 DEF Typed
  <2> QED BY <1>1, <1>4, <2>1 DEF Typed
<1>6. \A d \in Calls \ {c} : SameAt(d)
  BY <1>1, <1>2, <1>3, SameOthers
<1>7. HostKeeps(c)
  BY <1>1, <1>4, <1>6 DEF HostKeeps
<1>8. lock' # c /\ Len(exits'[c]) <= size'[c]
  BY <1>1, SandboxAssumption DEF ResInv
<1> QED BY <1>1, <1>5, <1>7, <1>8, PlainEndKeeps

LEMMA DebugRingType ==
    ASSUME Typed
    PROVE  DebugRing \in Seq(Line)
<1>1. ring \in Seq(Line) /\ Len(ring) \in Nat /\ MaxLines \in Nat \ {0}
  BY LenProperties, SandboxAssumption DEF Typed
<1>2. CASE Len(ring) > MaxLines
  <2>1. DebugRing = SubSeq(ring, Len(ring) - MaxLines + 1, Len(ring))
    BY <1>2 DEF DebugRing
  <2>2. PICK a \in Nat : a = Len(ring) - MaxLines + 1 /\ a >= 1
    BY <1>1, <1>2
  <2>3. \A i \in a..Len(ring) : ring[i] \in Line
    BY <1>1, <2>2, ElementOfSeq
  <2>4. a \in Int /\ Len(ring) \in Int
    BY <1>1
  <2>5. SubSeq(ring, a, Len(ring)) \in Seq(Line)
    BY <2>3, <2>4, SubSeqProperties
  <2> QED BY <2>1, <2>2, <2>5
<1>3. CASE ~(Len(ring) > MaxLines)
  BY <1>1, <1>3 DEF DebugRing
<1> QED BY <1>2, <1>3

LEMMA BatchCodesInv ==
    ASSUME SandboxInv, NEW c \in Calls, BatchCodes(c)
    PROVE  SandboxInv'
<1>1. Typed /\ PlaceInv(c) /\ ProcInv(c) /\ ResInv(c) /\ OwnInv(c) /\ pc[c] = "codes"
  BY TypedMeans DEF SandboxInv, BatchCodes
<1>2. CASE Raise(c)
  BY <1>1, <1>2, RaiseInv
<1>3. CASE /\ exits' = [exits EXCEPT ![c] = PerGuestExits(DebugRing, size[c])]
           /\ usable' = [usable EXCEPT ![c] = RingReportsDaemon(DebugRing)]
           /\ Go(c, "read")
           /\ UNCHANGED <<path, cache, lock, target, left, size, tries, res>>
  <2>1. /\ pc' = [pc EXCEPT ![c] = "read"] /\ "read" \in AnyPC
        /\ UNCHANGED <<path, cache, lock, left, size, tries, res, kind, machine, bins, proc,
                       truth, capt, wrote, pending, ring>>
    BY <1>3 DEF Go, AnyPC, target
  <2>2. size[c] \in Nat /\ size[c] > 0 /\ c \in Batches /\ DebugRing \in Seq(Line)
    BY <1>1, DebugRingType, SandboxAssumption DEF PlaceInv, ProcInv, Idx
  <2>3. PICK codes \in Seq(GuestRC) : codes = PerGuestExits(DebugRing, size[c])
                                      /\ Len(codes) <= size[c]
    BY <2>2, PerGuestExitsType
  <2>4. PICK b \in BOOLEAN : b = RingReportsDaemon(DebugRing)
    BY DEF RingReportsDaemon
  <2>5. exits' = [exits EXCEPT ![c] = codes] /\ usable' = [usable EXCEPT ![c] = b]
    BY <1>3, <2>3, <2>4
  <2>6. exits'[c] = codes /\ pc'[c] = "read"
    BY <1>1, <2>1, <2>5 DEF Typed
  <2>7. Typed'
    <3>1. pc' \in [Calls -> AnyPC] /\ exits' \in [Calls -> Seq(GuestRC)]
      BY <1>1, <2>1, <2>5 DEF Typed
    <3>2. usable' \in [Calls -> BOOLEAN]
      <4>1. usable \in [Calls -> BOOLEAN]
        BY <1>1 DEF Typed
      <4> QED BY <2>4, <2>5, <4>1
    <3> QED BY <1>1, <2>1, <3>1, <3>2 DEF Typed
  <2>8. \A d \in Calls \ {c} : SameAt(d)
    BY <1>1, <2>1, <2>5, SameOthers
  <2>9. HostOnly(c)
    BY <1>1, <2>1, <2>8 DEF HostOnly
  <2>10. PlaceInv(c)'
    BY <1>1, <2>1, <2>2, <2>6, SameSets, KindFacts DEF PlaceInv, Section
  <2>11. ProcInv(c)'
    BY <1>1, <2>1, <2>6, SameSets DEF ProcInv, Early, Reading, Over
  <2>12. Len(<<>>) = 0 /\ res[c].entries = <<>> /\ res[c].st = "none"
    BY <1>1, EmptySeq DEF ResInv
  <2>13. ResInv(c)'
    BY <2>1, <2>2, <2>3, <2>6, <2>12 DEF ResInv, Early, Over
  <2>14. MineAll(c, res'[c].entries)
    BY <1>1, <2>1, OwnMeans DEF EntriesMine
  <2>15. pc[c] \in Opened
    BY <1>1 DEF Opened
  <2> QED BY <2>7, <2>9, <2>10, <2>11, <2>13, <2>14, <2>15, HostOnlyKeeps, HostStep
          DEF CallInv
<1> QED BY <1>2, <1>3 DEF BatchCodes

LEMMA ClassifyExitType ==
    ASSUME NEW rc
    PROVE  ClassifyExit(rc) \in Kinds \cup {"none"}
BY DEF ClassifyExit, Kinds, Vectors, TRAP_KIND_BY_EXIT_CODE

LEMMA EntryOfType ==
    ASSUME Typed, NEW c \in Calls, ProcInv(c), ResInv(c), NEW i \in 1..size[c],
           NEW n \in Names, NEW out \in Runs \cup {NoRun}
    PROVE  /\ EntryOf(c, i, n, out) \in Entry
           /\ EntryOf(c, i, n, out).name = n /\ EntryOf(c, i, n, out).out = out
<1>1. CASE c \notin Batches
  <2>1. PICK rc \in ExitCodes : rc = ExitCode(c)
    BY ExitCodeFacts
  <2>2. EntryOf(c, i, n, out) = [name |-> n, rc |-> rc, known |-> TRUE,
                                 kind |-> ClassifyExit(rc), out |-> out]
    BY <1>1, <2>1 DEF EntryOf
  <2> QED BY <2>1, <2>2, ClassifyExitType DEF Entry
<1>2. CASE c \in Batches
  <2>1. /\ exits[c] \in Seq(GuestRC) /\ Len(exits[c]) \in Nat /\ size[c] \in Nat
        /\ Len(exits[c]) <= size[c]
    BY LenProperties, SandboxAssumption DEF Typed, ResInv
  <2>2. PICK off \in Nat : off = size[c] - Len(exits[c])
    BY <2>1
  <2>3. PICK known \in BOOLEAN : known = (usable[c] /\ i > off)
    OBVIOUS
  <2>4. PICK rc : rc = IF known THEN exits[c][i - off] ELSE 0
    OBVIOUS
  <2>5. rc \in ExitCodes
    <3>1. GuestRC \subseteq ExitCodes /\ 0 \in ExitCodes
      BY SandboxAssumption DEF ExitCodes, SANDBOXVM_RC_TRAP, Vectors, TRAP_KIND_BY_EXIT_CODE
    <3>2. CASE known
      <4>1. i > off
        BY <2>3, <3>2
      <4>2. i - off \in 1..Len(exits[c])
        BY <2>1, <2>2, <4>1
      <4>3. exits[c][i - off] \in GuestRC
        BY <2>1, <4>2, ElementOfSeq
      <4> QED BY <2>4, <3>1, <3>2, <4>3
    <3>3. CASE ~known
      BY <2>4, <3>1, <3>3
    <3> QED BY <3>2, <3>3
  <2>6. EntryOf(c, i, n, out) = [name |-> n, rc |-> rc, known |-> known,
                                 kind |-> ClassifyExit(rc), out |-> out]
    BY <1>2, <2>2, <2>3, <2>4 DEF EntryOf
  <2> QED BY <2>3, <2>5, <2>6, ClassifyExitType DEF Entry
<1> QED BY <1>1, <1>2

\* A result with another entry, with its end, and an entry with another kind.
LEMMA ResultWithEntries ==
    ASSUME NEW q \in Result, NEW s \in Seq(Entry)
    PROVE  \E r \in Result : r = [q EXCEPT !.entries = s] /\ r.st = q.st /\ r.entries = s
<1>1. [q EXCEPT !.entries = s] \in Result
  BY DEF Result
<1>2. [q EXCEPT !.entries = s].st = q.st /\ [q EXCEPT !.entries = s].entries = s
  BY DEF Result
<1> QED BY <1>1, <1>2

LEMMA ResultAtEnd ==
    ASSUME NEW q \in Result, NEW x \in ExitCodes
    PROVE  \E r \in Result : /\ r = [q EXCEPT !.st = "ok", !.agg = x]
                             /\ r.st = "ok" /\ r.agg = x /\ r.entries = q.entries
<1> DEFINE r == [q EXCEPT !.st = "ok", !.agg = x]
<1>1. r \in Result
  BY DEF Result
<1>2. r.st = "ok" /\ r.agg = x /\ r.entries = q.entries
  BY DEF Result
<1> QED BY <1>1, <1>2

LEMMA EntryWith ==
    ASSUME NEW e \in Entry, NEW k \in Kinds \cup {"none"}
    PROVE  /\ [e EXCEPT !.kind = k] \in Entry
           /\ [e EXCEPT !.kind = k].out = e.out /\ [e EXCEPT !.kind = k].name = e.name
BY DEF Entry

\* What a call finds where it looks for the output of its guest i.
LEMMA ReadIsMine ==
    ASSUME SandboxInv, NEW c \in Calls, pc[c] = "read", NEW i \in 1..size[c],
           NEW n \in ReadNames(c, i), NEW out \in {NoRun, capt[n]}
    PROVE  Mine(c, i, n, out)
<1>1. /\ Typed /\ PlaceInv(c) /\ ProcInv(c) /\ OwnInv(c) /\ c \in Runners
      /\ size[c] \in Idx /\ (c \notin Batches => size[c] = 1)
  BY TypedMeans, UnderWay DEF SandboxInv, PlaceInv, Section
<1>2. i \in Idx /\ NameOf(c, i) \in Names
  BY <1>1, NameOfGuest
<1>3. CASE out \in {NoRun, <<c, i>>}
  BY <1>3 DEF Mine
<1>4. CASE out = capt[n] /\ out \notin {NoRun, <<c, i>>}
  <2>1. c \notin Jobs
    <3> SUFFICES ASSUME c \in Jobs PROVE FALSE
      OBVIOUS
    <3>1. n = NameOf(c, i) /\ i = 1
      BY <1>1, KindFacts DEF ReadNames
    <3>2. capt[n] \in {NoRun, <<c, 1>>}
      BY <1>2, <3>1, JobFile
    <3> QED BY <1>4, <3>1, <3>2
  <2>2. n \in SharedNames
    <3>1. NameOf(c, i) \in SharedNames
      BY <1>2, <2>1 DEF NameOf, SharedNames
    <3> QED BY <3>1, SandboxAssumption DEF ReadNames
  <2>3. Left(out, c)
    <3>1. lock = c
      BY <1>1, <2>1 DEF PlaceInv, Section
    <3>2. n \in Names
      BY <2>2 DEF Names
    <3>3. out \in Runs
      BY <1>1, <1>4, <3>2 DEF Typed
    <3> QED BY <1>4, <2>2, <3>1, <3>3, WriterLeft
  <2>4. n = NameOf(c, i) /\ i \in wrote[c] => res[out[1]].st = "raised"
    <3>1. FilesMine(c)
      BY <1>1, OwnMeans DEF Opened
    <3> QED BY <1>4, <3>1 DEF FilesMine, Kept
  <2> QED BY <2>1, <2>3, <2>4 DEF Mine
<1> QED BY <1>3, <1>4

LEMMA ReadCaptureInv ==
    ASSUME SandboxInv, NEW c \in Calls, ReadCapture(c)
    PROVE  SandboxInv'
<1>1. /\ Typed /\ PlaceInv(c) /\ ProcInv(c) /\ ResInv(c) /\ OwnInv(c) /\ pc[c] = "read"
      /\ c \in Runners /\ size[c] \in Idx /\ (c \notin Batches => size[c] = 1)
  BY TypedMeans, UnderWay DEF SandboxInv, ReadCapture, PlaceInv, Section
<1>2. CASE Raise(c)
  BY <1>1, <1>2, RaiseInv
<1>3. PICK es \in Seq(Entry) : es = res[c].entries /\ Len(es) \in Nat /\ Len(es) < size[c]
  BY <1>1, LenProperties DEF Typed, Result, ResInv
<1>4. PICK i \in 1..size[c] : i = Len(es) + 1
  BY <1>1, <1>3, SandboxAssumption DEF Idx
<1>5. NameOf(c, i) \in Names /\ ReadNames(c, i) \subseteq Names
  <2>1. NameOf(c, i) \in Names
    BY <1>1, NameOfGuest
  <2> QED BY <2>1, SandboxAssumption DEF ReadNames, Names
<1>6. ASSUME NEW n \in ReadNames(c, i), NEW out \in {NoRun, capt[n]},
             res' = [res EXCEPT ![c].entries = Append(@, EntryOf(c, i, n, out))],
             Go(c, "delete"),
             UNCHANGED <<path, cache, lock, target, host>>
      PROVE  SandboxInv'
  <2>1. n \in Names /\ out \in Runs \cup {NoRun}
    BY <1>1, <1>5 DEF Typed
  <2>2. PICK e \in Entry : e = EntryOf(c, i, n, out) /\ e.name = n /\ e.out = out
    BY <1>1, <2>1, EntryOfType
  <2>3. /\ Append(es, e) \in Seq(Entry) /\ Len(Append(es, e)) = i
        /\ \A k \in 1..Len(es) : Append(es, e)[k] = es[k]
        /\ Append(es, e)[i] = e
    BY <1>3, <1>4, <2>2, AppendProperties
  <2>4. PICK r \in Result : /\ r = [res[c] EXCEPT !.entries = Append(es, e)]
                            /\ r.st = res[c].st /\ r.entries = Append(es, e)
    <3>1. res[c] \in Result
      BY <1>1 DEF Typed
    <3> QED BY <2>3, <3>1, ResultWithEntries, Zenon
  <2>5. res' = [res EXCEPT ![c] = r]
    BY <1>1, <1>3, <1>6, <2>2, <2>4 DEF Typed
  <2>6. /\ pc' = [pc EXCEPT ![c] = "delete"] /\ "delete" \in AnyPC
        /\ UNCHANGED <<path, cache, lock, left, size, tries, exits, usable, kind, machine,
                       bins, proc, truth, capt, wrote, pending, ring>>
    BY <1>6 DEF Go, AnyPC, target, host
  <2>7. pc'[c] = "delete" /\ res'[c] = r
    BY <1>1, <2>5, <2>6 DEF Typed
  <2>8. Typed'
    <3>1. pc' \in [Calls -> AnyPC] /\ res' \in [Calls -> Result]
      BY <1>1, <2>4, <2>5, <2>6 DEF Typed
    <3> QED BY <1>1, <2>6, <3>1 DEF Typed
  <2>9. \A d \in Calls \ {c} : SameAt(d)
    BY <1>1, <2>5, <2>6, SameOthers
  <2>10. HostOnly(c)
    BY <1>1, <2>6, <2>9 DEF HostOnly
  <2>11. PlaceInv(c)'
    BY <1>1, <2>6, <2>7, SameSets DEF PlaceInv, Section
  <2>12. ProcInv(c)'
    BY <1>1, <2>6, <2>7, SameSets DEF ProcInv, Early, Reading, Over
  <2>13. r.entries # <<>> /\ Len(r.entries) <= size[c] /\ r.st = "none"
    <3>1. Len(r.entries) = i /\ i # 0 /\ i <= size[c]
      BY <1>1, <2>3, <2>4, SandboxAssumption DEF Idx
    <3>2. r.entries # <<>>
      BY <3>1, EmptySeq
    <3> QED BY <1>1, <2>4, <3>1, <3>2 DEF ResInv
  <2>14. ResInv(c)'
    BY <1>1, <2>6, <2>7, <2>13, SameSets DEF ResInv, ProcInv, Early, Reading, Over
  <2>15. Mine(c, i, n, out)
    BY <1>1, <1>6, ReadIsMine
  <2>16. ASSUME NEW k \in DOMAIN r.entries
         PROVE  Mine(c, k, r.entries[k].name, r.entries[k].out)
    <3>1. k \in 1..i
      BY <2>3, <2>4, LenProperties
    <3>2. CASE k = i
      BY <2>2, <2>3, <2>4, <2>15, <3>2
    <3>3. CASE k # i
      <4>1. k \in 1..Len(es) /\ DOMAIN es = 1..Len(es)
        BY <1>3, <1>4, <3>1, <3>3, LenProperties
      <4>2. r.entries[k] = res[c].entries[k] /\ k \in DOMAIN res[c].entries
        BY <1>3, <2>3, <2>4, <4>1
      <4>3. Mine(c, k, res[c].entries[k].name, res[c].entries[k].out)
        BY <1>1, <4>2, OwnMeans DEF EntriesMine, MineAll
      <4> QED BY <4>2, <4>3
    <3> QED BY <3>2, <3>3
  <2>17. MineAll(c, res'[c].entries)
    BY <2>7, <2>16 DEF MineAll
  <2>18. pc[c] \in Opened
    BY <1>1 DEF Opened
  <2> QED BY <2>8, <2>10, <2>11, <2>12, <2>14, <2>17, <2>18, HostOnlyKeeps, HostStep
          DEF CallInv
<1>7. ASSUME NEW n \in ReadNames(c, i),
             NEW out \in {NoRun} \cup (IF Writing(capt[n]) THEN {} ELSE {capt[n]})
      PROVE  out \in {NoRun, capt[n]}
  BY <1>7
<1> QED BY <1>2, <1>3, <1>4, <1>6, <1>7 DEF ReadCapture

LEMMA DeleteCaptureInv ==
    ASSUME SandboxInv, NEW c \in Calls, DeleteCapture(c)
    PROVE  SandboxInv'
<1>1. /\ Typed /\ PlaceInv(c) /\ ProcInv(c) /\ ResInv(c) /\ OwnInv(c) /\ pc[c] = "delete"
      /\ c \in Runners
  BY TypedMeans DEF SandboxInv, DeleteCapture, PlaceInv, Section
<1>2. UNCHANGED <<path, cache, left, size, tries, exits, usable, kind, machine, bins, proc,
                  truth, wrote, pending, ring>>
  BY DEF DeleteCapture, host
<1>3. capt' \in {capt, Deleted(res[c].entries[Len(res[c].entries)].name)}
  BY DEF DeleteCapture
<1>4. /\ capt' \in [Names -> Runs \cup {NoRun}]
      /\ \A k \in Names : capt'[k] \in {capt[k], NoRun}
  BY <1>1, <1>3, DeletedFacts
<1>5. PICK w \in {"read", "trap", "done"}, r \in Result :
        /\ pc' = [pc EXCEPT ![c] = w] /\ res' = [res EXCEPT ![c] = r]
        /\ r.entries = res[c].entries
        /\ w = "read" => Len(res[c].entries) < size[c] /\ lock' = lock
        /\ w # "read" => lock' = Released(c)
        /\ w # "done" => r.st = res[c].st
        /\ w = "trap" => c \notin Batches
        /\ w = "done" => r.st = "ok" /\ r.agg = ExitCode(c)
  <2>1. res[c] \in Result /\ res = [res EXCEPT ![c] = res[c]]
    BY <1>1 DEF Typed
  <2>2. CASE Len(res[c].entries) < size[c]
    <3>1. Go(c, "read") /\ UNCHANGED <<lock, res>>
      BY <2>2 DEF DeleteCapture
    <3> QED BY <2>1, <2>2, <3>1 DEF Go
  <2>3. CASE ~(Len(res[c].entries) < size[c]) /\ NeedsRing(c)
    <3>1. Go(c, "trap") /\ UNCHANGED res /\ lock' = Released(c) /\ c \notin Batches
      BY <2>3 DEF DeleteCapture, NeedsRing
    <3> QED BY <2>1, <3>1 DEF Go
  <2>4. CASE ~(Len(res[c].entries) < size[c]) /\ ~NeedsRing(c)
    <3>1. /\ Return(c, [res[c] EXCEPT !.st = "ok", !.agg = ExitCode(c)])
          /\ lock' = Released(c)
      BY <2>4 DEF DeleteCapture
    <3>2. PICK x \in ExitCodes : x = ExitCode(c)
      BY <1>1, ExitCodeFacts
    <3>3. PICK r \in Result : /\ r = [res[c] EXCEPT !.st = "ok", !.agg = x]
                              /\ r.st = "ok" /\ r.agg = x /\ r.entries = res[c].entries
      BY <2>1, <3>2, ResultAtEnd, Zenon
    <3> QED BY <3>1, <3>2, <3>3 DEF Return, Go
  <2> QED BY <2>2, <2>3, <2>4
<1>6. pc'[c] = w /\ res'[c] = r
  BY <1>1, <1>5 DEF Typed
<1>7. ExitCode(c)' = ExitCode(c)
  BY <1>2, SameExit
<1>8. lock' = lock \/ (lock = c /\ lock' = NoCall)
  BY <1>5 DEF Released
<1>9. w # "read" => lock' # c
  BY <1>5, SandboxAssumption DEF Released
<1>10. Typed'
  <2>1. w \in AnyPC
    BY <1>5 DEF AnyPC
  <2>2. pc' \in [Calls -> AnyPC] /\ res' \in [Calls -> Result] /\ lock' \in Calls \cup {NoCall}
    BY <1>1, <1>5, <1>8, <2>1 DEF Typed
  <2> QED BY <1>1, <1>2, <1>4, <2>2 DEF Typed
<1>11. \A d \in Calls \ {c} : SameAt(d)
  BY <1>1, <1>2, <1>5, <1>8, SameOthers
<1>12. HostKeeps(c)
  BY <1>1, <1>2, <1>4, <1>11 DEF HostKeeps
<1>13. PlaceInv(c)'
  BY <1>1, <1>2, <1>5, <1>6, <1>9, SameSets DEF PlaceInv, Section
<1>14. ProcInv(c)'
  BY <1>1, <1>2, <1>6, SameSets DEF ProcInv, Early, Reading, Over
<1>15. ResInv(c)'
  BY <1>1, <1>2, <1>5, <1>6, <1>7, SameSets DEF ResInv, ProcInv, Early, Reading, Over
<1>16. MineAll(c, res'[c].entries)
  BY <1>1, <1>5, <1>6, OwnMeans DEF EntriesMine
<1>17. pc[c] \in Opened
  BY <1>1 DEF Opened
<1> QED BY <1>10, <1>12, <1>13, <1>14, <1>15, <1>16, <1>17, HostStep DEF CallInv

----------------------------------------------------------------------------
(* sandbox_last_trap.                                                      *)

\* A step that changes nothing of any call but perhaps its count of attempts.
LEMMA QuietInv ==
    ASSUME SandboxInv, Typed', UNCHANGED <<kind, capt, res>>, \A d \in Calls : SameAt(d)
    PROVE  SandboxInv'
<1>1. Typed /\ EndsStay
  BY TypedMeans DEF SandboxInv, EndsStay, SameAt
<1>2. \A d \in Calls : CallInv(d)' /\ OwnInv(d)'
  BY <1>1, CallKept, OwnKept DEF SandboxInv, CallInv
<1>3. \A n \in Names : FileInv(n)'
  BY <1>1, FileKept DEF SandboxInv, SameAt
<1> QED BY <1>2, <1>3, TypedMeansNext DEF SandboxInv, CallInv

LEMMA LastTrapInv ==
    ASSUME SandboxInv, NEW c \in Calls, LastTrap(c)
    PROVE  SandboxInv'
<1>1. /\ Typed /\ PlaceInv(c) /\ ProcInv(c) /\ ResInv(c) /\ OwnInv(c) /\ pc[c] = "trap"
      /\ c \in Runners
  BY TypedMeans DEF SandboxInv, LastTrap, PlaceInv, Section
<1>2. CASE Raise(c)
  BY <1>1, <1>2, RaiseInv
<1>3. CASE /\ tries[c] + 1 < RetryCount /\ tries' = [tries EXCEPT ![c] = @ + 1]
           /\ UNCHANGED <<pc, path, cache, lock, target, left, size, exits, usable, res>>
  <2>1. UNCHANGED <<pc, path, cache, lock, left, size, exits, usable, res, kind, machine,
                    bins, proc, truth, capt, wrote, pending, ring>>
    BY <1>3 DEF target
  <2>2. tries' \in [Calls -> 0..RetryCount]
    <3>1. tries[c] + 1 \in 0..RetryCount
      <4>1. tries[c] \in 0..RetryCount /\ RetryCount \in Nat
        BY <1>1, SandboxAssumption DEF Typed
      <4> QED BY <1>3, <4>1
    <3> QED BY <1>1, <1>3, <3>1 DEF Typed
  <2>3. Typed'
    BY <1>1, <2>1, <2>2 DEF Typed
  <2>4. \A d \in Calls : SameAt(d)
    BY <2>1 DEF SameAt
  <2> QED BY <2>1, <2>3, <2>4, QuietInv
<1>4. CASE \E k \in Kinds \cup {"none"}, b \in BOOLEAN :
             /\ Return(c, [res[c] EXCEPT !.st = "ok", !.agg = ExitCode(c),
                                         !.entries[1].kind = k])
             /\ usable' = [usable EXCEPT ![c] = b]
             /\ UNCHANGED <<path, cache, lock, target, left, size, tries, exits>>
  <2>1. PICK k \in Kinds \cup {"none"}, b \in BOOLEAN :
             /\ Return(c, [res[c] EXCEPT !.st = "ok", !.agg = ExitCode(c),
                                         !.entries[1].kind = k])
             /\ usable' = [usable EXCEPT ![c] = b]
             /\ UNCHANGED <<path, cache, lock, target, left, size, tries, exits>>
    BY <1>4
  <2>2. PICK es \in Seq(Entry) : /\ es = res[c].entries /\ es # <<>>
                                 /\ DOMAIN es = 1..Len(es) /\ 1 \in DOMAIN es
    <3>1. res[c].entries \in Seq(Entry) /\ res[c].entries # <<>>
      BY <1>1 DEF Typed, Result, ResInv
    <3> QED BY <3>1, LenProperties, EmptySeq
  <2>3. PICK e \in Entry : /\ e = [es[1] EXCEPT !.kind = k]
                            /\ e.out = es[1].out /\ e.name = es[1].name
    <3>1. es[1] \in Entry
      BY <2>2, ElementOfSeq
    <3> QED BY <3>1, EntryWith
  <2>4. PICK fs \in Seq(Entry) : /\ fs = [es EXCEPT ![1] = e] /\ Len(fs) = Len(es)
                                 /\ fs # <<>> /\ DOMAIN fs = DOMAIN es
                                 /\ \A i \in DOMAIN es : /\ fs[i].out = es[i].out
                                                         /\ fs[i].name = es[i].name
    <3>1. [es EXCEPT ![1] = e] \in Seq(Entry) /\ Len([es EXCEPT ![1] = e]) = Len(es)
      BY <2>2, <2>3, ExceptSeq
    <3>2. DOMAIN [es EXCEPT ![1] = e] = DOMAIN es
      OBVIOUS
    <3>3. \A i \in DOMAIN es : /\ [es EXCEPT ![1] = e][i].out = es[i].out
                               /\ [es EXCEPT ![1] = e][i].name = es[i].name
      BY <2>3
    <3>4. [es EXCEPT ![1] = e] # <<>>
      BY <2>2, <3>2, EmptySeq
    <3> QED BY <3>1, <3>2, <3>3, <3>4
  <2>5. PICK x \in ExitCodes : x = ExitCode(c)
    BY <1>1, ExitCodeFacts
  <2>6. PICK r \in Result : /\ r = [res[c] EXCEPT !.st = "ok", !.agg = x, !.entries = fs]
                            /\ r.st = "ok" /\ r.agg = x /\ r.entries = fs
    <3>1. res[c] \in Result
      BY <1>1 DEF Typed
    <3>2. fs \in Seq(Entry) /\ x \in ExitCodes
      OBVIOUS
    <3>3. PICK q \in Result : q = res[c]
      BY <3>1
    <3>4. \E r \in Result : /\ r = [q EXCEPT !.st = "ok", !.agg = x, !.entries = fs]
                            /\ r.st = "ok" /\ r.agg = x /\ r.entries = fs
      <4> DEFINE r0 == [q EXCEPT !.st = "ok", !.agg = x, !.entries = fs]
      <4>1. r0 \in Result
        BY <3>2 DEF Result
      <4>2. r0.st = "ok" /\ r0.agg = x /\ r0.entries = fs
        BY <3>2 DEF Result
      <4> QED BY <4>1, <4>2
    <3> QED BY <3>3, <3>4
  <2>7. pc' = [pc EXCEPT ![c] = "done"] /\ res' = [res EXCEPT ![c] = r] /\ "done" \in AnyPC
    <3>1. res[c] \in Result
      BY <1>1 DEF Typed
    <3>2. [res[c] EXCEPT !.st = "ok", !.agg = x, !.entries[1].kind = k] = r
      BY <2>2, <2>3, <2>4, <2>6, <3>1 DEF Result
    <3> QED BY <2>1, <2>5, <3>2 DEF Return, Go, AnyPC
  <2>8. UNCHANGED <<path, cache, lock, left, size, tries, exits, kind, machine, bins, proc,
                    truth, capt, wrote, pending, ring>>
    BY <2>1 DEF target
  <2>9. pc'[c] = "done" /\ res'[c] = r /\ ExitCode(c)' = ExitCode(c)
    BY <1>1, <2>7, <2>8, SameExit DEF Typed
  <2>10. Typed'
    <3>1. pc' \in [Calls -> AnyPC] /\ res' \in [Calls -> Result]
      BY <1>1, <2>7 DEF Typed
    <3>2. usable' \in [Calls -> BOOLEAN]
      BY <1>1, <2>1 DEF Typed
    <3> QED BY <1>1, <2>8, <3>1, <3>2 DEF Typed
  <2>11. \A d \in Calls \ {c} : SameAt(d)
    BY <1>1, <2>7, <2>8, SameOthers
  <2>12. HostOnly(c)
    BY <1>1, <2>8, <2>9, <2>11 DEF HostOnly
  <2>13. PlaceInv(c)'
    BY <1>1, <2>8, <2>9, SameSets DEF PlaceInv, Section
  <2>14. ProcInv(c)'
    BY <1>1, <2>8, <2>9, SameSets DEF ProcInv, Early, Reading, Over
  <2>15. Len(fs) <= size[c]
    BY <1>1, <2>2, <2>4 DEF ResInv
  <2>16. ResInv(c)'
    BY <1>1, <2>5, <2>6, <2>8, <2>9, <2>15, SameSets DEF ResInv, ProcInv, Early, Reading, Over
  <2>17. MineAll(c, res'[c].entries)
    BY <1>1, <2>2, <2>4, <2>6, <2>9, OwnMeans DEF EntriesMine, MineAll
  <2>18. pc'[c] \notin Opened
    BY <2>9 DEF Opened
  <2> QED BY <2>10, <2>12, <2>13, <2>14, <2>16, <2>17, <2>18, HostOnlyKeeps, HostStep
          DEF CallInv
<1>5. ASSUME NEW k0, NEW b0 \in BOOLEAN, NEW mine \in BOOLEAN, k0 \in Kinds \cup {"none"},
             Return(c, [res[c] EXCEPT !.st = "ok", !.agg = ExitCode(c),
                                      !.entries[1].kind = IF mine THEN k0 ELSE @]),
             usable' = [usable EXCEPT ![c] = b0],
             UNCHANGED <<path, cache, lock, target, left, size, tries, exits>>
      PROVE  SandboxInv'
  <2>1. res[c].entries[1].kind \in Kinds \cup {"none"}
    <3>1. res[c].entries \in Seq(Entry) /\ res[c].entries # <<>>
      BY <1>1 DEF Typed, Result, ResInv
    <3>2. res[c].entries[1] \in Entry
      BY <3>1, LenProperties, EmptySeq, ElementOfSeq
    <3> QED BY <3>2 DEF Entry
  <2>2. PICK k \in Kinds \cup {"none"} : k = IF mine THEN k0 ELSE res[c].entries[1].kind
    BY <1>5, <2>1
  <2>3. Return(c, [res[c] EXCEPT !.st = "ok", !.agg = ExitCode(c), !.entries[1].kind = k])
    BY <1>5, <2>2
  <2> QED BY <1>4, <1>5, <2>3
<1>6. \A lines, block : BlockKind(lines, block) \in Kinds \cup {"none"}
  BY ClassifyExitType DEF BlockKind
<1>7. \A lines : RingReportsDaemon(lines) \in BOOLEAN
  BY DEF RingReportsDaemon
<1> QED BY <1>2, <1>3, <1>5, <1>6, <1>7 DEF LastTrap

----------------------------------------------------------------------------
(* Init and Next.                                                          *)

LEMMA InitInv ==
    ASSUME Init
    PROVE  SandboxInv
<1>1. /\ pc = [c \in Calls |-> "idle"] /\ path = [c \in Calls |-> NoPath]
      /\ left = [c \in Calls |-> <<>>] /\ size = [c \in Calls |-> 0]
      /\ cache = NoPath /\ lock = NoCall /\ proc = [c \in Calls |-> "none"]
      /\ truth = [c \in Calls |-> <<>>] /\ capt = [n \in Names |-> NoRun]
      /\ pending = <<>> /\ tries = [c \in Calls |-> 0] /\ exits = [c \in Calls |-> <<>>]
      /\ wrote = [c \in Calls |-> {}] /\ usable = [c \in Calls |-> TRUE]
      /\ res = [c \in Calls |-> NoRes]
  BY DEF Init
<1>2. /\ kind \in [Calls -> Tools] /\ machine \in {"extmem", "pegasos2"}
      /\ bins \in [Paths -> {"none", "part", "old", "new"}]
  BY DEF Init
<1>3. ring \in Seq(Line) /\ Len(ring) <= RingSize /\ Len(ring) \in Nat
  <2>1. Boot("MCPd") \in Line /\ Boot("kernel") \in Line
    BY SandboxAssumption DEF Boot, Line
  <2>2. CASE ring = <<Boot("MCPd")>>
    BY <2>1, <2>2, SandboxAssumption
  <2>3. CASE ring = [i \in 1..RingSize |-> Boot("kernel")]
    BY <2>1, <2>3, SandboxAssumption
  <2> QED BY <2>2, <2>3 DEF Init
<1>4. Len(<<>>) = 0 /\ DOMAIN <<>> = {} /\ \A S : <<>> \in Seq(S)
  BY EmptySeq
<1>5. NoRes \in Result /\ NoRes.st = "none" /\ NoRes.entries = <<>>
  BY <1>4 DEF NoRes, Result, ExitCodes
<1>6. Typed
  <2>1. pc \in [Calls -> AnyPC] /\ proc \in [Calls -> {"none", "running", "exited", "aborted"}]
    BY <1>1 DEF AnyPC
  <2>2. /\ left \in [Calls -> Seq(Paths)] /\ truth \in [Calls -> Seq(GuestRC)]
        /\ exits \in [Calls -> Seq(GuestRC)] /\ pending \in Seq(Line)
    BY <1>1, <1>4
  <2>3. size \in [Calls -> 0..SANDBOXVM_MAX_GUESTS] /\ tries \in [Calls -> 0..RetryCount]
    BY <1>1, SandboxAssumption
  <2>4. \A c \in Calls : Len(truth[c]) <= size[c]
    BY <1>1, <1>4
  <2>5. Len(pending) + Len(ring) <= RingSize
    BY <1>1, <1>3, <1>4
  <2>6. usable \in [Calls -> BOOLEAN]
    BY <1>1
  <2>7. res \in [Calls -> Result]
    BY <1>1, <1>5
  <2>8. capt \in [Names -> Runs \cup {NoRun}] /\ wrote \in [Calls -> SUBSET Idx]
    BY <1>1
  <2> QED BY <1>1, <1>2, <1>3, <2>1, <2>2, <2>3, <2>4, <2>5, <2>6, <2>7, <2>8 DEF Typed
<1>7. ASSUME NEW c \in Calls PROVE PlaceInv(c) /\ ProcInv(c) /\ ResInv(c) /\ OwnInv(c)
  <2>1. /\ pc[c] = "idle" /\ proc[c] = "none" /\ size[c] = 0 /\ truth[c] = <<>>
        /\ exits[c] = <<>> /\ res[c].st = "none" /\ res[c].entries = <<>> /\ lock # c
        /\ wrote[c] = {}
    BY <1>1, <1>5, SandboxAssumption
  <2>2. PlaceInv(c)
    BY <2>1 DEF PlaceInv, Section
  <2>3. ProcInv(c)
    BY <2>1 DEF ProcInv, Reading
  <2>4. ResInv(c)
    BY <1>4, <2>1 DEF ResInv
  <2>5. OwnInv(c)
    BY <1>4, <2>1 DEF OwnInv
  <2> QED BY <2>2, <2>3, <2>4, <2>5
<1>8. \A n \in Names : FileInv(n)
  BY <1>1 DEF FileInv
<1> QED BY <1>6, <1>7, <1>8, TypedMeans DEF SandboxInv

LEMMA StutterInv ==
    ASSUME SandboxInv, UNCHANGED vars
    PROVE  SandboxInv'
<1>1. UNCHANGED <<pc, path, left, size, cache, lock, machine, bins, proc, truth, capt, kind,
                  wrote, pending, ring, tries, exits, usable, res>>
  BY DEF vars
<1>2. Typed
  BY TypedMeans DEF SandboxInv
<1>3. Typed'
  BY <1>1, <1>2 DEF Typed
<1>4. \A d \in Calls : SameAt(d)
  BY <1>1 DEF SameAt
<1> QED BY <1>1, <1>3, <1>4, QuietInv

LEMMA CallStepInv ==
    ASSUME SandboxInv, NEW c \in Calls, CallStep(c)
    PROVE  SandboxInv'
<1>1. CASE DeployRefused(c) \/ DeployFails(c)
  BY <1>1, RaiseInv DEF DeployRefused, DeployFails
<1>2. CASE Begin(c)
  BY <1>2, BeginInv
<1>3. CASE ProbeStat(c)
  BY <1>3, ProbeStatInv
<1>4. CASE ProbeBanner(c)
  BY <1>4, ProbeBannerInv
<1>5. CASE ProbeVersion(c)
  BY <1>5, ProbeVersionInv
<1>6. CASE DeployMakeDir(c)
  BY <1>6, DeployMakeDirInv
<1>7. CASE DeployUploaded(c)
  BY <1>7, DeployUploadedInv
<1>8. CASE TakeLock(c)
  BY <1>8, TakeLockInv
<1>9. CASE ExecStarts(c)
  BY <1>9, ExecStartsInv
<1>10. CASE ExecRaises(c)
  BY <1>10, ExecRaisesInv
<1>11. CASE ExecExited(c)
  BY <1>11, ExecExitedInv
<1>12. CASE ExecStillRunning(c)
  BY <1>12, ExecStillRunningInv
<1>13. CASE BatchCodes(c)
  BY <1>13, BatchCodesInv
<1>14. CASE ReadCapture(c)
  BY <1>14, ReadCaptureInv
<1>15. CASE DeleteCapture(c)
  BY <1>15, DeleteCaptureInv
<1>16. CASE Slurp(c)
  BY <1>16, SlurpInv
<1>17. CASE SlurpDelete(c)
  BY <1>17, SlurpDeleteInv
<1>18. CASE LastTrap(c)
  BY <1>18, LastTrapInv
<1> QED BY <1>1, <1>2, <1>3, <1>4, <1>5, <1>6, <1>7, <1>8, <1>9, <1>10, <1>11, <1>12,
           <1>13, <1>14, <1>15, <1>16, <1>17, <1>18 DEF CallStep

(* The lock serialises the calls that share capture names, a job's name is *)
(* its own, and only a guest that runs makes its capture file: whatever    *)
(* the interleaving of calls, guests, aborts and deploys, SandboxInv holds *)
(* in every state.                                                         *)
THEOREM SandboxInvariant == Spec => []SandboxInv
<1>1. Init => SandboxInv
  BY InitInv
<1>2. SandboxInv /\ [Next]_vars => SandboxInv'
  <2> SUFFICES ASSUME SandboxInv, [Next]_vars PROVE SandboxInv'
    OBVIOUS
  <2>1. CASE \E c \in Calls : CallStep(c)
    BY <2>1, CallStepInv
  <2>2. CASE \E c \in Runners : GuestWrites(c) \/ GuestEnds(c) \/ GuestAborted(c)
    BY <2>2, GuestWritesInv, GuestEndsInv, GuestAbortedInv
  <2>3. CASE RingWrite
    BY <2>3, RingWriteInv
  <2>4. CASE CacheExpires
    BY <2>4, CacheExpiresInv
  <2>5. CASE UNCHANGED vars
    BY <2>5, StutterInv
  <2> QED BY <2>1, <2>2, <2>3, <2>4, <2>5 DEF Next
<1> QED BY <1>1, <1>2, PTL DEF Spec

(* What run_guest, run_batch and a sandboxed job return as a guest's       *)
(* output: a job's is its own whatever happens, nobody's shows that of a   *)
(* call still at it, and a guest that wrote, looked for under the name it  *)
(* ran by, is shown another's only when that one outlived its call.        *)
THEOREM SandboxOutputIsOwn == Spec => []OutputIsOwn
<1>1. SandboxInv => OutputIsOwn
  <2> SUFFICES ASSUME SandboxInv PROVE OutputIsOwn
    OBVIOUS
  <2>1. TypeOK
    BY DEF SandboxInv
  <2>2. ASSUME NEW c \in Calls, NEW i \in DOMAIN res[c].entries
        PROVE  Mine(c, i, res[c].entries[i].name, res[c].entries[i].out)
    BY <2>2 DEF SandboxInv, OwnInv
  <2> QED BY <2>1, <2>2 DEF OutputIsOwn, Mine, Left
<1> QED BY <1>1, SandboxInvariant, PTL

(* all_clean of run_batch (sandbox.py: the aggregate exit code is 0 and so *)
(* is every code parsed from the ring) means that every guest of the batch *)
(* returned 0, whatever lines the ring has lost or other runs have added.  *)
THEOREM AllCleanMeansClean == Spec => []AllCleanIsTrue
<1>1. SandboxInv => AllCleanIsTrue
  <2> SUFFICES ASSUME SandboxInv, NEW c \in Batches, Ended(c), AllClean(c)
               PROVE  \A i \in 1..size[c] : truth[c][i] = 0
    BY DEF AllCleanIsTrue
  <2>1. c \in Calls /\ c \in Runners /\ Typed
    BY TypedMeans DEF SandboxInv, Batches, Runners
  <2>2. ResInv(c) /\ ProcInv(c)
    BY <2>1 DEF SandboxInv
  <2>3. Over(c) /\ ExitCode(c) = 0
    BY <2>1, <2>2 DEF ResInv, Ended, AllClean
  <2>4. /\ proc[c] = "exited" /\ truth[c] # <<>>
        /\ \A i \in 1..Len(truth[c]) : truth[c][i] = 0
    BY <2>1, <2>3, ExitCodeFacts DEF Over
  <2>5. Len(truth[c]) = size[c]
    BY <2>2, <2>4 DEF ProcInv
  <2> QED BY <2>4, <2>5
<1> QED BY <1>1, SandboxInvariant, PTL

=============================================================================
