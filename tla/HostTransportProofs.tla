------------------------ MODULE HostTransportProofs -------------------------
(***************************************************************************)
(* Proofs about the host's two ends of a wire, for every value of the      *)
(* constants. RpcTransport: a request that is not idempotent runs at most  *)
(* once, a call is given its own reply, and the transport with the         *)
(* daemon's workers implements RpcService. SerialPort: a stopped capture   *)
(* leaves no reader behind, and a command the cold-board guard let through *)
(* does not wedge the MCU.                                                 *)
(***************************************************************************)
EXTENDS RpcTransport, SerialPort, SequenceTheorems, FiniteSetTheorems, TLAPS

-----------------------------------------------------------------------------
(* 1. RpcTransport.                                                        *)

-----------------------------------------------------------------------------
(* What the sequence operators do to the frames in a sequence.             *)

LEMMA EmptyContents == Contents(<<>>) = {}
    BY DEF Contents

LEMMA TailContents ==
    ASSUME NEW S, NEW s \in Seq(S), s # <<>>
    PROVE  /\ Head(s) \in S /\ Head(s) \in Contents(s)
           /\ Tail(s) \in Seq(S)
           /\ Contents(Tail(s)) \subseteq Contents(s)
           /\ Contents(s) = {Head(s)} \cup Contents(Tail(s))
           /\ Len(Tail(s)) = Len(s) - 1
           /\ \A n \in 1..Len(Tail(s)) : Tail(s)[n] = s[n + 1]
    <1>1. /\ Head(s) \in S /\ Tail(s) \in Seq(S) /\ Len(s) \in Nat \ {0}
          /\ Head(s) = s[1]
          /\ Len(Tail(s)) = Len(s) - 1
          /\ \A n \in 1..Len(Tail(s)) : Tail(s)[n] = s[n + 1]
      BY HeadTailProperties, EmptySeq, LenProperties
    <1>2. \A n \in 1..Len(s) : n = 1 \/ (n - 1 \in 1..Len(Tail(s))
                                         /\ s[n] = Tail(s)[n - 1])
      BY <1>1
    <1>3. \A n \in 1..Len(Tail(s)) : n + 1 \in 1..Len(s)
      BY <1>1
    <1>4. 1 \in 1..Len(s)
      BY <1>1
    <1> QED BY <1>1, <1>2, <1>3, <1>4 DEF Contents

LEMMA AppendContents ==
    ASSUME NEW S, NEW s \in Seq(S), NEW e \in S
    PROVE  /\ Append(s, e) \in Seq(S)
           /\ Contents(Append(s, e)) = Contents(s) \cup {e}
           /\ Len(Append(s, e)) = Len(s) + 1 /\ Len(s) \in Nat
           /\ Append(s, e)[Len(s) + 1] = e
           /\ \A n \in 1..Len(s) : Append(s, e)[n] = s[n]
    <1>1. /\ Append(s, e) \in Seq(S)
          /\ Len(Append(s, e)) = Len(s) + 1 /\ Len(s) \in Nat
          /\ Append(s, e)[Len(s) + 1] = e
          /\ \A n \in 1..Len(s) : Append(s, e)[n] = s[n]
      BY AppendProperties, LenProperties
    <1>2. \A n : n \in 1..(Len(s) + 1) <=> n \in 1..Len(s) \/ n = Len(s) + 1
      BY <1>1
    <1> QED BY <1>1, <1>2 DEF Contents

LEMMA ConcatContents ==
    ASSUME NEW S, NEW s \in Seq(S), NEW t \in Seq(S)
    PROVE  /\ s \o t \in Seq(S)
           /\ Contents(s \o t) = Contents(s) \cup Contents(t)
    <1>1. /\ s \o t \in Seq(S)
          /\ Len(s \o t) = Len(s) + Len(t)
          /\ Len(s) \in Nat /\ Len(t) \in Nat
          /\ \A n \in 1..(Len(s) + Len(t)) :
               (s \o t)[n] = IF n <= Len(s) THEN s[n] ELSE t[n - Len(s)]
      BY ConcatProperties, LenProperties
    <1>2. ASSUME NEW n \in 1..(Len(s) + Len(t))
          PROVE  \/ n \in 1..Len(s) /\ (s \o t)[n] = s[n]
                 \/ n - Len(s) \in 1..Len(t) /\ (s \o t)[n] = t[n - Len(s)]
      BY <1>1, <1>2
    <1>3. ASSUME NEW n \in 1..Len(s)
          PROVE  n \in 1..(Len(s) + Len(t)) /\ (s \o t)[n] = s[n]
      BY <1>1, <1>3
    <1>4. ASSUME NEW n \in 1..Len(t)
          PROVE  /\ n + Len(s) \in 1..(Len(s) + Len(t))
                 /\ (s \o t)[n + Len(s)] = t[n]
      BY <1>1, <1>4
    <1>5. Contents(s \o t) \subseteq Contents(s) \cup Contents(t)
      BY <1>1, <1>2 DEF Contents
    <1>6. Contents(s) \subseteq Contents(s \o t)
      BY <1>1, <1>3 DEF Contents
    <1>7. Contents(t) \subseteq Contents(s \o t)
      BY <1>1, <1>4 DEF Contents
    <1> QED BY <1>1, <1>5, <1>6, <1>7

LEMMA ShortContents ==
    ASSUME NEW S, NEW a \in S, NEW b \in S
    PROVE  /\ <<a>> \in Seq(S) /\ Contents(<<a>>) = {a}
           /\ <<a, b>> \in Seq(S) /\ Contents(<<a, b>>) = {a, b}
    <1>1. <<a>> \in Seq(S) /\ <<a, b>> \in Seq(S)
      OBVIOUS
    <1>2. Len(<<a>>) = 1 /\ <<a>>[1] = a
      OBVIOUS
    <1>3. Len(<<a, b>>) = 2 /\ <<a, b>>[1] = a /\ <<a, b>>[2] = b
      OBVIOUS
    <1>4. \A n : (n \in 1..1 <=> n = 1) /\ (n \in 1..2 <=> n = 1 \/ n = 2)
      OBVIOUS
    <1> QED BY <1>1, <1>2, <1>3, <1>4 DEF Contents

LEMMA ContentsInSet ==
    ASSUME NEW S, NEW s \in Seq(S)
    PROVE  Contents(s) \subseteq S
    BY ElementOfSeq DEF Contents

LEMMA SeqGrows ==
    ASSUME NEW S, NEW T, S \subseteq T, NEW s \in Seq(S)
    PROVE  s \in Seq(T)
    <1>1. /\ s \in [1..Len(s) -> S] /\ Len(s) \in Nat
      BY LenProperties
    <1>2. s \in [1..Len(s) -> T]
      BY <1>1
    <1> QED BY <1>1, <1>2, IsASeq

-----------------------------------------------------------------------------
(* The kinds of steps.                                                     *)

(* What a step of the host does to the frames that wait for it.            *)
HostReads ==
    \/ toHost' = toHost
    \/ conn \in ConnIds /\ toHost' = [toHost EXCEPT ![conn] = <<>>]
    \/ conn \in ConnIds /\ toHost[conn] # <<>> /\ (TakeFrame \/ TearHead)

Quiet == toDaemon' = toDaemon /\ doing' = doing /\ ran' = ran /\ HostReads

Writes(f) ==
    /\ doing' = doing /\ ran' = ran /\ HostReads
    /\ \/ toDaemon' = toDaemon
       \/ /\ conn \in ConnIds
          /\ toDaemon' = [toDaemon EXCEPT ![conn] = Append(@, f)]

(* What it does to the call that holds the lock.                           *)
CallSame ==
    UNCHANGED <<phase, k, attempt, rid, next_id, outcome, answer, wentOut>>

CallMoves ==
    /\ phase \notin {"idle", "drain", "read"}
    /\ phase' \notin {"idle", "drain", "read"}
    /\ UNCHANGED <<k, attempt, rid, next_id, outcome, answer, wentOut>>

CallBegins ==
    \E r \in Requests :
        /\ phase = "idle" /\ outcome[r] = "none"
        /\ phase' = "check" /\ k' = r
        /\ UNCHANGED <<attempt, rid, next_id, outcome, answer, wentOut>>

CallRetries ==
    /\ phase # "idle"
    /\ phase = "read" => k \in Idempotent
    /\ attempt = 0 /\ attempt' = 1
    /\ phase' = "check"
    /\ next_id' = next_id \/ next_id' = next_id + 1
    /\ UNCHANGED <<k, rid, outcome, answer, wentOut>>

CallEnds ==
    /\ phase # "idle"
    /\ phase' = "idle" /\ k' = NoReq /\ attempt' = 0 /\ rid' = 0
    /\ next_id' = next_id \/ next_id' = next_id + 1
    /\ wentOut' = wentOut
    /\ \E o \in Outcomes \ {"none"} :
         /\ outcome' = [outcome EXCEPT ![k] = o]
         /\ o \in {"unreachable", "not_run"} => phase # "read"
         /\ \/ o # "answered" /\ answer' = answer
            \/ /\ o = "answered" /\ phase = "read"
               /\ conn \in ConnIds /\ toHost[conn] # <<>> /\ Got.id = rid
               /\ answer' = [answer EXCEPT ![k] = Got.req]

CallAbandons ==
    phase = "drain" /\ CallEnds /\ outcome' = [outcome EXCEPT ![k] = "cancelled"]

CallBlocks ==
    /\ phase = "send" /\ phase' = "drain"
    /\ rid' = next_id /\ next_id' = next_id + 1
    /\ UNCHANGED <<k, attempt, outcome, answer, wentOut>>

CallSends(i) ==
    /\ \/ phase = "send" /\ i = next_id /\ next_id' = next_id + 1
       \/ phase = "drain" /\ i = rid /\ next_id' = next_id
    /\ phase' = "read" /\ rid' = i
    /\ wentOut' = wentOut \cup {k}
    /\ UNCHANGED <<k, attempt, outcome, answer>>

(* What a worker does other than to run a handler.                         *)
WorkerQuiet(c) ==
    /\ CallSame /\ ran' = ran
    /\ \/ toDaemon' = toDaemon
       \/ toDaemon' = [toDaemon EXCEPT ![c] = <<>>]
    /\ \/ doing' = doing
       \/ doing' = [doing EXCEPT ![c] = Idle]
    /\ \/ toHost' = toHost
       \/ toHost' = [toHost EXCEPT ![c] = <<>>]
       \/ \E s \in {<<Idle>>, <<doing[c]>>, <<Idle, doing[c]>>} :
             toHost' = [toHost EXCEPT ![c] = @ \o s]

LEMMA EndKind ==
    ASSUME phase # "idle", NEW o \in Outcomes \ {"none", "answered"}, End(o),
           next_id' = next_id \/ next_id' = next_id + 1, wentOut' = wentOut,
           answer' = answer, o \in {"unreachable", "not_run"} => phase # "read"
    PROVE  CallEnds
    BY Zenon DEF End, CallEnds

LEMMA HostStepKinds ==
    ASSUME TypeOK, HostStep \/ Cancel \/ Close \/ GoStale
    PROVE  \/ /\ Quiet
              /\ CallSame \/ CallMoves \/ CallRetries \/ CallEnds \/ CallBlocks
           \/ Writes(Frame(WARMUP_ID_BASE - probe, NoReq)) /\ CallMoves
           \/ \E i \in {rid, next_id} : Writes(Frame(i, k)) /\ CallSends(i)
           \/ Writes(Frame(rid, k)) /\ CallAbandons
    <1> USE DEF hostVars, callVars, daemonVars
    <1>0. phase \in {"warm_send", "warm_read", "drain", "read"} \/ conn # NoConn
            => conn \in ConnIds
      BY DEF TypeOK
    <1>1. CASE CheckStale
      <2>1. Quiet
        BY <1>0, <1>1 DEF CheckStale, CloseLocked, Quiet, HostReads
      <2>2. CallMoves
        BY <1>1 DEF CheckStale, CallMoves
      <2> QED BY <2>1, <2>2
    <1>2. CASE EnsureConnected
      BY <1>2 DEF EnsureConnected, Quiet, HostReads, CallMoves
    <1>3. CASE ConnectFails
      <2>1. Quiet
        BY <1>3 DEF ConnectFails, Quiet, HostReads
      <2>2. CallEnds
        BY <1>3, EndKind DEF ConnectFails, Outcomes
      <2> QED BY <2>1, <2>2
    <1>4. CASE WarmSend
      BY <1>0, <1>4 DEF WarmSend, Write, Writes, HostReads, CallMoves
    <1>5. CASE WarmSendFails
      <2>1. Quiet
        BY <1>0, <1>5 DEF WarmSendFails, CloseLocked, Quiet, HostReads
      <2>2. CallMoves
        BY <1>5 DEF WarmSendFails, WarmNext, CallMoves
      <2> QED BY <2>1, <2>2
    <1>6. CASE WarmRead
      BY <1>0, <1>6 DEF WarmRead, WarmNext, Quiet, HostReads, CallMoves
    <1>7. CASE WarmReadEnds
      BY <1>0, <1>7 DEF WarmReadEnds, WarmNext, Quiet, HostReads, CallMoves
    <1>8. CASE Send
      <2>1. Writes(Frame(next_id, k))
        BY <1>0, <1>8 DEF Send, Write, Writes, HostReads
      <2>2. CallSends(next_id)
        BY <1>8 DEF Send, CallSends
      <2> QED BY <2>1, <2>2
    <1>9. CASE SendBlocks
      BY <1>9 DEF SendBlocks, Quiet, HostReads, CallBlocks
    <1>10. CASE Drained
      <2>1. Writes(Frame(rid, k))
        BY <1>0, <1>10 DEF Drained, Write, Writes, HostReads
      <2>2. CallSends(rid)
        BY <1>10 DEF Drained, CallSends
      <2> QED BY <2>1, <2>2
    <1>11. CASE SendFails
      <2>1. Quiet
        BY <1>0, <1>11 DEF SendFails, CloseLocked, Quiet, HostReads
      <2>2. CallRetries \/ CallEnds
        BY <1>11, EndKind DEF SendFails, CallRetries, Outcomes
      <2> QED BY <2>1, <2>2
    <1>12. CASE SendTooLarge
      <2>1. Quiet
        BY <1>12 DEF SendTooLarge, Quiet, HostReads
      <2>2. CallEnds
        BY <1>12, EndKind DEF SendTooLarge, Outcomes
      <2> QED BY <2>1, <2>2
    <1>13. CASE SendUnconnected
      <2>1. Quiet
        BY <1>13 DEF SendUnconnected, Quiet, HostReads
      <2>2. CallEnds
        BY <1>13, EndKind DEF SendUnconnected, Outcomes
      <2> QED BY <2>1, <2>2
    <1>14. CASE ReadReply
      <2>1. Quiet
        BY <1>0, <1>14 DEF ReadReply, Quiet, HostReads
      <2>2. CallEnds
        BY <1>0, <1>14 DEF ReadReply, CallEnds, End, Outcomes
      <2> QED BY <2>1, <2>2
    <1>15. CASE ReadOther
      BY <1>0, <1>15 DEF ReadOther, Quiet, HostReads, CallSame
    <1>16. CASE ReadMismatch
      <2>1. Quiet
        BY <1>0, <1>16 DEF ReadMismatch, CloseLocked, Quiet, HostReads
      <2>2. CallEnds
        BY <1>16, EndKind DEF ReadMismatch, Outcomes
      <2> QED BY <2>1, <2>2
    <1>17. CASE ReadTorn
      <2>1. Quiet
        BY <1>0, <1>17 DEF ReadTorn, Quiet, HostReads
      <2>2. CallEnds
        BY <1>17, EndKind DEF ReadTorn, Outcomes
      <2> QED BY <2>1, <2>2
    <1>18. CASE ReadEof
      <2>1. Quiet
        BY <1>0, <1>18 DEF ReadEof, CloseLocked, Quiet, HostReads
      <2>2. CallRetries \/ CallEnds
        BY <1>18, EndKind DEF ReadEof, CallRetries, Outcomes
      <2> QED BY <2>1, <2>2
    <1>19. CASE ReadTimeout
      <2>1. Quiet
        BY <1>0, <1>19 DEF ReadTimeout, CloseLocked, Quiet, HostReads
      <2>2. CallEnds
        BY <1>19, EndKind DEF ReadTimeout, Outcomes
      <2> QED BY <2>1, <2>2
    <1>20. CASE Cancel
      <2>1. CallEnds
        BY <1>20, EndKind DEF Cancel, Outcomes
      <2>2. HostReads /\ doing' = doing /\ ran' = ran
        BY <1>0, <1>20 DEF Cancel, CloseLocked, HostReads
      <2>3. CASE phase = "drain"
        <3>1. Writes(Frame(rid, k))
          BY <1>0, <1>20, <2>2, <2>3 DEF Cancel, Write, Writes
        <3>2. CallAbandons
          BY <1>20, <2>1, <2>3 DEF Cancel, End, CallAbandons
        <3> QED BY <3>1, <3>2
      <2>4. CASE phase # "drain"
        BY <1>20, <2>1, <2>2, <2>4 DEF Cancel, Quiet
      <2> QED BY <2>3, <2>4
    <1>21. CASE Close
      <2>1. Quiet
        BY <1>0, <1>21 DEF Close, CloseLocked, Quiet, HostReads
      <2>2. CallSame
        BY <1>21 DEF Close, CallSame
      <2> QED BY <2>1, <2>2
    <1>22. CASE GoStale
      BY <1>22 DEF GoStale, Quiet, HostReads, CallSame
    <1> QED
      BY <1>1, <1>2, <1>3, <1>4, <1>5, <1>6, <1>7, <1>8, <1>9, <1>10, <1>11,
         <1>12, <1>13, <1>14, <1>15, <1>16, <1>17, <1>18, <1>19, <1>20, <1>21,
         <1>22 DEF HostStep

LEMMA WorkerStepKinds ==
    ASSUME TypeOK, NEW c \in ConnIds, WorkerStep(c)
    PROVE  WorkerRun(c) \/ WorkerQuiet(c)
    <1> USE DEF hostVars, callVars, WorkerQuiet, CallSame
    <1>1. CASE WorkerReply(c)
      BY <1>1 DEF WorkerReply, Deliver
    <1>2. CASE WorkerPoll(c)
      BY <1>2 DEF WorkerPoll, Deliver
    <1>3. CASE WorkerEnds(c)
      BY <1>3 DEF WorkerEnds
    <1> QED BY <1>1, <1>2, <1>3 DEF WorkerStep

-----------------------------------------------------------------------------
(* What each kind of step leaves on the wires.                             *)

DistinctIds ==
    \A c, d \in ConnIds :
        \A m \in 1..Len(toDaemon[c]), n \in 1..Len(toDaemon[d]) :
            toDaemon[c][m].id > 0 /\ toDaemon[c][m].id = toDaemon[d][n].id
              => c = d /\ m = n

LEMMA IntervalGrows ==
    ASSUME NEW a \in Int, NEW b \in Int, a <= b
    PROVE  1..(a - 1) \subseteq 1..(b - 1)
    OBVIOUS

LEMMA FramesGrow ==
    ASSUME next_id \in Nat \ {0}, next_id' = next_id \/ next_id' = next_id + 1
    PROVE  Frames \subseteq Frames'
    <1>0. next_id' \in Int /\ next_id <= next_id' /\ next_id \in Int
      <2>1. CASE next_id' = next_id
        BY <2>1
      <2>2. CASE next_id' = next_id + 1
        BY <2>2
      <2> QED BY <2>1, <2>2
    <1>1. 1..(next_id - 1) \subseteq 1..(next_id' - 1)
      BY <1>0, IntervalGrows
    <1>2. Ids \subseteq Ids'
      BY <1>1 DEF Ids, NoId, Probes
    <1> QED BY <1>2, Zenon DEF Frames

LEMMA WiresGrow ==
    ASSUME NEW S, NEW T, S \subseteq T
    PROVE  /\ \A w \in [ConnIds -> Seq(S)] : w \in [ConnIds -> Seq(T)]
           /\ \A w \in [ConnIds -> S] : w \in [ConnIds -> T]
    <1>1. Seq(S) \subseteq Seq(T)
      BY SeqGrows, Zenon
    <1> QED BY <1>1

LEMMA OwnFrames ==
    ASSUME next_id \in Nat \ {0}
    PROVE  /\ Idle \in Frames /\ Torn \in Frames
           /\ \A r \in Requests \cup {NoReq}, i \in Ids : Frame(i, r) \in Frames
           /\ \A p \in Probes : Frame(WARMUP_ID_BASE - p, NoReq) \in Frames
    BY DEF Frames, Frame, Idle, Torn, Ids, NoId

LEMMA HostReadsKeep ==
    ASSUME TypeOK, HostReads
    PROVE  /\ toHost' \in [ConnIds -> Seq(Frames)]
           /\ \A c \in ConnIds :
                Contents(toHost'[c]) \subseteq Contents(toHost[c]) \cup {Torn}
    <1>1. toHost \in [ConnIds -> Seq(Frames)]
      BY DEF TypeOK
    <1>2. Torn \in Frames
      BY OwnFrames DEF TypeOK
    <1>3. CASE toHost' = toHost
      BY <1>1, <1>3
    <1>4. CASE conn \in ConnIds /\ toHost' = [toHost EXCEPT ![conn] = <<>>]
      <2>1. <<>> \in Seq(Frames) /\ Contents(<<>>) = {}
        BY EmptyContents
      <2> QED BY <1>1, <1>4, <2>1
    <1>5. CASE conn \in ConnIds /\ toHost[conn] # <<>> /\ TakeFrame
      <2>1. /\ Tail(toHost[conn]) \in Seq(Frames)
            /\ Contents(Tail(toHost[conn])) \subseteq Contents(toHost[conn])
        BY <1>1, <1>5, TailContents
      <2> QED BY <1>1, <1>5, <2>1 DEF TakeFrame
    <1>6. CASE conn \in ConnIds /\ toHost[conn] # <<>> /\ TearHead
      <2>1. /\ Tail(toHost[conn]) \in Seq(Frames)
            /\ Contents(Tail(toHost[conn])) \subseteq Contents(toHost[conn])
        BY <1>1, <1>6, TailContents
      <2>2. <<Torn>> \in Seq(Frames) /\ Contents(<<Torn>>) = {Torn}
        BY <1>2, ShortContents
      <2> DEFINE a == <<Torn>>
                 b == Tail(toHost[conn])
                 t == a \o b
      <2>3. t \in Seq(Frames) /\ Contents(t) = {Torn} \cup Contents(b)
        <3>1. a \in Seq(Frames) /\ b \in Seq(Frames) /\ Contents(a) = {Torn}
          BY <2>1, <2>2
        <3> HIDE DEF a, b
        <3> QED BY <3>1, ConcatContents
      <2>4. toHost' = [toHost EXCEPT ![conn] = t]
        BY <1>6 DEF TearHead
      <2> HIDE DEF t
      <2> QED BY <1>1, <1>6, <2>1, <2>3, <2>4
    <1> QED BY <1>3, <1>4, <1>5, <1>6 DEF HostReads

LEMMA WritesKeep ==
    ASSUME TypeOK, NEW F, Frames \subseteq F, NEW f \in F, Writes(f)
    PROVE  /\ toDaemon' \in [ConnIds -> Seq(F)]
           /\ \A c \in ConnIds :
                Contents(toDaemon'[c]) \subseteq Contents(toDaemon[c]) \cup {f}
           /\ /\ DistinctIds
              /\ f.id \in Int
              /\ \/ ~ (f.id > 0)
                 \/ \A c \in ConnIds : \A g \in Contents(toDaemon[c]) : g.id # f.id
              => DistinctIds'
    <1>1. toDaemon \in [ConnIds -> Seq(F)]
      <2>1. \A c \in ConnIds : toDaemon[c] \in Seq(F)
        BY SeqGrows DEF TypeOK
      <2> QED BY <2>1 DEF TypeOK
    <1>2. CASE toDaemon' = toDaemon
      <2>1. toDaemon' \in [ConnIds -> Seq(F)]
        BY <1>1, <1>2
      <2>2. \A c \in ConnIds : Contents(toDaemon'[c]) \subseteq Contents(toDaemon[c]) \cup {f}
        <3>1. TAKE c \in ConnIds
        <3>2. Contents(toDaemon'[c]) = Contents(toDaemon[c])
          BY <1>2
        <3> QED BY <3>2
      <2>3. DistinctIds => DistinctIds'
        BY <1>2 DEF DistinctIds
      <2> QED BY <2>1, <2>2, <2>3
    <1>3. CASE conn \in ConnIds
               /\ toDaemon' = [toDaemon EXCEPT ![conn] = Append(@, f)]
      <2> DEFINE s == toDaemon[conn]
                 t == Append(s, f)
      <2>1. /\ t \in Seq(F)
            /\ Contents(t) = Contents(s) \cup {f}
            /\ Len(t) = Len(s) + 1 /\ Len(s) \in Nat
            /\ t[Len(s) + 1] = f
            /\ \A n \in 1..Len(s) : t[n] = s[n]
        BY <1>1, <1>3, AppendContents
      <2>2. /\ toDaemon'[conn] = t
            /\ \A c \in ConnIds : c # conn => toDaemon'[c] = toDaemon[c]
            /\ toDaemon' \in [ConnIds -> Seq(F)]
        BY <1>1, <1>3, <2>1
      <2>3. \A c \in ConnIds :
              Contents(toDaemon'[c]) \subseteq Contents(toDaemon[c]) \cup {f}
        BY <2>1, <2>2
      <2>4. ASSUME DistinctIds, f.id \in Int,
                   \/ ~ (f.id > 0)
                   \/ \A c \in ConnIds : \A g \in Contents(toDaemon[c]) : g.id # f.id
            PROVE  DistinctIds'
        <3> SUFFICES ASSUME NEW c \in ConnIds, NEW d \in ConnIds,
                            NEW m \in 1..Len(toDaemon'[c]),
                            NEW n \in 1..Len(toDaemon'[d]),
                            toDaemon'[c][m].id > 0,
                            toDaemon'[c][m].id = toDaemon'[d][n].id
                     PROVE  c = d /\ m = n
          BY DEF DistinctIds
        <3>1. \A b \in ConnIds : \A p \in 1..Len(toDaemon'[b]) :
                 \/ /\ p \in 1..Len(toDaemon[b])
                    /\ toDaemon'[b][p] = toDaemon[b][p]
                 \/ b = conn /\ p = Len(s) + 1 /\ toDaemon'[b][p] = f
          <4> SUFFICES ASSUME NEW b \in ConnIds, NEW p \in 1..Len(toDaemon'[b])
                       PROVE  \/ /\ p \in 1..Len(toDaemon[b])
                                 /\ toDaemon'[b][p] = toDaemon[b][p]
                              \/ b = conn /\ p = Len(s) + 1 /\ toDaemon'[b][p] = f
            OBVIOUS
          <4>1. CASE b # conn
            BY <2>2, <4>1
          <4>2. CASE b = conn
            <5> HIDE DEF t
            <5>1. p \in 1..Len(s) \/ p = Len(s) + 1
              BY <2>1, <2>2, <4>2
            <5> QED BY <2>1, <2>2, <4>2, <5>1
          <4> QED BY <4>1, <4>2
        <3> HIDE DEF s, t
        <3>2. \A b \in ConnIds : \A p \in 1..Len(toDaemon[b]) :
                 toDaemon[b][p] \in Contents(toDaemon[b])
          BY DEF Contents
        <3>3. CASE f.id > 0 /\ (toDaemon'[c][m] = f \/ toDaemon'[d][n] = f)
          BY <2>4, <3>1, <3>2, <3>3
        <3>4. CASE ~(toDaemon'[c][m] = f \/ toDaemon'[d][n] = f)
          BY <2>4, <3>1, <3>4 DEF DistinctIds
        <3> QED BY <2>4, <3>3, <3>4
      <2> QED BY <2>2, <2>3, <2>4
    <1> QED BY <1>2, <1>3 DEF Writes

LEMMA WorkerRunKeeps ==
    ASSUME TypeOK, NEW w \in ConnIds, WorkerRun(w)
    PROVE  LET h == Head(toDaemon[w]) IN
           /\ toDaemon' \in [ConnIds -> Seq(Frames)]
           /\ h \in Frames /\ h \in Contents(toDaemon[w])
           /\ \A c \in ConnIds :
                Contents(toDaemon'[c]) \subseteq Contents(toDaemon[c])
           /\ \A c \in ConnIds :
                Contents(toDaemon[c]) \subseteq Contents(toDaemon'[c]) \cup {h}
           /\ DistinctIds => DistinctIds'
           /\ DistinctIds /\ h.id > 0 =>
                \A c \in ConnIds : \A g \in Contents(toDaemon'[c]) : g.id # h.id
    <1> DEFINE s == toDaemon[w]
               h == Head(s)
               t == Tail(s)
    <1>1. s \in Seq(Frames) /\ s # <<>> /\ toDaemon \in [ConnIds -> Seq(Frames)]
      BY DEF TypeOK, WorkerRun
    <1>2. /\ h \in Frames /\ h \in Contents(s)
          /\ t \in Seq(Frames)
          /\ Contents(t) \subseteq Contents(s)
          /\ Contents(s) = {h} \cup Contents(t)
          /\ Len(t) = Len(s) - 1
          /\ \A n \in 1..Len(t) : t[n] = s[n + 1]
      BY <1>1, TailContents
    <1>3. h = s[1] /\ Len(s) \in Nat \ {0}
      BY <1>1, HeadTailProperties, EmptySeq, LenProperties
    <1>4. /\ toDaemon'[w] = t
          /\ \A c \in ConnIds : c # w => toDaemon'[c] = toDaemon[c]
          /\ toDaemon' \in [ConnIds -> Seq(Frames)]
      BY <1>1, <1>2 DEF WorkerRun
    <1> HIDE DEF h, t
    <1>5. \A c \in ConnIds :
            /\ Contents(toDaemon'[c]) \subseteq Contents(toDaemon[c])
            /\ Contents(toDaemon[c]) \subseteq Contents(toDaemon'[c]) \cup {h}
      BY <1>2, <1>4
    <1>6. \A b \in ConnIds : \A p \in 1..Len(toDaemon'[b]) :
             \/ /\ b = w /\ p \in Nat /\ p + 1 \in 1..Len(s) /\ p + 1 > 1
                /\ toDaemon'[b][p] = s[p + 1]
             \/ /\ b # w /\ p \in 1..Len(toDaemon[b])
                /\ toDaemon'[b][p] = toDaemon[b][p]
      <2> SUFFICES ASSUME NEW b \in ConnIds, NEW p \in 1..Len(toDaemon'[b])
                   PROVE  \/ /\ b = w /\ p \in Nat /\ p + 1 \in 1..Len(s) /\ p + 1 > 1
                             /\ toDaemon'[b][p] = s[p + 1]
                          \/ /\ b # w /\ p \in 1..Len(toDaemon[b])
                             /\ toDaemon'[b][p] = toDaemon[b][p]
        OBVIOUS
      <2>1. CASE b = w
        <3>1. p \in 1..Len(t) /\ toDaemon'[b][p] = t[p]
          BY <1>4, <2>1
        <3>2. p \in Nat /\ p + 1 \in 1..Len(s) /\ p + 1 > 1
          BY <1>2, <1>3, <3>1
        <3> QED BY <1>2, <2>1, <3>1, <3>2
      <2>2. CASE b # w
        BY <1>4, <2>2
      <2> QED BY <2>1, <2>2
    <1>7. ASSUME DistinctIds PROVE DistinctIds'
      <2> SUFFICES ASSUME NEW c \in ConnIds, NEW d \in ConnIds,
                          NEW m \in 1..Len(toDaemon'[c]),
                          NEW n \in 1..Len(toDaemon'[d]),
                          toDaemon'[c][m].id > 0,
                          toDaemon'[c][m].id = toDaemon'[d][n].id
                   PROVE  c = d /\ m = n
        BY DEF DistinctIds
      <2>1. \A b \in ConnIds : \A p \in 1..Len(toDaemon'[b]) :
              \E q \in 1..Len(toDaemon[b]) :
                /\ toDaemon'[b][p] = toDaemon[b][q]
                /\ p \in Int /\ q = IF b = w THEN p + 1 ELSE p
        BY <1>6
      <2>2. PICK a \in 1..Len(toDaemon[c]) :
                /\ toDaemon'[c][m] = toDaemon[c][a]
                /\ m \in Int /\ a = IF c = w THEN m + 1 ELSE m
        BY <2>1
      <2>3. PICK b \in 1..Len(toDaemon[d]) :
                /\ toDaemon'[d][n] = toDaemon[d][b]
                /\ n \in Int /\ b = IF d = w THEN n + 1 ELSE n
        BY <2>1
      <2>4. c = d /\ a = b
        <3>1. toDaemon[c][a].id > 0 /\ toDaemon[c][a].id = toDaemon[d][b].id
          BY <2>2, <2>3
        <3> QED BY <1>7, <3>1 DEF DistinctIds
      <2> QED BY <2>2, <2>3, <2>4
    <1>8. ASSUME DistinctIds, h.id > 0,
                 NEW c \in ConnIds, NEW g \in Contents(toDaemon'[c])
          PROVE  g.id # h.id
      <2>1. PICK p \in 1..Len(toDaemon'[c]) : g = toDaemon'[c][p]
        BY <1>8, Zenon DEF Contents
      <2>2. 1 \in 1..Len(s)
        BY <1>3
      <2>3. PICK q \in 1..Len(toDaemon[c]) : g = toDaemon[c][q] /\ (c = w => q > 1)
        BY <1>6, <1>8, <2>1
      <2>4. g.id # s[1].id
        <3>1. SUFFICES ASSUME g.id = s[1].id PROVE FALSE
          OBVIOUS
        <3>2. toDaemon[w][1].id > 0 /\ toDaemon[w][1].id = toDaemon[c][q].id
          BY <1>3, <1>8, <2>3, <3>1
        <3>3. c = w /\ q = 1
          BY <1>8, <2>2, <3>2 DEF DistinctIds
        <3> QED BY <2>3, <3>3
      <2> QED BY <1>3, <2>4
    <1> QED BY <1>2, <1>4, <1>5, <1>7, <1>8 DEF h

LEMMA WorkerQuietKeeps ==
    ASSUME TypeOK, NEW w \in ConnIds, WorkerQuiet(w)
    PROVE  /\ toDaemon' \in [ConnIds -> Seq(Frames)]
           /\ doing' \in [ConnIds -> Frames]
           /\ toHost' \in [ConnIds -> Seq(Frames)]
           /\ \A c \in ConnIds :
                /\ Contents(toDaemon'[c]) \subseteq Contents(toDaemon[c])
                /\ doing'[c] \in {doing[c], Idle}
                /\ Contents(toHost'[c]) \subseteq
                     Contents(toHost[c]) \cup {Idle, doing[c]}
           /\ DistinctIds => DistinctIds'
    <1>1. /\ toDaemon \in [ConnIds -> Seq(Frames)]
          /\ doing \in [ConnIds -> Frames]
          /\ toHost \in [ConnIds -> Seq(Frames)]
          /\ Idle \in Frames
          /\ <<>> \in Seq(Frames) /\ Contents(<<>>) = {} /\ Len(<<>>) = 0
      BY OwnFrames, EmptyContents DEF TypeOK
    <1>2. doing' \in [ConnIds -> Frames]
          /\ \A c \in ConnIds : doing'[c] \in {doing[c], Idle}
      BY <1>1 DEF WorkerQuiet
    <1>3. /\ toDaemon' \in [ConnIds -> Seq(Frames)]
          /\ \A c \in ConnIds : toDaemon'[c] = toDaemon[c] \/ toDaemon'[c] = <<>>
      BY <1>1 DEF WorkerQuiet
    <1>4. \A c \in ConnIds :
            Contents(toDaemon'[c]) \subseteq Contents(toDaemon[c])
      BY <1>1, <1>3
    <1>5. DistinctIds => DistinctIds'
      <2>1. \A c \in ConnIds : \A m \in 1..Len(toDaemon'[c]) :
              toDaemon'[c] = toDaemon[c]
        BY <1>1, <1>3
      <2> QED BY <2>1 DEF DistinctIds
    <1>6. /\ toHost' \in [ConnIds -> Seq(Frames)]
          /\ \A c \in ConnIds : Contents(toHost'[c]) \subseteq
                                  Contents(toHost[c]) \cup {Idle, doing[c]}
      <2>1. CASE toHost' = toHost \/ toHost' = [toHost EXCEPT ![w] = <<>>]
        BY <1>1, <2>1
      <2>2. CASE \E s \in {<<Idle>>, <<doing[w]>>, <<Idle, doing[w]>>} :
                    toHost' = [toHost EXCEPT ![w] = @ \o s]
        <3>1. PICK s \in {<<Idle>>, <<doing[w]>>, <<Idle, doing[w]>>} :
                    toHost' = [toHost EXCEPT ![w] = toHost[w] \o s]
          BY <2>2, Zenon
        <3>2. doing[w] \in Frames /\ toHost[w] \in Seq(Frames)
          BY <1>1
        <3>3. s \in Seq(Frames) /\ Contents(s) \subseteq {Idle, doing[w]}
          <4>1. s = <<Idle>> \/ s = <<doing[w]>> \/ s = <<Idle, doing[w]>>
            BY <3>1
          <4>2. /\ <<Idle>> \in Seq(Frames) /\ Contents(<<Idle>>) = {Idle}
                /\ <<Idle, doing[w]>> \in Seq(Frames)
                /\ Contents(<<Idle, doing[w]>>) = {Idle, doing[w]}
            BY <1>1, <3>2, ShortContents
          <4>3. <<doing[w]>> \in Seq(Frames) /\ Contents(<<doing[w]>>) = {doing[w]}
            BY <3>2, ShortContents
          <4>4. CASE s = <<Idle>>
            BY <4>2, <4>4, Zenon
          <4>5. CASE s = <<doing[w]>>
            BY <4>3, <4>5, Zenon
          <4>6. CASE s = <<Idle, doing[w]>>
            BY <4>2, <4>6, Zenon
          <4> QED BY <4>1, <4>4, <4>5, <4>6
        <3> DEFINE a == toHost[w]
                   t == a \o s
        <3>4. t \in Seq(Frames) /\ Contents(t) = Contents(a) \cup Contents(s)
          <4>1. a \in Seq(Frames)
            BY <3>2
          <4> HIDE DEF a
          <4> QED BY <3>3, <4>1, ConcatContents
        <3>5. toHost' = [toHost EXCEPT ![w] = t]
          BY <3>1
        <3> HIDE DEF t
        <3> QED BY <1>1, <3>3, <3>4, <3>5
      <2> QED BY <2>1, <2>2 DEF WorkerQuiet
    <1> QED BY <1>2, <1>3, <1>4, <1>5, <1>6

LEMMA NextKinds ==
    ASSUME TypeOK, [Next]_vars
    PROVE  \/ /\ Quiet
              /\ \/ CallSame \/ CallMoves \/ CallBegins
                 \/ CallRetries \/ CallEnds \/ CallBlocks
           \/ Writes(Frame(WARMUP_ID_BASE - probe, NoReq)) /\ CallMoves
           \/ \E i \in {rid, next_id} : Writes(Frame(i, k)) /\ CallSends(i)
           \/ Writes(Frame(rid, k)) /\ CallAbandons
           \/ \E w \in ConnIds : WorkerRun(w) \/ WorkerQuiet(w)
    <1>1. CASE UNCHANGED vars
      BY <1>1 DEF vars, hostVars, callVars, daemonVars, Quiet, HostReads, CallSame
    <1>2. ASSUME NEW r \in Requests, Begin(r)
          PROVE  Quiet /\ CallBegins
      BY <1>2 DEF Begin, callVars, daemonVars, Quiet, HostReads, CallBegins
    <1> QED
      BY <1>1, <1>2, HostStepKinds, WorkerStepKinds, Zenon DEF Next

-----------------------------------------------------------------------------
(* Type correctness.                                                       *)

(* The part of the state that the kinds of steps say nothing of.           *)
ConnOK ==
    /\ phase \in {"idle", "check", "connect", "warm_send", "warm_read",
                  "send", "drain", "read"}
    /\ probe \in Probes
    /\ conn \in ConnIds \cup {NoConn}
    /\ stale \in BOOLEAN
    /\ opened \in 0..MaxConns
    /\ worker \in [ConnIds -> {"none", "up", "down"}]
    /\ notes \in 0..MaxNotes
    /\ phase \in {"warm_send", "warm_read", "drain", "read"} => conn # NoConn

LEMMA OpenTypes ==
    ASSUME ConnOK, Open
    PROVE  /\ conn' \in ConnIds /\ conn' # NoConn
           /\ stale' \in BOOLEAN
           /\ opened' \in 0..MaxConns
           /\ worker' \in [ConnIds -> {"none", "up", "down"}]
    <1>1. MaxConns \in Nat
      BY TransportAssumption
    <1>2. opened + 1 \in 1..MaxConns /\ opened + 1 # 0
      BY <1>1 DEF ConnOK, Open
    <1>3. conn' \in ConnIds /\ conn' # NoConn /\ stale' \in BOOLEAN
      BY <1>2 DEF Open, ConnIds, NoConn
    <1>4. opened' \in 0..MaxConns
      BY <1>1 DEF ConnOK, Open
    <1>5. worker' \in [ConnIds -> {"none", "up", "down"}]
      BY <1>2 DEF ConnOK, Open, ConnIds
    <1> QED BY <1>3, <1>4, <1>5

LEMMA ConnTypes ==
    ASSUME TypeOK, [Next]_vars
    PROVE  ConnOK'
    <1>0. ConnOK /\ MaxConns \in Nat /\ MaxNotes \in Nat /\ attempt \in {0, 1}
      BY TransportAssumption DEF TypeOK, ConnOK
    <1> USE DEF hostVars, callVars, daemonVars, NoConn, ConnIds, Probes, ConnOK
    <1>1. CASE UNCHANGED vars
      BY <1>0, <1>1 DEF vars
    <1>2. ASSUME NEW r \in Requests, Begin(r) PROVE ConnOK'
      BY <1>0, <1>2 DEF Begin
    <1>3. CASE CheckStale
      BY <1>0, <1>3 DEF CheckStale, CloseLocked
    <1>4. CASE EnsureConnected
      BY <1>0, <1>4, OpenTypes DEF EnsureConnected
    <1>5. CASE ConnectFails
      BY <1>0, <1>5 DEF ConnectFails, End
    <1>6. CASE WarmSend
      BY <1>0, <1>6 DEF WarmSend
    <1>7. CASE WarmSendFails
      <2>1. CASE Open
        BY <1>0, <1>7, <2>1, OpenTypes DEF WarmSendFails, WarmNext
      <2>2. CASE ~Open
        BY <1>0, <1>7, <2>2 DEF WarmSendFails, CloseLocked
      <2> QED BY <2>1, <2>2
    <1>8. CASE WarmRead
      BY <1>0, <1>8 DEF WarmRead, WarmNext
    <1>9. CASE WarmReadEnds
      BY <1>0, <1>9 DEF WarmReadEnds, WarmNext
    <1>10. CASE Send
      BY <1>0, <1>10 DEF Send
    <1>11. CASE SendBlocks
      BY <1>0, <1>11 DEF SendBlocks
    <1>12. CASE Drained
      BY <1>0, <1>12 DEF Drained
    <1>13. CASE SendFails
      BY <1>0, <1>13 DEF SendFails, CloseLocked, End
    <1>14. CASE SendTooLarge
      BY <1>0, <1>14 DEF SendTooLarge, End
    <1>15. CASE SendUnconnected
      BY <1>0, <1>15 DEF SendUnconnected, End
    <1>16. CASE ReadReply
      BY <1>0, <1>16 DEF ReadReply, End
    <1>17. CASE ReadOther
      BY <1>0, <1>17 DEF ReadOther
    <1>18. CASE ReadMismatch
      BY <1>0, <1>18 DEF ReadMismatch, CloseLocked, End
    <1>19. CASE ReadTorn
      BY <1>0, <1>19 DEF ReadTorn, End
    <1>20. CASE ReadEof
      BY <1>0, <1>20 DEF ReadEof, CloseLocked, End
    <1>21. CASE ReadTimeout
      BY <1>0, <1>21 DEF ReadTimeout, CloseLocked, End
    <1>22. CASE Cancel
      BY <1>0, <1>22 DEF Cancel, CloseLocked, End
    <1>23. CASE Close
      BY <1>0, <1>23 DEF Close, CloseLocked
    <1>24. CASE GoStale
      BY <1>0, <1>24 DEF GoStale
    <1>25. ASSUME NEW c \in ConnIds, WorkerStep(c) PROVE ConnOK'
      BY <1>0, <1>25
         DEF WorkerStep, WorkerRun, WorkerReply, WorkerPoll, WorkerEnds
    <1> QED
      BY <1>1, <1>2, <1>3, <1>4, <1>5, <1>6, <1>7, <1>8, <1>9, <1>10, <1>11,
         <1>12, <1>13, <1>14, <1>15, <1>16, <1>17, <1>18, <1>19, <1>20, <1>21,
         <1>22, <1>23, <1>24, <1>25, Zenon DEF Next, HostStep

LEMMA TypeStep ==
    ASSUME TypeOK, [Next]_vars
    PROVE  TypeOK'
    <1>1. ConnOK'
      BY ConnTypes
    <1> DEFINE G ==
          /\ k' \in Requests \cup {NoReq}
          /\ phase' # "idle" => k' \in Requests
          /\ attempt' \in {0, 1}
          /\ next_id' = next_id \/ next_id' = next_id + 1
          /\ rid' \in 0..(next_id' - 1)
          /\ outcome' \in [Requests -> Outcomes]
          /\ wentOut' \subseteq Requests
          /\ next_id' \in Nat \ {0}
    <1>2. G
      <2>1. CASE CallSame \/ CallMoves
        BY <2>1 DEF TypeOK, CallSame, CallMoves
      <2>2. CASE CallBegins
        BY <2>2 DEF TypeOK, CallBegins
      <2>3. CASE CallRetries
        BY <2>3 DEF TypeOK, CallRetries
      <2>4. CASE CallEnds
        BY <2>4 DEF TypeOK, CallEnds
      <2>5. CASE CallBlocks
        BY <2>5 DEF TypeOK, CallBlocks
      <2>6. ASSUME NEW i \in {rid, next_id}, CallSends(i)
            PROVE  G
        BY <2>6 DEF TypeOK, CallSends
      <2>7. ASSUME NEW w \in ConnIds, WorkerRun(w)
            PROVE  CallSame
        BY <2>7 DEF WorkerRun, CallSame, hostVars, callVars
      <2>8. ASSUME NEW w \in ConnIds, WorkerQuiet(w)
            PROVE  CallSame
        BY <2>8 DEF WorkerQuiet
      <2>9. CallAbandons => CallEnds
        BY DEF CallAbandons
      <2> HIDE DEF G
      <2> QED
        BY NextKinds, <2>9, <2>1, <2>2, <2>3, <2>4, <2>5, <2>6, <2>7, <2>8, Zenon
    <1>3. Frames \subseteq Frames'
      BY <1>2, FramesGrow DEF TypeOK
    <1>4. /\ toDaemon \in [ConnIds -> Seq(Frames')]
          /\ doing \in [ConnIds -> Frames']
          /\ \A h \in [ConnIds -> Seq(Frames)] : h \in [ConnIds -> Seq(Frames')]
      BY <1>3, WiresGrow DEF TypeOK
    <1> DEFINE W == /\ toDaemon' \in [ConnIds -> Seq(Frames')]
                    /\ doing' \in [ConnIds -> Frames']
                    /\ toHost' \in [ConnIds -> Seq(Frames')]
                    /\ ran' \in [Requests -> Nat]
    <1>5. ASSUME NEW f \in Frames', Writes(f)
          PROVE  W
      <2>1. toHost' \in [ConnIds -> Seq(Frames')]
        BY <1>4, <1>5, HostReadsKeep DEF Writes
      <2>2. toDaemon' \in [ConnIds -> Seq(Frames')]
        BY <1>3, <1>5, WritesKeep
      <2> QED BY <1>4, <1>5, <2>1, <2>2 DEF Writes, TypeOK
    <1>6. ASSUME Quiet PROVE W
      <2>1. Idle \in Frames'
        BY <1>3, OwnFrames DEF TypeOK
      <2> QED BY <1>5, <1>6, <2>1, Zenon DEF Quiet, Writes
    <1>7. ASSUME NEW w \in ConnIds, WorkerQuiet(w) PROVE W
      <2>1. /\ toDaemon' \in [ConnIds -> Seq(Frames')]
            /\ toHost' \in [ConnIds -> Seq(Frames')]
        BY <1>4, <1>7, WorkerQuietKeeps
      <2>2. doing' \in [ConnIds -> Frames']
        BY <1>3, <1>7, WorkerQuietKeeps
      <2> QED BY <1>7, <2>1, <2>2 DEF WorkerQuiet, TypeOK
    <1>8. ASSUME NEW w \in ConnIds, WorkerRun(w) PROVE W
      <2>1. toDaemon' \in [ConnIds -> Seq(Frames')] /\ Head(toDaemon[w]) \in Frames
        BY <1>4, <1>8, WorkerRunKeeps
      <2>2. toHost' \in [ConnIds -> Seq(Frames')]
        BY <1>4, <1>8 DEF WorkerRun, TypeOK
      <2>3. doing' \in [ConnIds -> Frames']
        BY <1>3, <1>4, <1>8, <2>1 DEF WorkerRun
      <2>4. ran' \in [Requests -> Nat]
        BY <1>8 DEF WorkerRun, TypeOK
      <2> QED BY <2>1, <2>2, <2>3, <2>4
    <1>9. W
      <2>1. Frame(WARMUP_ID_BASE - probe, NoReq) \in Frames'
        BY <1>3, OwnFrames DEF TypeOK
      <2>2. ASSUME CallAbandons PROVE Frame(rid, k) \in Frames'
        <3>1. rid \in Ids
          BY DEF TypeOK, Ids, NoId
        <3> QED BY <1>3, <2>2, <3>1, OwnFrames DEF TypeOK, CallAbandons
      <2>3. ASSUME NEW i \in {rid, next_id}, CallSends(i)
            PROVE  Frame(i, k) \in Frames'
        <3>1. i \in 0..(next_id' - 1)
          BY <1>2, <2>3 DEF CallSends
        <3>2. i \in Ids'
          BY <3>1 DEF Ids, NoId
        <3>3. k \in Requests
          BY <2>3 DEF CallSends, TypeOK
        <3> QED BY <3>2, <3>3 DEF Frame, Frames
      <2> HIDE DEF W
      <2> QED BY NextKinds, <1>5, <1>6, <1>7, <1>8, <2>1, <2>2, <2>3, Zenon
    <1>10. answer' \in [Requests -> Requests \cup {NoReq}]
      <2>1. CASE answer' = answer
        BY <2>1 DEF TypeOK
      <2>2. CASE CallEnds /\ answer' # answer
        <3>1. conn \in ConnIds /\ toHost[conn] # <<>>
              /\ answer' = [answer EXCEPT ![k] = Got.req]
          BY <2>2 DEF CallEnds
        <3>2. Got \in Frames
          BY <3>1, TailContents DEF Got, TypeOK
        <3>3. Got.req \in Requests \cup {NoReq}
          BY <3>2 DEF Frames
        <3> QED BY <3>1, <3>3 DEF TypeOK
      <2>3. answer' = answer \/ CallEnds
        <3>1. ASSUME NEW w \in ConnIds, WorkerRun(w) PROVE answer' = answer
          BY <3>1 DEF WorkerRun, callVars
        <3> QED
          BY NextKinds, <3>1 DEF CallSame, CallMoves, CallBegins, CallRetries,
                                 CallBlocks, CallSends, CallAbandons,
                                 WorkerQuiet
      <2> QED BY <2>1, <2>2, <2>3
    <1> QED BY <1>1, <1>2, <1>9, <1>10 DEF TypeOK, ConnOK

-----------------------------------------------------------------------------
(* The call under way and the frames on the wires.                         *)

LEMMA CallStep ==
    ASSUME TypeOK, CallInv, [Next]_vars
    PROVE  CallInv'
    <1>1. CASE CallSame \/ CallMoves
      BY <1>1 DEF CallInv, CallSame, CallMoves
    <1>2. CASE CallBegins
      BY <1>2 DEF CallInv, CallBegins
    <1>3. CASE CallRetries
      BY <1>3 DEF CallInv, CallRetries
    <1>4. CASE CallEnds
      BY <1>4 DEF CallInv, CallEnds
    <1>5. CASE CallBlocks
      BY <1>5 DEF TypeOK, CallInv, CallBlocks
    <1>6. ASSUME NEW i \in {rid, next_id}, CallSends(i)
          PROVE  CallInv'
      BY <1>6 DEF TypeOK, CallInv, CallSends
    <1>7. ASSUME NEW w \in ConnIds, WorkerRun(w)
          PROVE  CallSame
      BY <1>7 DEF WorkerRun, CallSame, hostVars, callVars
    <1>8. ASSUME NEW w \in ConnIds, WorkerQuiet(w)
          PROVE  CallSame
      BY <1>8 DEF WorkerQuiet
    <1>9. CallAbandons => CallEnds
      BY DEF CallAbandons
    <1> QED
      BY NextKinds, <1>1, <1>2, <1>3, <1>4, <1>5, <1>6, <1>7, <1>8, <1>9, Zenon

GoodFrame(f) ==
    /\ f.id > 0 <=> f.req \in Requests
    /\ phase \in {"drain", "read"} /\ f.id = rid => f.req = k

(* No step of a call takes an id that a frame already has.                 *)
LEMMA GoodFramesStay ==
    ASSUME TypeOK,
           \/ CallSame \/ CallMoves \/ CallBegins \/ CallRetries \/ CallEnds
           \/ CallBlocks \/ \E i \in {rid, next_id} : CallSends(i)
    PROVE  \A f \in Frames : GoodFrame(f) => GoodFrame(f)'
    <1> SUFFICES ASSUME NEW f \in Frames, GoodFrame(f)
                 PROVE  GoodFrame(f)'
      OBVIOUS
    <1>1. f.id \in Int /\ f.id < next_id /\ next_id \in Nat
      BY DEF TypeOK, Frames, Ids, NoId, Probes, WARMUP_ID_BASE
    <1>2. CASE CallSame
      BY <1>2 DEF GoodFrame, CallSame
    <1>3. CASE CallMoves \/ CallBegins \/ CallRetries \/ CallEnds
      BY <1>3 DEF GoodFrame, CallMoves, CallBegins, CallRetries, CallEnds
    <1>4. CASE CallBlocks
      BY <1>1, <1>4 DEF GoodFrame, CallBlocks
    <1>5. ASSUME NEW i \in {rid, next_id}, CallSends(i)
          PROVE  GoodFrame(f)'
      BY <1>1, <1>5 DEF GoodFrame, CallSends
    <1> QED BY <1>2, <1>3, <1>4, <1>5

LEMMA HostKeepsFrames ==
    ASSUME TypeOK, TypeOK', CallInv', FrameInv,
           \/ CallSame \/ CallMoves \/ CallBegins \/ CallRetries \/ CallEnds
           \/ CallBlocks \/ \E i \in {rid, next_id} : CallSends(i),
           NEW f \in Frames', Writes(f), f.kind = "frame",
           GoodFrame(f)', phase' = "drain" => f.id # rid',
           \/ ~(f.id > 0)
           \/ \A c \in ConnIds : \A g \in Contents(toDaemon[c]) : g.id # f.id
    PROVE  FrameInv'
    <1>1. \A c \in ConnIds :
            /\ Contents(toDaemon[c]) \subseteq Frames
            /\ doing[c] \in Frames
            /\ Contents(toHost[c]) \subseteq Frames
      BY ContentsInSet DEF TypeOK
    <1>2. \A c \in ConnIds :
            Contents(toHost'[c]) \subseteq Contents(toHost[c]) \cup {Torn}
      BY HostReadsKeep DEF Writes
    <1>3. next_id' = next_id \/ next_id' = next_id + 1
      BY DEF CallSame, CallMoves, CallBegins, CallRetries, CallEnds, CallBlocks,
             CallSends
    <1>4. Frames \subseteq Frames' /\ f.id \in Int
      <2>1. f.id \in Int
        BY DEF TypeOK, Frames, Ids, NoId, Probes, WARMUP_ID_BASE
      <2> QED BY <1>3, <2>1, FramesGrow DEF TypeOK
    <1>5. /\ \A c \in ConnIds :
                Contents(toDaemon'[c]) \subseteq Contents(toDaemon[c]) \cup {f}
          /\ DistinctIds'
      <2>1. DistinctIds
        BY DEF FrameInv, DistinctIds
      <2> QED BY <1>4, <2>1, WritesKeep
    <1>6. \A c \in ConnIds :
            \A g \in Contents(toDaemon[c]) \cup {doing[c]} \cup Contents(toHost[c]) :
              GoodFrame(g)'
      <2>1. \A c \in ConnIds :
              \A g \in Contents(toDaemon[c]) \cup {doing[c]} \cup Contents(toHost[c]) :
                GoodFrame(g) /\ g \in Frames
        BY <1>1 DEF FrameInv, GoodFrame
      <2> QED BY <2>1, GoodFramesStay
    <1>7. GoodFrame(Torn)' /\ Torn.req \notin Requests
      <2>1. NoReq \notin Requests
        BY TransportAssumption
      <2>2. Torn.id = 0 /\ Torn.req = NoReq
        BY DEF Torn, NoId
      <2>3. phase' \in {"drain", "read"} => rid' # 0
        BY DEF CallInv, TypeOK
      <2> QED BY <2>1, <2>2, <2>3 DEF GoodFrame
    <1>8. \A c \in ConnIds : \A g \in Contents(toDaemon[c]) :
             g.kind = "frame" /\ (phase' = "drain" => g.id # rid')
      <2> SUFFICES ASSUME NEW c \in ConnIds, NEW g \in Contents(toDaemon[c])
                   PROVE  g.kind = "frame" /\ (phase' = "drain" => g.id # rid')
        OBVIOUS
      <2>1. g.kind = "frame" /\ (phase = "drain" => g.id # rid)
        BY DEF FrameInv
      <2>2. g \in Frames
        BY <1>1
      <2>3. g.id \in Int /\ g.id < next_id
        <3>1. next_id \in Nat \ {0}
          BY DEF TypeOK
        <3>2. g.id \in Ids
          BY <2>2 DEF Frames
        <3> QED BY <3>1, <3>2 DEF Ids, NoId, Probes, WARMUP_ID_BASE
      <2>4. phase' = "drain" => rid' = next_id \/ (phase = "drain" /\ rid' = rid)
        BY DEF CallSame, CallMoves, CallBegins, CallRetries, CallEnds,
               CallBlocks, CallSends
      <2>5. CASE rid' = next_id
        <3>1. g.id # rid'
          BY <2>3, <2>5
        <3> QED BY <2>1, <3>1
      <2>6. CASE phase = "drain" /\ rid' = rid
        BY <2>1, <2>6
      <2> QED BY <2>1, <2>4, <2>5, <2>6
    <1>9. doing' = doing /\ ran' = ran
      BY DEF Writes
    <1>10. ASSUME NEW c \in ConnIds
           PROVE  /\ \A g \in Contents(toDaemon'[c]) :
                        g.kind = "frame" /\ (phase' = "drain" => g.id # rid')
                  /\ \A g \in Contents(toDaemon'[c]) \cup {doing'[c]}
                               \cup Contents(toHost'[c]) : GoodFrame(g)'
                  /\ \A g \in {doing'[c]} \cup Contents(toHost'[c]) :
                        g.req \in Requests => ran'[g.req] > 0
      <2>1. \A g \in {doing[c]} \cup Contents(toHost[c]) :
               g.req \in Requests => ran[g.req] > 0
        BY DEF FrameInv
      <2>2. \A g \in Contents(toDaemon'[c]) :
               g.kind = "frame" /\ (phase' = "drain" => g.id # rid')
        BY <1>5, <1>8
      <2>3. \A g \in Contents(toDaemon'[c]) \cup {doing'[c]}
                     \cup Contents(toHost'[c]) : GoodFrame(g)'
        BY <1>2, <1>5, <1>6, <1>7, <1>9
      <2>4. \A g \in {doing'[c]} \cup Contents(toHost'[c]) :
               g.req \in Requests => ran'[g.req] > 0
        BY <1>2, <1>7, <1>9, <2>1
      <2> QED BY <2>2, <2>3, <2>4
    <1> QED BY <1>5, <1>10 DEF FrameInv, DistinctIds, GoodFrame

LEMMA WorkersKeepFrames ==
    ASSUME TypeOK, TypeOK', CallInv', FrameInv,
           NEW w \in ConnIds, WorkerRun(w) \/ WorkerQuiet(w)
    PROVE  FrameInv'
    <1> DEFINE h == Head(toDaemon[w])
    <1>1. CallSame
      BY DEF WorkerRun, WorkerQuiet, CallSame, hostVars, callVars
    <1>2. \A c \in ConnIds :
             \A g \in Contents(toDaemon[c]) \cup {doing[c]} \cup Contents(toHost[c]) :
               GoodFrame(g)'
      <2>1. \A c \in ConnIds :
              /\ Contents(toDaemon[c]) \subseteq Frames
              /\ doing[c] \in Frames
              /\ Contents(toHost[c]) \subseteq Frames
        BY ContentsInSet DEF TypeOK
      <2>2. \A c \in ConnIds :
              \A g \in Contents(toDaemon[c]) \cup {doing[c]} \cup Contents(toHost[c]) :
                GoodFrame(g) /\ g \in Frames
        BY <2>1 DEF FrameInv, GoodFrame
      <2> QED BY <1>1, <2>2, GoodFramesStay
    <1>3. GoodFrame(Idle)' /\ Idle.req \notin Requests
      <2>1. NoReq \notin Requests
        BY TransportAssumption
      <2>2. Idle.id = 0 /\ Idle.req = NoReq
        BY DEF Idle, Frame, NoId
      <2>3. phase' \in {"drain", "read"} => rid' # 0
        BY DEF CallInv, TypeOK
      <2> QED BY <2>1, <2>2, <2>3 DEF GoodFrame
    <1>4. \A c \in ConnIds : \A g \in Contents(toDaemon[c]) :
             g.kind = "frame" /\ (phase' = "drain" => g.id # rid')
      BY <1>1 DEF CallSame, FrameInv
    <1>5. /\ \A c \in ConnIds :
               /\ Contents(toDaemon'[c]) \subseteq Contents(toDaemon[c])
               /\ \/ doing'[c] \in {doing[c], Idle}
                  \/ WorkerRun(w) /\ c = w /\ doing'[c] = h
               /\ Contents(toHost'[c]) \subseteq
                    Contents(toHost[c]) \cup {Idle, doing[c]}
          /\ DistinctIds'
      <2>1. DistinctIds
        BY DEF FrameInv, DistinctIds
      <2>2. CASE WorkerRun(w)
        <3>1. /\ \A c \in ConnIds :
                   Contents(toDaemon'[c]) \subseteq Contents(toDaemon[c])
              /\ DistinctIds'
          BY <2>1, <2>2, WorkerRunKeeps
        <3>2. toHost' = toHost /\ doing'[w] = h
              /\ \A c \in ConnIds : c # w => doing'[c] = doing[c]
          BY <2>2 DEF WorkerRun, TypeOK
        <3> QED BY <2>2, <3>1, <3>2
      <2>3. CASE WorkerQuiet(w)
        BY <2>1, <2>3, WorkerQuietKeeps
      <2> QED BY <2>2, <2>3
    <1>6. /\ \A r \in Requests : ran[r] > 0 => ran'[r] > 0
          /\ WorkerRun(w) => /\ h \in Contents(toDaemon[w])
                             /\ h.req \in Requests => ran'[h.req] > 0
      <2>1. CASE WorkerRun(w)
        <3>1. h \in Contents(toDaemon[w])
          BY <2>1, WorkerRunKeeps
        <3> HIDE DEF h
        <3>2. ran' = [r \in Requests |-> IF r = h.req THEN ran[r] + 1 ELSE ran[r]]
          BY <2>1 DEF WorkerRun, h
        <3>3. \A r \in Requests : ran[r] \in Nat
          BY DEF TypeOK
        <3>4. \A r \in Requests : ran[r] > 0 => ran'[r] > 0
          BY <3>2, <3>3
        <3>5. h.req \in Requests => ran'[h.req] > 0
          BY <3>2, <3>3
        <3> QED BY <3>1, <3>4, <3>5
      <2>2. CASE WorkerQuiet(w) /\ ~WorkerRun(w)
        BY <2>2 DEF WorkerQuiet
      <2> QED BY <2>1, <2>2
    <1> HIDE DEF h
    <1>7. ASSUME NEW c \in ConnIds
          PROVE  /\ \A g \in Contents(toDaemon'[c]) :
                       g.kind = "frame" /\ (phase' = "drain" => g.id # rid')
                 /\ \A g \in Contents(toDaemon'[c]) \cup {doing'[c]}
                              \cup Contents(toHost'[c]) : GoodFrame(g)'
                 /\ \A g \in {doing'[c]} \cup Contents(toHost'[c]) :
                       g.req \in Requests => ran'[g.req] > 0
      <2>1. \A g \in {doing[c]} \cup Contents(toHost[c]) :
               g.req \in Requests => ran'[g.req] > 0
        BY <1>6 DEF FrameInv
      <2>2. \A g \in Contents(toDaemon'[c]) :
               g.kind = "frame" /\ (phase' = "drain" => g.id # rid')
        BY <1>4, <1>5
      <2>3. \A g \in Contents(toDaemon'[c]) \cup {doing'[c]}
                     \cup Contents(toHost'[c]) : GoodFrame(g)'
        BY <1>2, <1>3, <1>5, <1>6
      <2>4. \A g \in {doing'[c]} \cup Contents(toHost'[c]) :
               g.req \in Requests => ran'[g.req] > 0
        BY <1>3, <1>5, <1>6, <2>1
      <2> QED BY <2>2, <2>3, <2>4
    <1> QED BY <1>5, <1>7 DEF FrameInv, DistinctIds, GoodFrame

LEMMA UnaskedFrames ==
    ASSUME TypeOK', CallInv', NEW f, f.id \in Int, ~(f.id > 0), f.req = NoReq
    PROVE  GoodFrame(f)' /\ (phase' = "drain" => f.id # rid')
    <1>1. NoReq \notin Requests
      BY TransportAssumption
    <1>2. phase' \in {"drain", "read"} => rid' > 0
      BY DEF CallInv
    <1> QED BY <1>1, <1>2 DEF GoodFrame, TypeOK

LEMMA FrameStep ==
    ASSUME TypeOK, TypeOK', CallInv, CallInv', FrameInv, [Next]_vars
    PROVE  FrameInv'
    <1> DEFINE HostKind ==
                 \/ CallSame \/ CallMoves \/ CallBegins \/ CallRetries \/ CallEnds
                 \/ CallBlocks \/ \E i \in {rid, next_id} : CallSends(i)
    <1>1. ASSUME HostKind, NEW f \in Frames', Writes(f), f.kind = "frame",
                 ~(f.id > 0), f.req = NoReq
          PROVE  FrameInv'
      <2>1. f.id \in Int
        BY DEF TypeOK, Frames, Ids, NoId, Probes, WARMUP_ID_BASE
      <2>2. GoodFrame(f)' /\ (phase' = "drain" => f.id # rid')
        BY <1>1, <2>1, UnaskedFrames
      <2> QED BY <1>1, <2>2, HostKeepsFrames
    <1>2. ASSUME Quiet,
                 \/ CallSame \/ CallMoves \/ CallBegins
                 \/ CallRetries \/ CallEnds \/ CallBlocks
          PROVE  FrameInv'
      <2>1. PICK f : f = Idle
        OBVIOUS
      <2>2. f.id = 0 /\ f.req = NoReq /\ f.kind = "frame"
        BY <2>1 DEF Idle, Frame, NoId
      <2>3. f \in Frames'
        BY <2>1 DEF Idle, Frame, Frames, NoId, Ids
      <2>4. Writes(f)
        BY <1>2 DEF Quiet, Writes
      <2> QED BY <1>1, <1>2, <2>2, <2>3, <2>4
    <1>3. ASSUME Writes(Frame(WARMUP_ID_BASE - probe, NoReq)), CallMoves
          PROVE  FrameInv'
      <2>1. PICK f : f = Frame(WARMUP_ID_BASE - probe, NoReq)
        OBVIOUS
      <2>2. ~(f.id > 0) /\ f.req = NoReq /\ f.kind = "frame"
        BY <2>1 DEF Frame, TypeOK, Probes, WARMUP_ID_BASE
      <2>3. f \in Frames'
        <3>1. f \in Frames
          BY <2>1, OwnFrames DEF TypeOK
        <3> QED BY <1>3, <3>1, FramesGrow DEF CallMoves, TypeOK
      <2> QED BY <1>1, <1>3, <2>1, <2>2, <2>3
    <1>4. ASSUME NEW i \in {rid, next_id}, Writes(Frame(i, k)), CallSends(i)
          PROVE  FrameInv'
      <2>1. PICK f : f = Frame(i, k)
        OBVIOUS
      <2>2. k \in Requests /\ k' = k /\ rid' = i /\ phase' = "read"
        BY <1>4 DEF CallSends, TypeOK
      <2>3. f.id = i /\ f.req = k /\ f.kind = "frame" /\ i > 0 /\ i \in Int
        BY <1>4, <2>1 DEF Frame, CallSends, CallInv, TypeOK
      <2>4. f \in Frames'
        <3>0. i \in 0..(next_id' - 1)
          BY <2>2 DEF TypeOK
        <3>1. i \in Ids'
          BY <3>0 DEF Ids, NoId
        <3> QED BY <2>1, <2>2, <3>1 DEF Frame, Frames
      <2>5. GoodFrame(f)'
        BY <2>2, <2>3 DEF GoodFrame
      <2>6. ASSUME NEW c \in ConnIds, NEW g \in Contents(toDaemon[c])
            PROVE  g.id # f.id
        <3>1. CASE phase = "drain" /\ i = rid
          BY <2>3, <3>1 DEF FrameInv
        <3>2. CASE i = next_id
          <4>1. g \in Frames
            BY ContentsInSet DEF TypeOK
          <4>2. g.id \in Ids
            BY <4>1 DEF Frames
          <4>3. next_id \in Nat \ {0}
            BY DEF TypeOK
          <4>4. g.id < next_id /\ g.id \in Int
            BY <4>2, <4>3 DEF Ids, NoId, Probes, WARMUP_ID_BASE
          <4> QED BY <2>3, <3>2, <4>4
        <3> QED BY <1>4, <3>1, <3>2 DEF CallSends
      <2>7. HostKind /\ Writes(f)
        BY <1>4, <2>1
      <2> HIDE DEF HostKind
      <2> QED BY <2>2, <2>3, <2>4, <2>5, <2>6, <2>7, HostKeepsFrames DEF HostKind
    <1>5. ASSUME Writes(Frame(rid, k)), CallAbandons
          PROVE  FrameInv'
      <2>1. PICK f : f = Frame(rid, k)
        OBVIOUS
      <2>2. /\ phase = "drain" /\ CallEnds /\ k \in Requests /\ phase' = "idle"
            /\ next_id' = next_id \/ next_id' = next_id + 1
        BY <1>5 DEF CallAbandons, CallEnds, TypeOK
      <2>3. f.id = rid /\ f.req = k /\ f.kind = "frame" /\ rid > 0
        BY <2>1, <2>2 DEF Frame, CallInv
      <2>4. f \in Frames'
        <3>1. rid \in Ids
          BY DEF TypeOK, Ids, NoId
        <3>2. f \in Frames
          BY <2>1, <2>2, <3>1 DEF Frame, Frames
        <3> QED BY <2>2, <3>2, FramesGrow DEF TypeOK
      <2>5. GoodFrame(f)'
        BY <2>2, <2>3 DEF GoodFrame
      <2>6. \A c \in ConnIds : \A g \in Contents(toDaemon[c]) : g.id # f.id
        BY <2>2, <2>3 DEF FrameInv
      <2>7. Writes(f)
        BY <1>5, <2>1
      <2> QED BY <2>2, <2>3, <2>4, <2>5, <2>6, <2>7, HostKeepsFrames
    <1>6. ASSUME NEW w \in ConnIds, WorkerRun(w) \/ WorkerQuiet(w)
          PROVE  FrameInv'
      BY <1>6, WorkersKeepFrames
    <1> QED BY NextKinds, <1>2, <1>3, <1>4, <1>5, <1>6, Zenon

-----------------------------------------------------------------------------
(* Counting the frames of a request.                                       *)

LEMMA IdsFinite ==
    ASSUME NEW n \in Nat \ {0}, NEW S, S \subseteq 1..(n - 1)
    PROVE  IsFiniteSet(S) /\ Cardinality(S) \in Nat
    <1>1. IsFiniteSet(1..(n - 1))
      BY FS_Interval
    <1>2. IsFiniteSet(S)
      BY <1>1, FS_Subset
    <1> QED BY <1>2, FS_CardinalityType

(* A step of the host adds at most the frame it writes.                    *)
LEMMA HostCopies ==
    ASSUME TypeOK, TypeOK', next_id' = next_id \/ next_id' = next_id + 1,
           NEW f \in Frames', Writes(f), NEW r \in Requests
    PROVE  /\ Copies(r)' \subseteq Copies(r) \cup {f.id}
           /\ f.req # r => Copies(r)' \subseteq Copies(r)
    <1>1. Frames \subseteq Frames'
      BY FramesGrow DEF TypeOK
    <1>2. \A c \in ConnIds :
             Contents(toDaemon'[c]) \subseteq Contents(toDaemon[c]) \cup {f}
      BY <1>1, WritesKeep
    <1>3. \A c \in ConnIds : Contents(toDaemon[c]) \subseteq Frames
      BY ContentsInSet DEF TypeOK
    <1> SUFFICES ASSUME NEW i \in Copies(r)'
                 PROVE  i \in Copies(r) \/ (i = f.id /\ f.req = r)
      OBVIOUS
    <1>4. i \in Int /\ i > 0
      BY DEF Copies, TypeOK
    <1>5. PICK c \in ConnIds : Frame(i, r) \in Contents(toDaemon'[c])
      BY DEF Copies
    <1>6. CASE Frame(i, r) \in Contents(toDaemon[c])
      <2>1. Frame(i, r) \in Frames
        BY <1>3, <1>6
      <2>2. i \in Ids
        BY <2>1 DEF Frame, Frames
      <2>3. i \in 1..(next_id - 1)
        BY <1>4, <2>2 DEF Ids, NoId, Probes, WARMUP_ID_BASE
      <2> QED BY <1>6, <2>3 DEF Copies
    <1>7. CASE f = Frame(i, r)
      BY <1>7 DEF Frame
    <1> QED BY <1>2, <1>5, <1>6, <1>7

LEMMA WorkerCopies ==
    ASSUME TypeOK, TypeOK', FrameInv, NEW r \in Requests,
           NEW w \in ConnIds, WorkerRun(w) \/ WorkerQuiet(w)
    PROVE  LET h == Head(toDaemon[w]) IN
           /\ Copies(r)' \subseteq Copies(r)
           /\ WorkerRun(w) /\ h.req = r =>
                h.id \in Copies(r) /\ h.id \notin Copies(r)'
    <1> DEFINE h == Head(toDaemon[w])
    <1>1. next_id' = next_id
      BY DEF WorkerRun, WorkerQuiet, CallSame, hostVars
    <1>2. \A c \in ConnIds :
             Contents(toDaemon'[c]) \subseteq Contents(toDaemon[c])
      BY WorkerRunKeeps, WorkerQuietKeeps
    <1>3. Copies(r)' \subseteq Copies(r)
      BY <1>1, <1>2 DEF Copies
    <1>4. ASSUME WorkerRun(w), h.req = r
          PROVE  h.id \in Copies(r) /\ h.id \notin Copies(r)'
      <2>1. h \in Frames /\ h \in Contents(toDaemon[w])
        BY <1>4, WorkerRunKeeps
      <2>2. h.kind = "frame" /\ h.id > 0
        BY <1>4, <2>1 DEF FrameInv
      <2>3. h = Frame(h.id, r)
        BY <1>4, <2>1, <2>2 DEF Frames, Frame
      <2>4. h.id \in 1..(next_id - 1)
        BY <2>1, <2>2 DEF Frames, Ids, NoId, Probes, WARMUP_ID_BASE, TypeOK
      <2>5. \A c \in ConnIds : \A g \in Contents(toDaemon'[c]) : g.id # h.id
        <3>1. DistinctIds
          BY DEF FrameInv, DistinctIds
        <3> QED BY <1>4, <2>2, <3>1, WorkerRunKeeps
      <2> HIDE DEF h
      <2>6. h.id \in Copies(r)
        BY <2>1, <2>3, <2>4 DEF Copies
      <2>7. \A i, s : Frame(i, s).id = i
        BY DEF Frame
      <2>8. h.id \notin Copies(r)'
        BY <2>5, <2>7 DEF Copies
      <2> QED BY <2>6, <2>8
    <1> QED BY <1>3, <1>4

LEMMA SendsLeftTypes ==
    ASSUME TypeOK, NEW r \in Requests
    PROVE  SendsLeft(r) \in Nat
    BY DEF TypeOK, SendsLeft, MaxCopies

(* A step that writes nothing leaves a call no more frames to write.       *)
LEMMA SendsLeftQuiet ==
    ASSUME TypeOK, TypeOK', CallInv, NEW r \in Requests,
           \/ CallSame \/ CallMoves \/ CallBegins
           \/ CallRetries \/ CallEnds \/ CallBlocks
    PROVE  SendsLeft(r)' <= SendsLeft(r)
    <1>1. CASE CallSame
      BY <1>1, SendsLeftTypes DEF CallSame, SendsLeft
    <1>2. CASE CallMoves
      BY <1>2 DEF CallMoves, SendsLeft, MaxCopies, TypeOK
    <1>3. CASE CallBegins
      BY <1>3, TransportAssumption
         DEF CallBegins, SendsLeft, MaxCopies, TypeOK, CallInv
    <1>4. CASE CallRetries
      BY <1>4 DEF CallRetries, SendsLeft, MaxCopies, TypeOK
    <1>5. CASE CallEnds
      <2>1. CASE r = k
        <3>1. outcome'[r] # "none"
          BY <1>5, <2>1 DEF CallEnds, TypeOK
        <3>2. SendsLeft(r)' = 0
          BY <3>1 DEF SendsLeft
        <3> QED BY <3>2, SendsLeftTypes
      <2>2. CASE r # k
        <3>1. outcome'[r] = outcome[r] /\ k' # r
          BY <1>5, <2>2, TransportAssumption DEF CallEnds, TypeOK
        <3> QED BY <2>2, <3>1, SendsLeftTypes DEF SendsLeft, MaxCopies
      <2> QED BY <2>1, <2>2
    <1>6. CASE CallBlocks
      BY <1>6 DEF CallBlocks, SendsLeft, MaxCopies, TypeOK
    <1> QED BY <1>1, <1>2, <1>3, <1>4, <1>5, <1>6

(* The frame that is written was one of those the call had left.           *)
LEMMA SendsLeftSpent ==
    ASSUME TypeOK, TypeOK', CallInv,
           CallAbandons \/ \E i \in {rid, next_id} : CallSends(i)
    PROVE  /\ SendsLeft(k) > 0
           /\ \A r \in Requests : SendsLeft(r)' <= IF r = k THEN SendsLeft(r) - 1
                                                   ELSE SendsLeft(r)
    <1>0. k \in Requests /\ outcome[k] = "none" /\ phase # "read"
      BY DEF CallInv, CallAbandons, CallSends, TypeOK
    <1>1. SendsLeft(k) = IF k \in Idempotent THEN 2 - attempt ELSE 1
      BY <1>0 DEF SendsLeft, TypeOK
    <1>2. SendsLeft(k) > 0 /\ SendsLeft(k) \in Nat
      <2>1. attempt \in 0..1
        BY DEF TypeOK
      <2> QED BY <1>1, <2>1
    <1>3. ASSUME NEW r \in Requests, CallAbandons
          PROVE  SendsLeft(r)' <= IF r = k THEN SendsLeft(r) - 1 ELSE SendsLeft(r)
      <2>1. CASE r = k
        <3>1. outcome'[r] # "none"
          BY <1>3, <2>1 DEF CallAbandons, TypeOK
        <3>2. SendsLeft(r)' = 0
          BY <3>1 DEF SendsLeft
        <3> QED BY <1>2, <2>1, <3>2
      <2>2. CASE r # k
        BY <1>3, <2>2, SendsLeftQuiet DEF CallAbandons
      <2> QED BY <2>1, <2>2
    <1>4. ASSUME NEW r \in Requests, NEW i \in {rid, next_id}, CallSends(i)
          PROVE  SendsLeft(r)' <= IF r = k THEN SendsLeft(r) - 1 ELSE SendsLeft(r)
      <2>1. k' = k /\ attempt' = attempt /\ outcome' = outcome /\ phase' = "read"
        BY <1>4 DEF CallSends
      <2>2. CASE r = k
        <3>1. SendsLeft(r)' = (IF r \in Idempotent THEN 2 - attempt ELSE 1) - 1
          BY <1>0, <2>1, <2>2 DEF SendsLeft
        <3> QED BY <1>1, <2>2, <3>1 DEF TypeOK
      <2>3. CASE r # k
        BY <2>1, <2>3, SendsLeftTypes DEF SendsLeft, MaxCopies
      <2> QED BY <2>2, <2>3
    <1> QED BY <1>2, <1>3, <1>4

LEMMA FewerCopies ==
    ASSUME NEW S, NEW T, IsFiniteSet(S), IsFiniteSet(T)
    PROVE  /\ T \subseteq S => Cardinality(T) <= Cardinality(S)
           /\ \A i : T \subseteq S \cup {i} => Cardinality(T) <= Cardinality(S) + 1
           /\ \A i \in S : T \subseteq S /\ i \notin T
                             => Cardinality(T) + 1 <= Cardinality(S)
    <1>1. Cardinality(S) \in Nat /\ Cardinality(T) \in Nat
      BY FS_CardinalityType
    <1>2. T \subseteq S => Cardinality(T) <= Cardinality(S)
      BY FS_Subset
    <1>3. ASSUME NEW i, T \subseteq S \cup {i}
          PROVE  Cardinality(T) <= Cardinality(S) + 1
      <2>1. IsFiniteSet(S \cup {i})
            /\ Cardinality(S \cup {i}) <= Cardinality(S) + 1
            /\ Cardinality(S \cup {i}) \in Nat
        BY <1>1, FS_AddElement, FS_CardinalityType
      <2>2. Cardinality(T) <= Cardinality(S \cup {i})
        BY <1>3, <2>1, FS_Subset
      <2> QED BY <1>1, <2>1, <2>2
    <1>4. ASSUME NEW i \in S, T \subseteq S, i \notin T
          PROVE  Cardinality(T) + 1 <= Cardinality(S)
      <2>1. IsFiniteSet(S \ {i}) /\ Cardinality(S \ {i}) = Cardinality(S) - 1
        BY FS_RemoveElement
      <2>2. Cardinality(T) <= Cardinality(S \ {i})
        BY <1>4, <2>1, FS_Subset
      <2> QED BY <1>1, <2>1, <2>2
    <1> QED BY <1>2, <1>3, <1>4

(* What a step does to the copies, the runs and the sends of a request.    *)
LEMMA CountStep ==
    ASSUME TypeOK, TypeOK', CallInv, CallInv', FrameInv, [Next]_vars,
           NEW r \in Requests
    PROVE  \/ /\ Copies(r)' \subseteq Copies(r)
              /\ ran'[r] = ran[r] /\ SendsLeft(r)' <= SendsLeft(r)
           \/ /\ \E i : Copies(r)' \subseteq Copies(r) \cup {i}
              /\ CallAbandons \/ (\E i \in {rid, next_id} : CallSends(i))
              /\ ran'[r] = ran[r] /\ k = r
              /\ SendsLeft(r)' <= SendsLeft(r) - 1
           \/ /\ Copies(r)' \subseteq Copies(r)
              /\ \E i \in Copies(r) : i \notin Copies(r)'
              /\ CallSame
              /\ ran'[r] = ran[r] + 1 /\ SendsLeft(r)' <= SendsLeft(r)
    <1>0. NoReq # r
      BY TransportAssumption
    <1>1. ASSUME Quiet,
                 \/ CallSame \/ CallMoves \/ CallBegins
                 \/ CallRetries \/ CallEnds \/ CallBlocks
          PROVE  /\ Copies(r)' \subseteq Copies(r)
                 /\ ran'[r] = ran[r] /\ SendsLeft(r)' <= SendsLeft(r)
      <2>1. next_id' = next_id \/ next_id' = next_id + 1
        BY <1>1 DEF CallSame, CallMoves, CallBegins, CallRetries, CallEnds, CallBlocks
      <2>2. PICK f : f = Idle
        OBVIOUS
      <2>3. f \in Frames' /\ f.req # r /\ Writes(f)
        BY <1>0, <1>1, <2>2 DEF Idle, Frame, Frames, NoId, Ids, Quiet, Writes
      <2>4. Copies(r)' \subseteq Copies(r)
        BY <2>1, <2>3, HostCopies
      <2> QED BY <1>1, <2>4, SendsLeftQuiet DEF Quiet
    <1>2. ASSUME Writes(Frame(WARMUP_ID_BASE - probe, NoReq)), CallMoves
          PROVE  /\ Copies(r)' \subseteq Copies(r)
                 /\ ran'[r] = ran[r] /\ SendsLeft(r)' <= SendsLeft(r)
      <2>1. next_id' = next_id
        BY <1>2 DEF CallMoves
      <2>2. PICK f : f = Frame(WARMUP_ID_BASE - probe, NoReq)
        OBVIOUS
      <2>3. f \in Frames' /\ f.req # r /\ Writes(f)
        <3>1. f \in Frames /\ f.req = NoReq
          BY <2>2, OwnFrames DEF TypeOK, Frame
        <3> QED BY <1>0, <1>2, <2>1, <2>2, <3>1, FramesGrow DEF TypeOK
      <2>4. Copies(r)' \subseteq Copies(r)
        BY <2>1, <2>3, HostCopies
      <2> QED BY <1>2, <2>4, SendsLeftQuiet DEF Writes
    <1>3. ASSUME NEW i, Writes(Frame(i, k)), i \in Ids',
                 CallAbandons \/ (\E j \in {rid, next_id} : CallSends(j))
          PROVE  \/ /\ Copies(r)' \subseteq Copies(r)
                    /\ ran'[r] = ran[r] /\ SendsLeft(r)' <= SendsLeft(r)
                 \/ /\ \E j : Copies(r)' \subseteq Copies(r) \cup {j}
                    /\ ran'[r] = ran[r] /\ k = r
                    /\ SendsLeft(r)' <= SendsLeft(r) - 1
      <2>1. next_id' = next_id \/ next_id' = next_id + 1
        BY <1>3 DEF CallAbandons, CallEnds, CallSends
      <2>2. PICK f : f = Frame(i, k)
        OBVIOUS
      <2>3. k \in Requests
        BY <1>3 DEF CallAbandons, CallSends, TypeOK
      <2>4. f \in Frames' /\ Writes(f) /\ f.id = i /\ f.req = k
        BY <1>3, <2>2, <2>3 DEF Frame, Frames
      <2>5. /\ Copies(r)' \subseteq Copies(r) \cup {f.id}
            /\ f.req # r => Copies(r)' \subseteq Copies(r)
        BY <2>1, <2>4, HostCopies
      <2>6. SendsLeft(r)' <= IF r = k THEN SendsLeft(r) - 1 ELSE SendsLeft(r)
        BY <1>3, SendsLeftSpent
      <2>7. ran'[r] = ran[r]
        BY <1>3 DEF Writes
      <2>8. CASE r = k
        BY <2>5, <2>6, <2>7, <2>8
      <2>9. CASE r # k
        BY <2>4, <2>5, <2>6, <2>7, <2>9
      <2> QED BY <2>8, <2>9
    <1>4. ASSUME CallAbandons PROVE rid \in Ids'
      <2>1. next_id' = next_id \/ next_id' = next_id + 1
        BY <1>4 DEF CallAbandons, CallEnds
      <2>2. rid \in 0..(next_id' - 1)
        <3>1. CASE next_id' = next_id
          BY <3>1 DEF TypeOK
        <3>2. CASE next_id' = next_id + 1
          BY <3>2 DEF TypeOK
        <3> QED BY <2>1, <3>1, <3>2
      <2> QED BY <2>2 DEF Ids, NoId
    <1>5. ASSUME NEW i \in {rid, next_id}, CallSends(i) PROVE i \in Ids'
      <2>1. i \in 0..(next_id' - 1)
        BY <1>5 DEF CallSends, TypeOK
      <2> QED BY <2>1 DEF Ids, NoId
    <1>6. ASSUME NEW w \in ConnIds, WorkerQuiet(w)
          PROVE  /\ Copies(r)' \subseteq Copies(r)
                 /\ ran'[r] = ran[r] /\ SendsLeft(r)' <= SendsLeft(r)
      BY <1>6, WorkerCopies, SendsLeftQuiet DEF WorkerQuiet
    <1>7. ASSUME NEW w \in ConnIds, WorkerRun(w)
          PROVE  \/ /\ Copies(r)' \subseteq Copies(r)
                    /\ ran'[r] = ran[r] /\ SendsLeft(r)' <= SendsLeft(r)
                 \/ /\ Copies(r)' \subseteq Copies(r)
                    /\ \E i \in Copies(r) : i \notin Copies(r)'
                    /\ CallSame
                    /\ ran'[r] = ran[r] + 1 /\ SendsLeft(r)' <= SendsLeft(r)
      <2> DEFINE h == Head(toDaemon[w])
      <2>1. CallSame
        BY <1>7 DEF WorkerRun, CallSame, hostVars, callVars
      <2>2. /\ Copies(r)' \subseteq Copies(r)
            /\ h.req = r => h.id \in Copies(r) /\ h.id \notin Copies(r)'
        BY <1>7, WorkerCopies
      <2>3. SendsLeft(r)' <= SendsLeft(r)
        BY <2>1, SendsLeftQuiet
      <2>4. ran'[r] = IF r = h.req THEN ran[r] + 1 ELSE ran[r]
        BY <1>7 DEF WorkerRun
      <2> HIDE DEF h
      <2> QED BY <2>1, <2>2, <2>3, <2>4
    <1> QED
      BY NextKinds, <1>1, <1>2, <1>3, <1>4, <1>5, <1>6, <1>7, Zenon

LEMMA BudgetStep ==
    ASSUME TypeOK, TypeOK', CallInv, CallInv', FrameInv, BudgetInv, [Next]_vars
    PROVE  BudgetInv'
    <1> SUFFICES ASSUME NEW r \in Requests
                 PROVE  ran'[r] + Cardinality(Copies(r)') + SendsLeft(r)'
                          <= MaxCopies(r)
      BY DEF BudgetInv, MaxCopies
    <1> DEFINE S == Copies(r)
               T == Copies(r)'
    <1>1. IsFiniteSet(S) /\ IsFiniteSet(T)
          /\ Cardinality(S) \in Nat /\ Cardinality(T) \in Nat
      <2>1. S \subseteq 1..(next_id - 1) /\ T \subseteq 1..(next_id' - 1)
        BY DEF Copies
      <2>2. next_id \in Nat \ {0} /\ next_id' \in Nat \ {0}
        BY DEF TypeOK
      <2> HIDE DEF S, T
      <2> QED BY <2>1, <2>2, IdsFinite
    <1>2. /\ SendsLeft(r) \in Nat /\ SendsLeft(r)' \in Nat
          /\ ran[r] \in Nat /\ ran'[r] \in Nat /\ MaxCopies(r) \in Nat
      <2>1. SendsLeft(r)' \in Nat
        <3>1. attempt' = 0 \/ attempt' = 1
          BY DEF TypeOK
        <3> QED BY <3>1 DEF SendsLeft, MaxCopies
      <2> QED BY <2>1, SendsLeftTypes DEF TypeOK, MaxCopies
    <1>3. ran[r] + Cardinality(S) + SendsLeft(r) <= MaxCopies(r)
      BY DEF BudgetInv
    <1>4. \/ /\ T \subseteq S
             /\ ran'[r] = ran[r] /\ SendsLeft(r)' <= SendsLeft(r)
          \/ /\ \E i : T \subseteq S \cup {i}
             /\ ran'[r] = ran[r] /\ SendsLeft(r)' <= SendsLeft(r) - 1
          \/ /\ T \subseteq S /\ \E i \in S : i \notin T
             /\ ran'[r] = ran[r] + 1 /\ SendsLeft(r)' <= SendsLeft(r)
      BY CountStep
    <1> HIDE DEF S, T
    <1>5. \/ /\ Cardinality(T) <= Cardinality(S)
             /\ ran'[r] = ran[r] /\ SendsLeft(r)' <= SendsLeft(r)
          \/ /\ Cardinality(T) <= Cardinality(S) + 1
             /\ ran'[r] = ran[r] /\ SendsLeft(r)' <= SendsLeft(r) - 1
          \/ /\ Cardinality(T) + 1 <= Cardinality(S)
             /\ ran'[r] = ran[r] + 1 /\ SendsLeft(r)' <= SendsLeft(r)
      BY <1>1, <1>4, FewerCopies
    <1>6. ran'[r] + Cardinality(T) + SendsLeft(r)' <= MaxCopies(r)
      BY <1>1, <1>2, <1>3, <1>5
    <1> QED BY <1>6 DEF T

LEMMA SentStep ==
    ASSUME TypeOK, TypeOK', CallInv, CallInv', FrameInv, SentInv, [Next]_vars
    PROVE  SentInv'
    <1> SUFFICES ASSUME NEW r \in Requests \ Idempotent,
                        ran'[r] > 0 \/ Copies(r)' # {} \/ r \in wentOut'
                 PROVE  \/ k' = r /\ phase' = "read"
                        \/ outcome'[r] \notin {"none", "unreachable", "not_run"}
      BY DEF SentInv
    <1> DEFINE Sent == ran[r] > 0 \/ Copies(r) # {} \/ r \in wentOut
               Out == outcome[r] \notin {"none", "unreachable", "not_run"}
    <1>1. Sent => (k = r /\ phase = "read") \/ Out
      BY DEF SentInv
    <1>2. CASE k = r /\ (CallAbandons \/ \E i \in {rid, next_id} : CallSends(i))
      <2>1. CASE CallAbandons
        <3>1. outcome'[r] = "cancelled"
          BY <1>2, <2>1 DEF CallAbandons, TypeOK
        <3> QED BY <3>1
      <2>2. CASE \E i \in {rid, next_id} : CallSends(i)
        BY <1>2, <2>2 DEF CallSends
      <2> QED BY <1>2, <2>1, <2>2
    <1>3. CASE ~(k = r /\ (CallAbandons \/ \E i \in {rid, next_id} : CallSends(i)))
      <2>1. ran'[r] > 0 \/ Copies(r)' # {} => ran[r] > 0 \/ Copies(r) # {}
        BY <1>3, CountStep
      <2>2. \/ CallSame \/ CallMoves \/ CallBegins \/ CallRetries \/ CallEnds
            \/ CallBlocks \/ \E i \in {rid, next_id} : CallSends(i)
        <3>1. ASSUME NEW w \in ConnIds, WorkerRun(w) PROVE CallSame
          BY <3>1 DEF WorkerRun, CallSame, hostVars, callVars
        <3>2. ASSUME NEW w \in ConnIds, WorkerQuiet(w) PROVE CallSame
          BY <3>2 DEF WorkerQuiet
        <3>3. CallAbandons => CallEnds
          BY DEF CallAbandons
        <3> QED BY NextKinds, <3>1, <3>2, <3>3, Zenon
      <2>3. r \in wentOut' => r \in wentOut
        BY <1>3, <2>2 DEF CallSame, CallMoves, CallBegins, CallRetries, CallEnds,
                          CallBlocks, CallSends
      <2>4. Sent
        BY <2>1, <2>3
      <2>5. (k = r /\ phase = "read") \/ Out
        BY <1>1, <2>4
      <2> HIDE DEF Sent
      <2>6. CASE CallSame
        BY <2>5, <2>6 DEF CallSame
      <2>7. CASE CallMoves \/ CallBegins \/ CallBlocks
        BY <2>5, <2>7 DEF CallMoves, CallBegins, CallBlocks
      <2>8. CASE CallRetries
        BY <2>5, <2>8 DEF CallRetries
      <2>9. CASE CallEnds
        <3>1. CASE k = r
          <4>1. outcome[r] = "none"
            BY <2>9, <3>1 DEF CallInv, CallEnds
          <4>2. phase = "read"
            BY <2>5, <4>1
          <4> QED BY <2>9, <3>1, <4>2 DEF CallEnds, TypeOK
        <3>2. CASE k # r
          BY <2>5, <2>9, <3>2 DEF CallEnds, TypeOK
        <3> QED BY <3>1, <3>2
      <2>10. CASE \E i \in {rid, next_id} : CallSends(i)
        <3>1. k # r
          BY <1>3, <2>10
        <3> QED BY <2>5, <2>10, <3>1 DEF CallSends
      <2> QED BY <2>2, <2>6, <2>7, <2>8, <2>9, <2>10
    <1> QED BY <1>2, <1>3

LEMMA AnswerStep ==
    ASSUME TypeOK, TypeOK', CallInv, FrameInv, AnswersAreOwn, [Next]_vars
    PROVE  AnswersAreOwn'
    <1> SUFFICES ASSUME NEW r \in Requests, outcome'[r] = "answered"
                 PROVE  answer'[r] = r
      BY DEF AnswersAreOwn
    <1>1. (outcome' = outcome /\ answer' = answer) \/ CallEnds
      <2>1. ASSUME NEW w \in ConnIds, WorkerRun(w) PROVE CallSame
        BY <2>1 DEF WorkerRun, CallSame, hostVars, callVars
      <2> QED
        BY NextKinds, <2>1 DEF CallSame, CallMoves, CallBegins, CallRetries,
                               CallBlocks, CallSends, CallAbandons, WorkerQuiet
    <1>2. CASE outcome' = outcome /\ answer' = answer
      BY <1>2 DEF AnswersAreOwn
    <1>3. CASE CallEnds /\ r # k
      <2>1. outcome'[r] = outcome[r] /\ answer'[r] = answer[r]
        BY <1>3 DEF CallEnds, TypeOK
      <2> QED BY <2>1 DEF AnswersAreOwn
    <1>4. CASE CallEnds /\ r = k
      <2>1. /\ phase = "read" /\ conn \in ConnIds /\ toHost[conn] # <<>>
            /\ Got.id = rid /\ answer'[k] = Got.req
        BY <1>4 DEF CallEnds, TypeOK
      <2>2. Got \in Contents(toHost[conn])
        BY <2>1, TailContents DEF Got, TypeOK
      <2>3. Got.req = k
        BY <2>1, <2>2 DEF FrameInv
      <2> QED BY <1>4, <2>1, <2>3
    <1> QED BY <1>1, <1>2, <1>3, <1>4

(* AtMostOnce follows from the count of runs and frames.                   *)
LEMMA CountMeansOnce ==
    ASSUME TypeOK, CallInv, SentInv, BudgetInv
    PROVE  AtMostOnce
    <1> SUFFICES ASSUME NEW r \in Requests \ Idempotent
                 PROVE  /\ ran[r] <= 1
                        /\ outcome[r] \in {"unreachable", "not_run"}
                             => r \notin wentOut
      BY DEF AtMostOnce
    <1>1. ran[r] <= 1
      <2>1. ran[r] + Cardinality(Copies(r)) + SendsLeft(r) <= 1
        BY DEF BudgetInv, MaxCopies
      <2>2. next_id \in Nat \ {0} /\ Copies(r) \subseteq 1..(next_id - 1)
        BY DEF TypeOK, Copies
      <2>3. Cardinality(Copies(r)) \in Nat
        BY <2>2, IdsFinite
      <2>4. ran[r] \in Nat /\ SendsLeft(r) \in Nat
        BY SendsLeftTypes DEF TypeOK
      <2> QED BY <2>1, <2>3, <2>4
    <1>2. ASSUME outcome[r] \in {"unreachable", "not_run"}, r \in wentOut
          PROVE  FALSE
      <2>1. k = r /\ phase = "read"
        BY <1>2 DEF SentInv
      <2> QED BY <1>2, <2>1 DEF CallInv
    <1> QED BY <1>1, <1>2

(* The inductive part of TransportInv.                                     *)
CoreInv == AnswersAreOwn /\ CallInv /\ FrameInv /\ SentInv /\ BudgetInv

LEMMA TransportInit ==
    ASSUME Init
    PROVE  CoreInv
    <1> USE DEF Init
    <1>0. NoReq \notin Requests /\ MaxConns \in Nat /\ MaxNotes \in Nat
      BY TransportAssumption
    <1>1. TypeOK
      <2>1. Idle \in Frames
        BY OwnFrames
      <2>2. /\ <<>> \in Seq(Frames)
            /\ doing \in [ConnIds -> Frames]
            /\ toDaemon \in [ConnIds -> Seq(Frames)]
            /\ toHost \in [ConnIds -> Seq(Frames)]
        BY <2>1
      <2>3. /\ outcome \in [Requests -> Outcomes]
            /\ answer \in [Requests -> Requests \cup {NoReq}]
            /\ worker \in [ConnIds -> {"none", "up", "down"}]
            /\ ran \in [Requests -> Nat]
        BY DEF Outcomes
      <2>4. /\ rid \in 0..(next_id - 1) /\ next_id \in Nat \ {0}
            /\ opened \in 0..MaxConns /\ notes \in 0..MaxNotes
        BY <1>0
      <2> QED BY <2>2, <2>3, <2>4 DEF TypeOK, NoConn, Probes
    <1>2. CallInv
      BY DEF CallInv
    <1>3. \A c \in ConnIds :
            /\ Contents(toDaemon[c]) = {} /\ Contents(toHost[c]) = {}
            /\ Len(toDaemon[c]) = 0
      BY EmptyContents
    <1>4. FrameInv
      <2>1. Idle.id = 0 /\ Idle.req = NoReq
        BY DEF Idle, Frame, NoId
      <2>2. \A c \in ConnIds : doing[c] = Idle
        OBVIOUS
      <2>3. DistinctIds
        BY <1>3 DEF DistinctIds
      <2>4. ASSUME NEW c \in ConnIds,
                   NEW f \in Contents(toDaemon[c]) \cup {doing[c]}
                                \cup Contents(toHost[c])
            PROVE  GoodFrame(f) /\ f.req \notin Requests
        <3>1. f = Idle
          BY <1>3, <2>2
        <3> QED BY <1>0, <2>1, <3>1 DEF GoodFrame
      <2> HIDE DEF Init
      <2> QED BY <1>3, <2>3, <2>4 DEF FrameInv, DistinctIds, GoodFrame
    <1>5. \A r \in Requests : Copies(r) = {}
      BY <1>3 DEF Copies
    <1>6. SentInv
      BY <1>5 DEF SentInv
    <1>7. BudgetInv
      <2> SUFFICES ASSUME NEW r \in Requests
                   PROVE  ran[r] + Cardinality(Copies(r)) + SendsLeft(r)
                            <= MaxCopies(r)
        BY DEF BudgetInv
      <2>1. Cardinality(Copies(r)) = 0 /\ ran[r] = 0
        BY <1>5, FS_EmptySet
      <2>2. SendsLeft(r) = MaxCopies(r) /\ MaxCopies(r) \in Nat
        BY <1>0 DEF SendsLeft, MaxCopies
      <2> QED BY <2>1, <2>2
    <1>8. AnswersAreOwn
      BY <1>1 DEF AnswersAreOwn
    <1> QED BY <1>2, <1>4, <1>6, <1>7, <1>8 DEF CoreInv

LEMMA TransportStep ==
    ASSUME CoreInv, [Next]_vars
    PROVE  CoreInv'
    <1>0. /\ TypeOK /\ CallInv /\ FrameInv /\ SentInv /\ BudgetInv
          /\ AnswersAreOwn
      BY DEF CoreInv, AnswersAreOwn
    <1>1. TypeOK'
      BY <1>0, TypeStep
    <1>2. CallInv'
      BY <1>0, CallStep
    <1>3. FrameInv'
      BY <1>0, <1>1, <1>2, FrameStep
    <1>4. SentInv'
      BY <1>0, <1>1, <1>2, SentStep
    <1>5. BudgetInv'
      BY <1>0, <1>1, <1>2, BudgetStep
    <1>6. AnswersAreOwn'
      BY <1>0, <1>1, AnswerStep
    <1> QED BY <1>2, <1>3, <1>4, <1>5, <1>6 DEF CoreInv

(* Every reachable state of the transport and the daemon's workers meets   *)
(* the inductive invariant: runs, frames on the way and sends still to     *)
(* come never exceed what a request may run, and every frame on a wire     *)
(* carries the request its id was taken for.                               *)
THEOREM TransportInvariant == Spec => []TransportInv
    <1>1. Init => CoreInv
      BY TransportInit
    <1>2. CoreInv /\ [Next]_vars => CoreInv'
      BY TransportStep
    <1>3. CoreInv => TransportInv
      <2> SUFFICES ASSUME CoreInv PROVE TransportInv
        OBVIOUS
      <2>1. AtMostOnce
        BY CountMeansOnce DEF CoreInv, AnswersAreOwn
      <2> QED BY <2>1 DEF CoreInv, TransportInv
    <1> QED BY <1>1, <1>2, <1>3, PTL DEF Spec

(* request() gives a call only the reply that carries the id it sent, and  *)
(* that is its own: for any number of requests, connections, timeouts,     *)
(* cancelled calls and probes.                                             *)
THEOREM OwnAnswers == Spec => []AnswersAreOwn
    <1>1. TransportInv => AnswersAreOwn
      BY DEF TransportInv
    <1> QED BY <1>1, TransportInvariant, PTL

(* request() resends nothing that went out unless the method is in         *)
(* IDEMPOTENT_METHODS, and no worker runs a frame twice: a handler with    *)
(* effects runs at most once.                                              *)
THEOREM RunsAtMostOnce == Spec => []AtMostOnce
    <1>1. TransportInv => AtMostOnce
      BY DEF TransportInv
    <1> QED BY <1>1, TransportInvariant, PTL

-----------------------------------------------------------------------------
(* The transport implements RpcService.                                    *)

LEMMA ServiceInit ==
    ASSUME Init
    PROVE  Service!Init
    BY DEF Init, Service!Init, ServiceOutcome

LEMMA EndRefines ==
    ASSUME TypeOK, CallInv, FrameInv, SentInv, AnswersAreOwn, AnswersAreOwn',
           CallEnds, ran' = ran
    PROVE  Service!Next
    <1>1. k \in Requests /\ outcome[k] = "none" /\ ServiceOutcome[k] = "none"
      BY DEF CallEnds, CallInv, TypeOK, ServiceOutcome
    <1>2. PICK o \in Outcomes \ {"none"} :
            /\ outcome' = [outcome EXCEPT ![k] = o]
            /\ o \in {"unreachable", "not_run"} => phase # "read"
            /\ \/ o # "answered" /\ answer' = answer
               \/ /\ o = "answered" /\ phase = "read"
                  /\ conn \in ConnIds /\ toHost[conn] # <<>> /\ Got.id = rid
                  /\ answer' = [answer EXCEPT ![k] = Got.req]
      BY DEF CallEnds
    <1> DEFINE p == IF o \in {"answered", "failed", "not_run"} THEN o ELSE "error"
    <1>3. ServiceOutcome' = [ServiceOutcome EXCEPT ![k] = p]
      <2>1. \A r \in Requests : outcome'[r] = (IF r = k THEN o ELSE outcome[r])
        BY <1>1, <1>2 DEF TypeOK
      <2>2. \A r \in Requests : r # k => answer'[r] = answer[r]
        BY <1>1, <1>2 DEF TypeOK
      <2>3. o = "answered" => answer'[k] = k
        BY <1>1, <2>1 DEF AnswersAreOwn
      <2>4. \A r \in Requests :
               ServiceOutcome'[r] = IF r = k THEN p ELSE ServiceOutcome[r]
        BY <1>2, <2>1, <2>2, <2>3 DEF ServiceOutcome
      <2>5. /\ ServiceOutcome' = [r \in Requests |-> ServiceOutcome'[r]]
            /\ ServiceOutcome = [r \in Requests |-> ServiceOutcome[r]]
        BY DEF ServiceOutcome
      <2> HIDE DEF p
      <2> QED BY <1>1, <2>4, <2>5
    <1>4. CASE o = "answered"
      <2>1. Got \in Contents(toHost[conn]) /\ conn \in ConnIds
        BY <1>2, <1>4, TailContents DEF Got, TypeOK
      <2>2. Got.req = k
        BY <1>2, <1>4, <2>1 DEF FrameInv
      <2>3. ran[k] > 0
        BY <1>1, <2>1, <2>2 DEF FrameInv
      <2>4. Service!Answer(k)
        BY <1>1, <1>3, <1>4, <2>3 DEF Service!Answer
      <2> QED BY <1>1, <2>4 DEF Service!Next
    <1>5. CASE o # "answered"
      <2>1. p \in {"failed", "not_run", "error"}
        BY <1>5
      <2>2. p = "not_run" => k \in Idempotent \/ ran[k] = 0
        <3> SUFFICES ASSUME o = "not_run", k \notin Idempotent PROVE ran[k] = 0
          OBVIOUS
        <3>1. phase # "read"
          BY <1>2
        <3>2. ~(ran[k] > 0)
          BY <1>1, <3>1 DEF SentInv
        <3> QED BY <1>1, <3>2 DEF TypeOK
      <2> HIDE DEF p
      <2>3. Service!Fail(k)
        BY <1>1, <1>3, <2>1, <2>2 DEF Service!Fail
      <2> QED BY <1>1, <2>3 DEF Service!Next
    <1> QED BY <1>4, <1>5

LEMMA RunRefines ==
    ASSUME TypeOK, TypeOK', CallInv, FrameInv, SentInv, BudgetInv,
           NEW w \in ConnIds, WorkerRun(w)
    PROVE  Service!Next \/ UNCHANGED <<ran, ServiceOutcome>>
    <1> DEFINE h == Head(toDaemon[w])
    <1>1. ServiceOutcome' = ServiceOutcome
      BY DEF WorkerRun, callVars, ServiceOutcome
    <1>2. ran' = [r \in Requests |-> IF r = h.req THEN ran[r] + 1 ELSE ran[r]]
      BY DEF WorkerRun
    <1>3. CASE h.req \notin Requests
      <2>1. ran' = ran
        <3> HIDE DEF h
        <3>1. ran' = [r \in Requests |-> ran[r]]
          BY <1>2, <1>3
        <3>2. ran = [r \in Requests |-> ran[r]]
          BY DEF TypeOK
        <3> QED BY <3>1, <3>2, Zenon
      <2> QED BY <1>1, <2>1
    <1>4. CASE h.req \in Requests
      <2>1. PICK r \in Requests : r = h.req
        BY <1>4
      <2>2. PICK i : i \in Copies(r)
        BY <2>1, WorkerCopies
      <2>3. Cardinality(Copies(r)) >= 1 /\ Cardinality(Copies(r)) \in Nat
        <3>1. next_id \in Nat \ {0} /\ Copies(r) \subseteq 1..(next_id - 1)
          BY DEF TypeOK, Copies
        <3>2. IsFiniteSet(Copies(r)) /\ Cardinality(Copies(r)) \in Nat
          BY <3>1, IdsFinite
        <3>3. Cardinality(Copies(r)) # 0
          BY <2>2, <3>2, FS_EmptySet
        <3> QED BY <3>2, <3>3
      <2>4. /\ ran[r] \in Nat /\ SendsLeft(r) \in Nat
            /\ ran[r] + Cardinality(Copies(r)) + SendsLeft(r) <= MaxCopies(r)
        BY SendsLeftTypes DEF TypeOK, BudgetInv
      <2>5. IF r \in Idempotent THEN ran[r] < 2 ELSE ran[r] = 0
        BY <2>3, <2>4 DEF MaxCopies
      <2>6. r \notin Idempotent => ServiceOutcome[r] # "not_run"
        <3> SUFFICES ASSUME r \notin Idempotent PROVE outcome[r] # "not_run"
          BY DEF ServiceOutcome
        <3>1. \/ k = r /\ phase = "read"
              \/ outcome[r] \notin {"none", "unreachable", "not_run"}
          BY <2>2 DEF SentInv
        <3> QED BY <3>1 DEF CallInv
      <2>7. ran' = [ran EXCEPT ![r] = @ + 1]
        <3> HIDE DEF h
        <3> QED BY <1>2, <2>1 DEF TypeOK
      <2>8. Service!Run(r)
        BY <1>1, <2>5, <2>6, <2>7 DEF Service!Run
      <2> QED BY <2>8 DEF Service!Next
    <1> QED BY <1>3, <1>4

(* The transport with the daemon's workers implements RpcService: what     *)
(* request() reports of a run, "may_have_run": false included, is what     *)
(* the workers do, now and later.                                          *)
THEOREM ImplementsService == Spec => ServiceSpec
    <1>1. Init => Service!Init
      BY ServiceInit
    <1>2. TransportInv /\ TransportInv' /\ [Next]_vars
            => [Service!Next]_(Service!vars)
      <2> SUFFICES ASSUME TransportInv, TransportInv', [Next]_vars
                   PROVE  Service!Next \/ UNCHANGED <<ran, ServiceOutcome>>
        BY DEF Service!vars
      <2>0. /\ TypeOK /\ CallInv /\ FrameInv /\ SentInv /\ BudgetInv
            /\ AnswersAreOwn /\ AnswersAreOwn' /\ TypeOK'
        BY DEF TransportInv, AnswersAreOwn
      <2>1. ASSUME NEW w \in ConnIds, WorkerRun(w)
            PROVE  Service!Next \/ UNCHANGED <<ran, ServiceOutcome>>
        BY <2>0, <2>1, RunRefines
      <2>2. ASSUME CallEnds, ran' = ran PROVE Service!Next
        BY <2>0, <2>2, EndRefines
      <2>3. \/ \E w \in ConnIds : WorkerRun(w)
            \/ CallEnds /\ ran' = ran
            \/ ran' = ran /\ outcome' = outcome /\ answer' = answer
        <3>1. \/ Quiet \/ (\E f : Writes(f)) \/ (\E w \in ConnIds : WorkerQuiet(w))
              => ran' = ran
          BY DEF Quiet, Writes, WorkerQuiet
        <3>2. \/ CallSame \/ CallMoves \/ CallBegins \/ CallRetries \/ CallBlocks
              \/ (\E i \in {rid, next_id} : CallSends(i))
              \/ (\E w \in ConnIds : WorkerQuiet(w))
              => outcome' = outcome /\ answer' = answer
          BY DEF CallSame, CallMoves, CallBegins, CallRetries, CallBlocks,
                 CallSends, WorkerQuiet
        <3>3. CallAbandons => CallEnds
          BY DEF CallAbandons
        <3> QED BY <2>0, <3>1, <3>2, <3>3, NextKinds, Zenon
      <2>4. ASSUME ran' = ran, outcome' = outcome, answer' = answer
            PROVE  UNCHANGED <<ran, ServiceOutcome>>
        BY <2>4 DEF ServiceOutcome
      <2> QED BY <2>1, <2>2, <2>3, <2>4, Zenon
    <1> QED
      BY <1>1, <1>2, TransportInvariant, PTL DEF Spec, ServiceSpec, Service!Spec

-----------------------------------------------------------------------------
(* 2. SerialPort.                                                          *)

-----------------------------------------------------------------------------
(* The power.* calls.                                                      *)

CallRecords == [pc: {"idle", "open", "send", "watching"}, cmd: Commands,
                force: BOOLEAN, unjudged: BOOLEAN, offSince: BOOLEAN]

McuOK ==
    /\ exclusive \in BOOLEAN /\ hasMcpd \in BOOLEAN
    /\ power \in [Calls -> CallRecords]
    /\ calls \in 0..MaxCalls /\ board \in {"off", "booting", "up"}
    /\ stream \in BOOLEAN
    /\ wedged \in {"no"} \cup {"forced", "unjudged", "raced", "judged"}

CaptureOK ==
    /\ thread \in 0..MaxReaders /\ stopping \in BOOLEAN
    /\ readers \subseteq 1..started /\ stuck \subseteq readers
    /\ started \in 0..MaxReaders
    /\ log \in 0..MaxBytes /\ total \in 0..MaxBytes
    /\ overstayed \in BOOLEAN

FaultsOK == faults \in 0..MaxFaults

LEMMA TypeParts == SerialTypeOK <=> McuOK /\ CaptureOK /\ FaultsOK
    BY Zenon DEF SerialTypeOK, McuOK, CaptureOK, FaultsOK, CallRecords

(* The guard's part of a call's record.                                    *)
Guarded(m, b) ==
    m.pc # "idle" => \/ m.cmd \in {"p", "s"} \/ b # "off"
                     \/ m.force \/ m.unjudged \/ m.offSince

LEMMA GuardParts == GuardInv <=> \A c \in Calls : Guarded(power[c], board)
    BY DEF GuardInv, Guarded

LEMMA IdleRecord ==
    NoPowerCall \in CallRecords /\ NoPowerCall.pc = "idle"
    BY DEF NoPowerCall, CallRecords, Commands

-----------------------------------------------------------------------------
(* Steps of the capture.                                                   *)

CaptureStep ==
    \/ SerialCalled
    \/ \E r \in readers : Read(r) \/ Ends(r) \/ Stuck(r) \/ Unstuck(r)

LEMMA FaultCounts ==
    ASSUME FaultsOK, Fault \/ faults' = faults
    PROVE  FaultsOK'
    <1>1. MaxFaults \in Nat
      BY SerialAssumption
    <1> QED BY <1>1 DEF FaultsOK, Fault

LEMMA CaptureLeavesMcu ==
    ASSUME CaptureStep
    PROVE  UNCHANGED <<config, mcu>>
    <1> USE DEF config, mcu
    <1>1. CASE SerialCalled
      BY <1>1 DEF SerialCalled, serial_start, serial_stop, serial_clear
    <1>2. ASSUME NEW r \in readers, Read(r) \/ Ends(r) \/ Stuck(r) \/ Unstuck(r)
          PROVE  UNCHANGED <<config, mcu>>
      BY <1>2 DEF Read, Ends, Stuck, Unstuck
    <1> QED BY <1>1, <1>2 DEF CaptureStep

QuietInv == ~overstayed => readers \subseteq {thread}

LEMMA CaptureKeeps ==
    ASSUME CaptureOK, FaultsOK, QuietInv, CaptureStep
    PROVE  /\ CaptureOK' /\ FaultsOK'
           /\ QuietInv'
    <1>0. MaxReaders \in Nat /\ MaxBytes \in Nat
      BY SerialAssumption
    <1> USE DEF CaptureOK, QuietInv
    <1>1. ASSUME NEW truncate \in BOOLEAN, serial_start(truncate)
          PROVE  /\ CaptureOK' /\ FaultsOK'
                 /\ QuietInv'
      <2>1. FaultsOK'
        BY <1>1, FaultCounts DEF serial_start, start
      <2>2. log' \in 0..MaxBytes /\ total' \in 0..MaxBytes
            /\ stopping' \in BOOLEAN /\ overstayed' = overstayed /\ stuck' = stuck
        <3>1. (log' = 0 \/ log' = log) /\ total' = 0 /\ stopping' = FALSE
              /\ overstayed' = overstayed /\ stuck' = stuck
          BY <1>1, Zenon DEF serial_start, start
        <3>2. log \in 0..MaxBytes /\ 0 \in 0..MaxBytes
          BY <1>0
        <3> QED BY <3>1, <3>2, Zenon
      <2>3. \/ /\ started' = started + 1 /\ thread' = started + 1
               /\ readers' = readers \cup {started + 1}
            \/ started' = started /\ thread' = thread /\ readers' = readers
        BY <1>1 DEF serial_start, start
      <2>4. started \in 0..MaxReaders /\ started < MaxReaders
            /\ thread \notin readers
        BY <1>1 DEF serial_start, running
      <2>5. started + 1 \in 0..MaxReaders /\ 1..started \subseteq 1..(started + 1)
            /\ started + 1 \in 1..(started + 1)
        BY <1>0, <2>4
      <2>6. CASE /\ started' = started + 1 /\ thread' = started + 1
                 /\ readers' = readers \cup {started + 1}
        <3>1. ~overstayed => readers = {}
          BY <2>4
        <3> QED BY <2>1, <2>2, <2>5, <2>6, <3>1
      <2>7. CASE started' = started /\ thread' = thread /\ readers' = readers
        BY <2>1, <2>2, <2>7
      <2> QED BY <2>3, <2>6, <2>7
    <1>2. CASE serial_stop
      <2>1. FaultsOK'
        BY <1>2, FaultCounts DEF serial_stop
      <2>2. thread \in stuck => overstayed'
        BY <1>2 DEF serial_stop, stop
      <2>3. /\ stopping' = TRUE /\ thread' = 0
            /\ started' = started /\ stuck' = stuck /\ log' = log /\ total' = total
        BY <1>2, Zenon DEF serial_stop, stop
      <2>4. \/ thread \in stuck /\ overstayed' = TRUE /\ readers' = readers
            \/ /\ thread \notin stuck /\ overstayed' = overstayed
               /\ readers' = readers \ {thread}
        BY <1>2, Zenon DEF serial_stop, stop
      <2>5. thread' \in 0..MaxReaders /\ stopping' \in BOOLEAN
        BY <1>0, <2>3
      <2>6. stuck' \subseteq readers' /\ readers' \subseteq 1..started'
            /\ overstayed' \in BOOLEAN
        BY <2>3, <2>4
      <2>7. QuietInv'
        BY <2>3, <2>4
      <2> QED BY <2>1, <2>3, <2>5, <2>6, <2>7
    <1>3. CASE serial_clear
      BY <1>0, <1>3, FaultCounts DEF serial_clear, clear_log
    <1>4. ASSUME NEW r \in readers, Read(r)
          PROVE  /\ CaptureOK' /\ FaultsOK'
                 /\ QuietInv'
      BY <1>0, <1>4, FaultCounts DEF Read
    <1>5. ASSUME NEW r \in readers, Ends(r)
          PROVE  /\ CaptureOK' /\ FaultsOK'
                 /\ QuietInv'
      <2>1. FaultsOK'
        BY <1>5, FaultCounts DEF Ends
      <2> QED BY <1>5, <2>1 DEF Ends
    <1>6. ASSUME NEW r \in readers, Stuck(r) \/ Unstuck(r)
          PROVE  /\ CaptureOK' /\ FaultsOK'
                 /\ QuietInv'
      <2>1. FaultsOK'
        BY <1>6, FaultCounts DEF Stuck, Unstuck
      <2> QED BY <1>6, <2>1 DEF Stuck, Unstuck
    <1> QED BY <1>1, <1>2, <1>3, <1>4, <1>5, <1>6 DEF CaptureStep, SerialCalled

-----------------------------------------------------------------------------
(* Steps of the power.* tools and of the board.                            *)

PowerStep == (\E c \in Calls : Power(c)) \/ Boots \/ DaemonDies

LEMMA PowerLeavesCapture ==
    ASSUME PowerStep, FaultsOK
    PROVE  UNCHANGED <<config, capture>> /\ FaultsOK'
    <1> USE DEF config, capture
    <1>1. ASSUME NEW c \in Calls, Power(c)
          PROVE  UNCHANGED <<config, capture>> /\ (Fault \/ faults' = faults)
      <2>1. CASE PowerCalled(c)
        BY <2>1 DEF PowerCalled, PowerTool, PowerBegin
      <2>2. CASE PowerOpen(c)
        BY <2>2 DEF PowerOpen
      <2>3. CASE PowerSend(c)
        BY <2>3 DEF PowerSend
      <2>4. CASE PowerWatched(c)
        BY <2>4 DEF PowerWatched
      <2> QED BY <1>1, <2>1, <2>2, <2>3, <2>4 DEF Power
    <1>2. CASE Boots \/ DaemonDies
      BY <1>2, FaultCounts DEF Boots, DaemonDies
    <1> QED BY <1>1, <1>2, FaultCounts DEF PowerStep

(* A step that changes one call's record keeps the others'.                *)
LEMMA OneRecord ==
    ASSUME McuOK, NEW c \in Calls, NEW m \in CallRecords,
           power' = [power EXCEPT ![c] = m],
           GuardInv, Guarded(m, board'), board = "off" \/ board' # "off"
    PROVE  power' \in [Calls -> CallRecords] /\ GuardInv'
    <1>1. power' \in [Calls -> CallRecords]
      BY DEF McuOK
    <1>2. ASSUME NEW d \in Calls PROVE Guarded(power'[d], board')
      <2>1. power'[d] = IF d = c THEN m ELSE power[d]
        BY DEF McuOK
      <2>2. Guarded(power[d], board)
        BY GuardParts
      <2>3. CASE d = c
        BY <2>1, <2>3
      <2>4. CASE d # c
        BY <2>1, <2>2, <2>4 DEF Guarded
      <2> QED BY <2>3, <2>4
    <1> QED BY <1>1, <1>2 DEF GuardInv, Guarded

LEMMA BeginKeeps ==
    ASSUME McuOK, GuardInv, NEW c \in Calls, NEW cmd \in Commands,
           NEW force \in BOOLEAN, PowerBegin(c, cmd, force)
    PROVE  power' \in [Calls -> CallRecords] /\ GuardInv' /\ calls' \in 0..MaxCalls
    <1>0. calls' \in 0..MaxCalls /\ board' = board
      <2>1. MaxCalls \in Nat
        BY SerialAssumption
      <2> QED BY <2>1 DEF PowerBegin, McuOK
    <1> DEFINE m == [pc |-> "open", cmd |-> cmd, force |-> force,
                     unjudged |-> ~hasMcpd, offSince |-> FALSE]
    <1>1. CASE power' = power
      BY <1>0, <1>1 DEF McuOK, GuardInv
    <1>2. CASE /\ ~_refuse_if_board_cold(cmd, force)
               /\ power' = [power EXCEPT ![c] = m]
      <2>1. m \in CallRecords
        BY Zenon DEF CallRecords, McuOK
      <2>2. /\ m.pc = "open" /\ m.cmd = cmd /\ m.force = force
            /\ m.unjudged = ~hasMcpd
        OBVIOUS
      <2>3. \/ cmd \in {"p", "s"} \/ force \/ ~hasMcpd \/ board = "up"
        BY <1>2 DEF _refuse_if_board_cold, ColdSafe, _daemon_reachable
      <2> HIDE DEF m
      <2>4. Guarded(m, board)
        BY <2>2, <2>3 DEF Guarded
      <2> QED BY <1>0, <1>2, <2>1, <2>4, OneRecord
    <1> QED BY <1>1, <1>2, Zenon DEF PowerBegin

LEMMA OpenKeeps ==
    ASSUME McuOK, GuardInv, NEW c \in Calls, PowerOpen(c)
    PROVE  power' \in [Calls -> CallRecords] /\ GuardInv'
    <1>1. PICK m : m = IF PortTaken THEN NoPowerCall ELSE [power[c] EXCEPT !.pc = "send"]
      OBVIOUS
    <1>2. power' = [power EXCEPT ![c] = m] /\ board' = board /\ power[c].pc = "open"
      BY <1>1, Zenon DEF PowerOpen
    <1>3. m \in CallRecords /\ Guarded(m, board)
      <2>1. power[c] \in CallRecords /\ Guarded(power[c], board)
        BY GuardParts DEF McuOK
      <2>2. CASE m = NoPowerCall
        BY <2>2, IdleRecord DEF Guarded
      <2>3. CASE m = [power[c] EXCEPT !.pc = "send"]
        <3>1. m \in CallRecords
          BY <2>1, <2>3 DEF CallRecords
        <3>2. /\ m.cmd = power[c].cmd /\ m.force = power[c].force
              /\ m.unjudged = power[c].unjudged /\ m.offSince = power[c].offSince
          BY <2>1, <2>3, Zenon DEF CallRecords
        <3> QED BY <1>2, <2>1, <3>1, <3>2 DEF Guarded
      <2> QED BY <1>1, <2>2, <2>3
    <1> QED BY <1>2, <1>3, OneRecord

LEMMA SendKeeps ==
    ASSUME McuOK, GuardInv, GuardedMcuIsNotWedged, NEW c \in Calls, PowerSend(c)
    PROVE  McuOK' /\ GuardInv' /\ GuardedMcuIsNotWedged'
    <1> DEFINE cmd == power[c].cmd
               rest == IF cmd = "s" /\ wedged = "no" THEN SwitchedOff ELSE power
               m == IF cmd = "watch" THEN [rest[c] EXCEPT !.pc = "watching"] ELSE NoPowerCall
    <1>0. /\ power \in [Calls -> CallRecords]
          /\ \A d \in Calls : power[d] \in CallRecords /\ Guarded(power[d], board)
      BY GuardParts DEF McuOK
    <1>1. /\ power[c].pc = "send"
          /\ power' = [rest EXCEPT ![c] = m]
          /\ board' = IF wedged # "no" THEN board
                      ELSE CASE cmd = "p" -> "booting" [] cmd = "s" -> "off"
                             [] OTHER -> board
          /\ wedged' = IF wedged = "no" /\ board = "off" /\ cmd \notin {"p", "s"}
                       THEN Why(power[c]) ELSE wedged
          /\ stream' = IF board = "off" \/ wedged # "no" \/ cmd = "s" THEN FALSE
                       ELSE IF cmd \in {"q", "watch"} THEN ~stream ELSE stream
          /\ UNCHANGED <<exclusive, hasMcpd, calls>>
      BY Zenon DEF PowerSend, config
    <1>2. cmd \in Commands
      BY <1>0 DEF CallRecords
    <1>3. ASSUME NEW d \in Calls, cmd = "s", wedged = "no"
          PROVE  /\ rest[d] \in CallRecords
                 /\ rest[d].pc # "idle" => rest[d].offSince
      <2>1. rest[d] = IF power[d].pc = "idle" THEN NoPowerCall
                      ELSE [power[d] EXCEPT !.offSince = TRUE]
        BY <1>3 DEF SwitchedOff
      <2>2. CASE power[d].pc = "idle"
        BY <2>1, <2>2, IdleRecord
      <2>3. CASE power[d].pc # "idle"
        <3>1. PICK n : n = [power[d] EXCEPT !.offSince = TRUE]
          OBVIOUS
        <3>2. n \in CallRecords /\ n.offSince
          BY <1>0, <3>1, Zenon DEF CallRecords
        <3> QED BY <2>1, <2>3, <3>1, <3>2
      <2> QED BY <2>2, <2>3
    <1>4. rest \in [Calls -> CallRecords]
      <2>1. CASE cmd = "s" /\ wedged = "no"
        <3>1. rest = [d \in Calls |-> rest[d]]
          BY <2>1 DEF SwitchedOff
        <3> QED BY <1>3, <2>1, <3>1
      <2>2. CASE ~(cmd = "s" /\ wedged = "no")
        BY <1>0, <2>2
      <2> QED BY <2>1, <2>2
    <1>5. /\ m \in CallRecords
          /\ m.pc # "idle" => /\ m.force = power[c].force
                              /\ m.unjudged = power[c].unjudged
                              /\ m.offSince = power[c].offSince
                              /\ m.cmd = cmd /\ cmd = "watch"
      <2>1. CASE cmd = "watch"
        <3>1. PICK n : n = [power[c] EXCEPT !.pc = "watching"]
          OBVIOUS
        <3>2. m = n
          BY <2>1, <3>1
        <3>3. /\ n \in CallRecords
              /\ n.force = power[c].force /\ n.unjudged = power[c].unjudged
              /\ n.offSince = power[c].offSince /\ n.cmd = cmd
          BY <1>0, <3>1, Zenon DEF CallRecords
        <3> HIDE DEF m
        <3> QED BY <2>1, <3>2, <3>3
      <2>2. CASE cmd # "watch"
        BY <2>2, IdleRecord
      <2> QED BY <2>1, <2>2
    <1> HIDE DEF m
    <1>6. power' \in [Calls -> CallRecords]
          /\ \A d \in Calls : power'[d] = IF d = c THEN m ELSE rest[d]
      BY <1>1, <1>4, <1>5
    <1>7. /\ board' \in {"off", "booting", "up"}
          /\ board' = "off" => board = "off" \/ (cmd = "s" /\ wedged = "no")
      BY <1>1 DEF McuOK
    <1>8. GuardInv'
      <2> SUFFICES ASSUME NEW d \in Calls PROVE Guarded(power'[d], board')
        BY DEF GuardInv, Guarded
      <2>1. CASE board' # "off"
        BY <2>1 DEF Guarded
      <2>2. CASE d = c /\ board' = "off"
        <3>1. power'[d] = m
          BY <1>6, <2>2
        <3>2. cmd = "watch" => board = "off"
          BY <1>7, <2>2
        <3> QED BY <1>0, <1>1, <1>5, <2>2, <3>1, <3>2 DEF Guarded
      <2>3. CASE d # c /\ cmd = "s" /\ wedged = "no"
        BY <1>3, <1>6, <2>3 DEF Guarded
      <2>4. CASE d # c /\ ~(cmd = "s" /\ wedged = "no") /\ board' = "off"
        <3>1. power'[d] = power[d] /\ board = "off"
          BY <1>6, <1>7, <2>4
        <3> QED BY <1>0, <2>4, <3>1 DEF Guarded
      <2> QED BY <2>1, <2>2, <2>3, <2>4
    <1>9. /\ wedged' \in {"no"} \cup {"forced", "unjudged", "raced", "judged"}
          /\ wedged' # "judged"
      <2>1. CASE wedged' = wedged
        BY <2>1 DEF McuOK, GuardedMcuIsNotWedged
      <2>2. CASE board = "off" /\ cmd \notin {"p", "s"} /\ wedged' = Why(power[c])
        <3>1. power[c].force \/ power[c].unjudged \/ power[c].offSince
          BY <1>0, <1>1, <2>2 DEF Guarded
        <3> QED BY <2>2, <3>1, Zenon DEF Why
      <2> QED BY <1>1, <2>1, <2>2
    <1>10. stream' \in BOOLEAN
      BY <1>1 DEF McuOK
    <1> QED
      BY <1>1, <1>6, <1>7, <1>8, <1>9, <1>10 DEF McuOK, GuardedMcuIsNotWedged

LEMMA PowerKeeps ==
    ASSUME McuOK, GuardInv, GuardedMcuIsNotWedged, PowerStep, FaultsOK
    PROVE  McuOK' /\ GuardInv' /\ GuardedMcuIsNotWedged'
    <1>0. exclusive' \in BOOLEAN /\ hasMcpd' \in BOOLEAN
      BY PowerLeavesCapture DEF config, McuOK
    <1>1. ASSUME NEW c \in Calls, NEW cmd \in Commands, NEW force \in BOOLEAN,
                 PowerBegin(c, cmd, force)
          PROVE  McuOK' /\ GuardInv' /\ GuardedMcuIsNotWedged'
      <2>1. UNCHANGED <<board, stream, wedged>>
        BY <1>1 DEF PowerBegin
      <2>2. power' \in [Calls -> CallRecords] /\ GuardInv' /\ calls' \in 0..MaxCalls
        BY <1>1, BeginKeeps
      <2> QED BY <1>0, <2>1, <2>2 DEF McuOK, GuardedMcuIsNotWedged
    <1>2. ASSUME NEW c \in Calls, PowerOpen(c)
          PROVE  McuOK' /\ GuardInv' /\ GuardedMcuIsNotWedged'
      <2>1. UNCHANGED <<calls, board, stream, wedged>>
        BY <1>2 DEF PowerOpen
      <2>2. power' \in [Calls -> CallRecords] /\ GuardInv'
        BY <1>2, OpenKeeps
      <2> QED BY <1>0, <2>1, <2>2 DEF McuOK, GuardedMcuIsNotWedged
    <1>3. ASSUME NEW c \in Calls, PowerWatched(c)
          PROVE  McuOK' /\ GuardInv' /\ GuardedMcuIsNotWedged'
      <2>1. UNCHANGED <<calls, board, wedged>> /\ power' = [power EXCEPT ![c] = NoPowerCall]
        BY <1>3 DEF PowerWatched
      <2>2. stream' \in BOOLEAN
        BY <1>3, Zenon DEF PowerWatched, McuOK
      <2>3. NoPowerCall \in CallRecords /\ Guarded(NoPowerCall, board')
        BY IdleRecord DEF Guarded
      <2>4. power' \in [Calls -> CallRecords] /\ GuardInv'
        BY <2>1, <2>3, OneRecord
      <2> QED BY <1>0, <2>1, <2>2, <2>4 DEF McuOK, GuardedMcuIsNotWedged
    <1>4. CASE Boots \/ DaemonDies
      <2>1. UNCHANGED <<power, calls, stream, wedged>> /\ board' \in {"booting", "up"}
        BY <1>4 DEF Boots, DaemonDies
      <2>2. GuardInv'
        BY <2>1 DEF GuardInv
      <2> QED BY <1>0, <2>1, <2>2 DEF McuOK, GuardedMcuIsNotWedged
    <1> QED
      BY <1>1, <1>2, <1>3, <1>4, SendKeeps
         DEF PowerStep, Power, PowerCalled, PowerTool

-----------------------------------------------------------------------------
LEMMA SerialStep ==
    ASSUME SerialInv, [SerialNext]_serialVars
    PROVE  SerialInv'
    <1>0. /\ McuOK /\ CaptureOK /\ FaultsOK /\ GuardInv /\ GuardedMcuIsNotWedged
          /\ QuietInv
      BY TypeParts, Zenon DEF QuietInv, SerialInv, StoppedMeansQuiet
    <1> DEFINE J == /\ McuOK' /\ CaptureOK' /\ FaultsOK'
                    /\ QuietInv'
                    /\ GuardInv' /\ GuardedMcuIsNotWedged'
    <1>1. ASSUME UNCHANGED serialVars PROVE J
      <2>1. McuOK' /\ GuardInv' /\ GuardedMcuIsNotWedged'
        BY <1>0, <1>1 DEF serialVars, McuOK, GuardInv, GuardedMcuIsNotWedged
      <2>2. CaptureOK' /\ FaultsOK' /\ QuietInv'
        BY <1>0, <1>1 DEF serialVars, CaptureOK, FaultsOK, QuietInv
      <2> QED BY <2>1, <2>2
    <1>2. ASSUME CaptureStep PROVE J
      <2>1. McuOK' /\ GuardInv' /\ GuardedMcuIsNotWedged'
        BY <1>0, <1>2, CaptureLeavesMcu
           DEF config, mcu, McuOK, GuardInv, GuardedMcuIsNotWedged
      <2>2. /\ CaptureOK' /\ FaultsOK'
            /\ QuietInv'
        BY <1>0, <1>2, CaptureKeeps
      <2> QED BY <2>1, <2>2
    <1>3. ASSUME PowerStep PROVE J
      <2>1. McuOK' /\ GuardInv' /\ GuardedMcuIsNotWedged'
        BY <1>0, <1>3, PowerKeeps
      <2>2. FaultsOK' /\ UNCHANGED capture
        BY <1>0, <1>3, PowerLeavesCapture
      <2>3. /\ CaptureOK'
            /\ QuietInv'
        BY <1>0, <2>2 DEF capture, CaptureOK, QuietInv
      <2> QED BY <2>1, <2>2, <2>3
    <1>4. J
      BY <1>1, <1>2, <1>3, Zenon DEF SerialNext, CaptureStep, PowerStep
    <1>5. SerialTypeOK'
      BY <1>4, Zenon DEF SerialTypeOK, McuOK, CaptureOK, FaultsOK, CallRecords
    <1> QED BY <1>4, <1>5, Zenon DEF QuietInv, SerialInv, StoppedMeansQuiet

(* Whatever is called in whatever order, the readers and the board's power *)
(* stay as serial_capture.stop and the cold-board guard of power.* leave   *)
(* them.                                                                   *)
THEOREM SerialInvariant == SerialSpec => []SerialInv
    <1>1. SerialInit => SerialInv
      <2> SUFFICES ASSUME SerialInit PROVE SerialInv
        OBVIOUS
      <2>1. MaxReaders \in Nat /\ MaxBytes \in Nat /\ MaxCalls \in Nat
            /\ MaxFaults \in Nat
        BY SerialAssumption
      <2>2. McuOK
        <3>1. /\ power \in [Calls -> CallRecords] /\ calls \in 0..MaxCalls
              /\ board \in {"off", "booting", "up"} /\ wedged = "no"
          BY <2>1, IdleRecord DEF SerialInit
        <3>2. exclusive \in BOOLEAN /\ hasMcpd \in BOOLEAN /\ stream \in BOOLEAN
          BY Zenon DEF SerialInit
        <3> QED BY <3>1, <3>2 DEF McuOK
      <2>3. CaptureOK /\ FaultsOK
        <3>1. /\ thread \in 0..MaxReaders /\ started \in 0..MaxReaders
              /\ log \in 0..MaxBytes /\ total \in 0..MaxBytes
              /\ readers = {} /\ stuck = {} /\ faults \in 0..MaxFaults
          BY <2>1 DEF SerialInit
        <3>2. stopping \in BOOLEAN /\ overstayed \in BOOLEAN
          BY Zenon DEF SerialInit
        <3> QED BY <3>1, <3>2 DEF CaptureOK, FaultsOK
      <2>4. GuardInv /\ GuardedMcuIsNotWedged
        BY IdleRecord DEF SerialInit, GuardInv, GuardedMcuIsNotWedged
      <2>5. readers \subseteq {thread}
        BY DEF SerialInit
      <2> QED BY <2>2, <2>3, <2>4, <2>5, TypeParts DEF SerialInv, StoppedMeansQuiet
    <1>2. SerialInv /\ [SerialNext]_serialVars => SerialInv'
      BY SerialStep
    <1> QED BY <1>1, <1>2, PTL DEF SerialSpec

(* After SerialCapture.stop has joined its reader none is left that writes *)
(* the log or takes a power.* tool's bytes, for any number of starts.      *)
THEOREM StoppedIsQuiet == SerialSpec => []StoppedMeansQuiet
    <1>1. SerialInv => StoppedMeansQuiet
      BY DEF SerialInv
    <1> QED BY <1>1, SerialInvariant, PTL

(* _refuse_if_board_cold holds back every command that would wedge a cold  *)
(* MCU, but for forced, unjudged and raced ones, for any number of calls.  *)
THEOREM GuardHolds == SerialSpec => []GuardedMcuIsNotWedged
    <1>1. SerialInv => GuardedMcuIsNotWedged
      BY DEF SerialInv
    <1> QED BY <1>1, SerialInvariant, PTL

=============================================================================
