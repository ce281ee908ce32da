---------------------------------- MODULE Gdb ----------------------------------
(***************************************************************************)
(* One target's GDB connection: transports/gdb.py and the debug.* tools of *)
(* tools/debug.py that use it, against QEMU's stub.                        *)
(*                                                                         *)
(* A request is one packet with one reply.  The byte stream is kept as     *)
(* tokens: acks (+), naks (-), replies that are sound or damaged, and what *)
(* is left of a reply after one of its bytes was taken for an ack.  What a *)
(* reply says is left out but for the request it answers.  The debug.*     *)
(* methods that go through MCPd are requests of RpcTransport.              *)
(***************************************************************************)
EXTENDS Naturals, Sequences, SequencesExt, FiniteSets

CONSTANTS
    Calls,      \* debug.* calls, each made once at most
    None,
    MaxFrames,  \* max_frames of debug.backtrace
    MaxConns,   \* bound on connections
    MaxFaults   \* bound on damaged packets, dead connections, refusals and cancellations

ASSUME GdbAssumption ==
    IsFiniteSet(Calls) /\ None \notin Calls /\ {MaxFrames, MaxConns, MaxFaults} \subseteq Nat

VARIABLES
    calls,      \* what every call is doing
    lock,       \* holder of the transport's lock, or None
    conn,       \* the connection in use; 0 is none
    opened,     \* connections so far
    toStub, fromStub,   \* of every connection, what was written and not read yet
    dead,       \* connections that are gone
    \* the stub
    attached,   \* the connection it serves
    resumed,    \* the continue whose stop it still has to report, or None
    lastReply,  \* what it sends again on a nak
    runs,       \* how often it carried out the packet of a call
    \* history
    dirty,      \* a call failed, or was cancelled, and left the connection open
    faults

client == <<calls, lock, conn, opened, dirty>>
wire == <<toStub, fromStub, dead>>
stub == <<attached, resumed, lastReply, runs>>
vars == <<calls, lock, conn, opened, toStub, fromStub, dead,
          attached, resumed, lastReply, runs, dirty, faults>>

\* "read" stands for every packet that can be repeated: g, p, m, ?, Z and z.
Kinds == {"read", "step", "cont", "detach", "backtrace"}
Exchanges == {"read", "step", "backtrace"}
Packet(kind, c) == [t |-> kind, of |-> c]
Reply(of, kind, bad) == [t |-> "reply", of |-> of, kind |-> kind, bad |-> bad]
Mark(t) == [t |-> t]
NoReply == Mark("none")

Fresh == [pc |-> "new", kind |-> "read", hello |-> FALSE, attempt |-> 0, sent |-> FALSE,
          naked |-> FALSE, reads |-> 0, foreign |-> FALSE,
          unclean |-> FALSE, ackLost |-> FALSE, claim |-> "none"]

CallType == [pc: {"new", "connect", "ack", "recv", "broke", "again", "ok", "failed"},
             kind: Kinds, hello: BOOLEAN, attempt: 0..1, sent: BOOLEAN, naked: BOOLEAN,
             reads: 0..(3 + 2 * MaxFrames), foreign: BOOLEAN,
             unclean: BOOLEAN, ackLost: BOOLEAN, claim: {"none", "notRun", "mayHaveRun"}]
TypeOK ==
    /\ calls \in [Calls -> CallType]
    /\ lock \in Calls \cup {None}
    /\ conn \in 0..opened /\ opened \in 0..MaxConns /\ dead \subseteq 1..opened
    /\ DOMAIN toStub = 1..opened /\ DOMAIN fromStub = 1..opened
    /\ attached \in 0..opened /\ resumed \in Calls \cup {None}
    /\ runs \in [Calls -> Nat] /\ dirty \in BOOLEAN /\ faults \in 0..MaxFaults

Init ==
    /\ calls = [c \in Calls |-> Fresh] /\ lock = None
    /\ conn = 0 /\ opened = 0 /\ toStub = <<>> /\ fromStub = <<>> /\ dead = {}
    /\ attached = 0 /\ resumed = None /\ lastReply = NoReply /\ runs = [c \in Calls |-> 0]
    /\ dirty = FALSE /\ faults = 0

Fault == faults < MaxFaults /\ faults' = faults + 1

----------------------------------------------------------------------------
(* Pieces of the client.                                                   *)

_close_locked ==
    /\ conn' = 0 /\ dirty' = FALSE
    /\ fromStub' = IF conn = 0 THEN fromStub ELSE [fromStub EXCEPT ![conn] = <<>>]
LeftOpen == dirty' = (conn # 0) /\ UNCHANGED conn

Incoming == IF conn = 0 THEN <<>> ELSE fromStub[conn]
Unread(rest) == [fromStub EXCEPT ![conn] = rest]
Written(packet) == IF conn \in dead THEN toStub ELSE [toStub EXCEPT ![conn] = Append(@, packet)]
Waits(c, pcs) == lock = c /\ calls[c].pc \in pcs

\* Where the first whole reply is; _recv skips what is before it.
ReplyAt == LET at == {i \in DOMAIN Incoming : Incoming[i].t = "reply"}
           IN  IF at = {} THEN 0 ELSE CHOOSE i \in at : \A j \in at : i <= j

(* An exception leaves the tool.  debug_backtrace takes a failed memory    *)
(* read for the end of the chain.                                          *)
Raises(c, claim) ==
    LET r == calls[c] IN
    /\ lock' = None
    /\ calls' = [calls EXCEPT ![c] =
                    [r EXCEPT !.pc = IF r.kind = "backtrace" /\ r.reads >= 3 THEN "ok" ELSE "failed",
                              !.claim = claim, !.ackLost = @ \/ (r.pc = "ack" /\ ~r.hello)]]
may_have_run(c) == IF calls[c].sent THEN "mayHaveRun" ELSE "notRun"

\* detach swallows every error and closes.
Detached(c) ==
    /\ calls[c].kind = "detach" /\ _close_locked
    /\ lock' = None /\ calls' = [calls EXCEPT ![c].pc = "ok"]
    /\ UNCHANGED toStub

----------------------------------------------------------------------------
(* The client.                                                             *)

(* A debug.* tool is called and gets the lock.                             *)
Begin(c, kind) ==
    /\ calls[c].pc = "new" /\ lock = None
    /\ IF kind = "detach" /\ conn = 0
       THEN calls' = [calls EXCEPT ![c].kind = kind, ![c].pc = "ok"] /\ UNCHANGED lock
       ELSE calls' = [calls EXCEPT ![c].kind = kind, ![c].pc = "connect"] /\ lock' = c
    /\ UNCHANGED <<conn, opened, dirty, wire, stub, faults>>

(* debug_backtrace: three registers, then two words for every frame until  *)
(* the chain ends; each read takes the lock anew.                          *)
ReadNext(c) ==
    /\ calls[c].pc = "again" /\ lock = None /\ calls[c].reads < 3 + 2 * (MaxFrames - 1)
    /\ lock' = c
    /\ calls' = [calls EXCEPT ![c].pc = "connect", ![c].attempt = 0, ![c].sent = FALSE]
    /\ UNCHANGED <<conn, opened, dirty, wire, stub, faults>>
BacktraceEnds(c) ==
    /\ calls[c].pc = "again" /\ calls[c].reads >= 3
    /\ calls' = [calls EXCEPT ![c].pc = "ok"]
    /\ UNCHANGED <<lock, conn, opened, dirty, wire, stub, faults>>

(* _ensure_connected opens a connection and greets the stub.               *)
Connects(c) ==
    /\ Waits(c, {"connect"}) /\ conn = 0 /\ opened < MaxConns
    /\ opened' = opened + 1 /\ conn' = opened'
    /\ toStub' = Append(toStub, <<Packet("hello", c)>>) /\ fromStub' = Append(fromStub, <<>>)
    /\ calls' = [calls EXCEPT ![c].pc = "ack", ![c].hello = TRUE, ![c].naked = FALSE]
    /\ UNCHANGED <<lock, dirty, dead, stub, faults>>
Refused(c) ==
    /\ Waits(c, {"connect"}) /\ conn = 0 /\ Fault
    /\ Raises(c, "none")
    /\ UNCHANGED <<conn, opened, dirty, wire, stub>>

(* _send writes the packet of the call itself.                             *)
Sends(c) ==
    /\ Waits(c, {"connect"}) /\ conn # 0
    /\ toStub' = Written(Packet(calls[c].kind, c))
    /\ calls' = [calls EXCEPT ![c].pc = "ack", ![c].hello = FALSE, ![c].naked = FALSE,
                              ![c].unclean = @ \/ dirty]
    /\ UNCHANGED <<lock, conn, opened, dirty, fromStub, dead, stub, faults>>

GetsAck(c) ==
    /\ Waits(c, {"ack"}) /\ Incoming # <<>> /\ Head(Incoming).t = "ack"
    /\ fromStub' = Unread(Tail(Incoming))
    /\ calls' = [calls EXCEPT ![c].pc = "recv", ![c].sent = ~calls[c].hello]
    /\ UNCHANGED <<lock, conn, opened, dirty, toStub, dead, stub, faults>>
SendsAgain(c) ==
    /\ Waits(c, {"ack"}) /\ Incoming # <<>> /\ Head(Incoming).t = "nak" /\ ~calls[c].naked
    /\ fromStub' = Unread(Tail(Incoming))
    /\ toStub' = Written(Packet(IF calls[c].hello THEN "hello" ELSE calls[c].kind, c))
    /\ calls' = [calls EXCEPT ![c].naked = TRUE]
    /\ UNCHANGED <<lock, conn, opened, dirty, dead, stub, faults>>
(* Any other byte raises InternalError, which only detach handles.         *)
BadAck(c) ==
    /\ Waits(c, {"ack"}) /\ Incoming # <<>>
    /\ \/ Head(Incoming).t \in {"reply", "rest"}
       \/ Head(Incoming).t = "nak" /\ calls[c].naked
    /\ \/ Detached(c)
       \/ /\ calls[c].kind # "detach" /\ LeftOpen /\ Raises(c, "none")
          /\ \/ fromStub' = Unread(<<Mark("rest")>> \o Tail(Incoming)) /\ Head(Incoming).t # "nak"
             \/ fromStub' = Unread(Tail(Incoming)) /\ Head(Incoming).t # "reply"
          /\ UNCHANGED toStub
    /\ UNCHANGED <<opened, dead, stub, faults>>

(* _recv returns a sound reply: to the greeting, or to what was asked.     *)
Answered(c, reply) ==
    LET r == calls[c]
        own == reply.of = c /\ reply.kind = r.kind
    IN  IF r.hello
        THEN /\ calls' = [calls EXCEPT ![c].pc = "connect", ![c].hello = FALSE]
             /\ UNCHANGED lock
        ELSE /\ calls' = [calls EXCEPT ![c].pc = IF r.kind = "backtrace" THEN "again" ELSE "ok",
                                       ![c].reads = IF r.kind = "backtrace" THEN @ + 1 ELSE @,
                                       ![c].foreign = @ \/ ~own]
             /\ lock' = None
GetsReply(c) ==
    /\ Waits(c, {"recv", "broke"}) /\ ReplyAt # 0 /\ ~Incoming[ReplyAt].bad
    /\ \/ Detached(c)
       \/ /\ calls[c].kind # "detach" /\ Answered(c, Incoming[ReplyAt])
          /\ fromStub' = Unread(SubSeq(Incoming, ReplyAt + 1, Len(Incoming)))
          /\ UNCHANGED <<conn, dirty, toStub>>
    /\ UNCHANGED <<opened, dead, stub, faults>>
(* A wrong checksum is answered with a nak and raised.                     *)
GetsDamaged(c) ==
    /\ Waits(c, {"recv", "broke"}) /\ ReplyAt # 0 /\ Incoming[ReplyAt].bad
    /\ \/ Detached(c)
       \/ /\ calls[c].kind # "detach" /\ LeftOpen /\ Raises(c, "none")
          /\ fromStub' = Unread(SubSeq(Incoming, ReplyAt + 1, Len(Incoming)))
          /\ toStub' = Written(Mark("nak"))
    /\ UNCHANGED <<opened, dead, stub, faults>>

ExchangeTimesOutKeeping(c) ==
    /\ Waits(c, {"ack", "recv"}) /\ calls[c].kind \in Exchanges
    /\ UNCHANGED <<conn, dirty>> /\ Raises(c, may_have_run(c))
    /\ UNCHANGED <<opened, wire, stub, faults>>

(* _exchange, TimeoutError.                                                *)
ExchangeTimesOut(c) ==
    /\ Waits(c, {"ack", "recv"}) /\ calls[c].kind \in Exchanges
    /\ _close_locked /\ Raises(c, may_have_run(c))
    /\ UNCHANGED <<opened, toStub, dead, stub, faults>>
DetachTimesOut(c) ==
    /\ Waits(c, {"ack", "recv"}) /\ Detached(c)
    /\ UNCHANGED <<opened, dead, stub, faults>>

(* cont: no handler around the greeting and the ack; a wait that is over   *)
(* sends Ctrl-C, and may have taken a part of the stop reply with it.      *)
ContSendTimesOut(c) ==
    /\ Waits(c, {"ack", "recv"}) /\ calls[c].kind = "cont"
    /\ calls[c].hello \/ calls[c].pc = "ack"
    /\ LeftOpen /\ Raises(c, "none")
    /\ UNCHANGED <<opened, wire, stub, faults>>
Interrupts(c) ==
    /\ Waits(c, {"recv"}) /\ calls[c].kind = "cont" /\ ~calls[c].hello
    /\ toStub' = Written(Mark("break"))
    /\ calls' = [calls EXCEPT ![c].pc = "broke"]
    /\ \/ UNCHANGED fromStub
       \/ ReplyAt # 0 /\ fromStub' = Unread(SubSeq(Incoming, ReplyAt + 1, Len(Incoming)))
    /\ UNCHANGED <<lock, conn, opened, dirty, dead, stub, faults>>
InterruptTimesOut(c) ==
    /\ Waits(c, {"broke"}) /\ _close_locked /\ Raises(c, "none")
    /\ UNCHANGED <<opened, toStub, dead, stub, faults>>

(* The connection is gone while something is expected from it.             *)
Eof(c) ==
    /\ conn \in dead
    /\ \/ Waits(c, {"ack"}) /\ Incoming = <<>>
       \/ Waits(c, {"recv", "broke"}) /\ ReplyAt = 0
ResendableAlways(c) == calls[c].attempt = 0
Resendable(c) == calls[c].attempt = 0 /\ ~calls[c].sent

(* _exchange, IncompleteReadError and OSError: once more on a new          *)
(* connection, if the packet was not acknowledged.                         *)
ExchangeBreaks(c) ==
    /\ Eof(c) /\ calls[c].kind \in Exchanges /\ _close_locked
    /\ IF Resendable(c)
       THEN /\ calls' = [calls EXCEPT ![c].pc = "connect", ![c].attempt = 1, ![c].hello = FALSE,
                                      ![c].ackLost = @ \/ (calls[c].pc = "ack" /\ ~calls[c].hello)]
            /\ UNCHANGED lock
       ELSE Raises(c, may_have_run(c))
    /\ UNCHANGED <<opened, toStub, dead, stub, faults>>
ContBreaks(c) ==
    /\ Eof(c) /\ calls[c].kind = "cont" /\ LeftOpen /\ Raises(c, "none")
    /\ UNCHANGED <<opened, wire, stub, faults>>
DetachBreaks(c) ==
    /\ Eof(c) /\ Detached(c)
    /\ UNCHANGED <<opened, dead, stub, faults>>

(* The client of the server cancels the tool call it waits for.            *)
Cancelled(c) ==
    /\ lock = c /\ Fault /\ LeftOpen
    /\ lock' = None /\ calls' = [calls EXCEPT ![c].pc = "failed"]
    /\ UNCHANGED <<opened, wire, stub>>

----------------------------------------------------------------------------
(* The stub, which serves one connection at a time, and the network.       *)

Emitted(tokens) == IF attached # conn \/ attached \in dead THEN fromStub
                   ELSE [fromStub EXCEPT ![attached] = @ \o tokens]

Attaches ==
    /\ attached < opened
    /\ attached # conn \/ attached \in dead
    /\ attached' = attached + 1
    /\ resumed' = None /\ lastReply' = NoReply
    /\ UNCHANGED <<client, wire, runs, faults>>

Reports ==
    /\ resumed' = None /\ lastReply' = Reply(resumed, "cont", FALSE)
    /\ fromStub' = Emitted(<<lastReply'>>)
Stops ==
    /\ resumed # None /\ Reports
    /\ UNCHANGED <<client, toStub, dead, attached, runs, faults>>

TakesWhileRunning ==
    /\ resumed # None /\ Reports /\ UNCHANGED <<runs, faults>>
TakesMark(m) ==
    /\ resumed = None /\ m.t \in {"break", "nak"}
    /\ fromStub' = IF m.t = "nak" /\ lastReply # NoReply THEN Emitted(<<lastReply>>) ELSE fromStub
    /\ UNCHANGED <<resumed, lastReply, runs, faults>>
Naks(m) ==
    /\ resumed = None /\ m.t \notin {"break", "nak"} /\ Fault
    /\ fromStub' = Emitted(<<Mark("nak")>>)
    /\ UNCHANGED <<resumed, lastReply, runs>>
CarriesOut(m) ==
    /\ resumed = None /\ m.t \notin {"break", "nak"}
    /\ runs' = IF m.t \in {"step", "cont"} THEN [runs EXCEPT ![m.of] = @ + 1] ELSE runs
    /\ IF m.t = "cont"
       THEN /\ resumed' = m.of /\ fromStub' = Emitted(<<Mark("ack")>>)
            /\ UNCHANGED <<lastReply, faults>>
       ELSE /\ lastReply' = Reply(m.of, m.t, FALSE)
            /\ \/ fromStub' = Emitted(<<Mark("ack"), lastReply'>>) /\ UNCHANGED faults
               \/ fromStub' = Emitted(<<Mark("ack"), [lastReply' EXCEPT !.bad = TRUE]>>) /\ Fault
            /\ UNCHANGED resumed
Takes ==
    /\ attached # 0 /\ attached \notin dead /\ toStub[attached] # <<>>
    /\ toStub' = [toStub EXCEPT ![attached] = Tail(@)]
    /\ LET m == Head(toStub[attached])
       IN  TakesWhileRunning \/ TakesMark(m) \/ Naks(m) \/ CarriesOut(m)
    /\ UNCHANGED <<client, dead, attached>>

Dies(k) ==
    /\ k \notin dead /\ Fault /\ dead' = dead \cup {k}
    /\ \/ UNCHANGED fromStub
       \/ fromStub' = [fromStub EXCEPT ![k] = <<>>]
    /\ UNCHANGED <<client, toStub, stub>>

----------------------------------------------------------------------------
Call(c) ==
    \/ \E kind \in Kinds : Begin(c, kind)
    \/ ReadNext(c) \/ BacktraceEnds(c)
    \/ Connects(c) \/ Refused(c) \/ Sends(c)
    \/ GetsAck(c) \/ SendsAgain(c) \/ BadAck(c) \/ GetsReply(c) \/ GetsDamaged(c)
    \/ ExchangeTimesOut(c) \/ DetachTimesOut(c) \/ ContSendTimesOut(c)
    \/ Interrupts(c) \/ InterruptTimesOut(c)
    \/ ExchangeBreaks(c) \/ ContBreaks(c) \/ DetachBreaks(c) \/ Cancelled(c)

Next ==
    \/ \E c \in Calls : Call(c)
    \/ Attaches \/ Stops \/ Takes
    \/ \E k \in {conn} \ {0} : Dies(k)

Spec == Init /\ [][Next]_vars

----------------------------------------------------------------------------
(* Properties.                                                             *)

(* A reply is never taken for the answer to another request: timeouts,     *)
(* Ctrl-C, resent packets and broken connections close the connection or   *)
(* leave it with nothing unread.  Only a connection that a failed continue,*)
(* a damaged packet or a cancelled call left open as it was can be out of  *)
(* step.                                                                   *)
RepliesAreOwn ==
    /\ TypeOK
    /\ \A c \in Calls : calls[c].foreign => calls[c].unclean

(* A step is carried out once at most, and not at all when its failure     *)
(* says may_have_run = false; unless the packet went out and the ack for   *)
(* it was lost, which _exchange takes for a packet that never arrived, or  *)
(* the connection was out of step before.                                  *)
StepsRunOnce ==
    \A c \in Calls : calls[c].kind = "step" /\ ~calls[c].ackLost /\ ~calls[c].unclean =>
        /\ runs[c] <= 1
        /\ calls[c].claim = "notRun" => runs[c] = 0

----------------------------------------------------------------------------
(* What makes them inductive.  The tokens of either direction ...          *)
ToTokens == [t: Kinds \cup {"hello"}, of: Calls] \cup [t: {"break", "nak"}]
Replies == [t: {"reply"}, of: Calls, kind: Kinds \cup {"hello"}, bad: BOOLEAN]
FromTokens == [t: {"ack", "nak", "rest"}] \cup Replies
WireInv ==
    /\ conn \in {0, opened}
    /\ toStub \in Seq(Seq(ToTokens)) /\ fromStub \in Seq(Seq(FromTokens))
    /\ lastReply \in Replies \cup {NoReply} /\ (resumed # None => attached # 0)

(* ... who holds the lock, and what an exchange has done so far ...        *)
Busy == {"connect", "ack", "recv", "broke"}
CallInv(c) ==
    LET r == calls[c] IN
    /\ lock = c <=> r.pc \in Busy
    /\ r.pc \in {"ack", "recv", "broke"} => conn # 0 /\ (dirty => r.unclean /\ ~r.hello)
    /\ (r.pc = "broke" => r.kind = "cont") /\ (r.pc = "again" => r.kind = "backtrace")
    /\ r.pc \in {"recv", "broke"} /\ ~r.hello => r.sent
    /\ r.pc \notin {"again", "ok", "failed"} => r.reads < 3 + 2 * MaxFrames
    /\ r.foreign => r.unclean
    /\ r.claim # "none" => r.pc \in {"ok", "failed"}

(* ... an open connection that no call left as it was holds the one packet *)
(* of the call at work, or the one answer to it, and between calls nothing *)
(* but a Ctrl-C that came too late ...                                     *)
Want(r) == IF r.hello THEN "hello" ELSE r.kind
CtrlC == Mark("break")
Sits(gone, to, res, tos, resumes) == gone \/ (to \in tos /\ res = resumes)
Quiet(gone, to, res, from) == from = <<>> /\ Sits(gone, to, res, {<<>>, <<CtrlC>>}, None)
AckStream(c, want, gone, to, res, from) ==
    LET packet == Packet(want, c) IN
    \/ from = <<>> /\ Sits(gone, to, res, {<<packet>>, <<CtrlC, packet>>}, None)
    \/ from = <<Mark("nak")>> /\ Sits(gone, to, res, {<<>>}, None)
    \/ \E bad \in BOOLEAN :
          from = <<Mark("ack"), Reply(c, want, bad)>> /\ Sits(gone, to, res, {<<>>}, None)
    \/ from = <<Mark("ack")>> /\ want = "cont" /\ Sits(gone, to, res, {<<>>}, c)
RecvStream(c, want, gone, to, res, from) ==
    \/ from = <<>> /\ (want # "cont" => gone) /\ Sits(gone, to, res, {<<>>}, c)
    \/ \E bad \in BOOLEAN : from = <<Reply(c, want, bad)>> /\ Sits(gone, to, res, {<<>>}, None)
BrokeStream(c, gone, to, res, from) ==
    \/ from = <<>> /\ \E resumes \in {c, None} : Sits(gone, to, res, {<<>>, <<CtrlC>>}, resumes)
    \/ \E bad \in BOOLEAN :
          from = <<Reply(c, "cont", bad)>> /\ Sits(gone, to, res, {<<>>, <<CtrlC>>}, None)
Stream(c, r, gone, to, res, from) ==
    /\ r.pc = "connect" => Quiet(gone, to, res, from)
    /\ r.pc = "ack" => AckStream(c, Want(r), gone, to, res, from)
    /\ r.pc = "recv" => RecvStream(c, Want(r), gone, to, res, from)
    /\ r.pc = "broke" => BrokeStream(c, gone, to, res, from)
Resumed == IF attached = conn THEN resumed ELSE None
StreamInv ==
    conn # 0 /\ ~dirty =>
        /\ lock = None => Quiet(conn \in dead, toStub[conn], Resumed, fromStub[conn])
        /\ lock # None => Stream(lock, calls[lock], conn \in dead, toStub[conn], Resumed, fromStub[conn])

(* ... and the packet of a step is somewhere once, or was carried out.     *)
Mine(m, c) == m.t \in Kinds /\ m.of = c
NonePending(wires, c) == \A k \in DOMAIN wires : \A i \in DOMAIN wires[k] : ~Mine(wires[k][i], c)
OnePending(wires, c) ==
    \A k, j \in DOMAIN wires : \A i \in DOMAIN wires[k], l \in DOMAIN wires[j] :
        Mine(wires[k][i], c) /\ Mine(wires[j][l], c) => k = j /\ i = l
PacketInv ==
    \A k \in DOMAIN toStub : \A i \in DOMAIN toStub[k] :
        LET m == toStub[k][i]
        IN  m.t \in Kinds => calls[m.of].kind = m.t /\ calls[m.of].pc # "new"
Unsent(c) == NonePending(toStub, c) /\ runs[c] = 0
Once(c) == \/ NonePending(toStub, c) /\ runs[c] <= 1
           \/ OnePending(toStub, c) /\ runs[c] = 0
NotOut(r) ==
    r.pc = "connect" \/ (r.pc \in {"ack", "recv"} /\ r.hello) \/ r.claim = "notRun"
StepInv(c) ==
    LET r == calls[c] IN
    /\ r.pc = "new" => runs[c] = 0
    /\ r.kind = "step" /\ ~r.ackLost /\ ~r.unclean =>
          /\ Once(c)
          /\ NotOut(r) \/ (r.pc = "ack" /\ fromStub[conn] = <<Mark("nak")>>) => Unsent(c)

GdbInv ==
    /\ TypeOK /\ WireInv /\ (conn = 0 => ~dirty)
    /\ \A c \in Calls : CallInv(c) /\ StepInv(c)
    /\ StreamInv /\ PacketInv

================================================================================
