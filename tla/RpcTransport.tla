---------------------------- MODULE RpcTransport ----------------------------
(***************************************************************************)
(* One RPC connection pair: McpdTransport of the host                      *)
(* (host/src/amiga_fleet_mcp/transports/mcpd.py) against the connection    *)
(* workers of the daemon (handle_connection in mcpd/src/main.c, framing in *)
(* frame.c, rpc_dispatch in rpc.c).                                        *)
(*                                                                         *)
(* request() holds the transport's lock from its first to its last await,  *)
(* so one call is under way at a time, but its caller may be cancelled at  *)
(* any await: fleet.barrier and fleet.quorum_run do that.  The daemon's    *)
(* worker of a connection the host has given up on goes on reading what    *)
(* was sent.  A timeout may fire at any wait.                              *)
(*                                                                         *)
(* A frame is its id and the request it carries.  One whose header was     *)
(* consumed by a wait that ended before the body came is "torn": what is   *)
(* left of it is read as a length that makes no sense.                     *)
(***************************************************************************)
EXTENDS Integers, Sequences, FiniteSets

CONSTANTS
    Requests,     \* calls of request()
    NoReq,        \* not a request
    Idempotent,   \* those whose method is in IDEMPOTENT_METHODS
    Large,        \* those whose payload may be more than the stack
                  \* buffers, or even over MAX_FRAME_BYTES
    MaxConns,     \* bound: connections opened
    MaxNotes      \* bound: notifications the daemon sends

ASSUME TransportAssumption ==
    /\ NoReq \notin Requests
    /\ Idempotent \subseteq Requests
    /\ Large \subseteq Requests
    /\ MaxConns \in Nat
    /\ MaxNotes \in Nat

WARMUP_ID_BASE == -100
Probes == {0, 1}              \* the two rounds of _warmup_locked
NoConn == 0
ConnIds == 1..MaxConns
NoId == 0                     \* the id of a notification

VARIABLES
    phase,     \* control point of the request() that holds the lock
    k,         \* the call it belongs to
    attempt,   \* 0 or 1
    probe,     \* round of the warmup
    rid,       \* its `rid`
    next_id,   \* self._next_id
    conn,      \* self._reader / self._writer, or NoConn
    stale,     \* idle for longer than STALE_AFTER_S
    opened,    \* connections opened so far
    outcome,   \* call -> how it ended
    answer,    \* call -> the call whose reply it was given
    wentOut,   \* calls that wrote a frame in some attempt
    worker,    \* connection -> the daemon's worker for it
    doing,     \* connection -> the frame its worker is working on
    toDaemon,  \* connection -> frames on the way to the daemon
    toHost,    \* connection -> frames on the way to the host
    notes,     \* notifications sent by the daemon
    ran        \* call -> how often its handler has run

hostVars   == <<phase, k, attempt, probe, rid, next_id, conn, stale,
                opened>>
callVars   == <<outcome, answer, wentOut>>
daemonVars == <<worker, doing, ran, notes>>
vars == <<hostVars, callVars, daemonVars, toDaemon, toHost>>

Frame(i, r) == [kind |-> "frame", id |-> i, req |-> r]
Torn        == [kind |-> "torn", id |-> NoId, req |-> NoReq]
Idle        == Frame(NoId, NoReq)   \* also the frame of a notification

Outcomes == {"none", "answered", "unreachable", "failed", "not_run",
             "internal", "assertion", "cancelled"}

Ids    == {NoId} \cup 1..(next_id - 1) \cup {WARMUP_ID_BASE - i : i \in Probes}
Frames == [kind: {"frame", "torn"}, id: Ids, req: Requests \cup {NoReq}]

TypeOK ==
    /\ phase \in {"idle", "check", "connect", "warm_send", "warm_read",
                  "send", "drain", "read"}
    /\ k \in Requests \cup {NoReq}
    /\ phase # "idle" => k \in Requests
    /\ attempt \in {0, 1}
    /\ probe \in Probes
    /\ rid \in 0..(next_id - 1)
    /\ next_id \in Nat \ {0}
    /\ conn \in ConnIds \cup {NoConn}
    /\ stale \in BOOLEAN
    /\ opened \in 0..MaxConns
    /\ outcome \in [Requests -> Outcomes]
    /\ answer \in [Requests -> Requests \cup {NoReq}]
    /\ wentOut \subseteq Requests
    /\ worker \in [ConnIds -> {"none", "up", "down"}]
    /\ doing \in [ConnIds -> Frames]
    /\ toDaemon \in [ConnIds -> Seq(Frames)]
    /\ toHost \in [ConnIds -> Seq(Frames)]
    /\ notes \in 0..MaxNotes
    /\ ran \in [Requests -> Nat]
    /\ phase \in {"warm_send", "warm_read", "drain", "read"} => conn # NoConn

Init ==
    /\ phase = "idle"
    /\ k = NoReq
    /\ attempt = 0
    /\ probe = 0
    /\ rid = 0
    /\ next_id = 1
    /\ conn = NoConn
    /\ stale = FALSE
    /\ opened = 0
    /\ outcome = [r \in Requests |-> "none"]
    /\ answer = [r \in Requests |-> NoReq]
    /\ wentOut = {}
    /\ worker = [c \in ConnIds |-> "none"]
    /\ doing = [c \in ConnIds |-> Idle]
    /\ toDaemon = [c \in ConnIds |-> <<>>]
    /\ toHost = [c \in ConnIds |-> <<>>]
    /\ notes = 0
    /\ ran = [r \in Requests |-> 0]

-----------------------------------------------------------------------------
(* Steps request() is made of.                                             *)

(* The call ends and releases the lock.                                    *)
End(o) ==
    /\ phase' = "idle"
    /\ k' = NoReq
    /\ attempt' = 0
    /\ probe' = 0
    /\ rid' = 0
    /\ outcome' = [outcome EXCEPT ![k] = o]

(* _close_locked: the connection is forgotten, what had arrived is lost.   *)
CloseLocked ==
    /\ conn' = NoConn
    /\ stale' = FALSE
    /\ toHost' = IF conn = NoConn THEN toHost
                 ELSE [toHost EXCEPT ![conn] = <<>>]

(* _ensure_connected opened a connection; the daemon has a worker for it.  *)
Open ==
    /\ opened < MaxConns
    /\ opened' = opened + 1
    /\ conn' = opened + 1
    /\ stale' = FALSE
    /\ worker' = [worker EXCEPT ![opened + 1] = "up"]

Dead(c) == worker[c] = "down"

(* Every byte the daemon sent has been read and the stream has ended.      *)
AtEof == Dead(conn) /\ toHost[conn] = <<>>

(* A frame written into a connection that is gone is lost without notice.  *)
Write(f) ==
    toDaemon' = IF Dead(conn) THEN toDaemon
                ELSE [toDaemon EXCEPT ![conn] = Append(@, f)]

Got == Head(toHost[conn])
TakeFrame == toHost' = [toHost EXCEPT ![conn] = Tail(@)]

-----------------------------------------------------------------------------
(* A caller gets the lock.                                                 *)
Begin(r) ==
    /\ phase = "idle"
    /\ outcome[r] = "none"
    /\ phase' = "check"
    /\ k' = r
    /\ UNCHANGED <<attempt, probe, rid, next_id, conn, stale, opened,
                   callVars, daemonVars, toDaemon, toHost>>

(* _is_stale: the stream is known to have ended, or was idle for too long. *)
CheckStale ==
    /\ phase = "check"
    /\ phase' = "connect"
    /\ \/ /\ conn # NoConn
          /\ stale \/ AtEof
          /\ CloseLocked
       \/ /\ conn = NoConn \/ ~stale
          /\ UNCHANGED <<conn, stale, toHost>>
    /\ UNCHANGED <<k, attempt, probe, rid, next_id, opened, callVars,
                   daemonVars, toDaemon>>

(* _ensure_connected; the second attempt goes on to the warmup.            *)
EnsureConnected ==
    /\ phase = "connect"
    /\ \/ conn # NoConn /\ UNCHANGED <<conn, stale, opened, worker>>
       \/ conn = NoConn /\ Open
    /\ phase' = IF attempt = 1 THEN "warm_send" ELSE "send"
    /\ UNCHANGED <<k, attempt, probe, rid, next_id, callVars, doing, ran,
                   notes, toDaemon, toHost>>

(* MCPd is not reachable: TargetError without a word on may_have_run.      *)
ConnectFails ==
    /\ phase = "connect"
    /\ conn = NoConn
    /\ End("unreachable")
    /\ UNCHANGED <<next_id, conn, stale, opened, answer, wentOut, daemonVars,
                   toDaemon, toHost>>

(* The next round of _warmup_locked, or the real request.                  *)
WarmNext ==
    /\ phase' = IF probe = 0 THEN "warm_send" ELSE "send"
    /\ probe' = IF probe = 0 THEN 1 ELSE 0

WarmSend ==
    /\ phase = "warm_send"
    /\ Write(Frame(WARMUP_ID_BASE - probe, NoReq))
    /\ phase' = "warm_read"
    /\ UNCHANGED <<k, attempt, probe, rid, next_id, conn, stale, opened,
                   callVars, daemonVars, toHost>>

(* The probe cannot be sent: reopen, and give the warmup up when that      *)
(* fails, which leaves request() without a connection.                     *)
WarmSendFails ==
    /\ phase = "warm_send"
    /\ Dead(conn)
    /\ \/ /\ Open
          /\ WarmNext
          /\ toHost' = [toHost EXCEPT ![conn] = <<>>]
       \/ /\ CloseLocked
          /\ phase' = "send"
          /\ probe' = 0
          /\ UNCHANGED <<opened, worker>>
    /\ UNCHANGED <<k, attempt, rid, next_id, callVars, doing, ran, notes,
                   toDaemon>>

(* The probe's read takes any one frame, a notification too, and drops it. *)
WarmRead ==
    /\ phase = "warm_read"
    /\ toHost[conn] # <<>>
    /\ Got.kind = "frame"
    /\ TakeFrame
    /\ WarmNext
    /\ UNCHANGED <<k, attempt, rid, next_id, conn, stale, opened,
                   callVars, daemonVars, toDaemon>>

(* What is left of a frame when its header was read and its body was not.  *)
TearHead == toHost' = [toHost EXCEPT ![conn] = <<Torn>> \o Tail(@)]

(* The probe's two seconds are over, or the stream has ended.              *)
WarmReadEnds ==
    /\ phase = "warm_read"
    /\ WarmNext
    /\ \/ UNCHANGED toHost
       \/ toHost[conn] # <<>> /\ TearHead
    /\ UNCHANGED <<k, attempt, rid, next_id, conn, stale, opened,
                   callVars, daemonVars, toDaemon>>

(* A new id is taken and the frame is written.                             *)
Send ==
    /\ phase = "send"
    /\ conn # NoConn
    /\ rid' = next_id
    /\ next_id' = next_id + 1
    /\ Write(Frame(next_id, k))
    /\ wentOut' = wentOut \cup {k}
    /\ phase' = "read"
    /\ UNCHANGED <<k, attempt, probe, conn, stale, opened, outcome, answer,
                   daemonVars, toHost>>

(* _send_frame waits in drain(), which has no timeout: the frame is not    *)
(* wholly out until the worker reads.                                      *)
SendBlocks ==
    /\ phase = "send"
    /\ conn # NoConn
    /\ k \in Large
    /\ ~Dead(conn)
    /\ rid' = next_id
    /\ next_id' = next_id + 1
    /\ phase' = "drain"
    /\ UNCHANGED <<k, attempt, probe, conn, stale, opened, callVars,
                   daemonVars, toDaemon, toHost>>

(* The worker reads it: drain() returns.                                   *)
Drained ==
    /\ phase = "drain"
    /\ worker[conn] = "up"
    /\ doing[conn] = Idle
    /\ toDaemon[conn] = <<>>
    /\ Write(Frame(rid, k))
    /\ wentOut' = wentOut \cup {k}
    /\ phase' = "read"
    /\ UNCHANGED <<k, attempt, probe, rid, next_id, conn, stale, opened,
                   outcome, answer, daemonVars, toHost>>

(* Mutant of SendFails: also taken for a frame that did go out.            *)
SendFailsLate ==
    /\ phase = "send"
    /\ conn # NoConn
    /\ next_id' = next_id + 1
    /\ Write(Frame(next_id, k))
    /\ CloseLocked
    /\ \/ /\ attempt = 0
          /\ attempt' = 1
          /\ phase' = "check"
          /\ UNCHANGED <<k, probe, rid, outcome>>
       \/ End("not_run")
    /\ UNCHANGED <<opened, answer, wentOut, daemonVars>>

(* The connection is known to be lost before the frame is out: once more   *)
(* with a new connection, then give up.  When it was lost to the stack's   *)
(* own timeout, that is a TimeoutError and is not retried at all.          *)
SendFails ==
    /\ phase \in {"send", "drain"}
    /\ conn # NoConn
    /\ Dead(conn)
    /\ next_id' = IF phase = "send" THEN next_id + 1 ELSE next_id
    /\ CloseLocked
    /\ \/ /\ attempt = 0
          /\ attempt' = 1
          /\ phase' = "check"
          /\ UNCHANGED <<k, probe, rid, outcome>>
       \/ End("not_run")
    /\ UNCHANGED <<opened, answer, wentOut, daemonVars, toDaemon>>

(* "frame too large": nothing is sent and the connection stays.  The size  *)
(* is checked before anything else, so this ends the first attempt.        *)
SendTooLarge ==
    /\ phase = "send"
    /\ conn # NoConn
    /\ k \in Large
    /\ attempt = 0
    /\ next_id' = next_id + 1
    /\ End("internal")
    /\ UNCHANGED <<conn, stale, opened, answer, wentOut, daemonVars, toDaemon,
                   toHost>>

(* The warmup gave up: `assert self._writer is not None` fails.            *)
SendUnconnected ==
    /\ phase = "send"
    /\ conn = NoConn
    /\ next_id' = next_id + 1
    /\ End("assertion")
    /\ UNCHANGED <<conn, stale, opened, answer, wentOut, daemonVars, toDaemon,
                   toHost>>

(* Mutant of ReadReply: any reply is taken for ours.                       *)
ReadAnyReply ==
    /\ phase = "read"
    /\ toHost[conn] # <<>>
    /\ Got.kind = "frame" /\ Got.id > NoId
    /\ TakeFrame
    /\ answer' = [answer EXCEPT ![k] = Got.req]
    /\ End("answered")
    /\ stale' = FALSE
    /\ UNCHANGED <<next_id, conn, opened, wentOut, daemonVars, toDaemon>>

(* The reply with our id: the call returns its result or its error.        *)
ReadReply ==
    /\ phase = "read"
    /\ toHost[conn] # <<>>
    /\ Got.kind = "frame" /\ Got.id = rid
    /\ TakeFrame
    /\ answer' = [answer EXCEPT ![k] = Got.req]
    /\ End("answered")
    /\ stale' = FALSE
    /\ UNCHANGED <<next_id, conn, opened, wentOut, daemonVars, toDaemon>>

(* A notification is dispatched, a late probe answer is dropped.           *)
ReadOther ==
    /\ phase = "read"
    /\ toHost[conn] # <<>>
    /\ Got.kind = "frame" /\ (Got.id = NoId \/ Got.id <= WARMUP_ID_BASE)
    /\ TakeFrame
    /\ UNCHANGED <<hostVars, callVars, daemonVars, toDaemon>>

(* Somebody else's reply: the stream is ambiguous; drop the connection.    *)
ReadMismatch ==
    /\ phase = "read"
    /\ toHost[conn] # <<>>
    /\ Got.kind = "frame" /\ Got.id > NoId /\ Got.id # rid
    /\ CloseLocked
    /\ End("internal")
    /\ UNCHANGED <<next_id, opened, answer, wentOut, daemonVars, toDaemon>>

(* What follows a torn frame: a length that makes no sense, or a body that *)
(* is not JSON (a whole frame of the daemon always is).  InternalError,    *)
(* the connection is kept.                                                 *)
ReadTorn ==
    /\ phase \in {"warm_read", "read"}
    /\ toHost[conn] # <<>>
    /\ Got.kind = "torn"
    /\ TakeFrame \/ UNCHANGED toHost
    /\ End("internal")
    /\ UNCHANGED <<next_id, conn, stale, opened, answer, wentOut, daemonVars,
                   toDaemon>>

(* Mutant of ReadEof: every method is sent again.                          *)
ReadEofRetriesAll ==
    /\ phase = "read"
    /\ AtEof
    /\ CloseLocked
    /\ \/ /\ attempt = 0
          /\ attempt' = 1
          /\ phase' = "check"
          /\ UNCHANGED <<k, probe, rid, outcome>>
       \/ /\ attempt = 1
          /\ End("failed")
    /\ UNCHANGED <<next_id, opened, answer, wentOut, daemonVars, toDaemon>>

(* EOF or reset while waiting: again only for an idempotent method.        *)
ReadEof ==
    /\ phase = "read"
    /\ AtEof
    /\ CloseLocked
    /\ \/ /\ attempt = 0 /\ k \in Idempotent
          /\ attempt' = 1
          /\ phase' = "check"
          /\ UNCHANGED <<k, probe, rid, outcome>>
       \/ /\ ~(attempt = 0 /\ k \in Idempotent)
          /\ End("failed")
    /\ UNCHANGED <<next_id, opened, answer, wentOut, daemonVars, toDaemon>>

(* Mutant of ReadTimeout: it only ends a stream that has ended itself.     *)
ReadTimeoutAtEof ==
    /\ phase = "read"
    /\ AtEof
    /\ CloseLocked
    /\ End("failed")
    /\ UNCHANGED <<next_id, opened, answer, wentOut, daemonVars, toDaemon>>

(* timeout_s passed: never retried.                                        *)
ReadTimeout ==
    /\ phase = "read"
    /\ CloseLocked
    /\ End("failed")
    /\ UNCHANGED <<next_id, opened, answer, wentOut, daemonVars, toDaemon>>

(* The calling task is cancelled at one of request()'s awaits (the warmup  *)
(* sleeps before each round's end), perhaps between a frame's header and   *)
(* its body, or while a failed exchange is being closed.  Otherwise the    *)
(* connection stays as it is, and so does a frame that waits in drain().   *)
Cancel ==
    /\ phase \in {"connect", "warm_send", "warm_read", "send", "drain", "read"}
    /\ phase = "send" => attempt = 1
    /\ End("cancelled")
    /\ \/ UNCHANGED <<conn, stale, toHost>>
       \/ /\ phase \in {"warm_read", "read"}
          /\ toHost[conn] # <<>>
          /\ TearHead
          /\ UNCHANGED <<conn, stale>>
       \/ /\ phase \in {"warm_send", "send", "drain", "read"}
          /\ conn # NoConn
          /\ phase = "read" \/ Dead(conn)
          /\ CloseLocked
    /\ IF phase = "drain" THEN Write(Frame(rid, k)) ELSE UNCHANGED toDaemon
    /\ UNCHANGED <<next_id, opened, answer, wentOut, daemonVars>>

(* close(), between two calls.                                             *)
Close ==
    /\ phase = "idle"
    /\ conn # NoConn
    /\ CloseLocked
    /\ UNCHANGED <<phase, k, attempt, probe, rid, next_id, opened,
                   callVars, daemonVars, toDaemon>>

(* More than STALE_AFTER_S without a call.                                 *)
GoStale ==
    /\ phase = "idle"
    /\ conn # NoConn
    /\ ~stale
    /\ stale' = TRUE
    /\ UNCHANGED <<phase, k, attempt, probe, rid, next_id, conn, opened,
                   callVars, daemonVars, toDaemon, toHost>>

-----------------------------------------------------------------------------
(* The daemon's worker of connection c.                                    *)

(* A frame reaches the worker only while the host's end is open or the     *)
(* frame was on its way already; what it writes to a closed end is lost.   *)
Deliver(c, s) == IF conn = c THEN [toHost EXCEPT ![c] = @ \o s] ELSE toHost

(* frame_read and rpc_dispatch: the handler runs.                          *)
WorkerRun(c) ==
    /\ worker[c] = "up"
    /\ doing[c] = Idle
    /\ toDaemon[c] # <<>>
    /\ doing' = [doing EXCEPT ![c] = Head(toDaemon[c])]
    /\ toDaemon' = [toDaemon EXCEPT ![c] = Tail(@)]
    /\ ran' = [r \in Requests |-> IF r = Head(toDaemon[c]).req
                                  THEN ran[r] + 1 ELSE ran[r]]
    /\ UNCHANGED <<hostVars, callVars, worker, notes, toHost>>

(* Pending events lead the response on the wire.                           *)
WorkerReply(c) ==
    /\ worker[c] = "up"
    /\ doing[c] # Idle
    /\ \/ toHost' = Deliver(c, <<doing[c]>>) /\ UNCHANGED notes
       \/ /\ notes < MaxNotes
          /\ notes' = notes + 1
          /\ toHost' = Deliver(c, <<Idle, doing[c]>>)
    /\ doing' = [doing EXCEPT ![c] = Idle]
    /\ UNCHANGED <<hostVars, callVars, worker, ran, toDaemon>>

(* The 200 ms poll emits an event between two requests.                    *)
WorkerPoll(c) ==
    /\ worker[c] = "up"
    /\ doing[c] = Idle
    /\ notes < MaxNotes
    /\ notes' = notes + 1
    /\ toHost' = Deliver(c, <<Idle>>)
    /\ UNCHANGED <<hostVars, callVars, worker, doing, ran, toDaemon>>

(* The worker ends: the host closed, a handler crashed, the connection was *)
(* refused, the machine restarted.  SO_LINGER 0 resets the connection, so  *)
(* what it wrote last may or may not arrive.                               *)
WorkerEnds(c) ==
    /\ worker[c] = "up"
    /\ worker' = [worker EXCEPT ![c] = "down"]
    /\ doing' = [doing EXCEPT ![c] = Idle]
    /\ toDaemon' = [toDaemon EXCEPT ![c] = <<>>]
    /\ \/ UNCHANGED toHost
       \/ toHost' = [toHost EXCEPT ![c] = <<>>]
    /\ UNCHANGED <<hostVars, callVars, ran, notes>>

-----------------------------------------------------------------------------
HostStep ==
    \/ CheckStale \/ EnsureConnected \/ ConnectFails \/ WarmSend
    \/ WarmSendFails \/ WarmRead \/ WarmReadEnds \/ Send \/ SendBlocks
    \/ Drained \/ SendFails
    \/ SendTooLarge \/ SendUnconnected \/ ReadReply \/ ReadOther
    \/ ReadMismatch \/ ReadTorn \/ ReadEof \/ ReadTimeout

WorkerStep(c) == WorkerRun(c) \/ WorkerReply(c) \/ WorkerPoll(c) \/ WorkerEnds(c)

Next ==
    \/ \E r \in Requests : Begin(r)
    \/ HostStep
    \/ Cancel \/ Close \/ GoStale
    \/ \E c \in ConnIds : WorkerStep(c)

Spec == Init /\ [][Next]_vars

(* The event loop goes on with a call under way, and every wait of it but  *)
(* drain() has a timeout.  Nothing is assumed of the daemon.               *)
FairSpec == Spec /\ WF_vars(HostStep)

-----------------------------------------------------------------------------
(* A request whose method is not in IDEMPOTENT_METHODS runs at most once,  *)
(* however its connection dies and whatever is still on the way when the   *)
(* call is over (request() resends nothing that went out).  A failure that *)
(* reports the daemon unreachable or the request unsent is then never one  *)
(* of a call that had a frame out.                                         *)
AtMostOnce ==
    \A r \in Requests \ Idempotent :
        /\ ran[r] <= 1
        /\ outcome[r] \in {"unreachable", "not_run"} => r \notin wentOut

(* A call is only ever given its own reply, also after timeouts,           *)
(* cancelled calls and late probe answers left replies on the stream.      *)
AnswersAreOwn ==
    /\ TypeOK
    /\ \A r \in Requests : outcome[r] = "answered" => answer[r] = r

(* The inductive invariant behind the two and behind the refinement.       *)

Contents(s) == {s[n] : n \in 1..Len(s)}

(* The ids under which r is on its way to a worker.                        *)
Copies(r) == {i \in 1..(next_id - 1) :
                 \E c \in ConnIds : Frame(i, r) \in Contents(toDaemon[c])}

MaxCopies(r) == IF r \in Idempotent THEN 2 ELSE 1

(* How many frames request() may still write for r.                        *)
SendsLeft(r) ==
    IF outcome[r] # "none" THEN 0
    ELSE IF k # r THEN MaxCopies(r)
    ELSE (IF r \in Idempotent THEN 2 - attempt ELSE 1)
           - (IF phase = "read" THEN 1 ELSE 0)

(* Runs, frames on the way and frames still to be written never exceed     *)
(* what a request may run.                                                 *)
BudgetInv ==
    \A r \in Requests :
        ran[r] + Cardinality(Copies(r)) + SendsLeft(r) <= MaxCopies(r)

(* What ran, is on its way or went out belongs to a call that is reading   *)
(* its reply or ended without denying that it was sent.                    *)
SentInv ==
    \A r \in Requests \ Idempotent :
        ran[r] > 0 \/ Copies(r) # {} \/ r \in wentOut =>
            \/ k = r /\ phase = "read"
            \/ outcome[r] \notin {"none", "unreachable", "not_run"}

CallInv ==
    /\ phase # "idle" => outcome[k] = "none"
    /\ phase = "idle" => k = NoReq /\ attempt = 0
    /\ phase \in {"drain", "read"} => rid > 0

(* A request travels under a positive id; an id is on its way to the       *)
(* daemon once; a reply is one of a request that ran; and the id that is   *)
(* waited for is the call's own.                                           *)
FrameInv ==
    /\ \A c \in ConnIds :
         /\ \A f \in Contents(toDaemon[c]) :
               /\ f.kind = "frame"
               /\ phase = "drain" => f.id # rid
         /\ \A f \in Contents(toDaemon[c]) \cup {doing[c]}
                      \cup Contents(toHost[c]) :
               /\ f.id > 0 <=> f.req \in Requests
               /\ phase \in {"drain", "read"} /\ f.id = rid => f.req = k
         /\ \A f \in {doing[c]} \cup Contents(toHost[c]) :
               f.req \in Requests => ran[f.req] > 0
    /\ \A c, d \in ConnIds :
         \A m \in 1..Len(toDaemon[c]), n \in 1..Len(toDaemon[d]) :
            toDaemon[c][m].id > 0 /\ toDaemon[c][m].id = toDaemon[d][n].id
              => c = d /\ m = n

TransportInv ==
    /\ AnswersAreOwn /\ AtMostOnce
    /\ CallInv /\ FrameInv /\ SentInv /\ BudgetInv

(* How a call ended, as RpcService sees it.                                *)
ServiceOutcome ==
    [r \in Requests |->
        IF outcome[r] = "answered" THEN
             IF answer[r] = r THEN "answered" ELSE "misrouted"
        ELSE IF outcome[r] \in {"none", "failed", "not_run"} THEN outcome[r]
        ELSE "error"]

Service == INSTANCE RpcService WITH MaxRuns <- 2, outcome <- ServiceOutcome

(* The transport and the daemon's workers implement RpcService: at most    *)
(* one run, own answers, and may_have_run = false means never, not even by *)
(* a worker that reads the frame after the call is over.                   *)
ServiceSpec == Service!Spec

(* Every call ends though the daemon answers late, wrongly or never, for   *)
(* every wait of request() but drain() has a timeout, unless it hangs in   *)
(* that one.  The timeout of a read starts anew with each frame: a daemon  *)
(* that never stops sending notifications is beyond the bound here.        *)
CallsEnd == phase # "idle" ~> phase \in {"idle", "drain"}
=============================================================================
