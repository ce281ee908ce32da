---------------------------- MODULE McpdListener ----------------------------
(***************************************************************************)
(* The listener of the MCPd daemon and its connection workers              *)
(* (mcpd/src/main.c with the framing of mcpd/src/frame.c): start-up, the   *)
(* accept loop, the cap on live workers, and one worker Process per        *)
(* connection with the ways it can end.                                    *)
(*                                                                         *)
(* What a request asks for is left out: a handler returns or it is killed  *)
(* by an exception.  Sockets, peers and the kernel are external; a socket  *)
(* is followed from the backlog to whoever owns it.                        *)
(***************************************************************************)
EXTENDS Integers, FiniteSets

CONSTANTS
    Conns,             \* connections clients may open, each once
    NoConn,            \* no connection
    MCPD_MAX_CLIENTS,  \* cap on live connection workers
    BACKLOG,           \* connections that may wait in listen()'s queue
    MaxBreaks          \* bound: 1 when main() may be broken with CTRL-C

ASSUME ListenerAssumption ==
    /\ IsFiniteSet(Conns)
    /\ NoConn \notin Conns
    /\ MCPD_MAX_CLIENTS \in Nat
    /\ BACKLOG \in Nat
    /\ MaxBreaks \in {0, 1}

(* What main() builds before it lets clients in.                           *)
Subsystems == {"jobs", "applib", "crashhook", "input_gate"}

VARIABLES
    main,           \* control point of main()
    cur,            \* the connection the accept loop is working on
    up,             \* subsystems whose initialisation has been run
    listening,      \* listen() succeeded and the socket is not closed
    discovery,      \* the discovery task answers probes
    brk,            \* SIGBREAKF_CTRL_C is set for main()
    g_live_clients, \* the daemon's count of live workers
    worker,         \* connection -> state of the worker spawned for it
    sock,           \* connection -> owner of the daemon's end
    peer,           \* connection -> the client's end
    inbound         \* connection -> what has arrived and was not read yet

mainVars == <<main, cur, up, listening, discovery, brk>>
connVars == <<worker, sock, peer, inbound>>
vars == <<mainVars, g_live_clients, connVars>>

LiveStates == {"spawned", "waiting", "reading", "dispatch", "reply",
               "cleanup", "releasing"}

TypeOK ==
    /\ main \in {"jobs_init", "bind", "applib", "crashhook", "input_gate",
                 "listen", "discovery", "accept", "claim", "spawn", "check",
                 "stop", "shutdown", "gone"}
    /\ cur \in Conns \cup {NoConn}
    /\ main \in {"claim", "spawn"} => cur \in Conns
    /\ up \subseteq Subsystems
    /\ listening \in BOOLEAN
    /\ discovery \in BOOLEAN
    /\ brk \in BOOLEAN
    /\ g_live_clients \in Nat
    /\ worker \in [Conns -> LiveStates \cup {"none", "exited", "aborted",
                                             "killed"}]
    /\ sock \in [Conns -> {"none", "backlog", "main", "released", "worker",
                           "closed"}]
    /\ peer \in [Conns -> {"away", "here", "gone"}]
    /\ inbound \in [Conns -> {"empty", "partial", "frame", "bad"}]

Init ==
    /\ main = "jobs_init"
    /\ cur = NoConn
    /\ up = {}
    /\ listening = FALSE
    /\ discovery = FALSE
    /\ brk = FALSE
    /\ g_live_clients = 0
    /\ worker = [c \in Conns |-> "none"]
    /\ sock = [c \in Conns |-> "none"]
    /\ peer = [c \in Conns |-> "away"]
    /\ inbound = [c \in Conns |-> "empty"]

-----------------------------------------------------------------------------
(* Start-up, in the order of main().                                       *)

(* jobs_init; a failure is reported and does not stop the daemon.          *)
JobsInit ==
    /\ main = "jobs_init"
    /\ main' = "bind"
    /\ \E ok \in BOOLEAN : up' = IF ok THEN up \cup {"jobs"} ELSE up
    /\ UNCHANGED <<cur, listening, discovery, brk, g_live_clients, connVars>>

(* make_bound_socket; a port clash ends the daemon.                        *)
Bind ==
    /\ main = "bind"
    /\ main' \in {"applib", "gone"}
    /\ UNCHANGED <<cur, up, listening, discovery, brk, g_live_clients,
                   connVars>>

(* Mutant of InitSubsystem: listens before the input gate is resolved.     *)
InitSubsystemSkipGate ==
    /\ main \in {"applib", "crashhook"}
    /\ up' = up \cup {main}
    /\ main' = IF main = "applib" THEN "crashhook" ELSE "listen"
    /\ UNCHANGED <<cur, listening, discovery, brk, g_live_clients, connVars>>

(* applib_register, crashhook_init and input_init_gate.                    *)
InitSubsystem ==
    /\ main \in {"applib", "crashhook", "input_gate"}
    /\ up' = up \cup {main}
    /\ \/ main = "applib" /\ main' = "crashhook"
       \/ main = "crashhook" /\ main' = "input_gate"
       \/ main = "input_gate" /\ main' = "listen"
    /\ UNCHANGED <<cur, listening, discovery, brk, g_live_clients, connVars>>

(* start_listening, or its failure path, which skips jobs_shutdown.        *)
Listen ==
    /\ main = "listen"
    /\ \/ /\ listening' = TRUE
          /\ main' = "discovery"
       \/ /\ main' = "gone"
          /\ UNCHANGED listening
    /\ UNCHANGED <<cur, up, discovery, brk, g_live_clients, connVars>>

(* discovery_start, best effort.                                           *)
DiscoveryStart ==
    /\ main = "discovery"
    /\ main' = "accept"
    /\ discovery' \in BOOLEAN
    /\ UNCHANGED <<cur, up, listening, brk, g_live_clients, connVars>>

-----------------------------------------------------------------------------
(* The accept loop.                                                        *)

Accept(c) ==
    /\ main = "accept"
    /\ sock[c] = "backlog"
    /\ main' = "claim"
    /\ cur' = c
    /\ sock' = [sock EXCEPT ![c] = "main"]
    /\ UNCHANGED <<up, listening, discovery, brk, g_live_clients, worker,
                   peer, inbound>>

(* accept() was interrupted by CTRL-C.                                     *)
AcceptFails ==
    /\ main = "accept"
    /\ brk
    /\ main' = "check"
    /\ UNCHANGED <<cur, up, listening, discovery, brk, g_live_clients,
                   connVars>>

(* Mutants of client_slot_claim: one worker too many, and a claim that is  *)
(* made twice.                                                             *)
ClaimOffByOne ==
    /\ main = "claim"
    /\ g_live_clients <= MCPD_MAX_CLIENTS
    /\ g_live_clients' = g_live_clients + 1
    /\ main' = "spawn"
    /\ UNCHANGED <<cur, up, listening, discovery, brk, connVars>>

ClaimForgetsConn ==
    /\ main = "claim"
    /\ g_live_clients < MCPD_MAX_CLIENTS
    /\ g_live_clients' = g_live_clients + 1
    /\ main' = "spawn"
    /\ cur' = NoConn
    /\ UNCHANGED <<up, listening, discovery, brk, connVars>>

(* client_slot_claim succeeded.                                            *)
client_slot_claim ==
    /\ main = "claim"
    /\ g_live_clients < MCPD_MAX_CLIENTS
    /\ g_live_clients' = g_live_clients + 1
    /\ main' = "spawn"
    /\ UNCHANGED <<cur, up, listening, discovery, brk, connVars>>

(* Mutant of Refuse: the refused connection is not closed.                 *)
RefuseKeepsSocket ==
    /\ main = "claim"
    /\ g_live_clients >= MCPD_MAX_CLIENTS
    /\ main' = "check"
    /\ cur' = NoConn
    /\ UNCHANGED <<up, listening, discovery, brk, g_live_clients, connVars>>

(* No slot: refuse the connection by closing it.                           *)
Refuse ==
    /\ main = "claim"
    /\ g_live_clients >= MCPD_MAX_CLIENTS
    /\ sock' = [sock EXCEPT ![cur] = "closed"]
    /\ main' = "check"
    /\ cur' = NoConn
    /\ UNCHANGED <<up, listening, discovery, brk, g_live_clients, worker,
                   peer, inbound>>

(* spawn_client_worker: the fd is released to the global name space and a  *)
(* child Process that will claim it is created.                            *)
spawn_client_worker ==
    /\ main = "spawn"
    /\ sock' = [sock EXCEPT ![cur] = "released"]
    /\ worker' = [worker EXCEPT ![cur] = "spawned"]
    /\ main' = "check"
    /\ cur' = NoConn
    /\ UNCHANGED <<up, listening, discovery, brk, g_live_clients, peer,
                   inbound>>

SlotRelease == g_live_clients' = IF g_live_clients > 0
                                 THEN g_live_clients - 1 ELSE 0

(* Mutant of SpawnFails: the slot is not given back.                       *)
SpawnFailsKeepSlot ==
    /\ main = "spawn"
    /\ \E s \in {"closed", "released"} : sock' = [sock EXCEPT ![cur] = s]
    /\ main' = "check"
    /\ cur' = NoConn
    /\ UNCHANGED <<up, listening, discovery, brk, g_live_clients, worker,
                   peer, inbound>>

(* ReleaseSocket or CreateNewProcTags failed: the slot goes back and the   *)
(* socket is closed, unless ObtainSocket cannot take it back.              *)
SpawnFails ==
    /\ main = "spawn"
    /\ \E s \in {"closed", "released"} : sock' = [sock EXCEPT ![cur] = s]
    /\ SlotRelease
    /\ main' = "check"
    /\ cur' = NoConn
    /\ UNCHANGED <<up, listening, discovery, brk, worker, peer, inbound>>

(* The break check that ends every round; SetSignal clears the signal.     *)
CheckBreak ==
    /\ main = "check"
    /\ main' = IF brk THEN "stop" ELSE "accept"
    /\ brk' = FALSE
    /\ UNCHANGED <<cur, up, listening, discovery, g_live_clients, connVars>>

(* The listener closes; connections nobody accepted are reset with it.     *)
CloseListener ==
    /\ main = "stop"
    /\ main' = "shutdown"
    /\ listening' = FALSE
    /\ sock' = [c \in Conns |-> IF sock[c] = "backlog" THEN "closed"
                                ELSE sock[c]]
    /\ UNCHANGED <<cur, up, discovery, brk, g_live_clients, worker, peer,
                   inbound>>

(* jobs_shutdown (module JobTable), then main() returns.  Workers and the  *)
(* discovery task are neither stopped nor waited for.                      *)
Shutdown ==
    /\ main = "shutdown"
    /\ main' = "gone"
    /\ up' = up \ {"jobs", "applib"}
    /\ UNCHANGED <<cur, listening, discovery, brk, g_live_clients, connVars>>

-----------------------------------------------------------------------------
(* A connection worker.                                                    *)

Loaded == main # "gone"

(* client_task_entry opens bsdsocket.library and obtains the socket ...    *)
client_task_entry(c) ==
    /\ Loaded
    /\ worker[c] = "spawned"
    /\ worker' = [worker EXCEPT ![c] = "waiting"]
    /\ sock' = [sock EXCEPT ![c] = "worker"]
    /\ UNCHANGED <<mainVars, g_live_clients, peer, inbound>>

(* ... or returns early because one of the three failed.                   *)
EntryFails(c) ==
    /\ Loaded
    /\ worker[c] = "spawned"
    /\ worker' = [worker EXCEPT ![c] = "aborted"]
    /\ UNCHANGED <<mainVars, g_live_clients, sock, peer, inbound>>

(* WaitSelect reports the socket readable: bytes, or the peer's EOF.  Its  *)
(* 200 ms timeout only polls for events and leaves this state unchanged.   *)
Readable(c) ==
    /\ Loaded
    /\ worker[c] = "waiting"
    /\ inbound[c] # "empty" \/ peer[c] = "gone"
    /\ worker' = [worker EXCEPT ![c] = "reading"]
    /\ UNCHANGED <<mainVars, g_live_clients, sock, peer, inbound>>

(* WaitSelect fails: the worker leaves its loop.                           *)
WaitFails(c) ==
    /\ Loaded
    /\ worker[c] = "waiting"
    /\ worker' = [worker EXCEPT ![c] = "cleanup"]
    /\ UNCHANGED <<mainVars, g_live_clients, sock, peer, inbound>>

(* frame_read got a whole frame.                                           *)
FrameRead(c) ==
    /\ Loaded
    /\ worker[c] = "reading"
    /\ inbound[c] = "frame"
    /\ inbound' = [inbound EXCEPT ![c] = "empty"]
    /\ worker' = [worker EXCEPT ![c] = "dispatch"]
    /\ UNCHANGED <<mainVars, g_live_clients, sock, peer>>

(* Mutants of FrameReadFails: recv's 0 at EOF is taken for an empty read,  *)
(* and a read without the receive timeout.                                 *)
FrameReadIgnoresEOF(c) ==
    /\ Loaded
    /\ worker[c] = "reading"
    /\ inbound[c] # "empty"
    /\ worker' = [worker EXCEPT ![c] = "cleanup"]
    /\ UNCHANGED <<mainVars, g_live_clients, sock, peer, inbound>>

FrameReadNoTimeout(c) ==
    /\ Loaded
    /\ worker[c] = "reading"
    /\ peer[c] = "gone" \/ inbound[c] = "bad"
    /\ worker' = [worker EXCEPT ![c] = "cleanup"]
    /\ UNCHANGED <<mainVars, g_live_clients, sock, peer, inbound>>

(* frame_read fails: a bad length, the peer's EOF inside a frame, or       *)
(* MCPD_RECV_TIMEOUT_S of silence inside a frame.  A buffer that cannot be *)
(* allocated is the failure of a frame that did arrive.                    *)
FrameReadFails(c) ==
    /\ Loaded
    /\ worker[c] = "reading"
    /\ worker' = [worker EXCEPT ![c] = "cleanup"]
    /\ UNCHANGED <<mainVars, g_live_clients, sock, peer, inbound>>

(* rpc_dispatch returned a response, or could not build one.               *)
Dispatch(c) ==
    /\ Loaded
    /\ worker[c] = "dispatch"
    /\ \E next \in {"reply", "cleanup"} :
         worker' = [worker EXCEPT ![c] = next]
    /\ UNCHANGED <<mainVars, g_live_clients, sock, peer, inbound>>

(* The handler hit an exception: the kernel ends this Process, and nothing *)
(* of client_task_entry runs after it.                                     *)
HandlerKilled(c) ==
    /\ Loaded
    /\ worker[c] = "dispatch"
    /\ worker' = [worker EXCEPT ![c] = "killed"]
    /\ UNCHANGED <<mainVars, g_live_clients, sock, peer, inbound>>

(* Events go out in front of the response.  Writing fails only against a   *)
(* peer that is gone, or for a response over the frame limit.              *)
FrameWrite(c) ==
    /\ Loaded
    /\ worker[c] = "reply"
    /\ \E next \in {"waiting", "cleanup"} :
         worker' = [worker EXCEPT ![c] = next]
    /\ UNCHANGED <<mainVars, g_live_clients, sock, peer, inbound>>

(* The way out of client_task_entry: the socket first ...                  *)
CloseConnection(c) ==
    /\ Loaded
    /\ worker[c] = "cleanup"
    /\ sock' = [sock EXCEPT ![c] = "closed"]
    /\ worker' = [worker EXCEPT ![c] = "releasing"]
    /\ UNCHANGED <<mainVars, g_live_clients, peer, inbound>>

(* ... then client_slot_release, under Forbid().                           *)
client_slot_release(c) ==
    /\ Loaded
    /\ worker[c] = "releasing"
    /\ SlotRelease
    /\ worker' = [worker EXCEPT ![c] = "exited"]
    /\ UNCHANGED <<mainVars, sock, peer, inbound>>

-----------------------------------------------------------------------------
(* Clients and the operator.                                               *)

Backlog == {c \in Conns : sock[c] = "backlog"}

Connect(c) ==
    /\ peer[c] = "away"
    /\ listening
    /\ Cardinality(Backlog) < BACKLOG
    /\ peer' = [peer EXCEPT ![c] = "here"]
    /\ sock' = [sock EXCEPT ![c] = "backlog"]
    /\ UNCHANGED <<mainVars, g_live_clients, worker, inbound>>

(* A client sends a frame, a part of one, or a header it cannot mean.      *)
Send(c) ==
    /\ peer[c] = "here"
    /\ sock[c] # "closed"
    /\ inbound[c] \in {"empty", "partial"}
    /\ \E b \in IF inbound[c] = "empty" THEN {"partial", "frame", "bad"}
                ELSE {"frame"} : inbound' = [inbound EXCEPT ![c] = b]
    /\ UNCHANGED <<mainVars, g_live_clients, worker, sock, peer>>

Disconnect(c) ==
    /\ peer[c] = "here"
    /\ peer' = [peer EXCEPT ![c] = "gone"]
    /\ UNCHANGED <<mainVars, g_live_clients, worker, sock, inbound>>

Break ==
    /\ MaxBreaks = 1
    /\ main \in {"accept", "claim", "spawn", "check"}
    /\ ~brk
    /\ brk' = TRUE
    /\ UNCHANGED <<main, cur, up, listening, discovery, g_live_clients,
                   connVars>>

-----------------------------------------------------------------------------
MainNext ==
    \/ JobsInit \/ Bind \/ InitSubsystem \/ Listen \/ DiscoveryStart
    \/ (\E c \in Conns : Accept(c))
    \/ AcceptFails \/ client_slot_claim \/ Refuse \/ spawn_client_worker
    \/ SpawnFails \/ CheckBreak \/ CloseListener \/ Shutdown

WorkerStep(c) ==
    \/ client_task_entry(c) \/ EntryFails(c) \/ Readable(c) \/ FrameRead(c)
    \/ FrameReadFails(c) \/ Dispatch(c) \/ HandlerKilled(c) \/ FrameWrite(c)
    \/ CloseConnection(c) \/ client_slot_release(c)

WorkerNext(c) == WorkerStep(c) \/ WaitFails(c)

ClientNext(c) == Connect(c) \/ Send(c) \/ Disconnect(c)

Next ==
    \/ MainNext
    \/ \E c \in Conns : WorkerNext(c) \/ ClientNext(c)
    \/ Break

Spec == Init /\ [][Next]_vars

(* main() and the workers run at priority +1, above every ordinary         *)
(* program, and the receive timeout ends every wait inside a frame.        *)
(* Clients, exceptions, errors of WaitSelect and the operator are not      *)
(* obliged to come.                                                        *)
Fairness ==
    /\ WF_vars(MainNext)
    /\ \A c \in Conns : WF_vars(WorkerStep(c))

FairSpec == Spec /\ Fairness

-----------------------------------------------------------------------------
Live == {c \in Conns : worker[c] \in LiveStates}

(* The connection main() has claimed a slot for and not spawned yet.       *)
Claimed == IF main = "spawn" THEN {cur} ELSE {}

(* Workers that ended without client_slot_release.                         *)
Lost == {c \in Conns : worker[c] \in {"aborted", "killed"}}

(* Slots only leak with a worker that ended early or was killed: the       *)
(* counter of client_slot_claim and client_slot_release is exact for all   *)
(* the rest, failed spawns included, and never goes through its guard      *)
(* against negative values.                                                *)
SlotAccounting == g_live_clients = Cardinality(Live \cup Claimed \cup Lost)

(* The rest of the inductive invariant: no worker exists for a socket that *)
(* has not left the listener, and the socket in hand is still main()'s.    *)
SlotsInv ==
    /\ SlotAccounting
    /\ g_live_clients <= MCPD_MAX_CLIENTS
    /\ \A c \in Conns :
          sock[c] \in {"none", "backlog", "main"} => worker[c] = "none"
    /\ \A c \in Conns : peer[c] = "away" => sock[c] = "none"
    /\ main \in {"claim", "spawn"} => sock[cur] = "main"

(* Never more than MCPD_MAX_CLIENTS workers live at once, whatever fails   *)
(* between the claim in the listener and the release in the child.         *)
WorkerCap == Cardinality(Live) <= MCPD_MAX_CLIENTS

(* Clients can reach the daemon, by connecting or by a discovery reply     *)
(* that invites them to, only once everything a request could touch has    *)
(* been set up (start_listening and discovery_start come last in main).    *)
ReadyBeforeReachable ==
    Loaded /\ (listening \/ discovery) =>
        {"applib", "crashhook", "input_gate"} \subseteq up

(* The listener owns no socket between two rounds, a worker's socket is    *)
(* open exactly as long as the worker serves it, and one that went through *)
(* its cleanup left nothing open (spawn_client_worker, client_task_entry). *)
SocketOwnership ==
    \A c \in Conns :
        /\ sock[c] = "main" => main \in {"claim", "spawn"} /\ cur = c
        /\ sock[c] = "worker" => worker[c] \in LiveStates \cup {"killed"}
        /\ worker[c] \in {"releasing", "exited"} => sock[c] = "closed"

(* What makes the two inductive: a worker that has not obtained its socket *)
(* yet leaves it in the global name space, and main() goes through its     *)
(* start-up in order, opening nothing before the end of it.                *)
OwnershipInv ==
    /\ SocketOwnership
    /\ \A c \in Conns : worker[c] = "spawned" => sock[c] = "released"

StartupInv ==
    /\ main \in {"jobs_init", "bind", "applib", "crashhook", "input_gate",
                 "listen"} => ~listening /\ ~discovery
    /\ main = "crashhook" => "applib" \in up
    /\ main = "input_gate" => {"applib", "crashhook"} \subseteq up
    /\ main \in {"listen", "discovery", "accept", "claim", "spawn", "check",
                 "stop", "shutdown"}
          => {"applib", "crashhook", "input_gate"} \subseteq up

(* A client that hangs up gets its worker to end: the worker leaves its    *)
(* loop, whatever was half read or half answered (handle_connection).      *)
GonePeerEndsWorker ==
    \A c \in Conns :
        peer[c] = "gone" /\ c \in Live ~> c \notin Live \/ ~Loaded

(* A peer that stops inside a frame does not park its worker: the receive  *)
(* timeout ends frame_read (MCPD_RECV_TIMEOUT_S).                          *)
NoWorkerParkedInFrame ==
    \A c \in Conns :
        worker[c] = "reading" ~> worker[c] # "reading" \/ ~Loaded
=============================================================================
