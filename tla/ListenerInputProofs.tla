------------------------ MODULE ListenerInputProofs -------------------------
(***************************************************************************)
(* Proofs about two parts of the daemon. McpdListener, for every set of    *)
(* connections and every MCPD_MAX_CLIENTS and BACKLOG: the types, the      *)
(* exact account of the slot counter and the cap on live workers that      *)
(* follows from it, who owns a socket, and that nothing is reachable       *)
(* before it is set up. Input, for any workers, budgets and requests: once *)
(* every call has ended nothing is held that the handlers pressed.         *)
(***************************************************************************)
EXTENDS McpdListener, Input, SequenceTheorems, FiniteSetTheorems, TLAPS

-----------------------------------------------------------------------------
(* 1. McpdListener.                                                        *)

(* Whoever holds one of the MCPD_MAX_CLIENTS slots.                        *)
Holders == Live \cup Claimed \cup Lost

(* The initial state is well typed.                                        *)
LEMMA InitType == Init => TypeOK
<1> SUFFICES ASSUME Init PROVE TypeOK
  OBVIOUS
<1>1. /\ worker \in [Conns -> LiveStates \cup {"none", "exited", "aborted",
                                               "killed"}]
      /\ sock \in [Conns -> {"none", "backlog", "main", "released", "worker",
                             "closed"}]
      /\ peer \in [Conns -> {"away", "here", "gone"}]
      /\ inbound \in [Conns -> {"empty", "partial", "frame", "bad"}]
  BY DEF Init
<1> QED
  BY <1>1 DEF Init, TypeOK

(* Every step of the daemon, its clients and the operator keeps the types. *)
LEMMA NextType == TypeOK /\ [Next]_vars => TypeOK'
<1> SUFFICES ASSUME TypeOK, [Next]_vars PROVE TypeOK'
  OBVIOUS
<1> USE ListenerAssumption DEF TypeOK, LiveStates, Subsystems, connVars,
                               mainVars
<1>1. CASE MainNext
  <2>1. CASE JobsInit
    BY <2>1 DEF JobsInit
  <2>2. CASE Bind
    BY <2>2 DEF Bind
  <2>3. CASE InitSubsystem
    BY <2>3 DEF InitSubsystem
  <2>4. CASE Listen
    BY <2>4 DEF Listen
  <2>5. CASE DiscoveryStart
    BY <2>5 DEF DiscoveryStart
  <2>6. CASE \E c \in Conns : Accept(c)
    BY <2>6 DEF Accept
  <2>7. CASE AcceptFails
    BY <2>7 DEF AcceptFails
  <2>8. CASE client_slot_claim
    BY <2>8 DEF client_slot_claim
  <2>9. CASE Refuse
    BY <2>9 DEF Refuse
  <2>10. CASE spawn_client_worker
    BY <2>10 DEF spawn_client_worker
  <2>11. CASE SpawnFails
    BY <2>11 DEF SpawnFails, SlotRelease
  <2>12. CASE CheckBreak
    BY <2>12 DEF CheckBreak
  <2>13. CASE CloseListener
    BY <2>13 DEF CloseListener
  <2>14. CASE Shutdown
    BY <2>14 DEF Shutdown
  <2> QED
    BY <1>1, <2>1, <2>2, <2>3, <2>4, <2>5, <2>6, <2>7, <2>8, <2>9, <2>10,
       <2>11, <2>12, <2>13, <2>14 DEF MainNext
<1>2. ASSUME NEW c \in Conns, WorkerNext(c) PROVE TypeOK'
  <2>1. CASE client_task_entry(c) \/ CloseConnection(c)
    BY <2>1 DEF client_task_entry, CloseConnection
  <2>2. CASE EntryFails(c) \/ Readable(c) \/ FrameReadFails(c) \/ WaitFails(c)
    BY <2>2 DEF EntryFails, Readable, FrameReadFails, WaitFails
  <2>3. CASE Dispatch(c) \/ HandlerKilled(c) \/ FrameWrite(c)
    <3>1. \E v \in {"reply", "cleanup", "killed", "waiting"} :
             worker' = [worker EXCEPT ![c] = v]
      BY <2>3 DEF Dispatch, HandlerKilled, FrameWrite
    <3>2. UNCHANGED <<mainVars, g_live_clients, sock, peer, inbound>>
      BY <2>3 DEF Dispatch, HandlerKilled, FrameWrite
    <3> QED
      BY <3>1, <3>2
  <2>4. CASE FrameRead(c)
    BY <2>4 DEF FrameRead
  <2>5. CASE client_slot_release(c)
    BY <2>5 DEF client_slot_release, SlotRelease
  <2> QED
    BY <1>2, <2>1, <2>2, <2>3, <2>4, <2>5 DEF WorkerNext, WorkerStep
<1>3. ASSUME NEW c \in Conns, ClientNext(c) PROVE TypeOK'
  <2>1. CASE Connect(c)
    BY <2>1 DEF Connect
  <2>2. CASE Send(c)
    BY <2>2 DEF Send
  <2>3. CASE Disconnect(c)
    BY <2>3 DEF Disconnect
  <2> QED BY <1>3, <2>1, <2>2, <2>3 DEF ClientNext
<1>4. CASE Break
  BY <1>4 DEF Break
<1>5. CASE UNCHANGED vars
  BY <1>5 DEF vars
<1> QED
  BY <1>1, <1>2, <1>3, <1>4, <1>5 DEF Next

(* Every reachable state of the listener and its workers is well typed.    *)
THEOREM TypeCorrect == Spec => []TypeOK
BY InitType, NextType, PTL DEF Spec

-----------------------------------------------------------------------------
(* The holders are some of the connections, so they can be counted.        *)
LEMMA HoldersFinite ==
    TypeOK => /\ Holders \subseteq Conns
              /\ IsFiniteSet(Holders)
              /\ Cardinality(Holders) \in Nat
<1> SUFFICES ASSUME TypeOK PROVE /\ Holders \subseteq Conns
                                 /\ IsFiniteSet(Holders)
                                 /\ Cardinality(Holders) \in Nat
  OBVIOUS
<1>1. Holders \subseteq Conns
  BY DEF TypeOK, Holders, Live, Claimed, Lost
<1>2. IsFiniteSet(Holders)
  BY <1>1, ListenerAssumption, FS_Subset
<1> QED
  BY <1>1, <1>2, FS_CardinalityType

(* A step that adds one holder and counts it keeps the account exact.      *)
LEMMA ClaimKeepsAccount ==
    ASSUME TypeOK, SlotAccounting, NEW c, c \notin Holders,
           Holders' = Holders \cup {c},
           g_live_clients' = g_live_clients + 1
    PROVE  SlotAccounting'
BY HoldersFinite, FS_AddElement DEF SlotAccounting, Holders

(* So does a step that removes one holder and releases its slot: with a    *)
(* holder left, the counter is positive and its guard does not apply.      *)
LEMMA ReleaseKeepsAccount ==
    ASSUME TypeOK, SlotAccounting, NEW c, c \in Holders,
           Holders' = Holders \ {c}, SlotRelease
    PROVE  SlotAccounting' /\ g_live_clients' <= g_live_clients
<1>1. Cardinality(Holders') = Cardinality(Holders) - 1
  BY HoldersFinite, FS_RemoveElement
<1>2. Cardinality(Holders) > 0
  BY HoldersFinite, FS_EmptySet
<1> QED
  BY <1>1, <1>2, HoldersFinite DEF SlotAccounting, Holders, SlotRelease

(* And a step that changes neither.                                        *)
LEMMA SameHoldersKeepAccount ==
    ASSUME SlotAccounting, Holders' = Holders, UNCHANGED g_live_clients
    PROVE  SlotAccounting'
BY DEF SlotAccounting, Holders

LEMMA InitSlots == Init => SlotsInv
<1> SUFFICES ASSUME Init PROVE SlotsInv
  OBVIOUS
<1>1. Live \cup Claimed \cup Lost = {}
  BY DEF Init, Live, Claimed, Lost, LiveStates
<1>2. SlotAccounting
  BY <1>1, FS_EmptySet DEF SlotAccounting, Init
<1> QED
  BY <1>2, ListenerAssumption DEF SlotsInv, Init

(* One step per action, grouped by what it does to the holders.            *)
LEMMA NextSlots == TypeOK /\ SlotsInv /\ [Next]_vars => SlotsInv'
<1> SUFFICES ASSUME TypeOK, SlotsInv, [Next]_vars PROVE SlotsInv'
  OBVIOUS
<1> USE ListenerAssumption
<1>1. CASE JobsInit \/ Bind \/ InitSubsystem \/ Listen \/ DiscoveryStart
           \/ AcceptFails \/ CheckBreak \/ Shutdown \/ Break
           \/ UNCHANGED vars
  <2>1. /\ UNCHANGED <<g_live_clients, worker, sock, peer>>
        /\ \/ UNCHANGED <<main, cur>>
           \/ /\ main \notin {"claim", "spawn"}
              /\ main' \notin {"claim", "spawn"}
    BY <1>1 DEF JobsInit, Bind, InitSubsystem, Listen, DiscoveryStart,
                AcceptFails, CheckBreak, Shutdown, Break, vars, mainVars,
                connVars
  <2>2. Holders' = Holders
    BY <2>1 DEF Holders, Live, Claimed, Lost
  <2> QED
    BY <2>1, <2>2, SameHoldersKeepAccount DEF SlotsInv
<1>2. ASSUME NEW c \in Conns, Accept(c) PROVE SlotsInv'
  <2>1. Holders' = Holders
    BY <1>2 DEF Accept, Holders, Live, Claimed, Lost
  <2>2. SlotAccounting'
    BY <1>2, <2>1, SameHoldersKeepAccount DEF Accept, SlotsInv
  <2> QED
    BY <1>2, <2>2 DEF Accept, SlotsInv, TypeOK
<1>3. CASE client_slot_claim
  <2>1. cur \notin Holders
    BY <1>3 DEF client_slot_claim, Holders, Live, Claimed, Lost, LiveStates,
                SlotsInv, TypeOK
  <2>2. Holders' = Holders \cup {cur}
    BY <1>3 DEF client_slot_claim, connVars, Holders, Live, Claimed, Lost
  <2>3. SlotAccounting'
    BY <1>3, <2>1, <2>2, ClaimKeepsAccount DEF client_slot_claim, SlotsInv
  <2> QED
    BY <1>3, <2>3 DEF client_slot_claim, connVars, SlotsInv, TypeOK
<1>4. CASE Refuse
  <2>1. Holders' = Holders
    BY <1>4 DEF Refuse, Holders, Live, Claimed, Lost
  <2>2. SlotAccounting'
    BY <1>4, <2>1, SameHoldersKeepAccount DEF Refuse, SlotsInv
  <2> QED
    BY <1>4, <2>2 DEF Refuse, SlotsInv, TypeOK
<1>5. CASE spawn_client_worker
  <2>1. Holders' = Holders
    BY <1>5 DEF spawn_client_worker, Holders, Live, Claimed, Lost,
                LiveStates, SlotsInv, TypeOK
  <2>2. SlotAccounting'
    BY <1>5, <2>1, SameHoldersKeepAccount DEF spawn_client_worker, SlotsInv
  <2> QED
    BY <1>5, <2>2 DEF spawn_client_worker, SlotsInv, TypeOK
<1>6. CASE SpawnFails
  <2>1. cur \in Holders
    BY <1>6 DEF SpawnFails, Holders, Claimed
  <2>2. Holders' = Holders \ {cur}
    BY <1>6 DEF SpawnFails, Holders, Live, Claimed, Lost, LiveStates,
                SlotsInv, TypeOK
  <2>3. SlotAccounting' /\ g_live_clients' <= g_live_clients
    BY <1>6, <2>1, <2>2, ReleaseKeepsAccount DEF SpawnFails, SlotsInv
  <2>4. g_live_clients' <= MCPD_MAX_CLIENTS
    BY <1>6, <2>3 DEF SlotsInv, TypeOK, SpawnFails, SlotRelease
  <2> QED
    BY <1>6, <2>3, <2>4 DEF SpawnFails, SlotsInv, TypeOK
<1>7. CASE CloseListener
  <2>1. Holders' = Holders
    BY <1>7 DEF CloseListener, Holders, Live, Claimed, Lost
  <2>2. SlotAccounting'
    BY <1>7, <2>1, SameHoldersKeepAccount DEF CloseListener, SlotsInv
  <2> QED
    BY <1>7, <2>2 DEF CloseListener, SlotsInv, TypeOK
<1>8. ASSUME NEW c \in Conns, client_slot_release(c) PROVE SlotsInv'
  <2>1. c \in Holders
    BY <1>8 DEF client_slot_release, Holders, Live, LiveStates
  <2>2. main = "spawn" => cur # c
    BY <1>8 DEF client_slot_release, SlotsInv
  <2>3. Holders' = Holders \ {c}
    BY <1>8, <2>2 DEF client_slot_release, mainVars, Holders, Live, Claimed,
                      Lost, LiveStates, TypeOK
  <2>4. SlotAccounting' /\ g_live_clients' <= g_live_clients
    BY <1>8, <2>1, <2>3, ReleaseKeepsAccount
       DEF client_slot_release, SlotsInv
  <2>5. g_live_clients' <= MCPD_MAX_CLIENTS
    BY <1>8, <2>4 DEF SlotsInv, TypeOK, client_slot_release, SlotRelease
  <2> QED
    BY <1>8, <2>4, <2>5 DEF client_slot_release, mainVars, SlotsInv, TypeOK
<1>9. ASSUME NEW c \in Conns,
             \/ client_task_entry(c) \/ EntryFails(c) \/ Readable(c)
             \/ FrameRead(c) \/ FrameReadFails(c) \/ Dispatch(c)
             \/ HandlerKilled(c) \/ FrameWrite(c) \/ CloseConnection(c)
             \/ WaitFails(c)
      PROVE SlotsInv'
  <2>1. /\ UNCHANGED <<g_live_clients, main, cur, peer>>
        /\ worker[c] \in LiveStates
        /\ \E v \in LiveStates \cup {"aborted", "killed"} :
              worker' = [worker EXCEPT ![c] = v]
        /\ \E v \in {"worker", "closed"} :
              sock' \in {sock, [sock EXCEPT ![c] = v]}
    BY <1>9 DEF client_task_entry, EntryFails, Readable, FrameRead,
                FrameReadFails, Dispatch, HandlerKilled, FrameWrite,
                CloseConnection, WaitFails, mainVars, LiveStates
  <2>2. Holders' = Holders
    BY <2>1 DEF Holders, Live, Claimed, Lost, TypeOK
  <2>3. SlotAccounting'
    BY <2>1, <2>2, SameHoldersKeepAccount DEF SlotsInv
  <2>4. sock[c] \notin {"none", "backlog", "main"}
    BY <2>1 DEF SlotsInv, LiveStates
  <2> QED
    BY <2>1, <2>3, <2>4 DEF SlotsInv, TypeOK
<1>10. ASSUME NEW c \in Conns, ClientNext(c) PROVE SlotsInv'
  <2>1. UNCHANGED <<g_live_clients, main, cur, worker>>
    BY <1>10 DEF ClientNext, Connect, Send, Disconnect, mainVars
  <2>2. Holders' = Holders
    BY <2>1 DEF Holders, Live, Claimed, Lost
  <2>3. SlotAccounting'
    BY <2>1, <2>2, SameHoldersKeepAccount DEF SlotsInv
  <2>4. /\ \A d \in Conns : sock'[d] \in {"none", "backlog", "main"}
                               => sock[d] \in {"none", "backlog", "main"}
        /\ \A d \in Conns : peer'[d] = "away" => sock'[d] = "none"
        /\ \A d \in Conns : sock[d] = "main" => sock'[d] = "main"
    BY <1>10 DEF ClientNext, Connect, Send, Disconnect, SlotsInv, TypeOK
  <2> QED
    BY <2>1, <2>3, <2>4 DEF SlotsInv, TypeOK
<1> QED
  BY <1>1, <1>2, <1>3, <1>4, <1>5, <1>6, <1>7, <1>8, <1>9, <1>10
     DEF Next, MainNext, WorkerNext, WorkerStep

(* The counter of client_slot_claim and client_slot_release is exact: it   *)
(* is the number of live workers, the one about to be spawned and those    *)
(* that ended without releasing.                                           *)
THEOREM SlotsAreAccounted == Spec => []SlotAccounting
<1>1. TypeOK /\ SlotsInv /\ [Next]_vars => (TypeOK /\ SlotsInv)'
  BY NextType, NextSlots
<1>2. SlotsInv => SlotAccounting
  BY DEF SlotsInv
<1> QED
  BY InitType, InitSlots, <1>1, <1>2, PTL DEF Spec

(* At most MCPD_MAX_CLIENTS workers live at once.                          *)
THEOREM WorkersAreCapped == Spec => []WorkerCap
<1>1. TypeOK /\ SlotsInv /\ [Next]_vars => (TypeOK /\ SlotsInv)'
  BY NextType, NextSlots
<1>2. TypeOK /\ SlotsInv => WorkerCap
  <2> SUFFICES ASSUME TypeOK, SlotsInv PROVE WorkerCap
    OBVIOUS
  <2>1. Live \subseteq Holders
    BY DEF Holders
  <2>2. Cardinality(Live) <= Cardinality(Holders)
    BY <2>1, HoldersFinite, FS_Subset
  <2>3. Cardinality(Live) \in Nat
    BY <2>1, HoldersFinite, FS_Subset, FS_CardinalityType
  <2> QED
    BY <2>2, <2>3, HoldersFinite, ListenerAssumption
       DEF SlotsInv, SlotAccounting, WorkerCap, Holders
<1> QED
  BY InitType, InitSlots, <1>1, <1>2, PTL DEF Spec

-----------------------------------------------------------------------------
(* Who owns a socket.                                                      *)

LEMMA InitOwnership == Init => OwnershipInv
BY DEF Init, OwnershipInv, SocketOwnership

(* One case per group of actions: those that leave sockets and workers     *)
(* alone, main()'s with the socket in hand, the worker's and the client's. *)
LEMMA NextOwnership ==
    TypeOK /\ SlotsInv /\ OwnershipInv /\ [Next]_vars => OwnershipInv'
<1> SUFFICES ASSUME TypeOK, SlotsInv, OwnershipInv, [Next]_vars
             PROVE  OwnershipInv'
  OBVIOUS
<1> USE ListenerAssumption DEF OwnershipInv, SocketOwnership
<1>1. CASE JobsInit \/ Bind \/ InitSubsystem \/ Listen \/ DiscoveryStart
           \/ AcceptFails \/ CheckBreak \/ Shutdown \/ Break
           \/ UNCHANGED vars
  <2>1. /\ UNCHANGED <<worker, sock>>
        /\ UNCHANGED <<main, cur>> \/ main \notin {"claim", "spawn"}
    BY <1>1 DEF JobsInit, Bind, InitSubsystem, Listen, DiscoveryStart,
                AcceptFails, CheckBreak, Shutdown, Break, vars, mainVars,
                connVars
  <2> QED
    BY <2>1
<1>2. ASSUME NEW c \in Conns, Accept(c) PROVE OwnershipInv'
  BY <1>2 DEF Accept, SlotsInv, TypeOK
<1>3. CASE client_slot_claim
  BY <1>3 DEF client_slot_claim, connVars
<1>4. CASE Refuse \/ spawn_client_worker \/ SpawnFails
  <2>1. /\ main \in {"claim", "spawn"} /\ cur \in Conns
        /\ sock[cur] = "main" /\ worker[cur] = "none"
    BY <1>4 DEF Refuse, spawn_client_worker, SpawnFails, SlotsInv, TypeOK
  <2>2. /\ \A d \in Conns : d # cur => sock[d] # "main"
        /\ \A d \in Conns : d # cur => sock'[d] = sock[d] /\ worker'[d] = worker[d]
        /\ sock'[cur] \in {"closed", "released"}
        /\ worker'[cur] \in {"none", "spawned"}
        /\ worker'[cur] = "spawned" => sock'[cur] = "released"
    BY <1>4, <2>1 DEF Refuse, spawn_client_worker, SpawnFails, TypeOK
  <2> QED
    BY <2>1, <2>2
<1>5. CASE CloseListener
  BY <1>5 DEF CloseListener, SlotsInv, TypeOK
<1>6. ASSUME NEW c \in Conns, client_task_entry(c) PROVE OwnershipInv'
  BY <1>6 DEF client_task_entry, mainVars, LiveStates, TypeOK
<1>7. ASSUME NEW c \in Conns,
             \/ EntryFails(c) \/ Readable(c) \/ FrameRead(c)
             \/ FrameReadFails(c) \/ Dispatch(c) \/ HandlerKilled(c)
             \/ FrameWrite(c) \/ WaitFails(c)
      PROVE  OwnershipInv'
  <2>1. /\ UNCHANGED <<main, cur, sock>>
        /\ \E v \in {"aborted", "reading", "dispatch", "cleanup", "reply",
                     "killed", "waiting"} :
              /\ worker' = [worker EXCEPT ![c] = v]
              /\ v = "aborted" => worker[c] = "spawned"
    BY <1>7 DEF EntryFails, Readable, FrameRead, FrameReadFails, Dispatch,
                HandlerKilled, FrameWrite, WaitFails, mainVars
  <2> QED
    BY <2>1 DEF TypeOK, LiveStates
<1>8. ASSUME NEW c \in Conns, CloseConnection(c) \/ client_slot_release(c)
      PROVE  OwnershipInv'
  BY <1>8 DEF CloseConnection, client_slot_release, mainVars, TypeOK
<1>9. ASSUME NEW c \in Conns, ClientNext(c) PROVE OwnershipInv'
  <2>1. UNCHANGED <<main, cur, worker>>
    BY <1>9 DEF ClientNext, Connect, Send, Disconnect, mainVars
  <2>2. UNCHANGED sock \/ (sock[c] = "none" /\ worker[c] = "none"
                             /\ sock' = [sock EXCEPT ![c] = "backlog"])
    BY <1>9 DEF ClientNext, Connect, Send, Disconnect, SlotsInv
  <2> QED
    BY <2>1, <2>2 DEF TypeOK
<1> QED
  BY <1>1, <1>2, <1>3, <1>4, <1>5, <1>6, <1>7, <1>8, <1>9
     DEF Next, MainNext, WorkerNext, WorkerStep

(* The listener holds no socket between two rounds, and a worker that went *)
(* through its cleanup left nothing open (spawn_client_worker,             *)
(* client_task_entry).                                                     *)
THEOREM SocketsAreOwned == Spec => []SocketOwnership
<1>1. TypeOK /\ SlotsInv /\ OwnershipInv /\ [Next]_vars
        => (TypeOK /\ SlotsInv /\ OwnershipInv)'
  BY NextType, NextSlots, NextOwnership
<1>2. OwnershipInv => SocketOwnership
  BY DEF OwnershipInv
<1> QED
  BY InitType, InitSlots, InitOwnership, <1>1, <1>2, PTL DEF Spec

-----------------------------------------------------------------------------
(* The order of start-up.                                                  *)

LEMMA NextStartup == TypeOK /\ StartupInv /\ [Next]_vars => StartupInv'
<1> SUFFICES ASSUME TypeOK, StartupInv, [Next]_vars PROVE StartupInv'
  OBVIOUS
<1> USE DEF StartupInv
<1>1. CASE JobsInit \/ Bind
  BY <1>1 DEF JobsInit, Bind
<1>2. CASE InitSubsystem
  BY <1>2 DEF InitSubsystem
<1>3. CASE Listen \/ DiscoveryStart
  BY <1>3 DEF Listen, DiscoveryStart
<1>4. CASE (\E c \in Conns : Accept(c)) \/ AcceptFails \/ client_slot_claim
           \/ Refuse \/ spawn_client_worker \/ SpawnFails \/ CheckBreak
  <2>1. /\ main \in {"accept", "claim", "spawn", "check"}
        /\ main' \in {"accept", "claim", "spawn", "check", "stop"}
        /\ up' = up
    BY <1>4 DEF Accept, AcceptFails, client_slot_claim, Refuse,
                spawn_client_worker, SpawnFails, CheckBreak
  <2> QED
    BY <2>1
<1>5. CASE CloseListener \/ Shutdown
  BY <1>5 DEF CloseListener, Shutdown
<1>6. ASSUME NEW c \in Conns, WorkerNext(c) \/ ClientNext(c)
      PROVE  UNCHANGED mainVars
  BY <1>6 DEF WorkerNext, WorkerStep, WaitFails, ClientNext, client_task_entry,
              EntryFails, Readable,
              FrameRead, FrameReadFails, Dispatch, HandlerKilled, FrameWrite,
              CloseConnection, client_slot_release, Connect, Send, Disconnect
<1>7. CASE UNCHANGED mainVars
  BY <1>7 DEF mainVars
<1>8. CASE Break
  BY <1>8 DEF Break
<1>9. CASE UNCHANGED vars
  BY <1>9 DEF vars, mainVars
<1> QED
  BY <1>1, <1>2, <1>3, <1>4, <1>5, <1>6, <1>7, <1>8, <1>9
     DEF Next, MainNext

(* Neither a connection nor a discovery reply lets a client in before the  *)
(* application library, the crash hook and the input gate are set up       *)
(* (main).                                                                 *)
THEOREM ReachableOnlyWhenReady == Spec => []ReadyBeforeReachable
<1>1. Init => StartupInv
  BY DEF Init, StartupInv
<1>2. TypeOK /\ StartupInv /\ [Next]_vars => (TypeOK /\ StartupInv)'
  BY NextType, NextStartup
<1>3. TypeOK /\ StartupInv => ReadyBeforeReachable
  BY DEF TypeOK, StartupInv, ReadyBeforeReachable, Loaded
<1> QED
  BY InitType, <1>1, <1>2, <1>3, PTL DEF Spec

-----------------------------------------------------------------------------
(* 2. Input.                                                               *)

----------------------------------------------------------------------------
(* The events of a request.                                                *)

SoundEvents(es, op) == es \in Seq(EventType) /\ TodoInv(es, op)

LEMMA EventFields ==
    ASSUME NEW does, NEW key, NEW wait, NEW keeps
    PROVE  LET e == Event(does, key, wait, keeps)
           IN  e.does = does /\ e.key = key /\ e.wait = wait /\ e.keeps = keeps
BY DEF Event

LEMMA EventIn ==
    ASSUME NEW does \in {"down", "up", "moves"}, NEW key \in Keys, NEW wait \in Nat,
           NEW keeps \in {"none", "modifier", "button"}
    PROVE  Event(does, key, wait, keeps) \in EventType
BY DEF Event, EventType

LEMMA MovesSound ==
    ASSUME NEW n \in Nat, NEW d \in Nat, NEW op
    PROVE  SoundEvents(Moves(n, d), op) /\ Len(Moves(n, d)) = n
<1>1. PICK e \in EventType : /\ e = Event("moves", Button, d, "none")
                             /\ e.does = "moves" /\ e.key = Button /\ e.keeps = "none"
  <2>1. Button \in Keys
    BY DEF Keys
  <2> QED BY <2>1, EventIn, EventFields
<1>2. Moves(n, d) = [i \in 1..n |-> e]
  BY <1>1 DEF Moves
<1>3. PICK es : es = Moves(n, d)
  OBVIOUS
<1>4. es \in Seq(EventType) /\ Len(es) = n /\ \A i \in 1..n : es[i] = e
  BY <1>2, <1>3
<1>5. DOMAIN es = 1..n
  BY <1>2, <1>3
<1>6. TodoInv(es, op)
  BY <1>1, <1>4, <1>5 DEF TodoInv, Remembers, Strikes
<1> QED BY <1>3, <1>4, <1>6 DEF SoundEvents

Alternates(es, n, a, b) ==
    DOMAIN es = 1..(2 * n) /\ \A i \in 1..(2 * n) : es[i] = IF i % 2 = 1 THEN a ELSE b

LEMMA RepeatIs ==
    ASSUME NEW n \in Nat, NEW a \in EventType, NEW b \in EventType
    PROVE  \E es \in Seq(EventType) : es = Repeat(n, a, b) /\ Alternates(es, n, a, b)
<1>1. 2 * n \in Nat
  OBVIOUS
<1>2. \A i \in 1..(2 * n) : (IF i % 2 = 1 THEN a ELSE b) \in EventType
  OBVIOUS
<1>3. PICK es : es = Repeat(n, a, b)
  OBVIOUS
<1>4. es = [i \in 1..(2 * n) |-> IF i % 2 = 1 THEN a ELSE b]
  BY <1>3 DEF Repeat
<1>5. /\ es \in Seq(EventType) /\ DOMAIN es = 1..(2 * n)
      /\ \A i \in 1..(2 * n) : es[i] = IF i % 2 = 1 THEN a ELSE b
  BY <1>1, <1>2, <1>4
<1> QED BY <1>3, <1>5 DEF Alternates

\* Keystrokes of an input.type, and clicks.
LEMMA StrokesSound ==
    ASSUME NEW n \in Nat, NEW d \in Nat, NEW h \in Nat
    PROVE  SoundEvents(Repeat(n, Event("down", PlainKey, h, "none"),
                                 Event("up", PlainKey, d, "none")), "type")
<1>1. PlainKey \in Keys /\ PlainKey # Button
  BY DEF Keys, PlainKey, Button
<1>2. PICK a \in EventType : /\ a = Event("down", PlainKey, h, "none") /\ a.does = "down"
                             /\ a.key = PlainKey /\ a.keeps = "none"
  BY <1>1, EventIn, EventFields
<1>3. PICK b \in EventType : /\ b = Event("up", PlainKey, d, "none") /\ b.does = "up"
                             /\ b.key = PlainKey /\ b.keeps = "none"
  BY <1>1, EventIn, EventFields
<1>4. PICK es \in Seq(EventType) : es = Repeat(n, a, b) /\ Alternates(es, n, a, b)
  BY RepeatIs, Zenon
<1>5. \A i \in 1..(2 * n) : i % 2 = 1 => i + 1 \in 1..(2 * n) /\ (i + 1) % 2 # 1
  OBVIOUS
<1>6. ASSUME NEW i \in DOMAIN es
      PROVE  /\ Remembers(es[i])
             /\ Strikes(es[i]) =>
                  /\ i + 1 \in DOMAIN es /\ es[i + 1].does = "up"
                  /\ es[i + 1].keeps = "none" /\ es[i + 1].key = es[i].key
  <2>1. es[i] \in {a, b} /\ Remembers(a) /\ Remembers(b) /\ ~Strikes(b)
    BY <1>1, <1>2, <1>3, <1>4 DEF Remembers, Strikes, Alternates
  <2>2. Strikes(es[i]) => i % 2 = 1 /\ es[i] = a
    BY <1>4, <2>1 DEF Alternates
  <2>3. i % 2 = 1 => i + 1 \in DOMAIN es /\ es[i + 1] = b
    BY <1>4, <1>5 DEF Alternates
  <2> QED BY <1>2, <1>3, <2>1, <2>2, <2>3
<1>7. TodoInv(es, "type")
  BY <1>6 DEF TodoInv
<1> QED BY <1>2, <1>3, <1>4, <1>5, <1>7 DEF SoundEvents

LEMMA PressesSound ==
    ASSUME NEW n \in Nat, NEW d \in Nat, NEW op
    PROVE  SoundEvents(Repeat(n, Event("down", Button, d, "button"),
                                 Event("up", Button, d, "button")), op)
<1>1. Button \in Keys
  BY DEF Keys
<1>2. PICK a \in EventType : /\ a = Event("down", Button, d, "button") /\ a.does = "down"
                             /\ a.key = Button /\ a.keeps = "button"
  BY <1>1, EventIn, EventFields
<1>3. PICK b \in EventType : /\ b = Event("up", Button, d, "button") /\ b.does = "up"
                             /\ b.key = Button /\ b.keeps = "button"
  BY <1>1, EventIn, EventFields
<1>4. PICK es \in Seq(EventType) : es = Repeat(n, a, b) /\ Alternates(es, n, a, b)
  BY RepeatIs, Zenon
<1>6. \A i \in DOMAIN es : Remembers(es[i]) /\ ~Strikes(es[i])
  BY <1>2, <1>3, <1>4 DEF Remembers, Strikes, Alternates
<1>7. TodoInv(es, op)
  BY <1>6 DEF TodoInv
<1> QED BY <1>2, <1>3, <1>4, <1>7 DEF SoundEvents

\* Events that strike no key can be put before others.
LEMMA SoundConcat ==
    ASSUME NEW op, NEW s \in Seq(EventType), NEW t \in Seq(EventType), TodoInv(s, op),
           TodoInv(t, op), \A i \in DOMAIN s : ~Strikes(s[i])
    PROVE  SoundEvents(s \o t, op)
<1>1. /\ Len(s) \in Nat /\ Len(t) \in Nat /\ DOMAIN s = 1..Len(s) /\ DOMAIN t = 1..Len(t)
  BY LenProperties
<1>2. /\ s \o t \in Seq(EventType) /\ Len(s \o t) = Len(s) + Len(t)
      /\ \A i \in 1..(Len(s) + Len(t)) :
            (s \o t)[i] = IF i <= Len(s) THEN s[i] ELSE t[i - Len(s)]
  BY ConcatProperties
<1>3. PICK u \in Seq(EventType) : u = s \o t
  BY <1>2
<1>4. /\ DOMAIN u = 1..(Len(s) + Len(t))
      /\ \A i \in DOMAIN u : u[i] = IF i <= Len(s) THEN s[i] ELSE t[i - Len(s)]
  BY <1>2, <1>3, LenProperties
<1>5. ASSUME NEW i \in DOMAIN u
      PROVE  /\ Remembers(u[i])
             /\ Strikes(u[i]) =>
                  /\ op \in {"key", "type"}
                  /\ i + 1 \in DOMAIN u /\ u[i + 1].does = "up"
                  /\ u[i + 1].keeps = "none" /\ u[i + 1].key = u[i].key
  <2>1. CASE i <= Len(s)
    <3>1. i \in DOMAIN s /\ u[i] = s[i]
      BY <1>1, <1>4, <2>1
    <3> QED BY <3>1 DEF TodoInv
  <2>2. CASE ~(i <= Len(s))
    <3>1. PICK j \in DOMAIN t : j = i - Len(s) /\ u[i] = t[j]
      BY <1>1, <1>4, <2>2
    <3>2. /\ Remembers(t[j])
          /\ Strikes(t[j]) =>
                  /\ op \in {"key", "type"}
                  /\ j + 1 \in DOMAIN t /\ t[j + 1].does = "up"
                  /\ t[j + 1].keeps = "none" /\ t[j + 1].key = t[j].key
      BY DEF TodoInv
    <3>3. j + 1 \in DOMAIN t => i + 1 \in DOMAIN u /\ u[i + 1] = t[j + 1]
      BY <1>1, <1>4, <2>2, <3>1
    <3> QED BY <3>1, <3>2, <3>3
  <2> QED BY <2>1, <2>2
<1>6. TodoInv(u, op)
  BY <1>5 DEF TodoInv
<1> QED BY <1>3, <1>6 DEF SoundEvents

LEMMA ChordFacts ==
    ASSUME NEW chord \in Chords
    PROVE  /\ chord \in Seq(Modifiers \cup {PlainKey}) /\ Len(chord) \in Nat /\ Len(chord) >= 1
           /\ \A i \in 1..(Len(chord) - 1) : chord[i] \in Modifiers
           /\ Last(chord) \in Modifiers \cup {PlainKey}
<1>1. chord \in Seq(Modifiers \cup {PlainKey}) /\ chord # <<>>
  BY InputAssumption
<1>2. Len(chord) \in Nat /\ Len(chord) >= 1
  BY <1>1, EmptySeq, LenProperties
<1>3. ASSUME NEW i \in 1..(Len(chord) - 1)
      PROVE  chord[i] \in Modifiers
  <2>1. Front(chord) = [j \in 1..(Len(chord) - 1) |-> chord[j]]
    BY <1>1, <1>2 DEF Front
  <2>2. DOMAIN Front(chord) = 1..(Len(chord) - 1) /\ Front(chord)[i] = chord[i]
    BY <1>2, <2>1
  <2>3. Front(chord)[i] \in ToSet(Front(chord))
    BY <2>2 DEF ToSet
  <2> QED BY <2>2, <2>3, InputAssumption
<1>4. Last(chord) \in Modifiers \cup {PlainKey}
  BY <1>1, <1>2 DEF Last
<1> QED BY <1>1, <1>2, <1>3, <1>4

\* An input.key: its modifiers, then its key down and up; each waits at most the delay.
LEMMA KeySound ==
    ASSUME NEW chord \in Chords, NEW d \in Nat, NEW r, r.chord = chord, r.delay = d
    PROVE  /\ SoundEvents(KeyEvents(r), "key") /\ Len(KeyEvents(r)) = Len(chord) + 1
           /\ \A i \in DOMAIN KeyEvents(r) : KeyEvents(r)[i].wait <= d
<1>1. /\ Len(chord) \in Nat /\ Len(chord) >= 1 /\ \A i \in 1..(Len(chord) - 1) : chord[i] \in Modifiers
      /\ Last(chord) \in Modifiers \cup {PlainKey}
  BY ChordFacts
<1>2. PICK key : key = Last(chord)
  OBVIOUS
<1>3. key \in Keys /\ key # Button
  BY <1>1, <1>2 DEF Keys, PlainKey, Button, Modifiers
<1>4. PICK a \in EventType : /\ a = Event("down", key, d, "none") /\ a.does = "down"
                             /\ a.key = key /\ a.keeps = "none" /\ a.wait = d
  BY <1>3, EventIn, EventFields
<1>5. PICK b \in EventType : /\ b = Event("up", key, 0, "none") /\ b.does = "up"
                             /\ b.key = key /\ b.keeps = "none" /\ b.wait = 0
  BY <1>3, EventIn, EventFields
<1>6. PICK t : t = <<a, b>>
  OBVIOUS
<1>7. t \in Seq(EventType) /\ Len(t) = 2 /\ DOMAIN t = {1, 2} /\ t[1] = a /\ t[2] = b
  BY <1>6
<1>8. TodoInv(t, "key")
  BY <1>3, <1>4, <1>5, <1>7 DEF TodoInv, Remembers, Strikes
<1>9. ASSUME NEW i \in 1..(Len(chord) - 1)
      PROVE  LET m == _push_modifier(chord[i], d)
             IN  m \in EventType /\ Remembers(m) /\ ~Strikes(m) /\ m.wait = d
  <2>1. PICK m : m = _push_modifier(chord[i], d)
    OBVIOUS
  <2>2. PICK k \in Modifiers : k = chord[i]
    BY <1>1
  <2>3. k \in Keys /\ k # Button
    BY <2>2 DEF Keys, Modifiers, Button
  <2>4. m \in EventType
    BY <2>1, <2>2, <2>3, EventIn DEF _push_modifier
  <2>5. m.does = "down" /\ m.key = k /\ m.keeps = "modifier" /\ m.wait = d
    BY <2>1, <2>2, EventFields DEF _push_modifier
  <2>6. Remembers(m) /\ ~Strikes(m)
    BY <2>3, <2>5 DEF Remembers, Strikes
  <2> QED BY <2>1, <2>4, <2>5, <2>6
<1>10. PICK s : s = [i \in 1..(Len(chord) - 1) |-> _push_modifier(chord[i], d)]
  OBVIOUS
<1>11. Len(chord) - 1 \in Nat
  BY <1>1
<1>12. /\ s \in Seq(EventType) /\ DOMAIN s = 1..(Len(chord) - 1) /\ Len(s) = Len(chord) - 1
       /\ \A i \in DOMAIN s : Remembers(s[i]) /\ ~Strikes(s[i]) /\ s[i].wait = d
  BY <1>9, <1>10, <1>11
<1>13. TodoInv(s, "key")
  BY <1>12 DEF TodoInv
<1>14. SoundEvents(s \o t, "key")
  BY <1>7, <1>8, <1>12, <1>13, SoundConcat
<1>15. KeyEvents(r) = s \o t
  BY <1>2, <1>4, <1>5, <1>6, <1>10 DEF KeyEvents
<1>16. /\ Len(s \o t) = Len(s) + Len(t)
       /\ \A i \in 1..(Len(s) + Len(t)) :
             (s \o t)[i] = IF i <= Len(s) THEN s[i] ELSE t[i - Len(s)]
  <2>1. s \in Seq(EventType) /\ t \in Seq(EventType)
    BY <1>7, <1>12
  <2> QED BY <2>1, ConcatProperties
<1>17. PICK u \in Seq(EventType) : u = s \o t
  BY <1>14 DEF SoundEvents
<1>18. DOMAIN u = 1..(Len(chord) + 1)
  BY <1>1, <1>7, <1>12, <1>16, <1>17, LenProperties
<1>19. ASSUME NEW i \in DOMAIN u
       PROVE  u[i].wait <= d
  <2>1. CASE i <= Len(s)
    <3>1. i \in DOMAIN s /\ u[i] = s[i]
      BY <1>1, <1>7, <1>12, <1>16, <1>17, <1>18, <2>1
    <3> QED BY <3>1, <1>12
  <2>2. CASE ~(i <= Len(s))
    <3>1. /\ i \in Int /\ i <= Len(chord) + 1 /\ Len(chord) \in Nat
          /\ Len(s) = Len(chord) - 1 /\ Len(t) = 2 /\ t[1] = a /\ t[2] = b
      BY <1>1, <1>7, <1>12, <1>18
    <3>2. u[i] = t[i - Len(s)]
      BY <1>16, <1>17, <1>18, <2>2, <3>1
    <3>3. i - Len(s) = 1 \/ i - Len(s) = 2
      BY <2>2, <3>1
    <3>4. u[i] \in {a, b}
      BY <3>1, <3>2, <3>3
    <3> QED BY <3>4, <1>4, <1>5
  <2> QED BY <2>1, <2>2
<1>20. Len(u) = Len(chord) + 1
  BY <1>1, <1>7, <1>12, <1>16, <1>17
<1> QED BY <1>14, <1>15, <1>17, <1>19, <1>20

LEMMA ClickSound ==
    ASSUME NEW n \in Nat, NEW d \in Nat, NEW r, r.n = n, r.delay = d, NEW op
    PROVE  SoundEvents(ClickEvents(r), op)
<1>1. PICK k \in Nat : k = IF r.op = "click_at" THEN 1 ELSE 0
  OBVIOUS
<1>2. PICK s : s = Moves(k, d)
  OBVIOUS
<1>3. PICK t : t = Repeat(n, Event("down", Button, d, "button"), Event("up", Button, d, "button"))
  OBVIOUS
<1>4. SoundEvents(s, op) /\ SoundEvents(t, op)
  BY <1>2, <1>3, MovesSound, PressesSound
<1>5. \A i \in DOMAIN s : ~Strikes(s[i])
  BY <1>2, EventFields DEF Moves, Strikes, Event
<1>6. ClickEvents(r) = s \o t
  BY <1>1, <1>2, <1>3 DEF ClickEvents
<1> QED BY <1>4, <1>5, <1>6, SoundConcat DEF SoundEvents

LEMMA DragSound ==
    ASSUME NEW n \in Nat, NEW d \in Nat, NEW r, r.n = n, r.delay = d, NEW op
    PROVE  SoundEvents(DragEvents(r), op)
<1>1. Button \in Keys /\ BUTTON_MS \in Nat
  BY InputAssumption DEF Keys
<1>2. PICK a \in EventType : /\ a = Event("moves", Button, BUTTON_MS, "none") /\ a.does = "moves"
                             /\ a.key = Button /\ a.keeps = "none"
  BY <1>1, EventIn, EventFields
<1>3. PICK b \in EventType : /\ b = Event("down", Button, BUTTON_MS, "button") /\ b.does = "down"
                             /\ b.key = Button /\ b.keeps = "button"
  BY <1>1, EventIn, EventFields
<1>4. PICK s : s = <<a, b>>
  OBVIOUS
<1>5. s \in Seq(EventType) /\ Len(s) = 2 /\ DOMAIN s = {1, 2} /\ s[1] = a /\ s[2] = b
  BY <1>4
<1>6. (\A i \in DOMAIN s : ~Strikes(s[i])) /\ TodoInv(s, op)
  BY <1>2, <1>3, <1>5 DEF TodoInv, Remembers, Strikes
<1>7. PICK t : t = Moves(n, d)
  OBVIOUS
<1>8. SoundEvents(t, op)
  BY <1>7, MovesSound
<1>9. DragEvents(r) = s \o t
  BY <1>2, <1>3, <1>4, <1>7 DEF DragEvents
<1> QED BY <1>5, <1>6, <1>8, <1>9, SoundConcat DEF SoundEvents

\* Every request the host lets through.
LEMMA RequestFields ==
    ASSUME NEW r \in Requests
    PROVE  /\ r.n \in Nat /\ r.delay \in Delays /\ r.delay \in Nat /\ r.op \in Ops
           /\ r.op = "key" => r.chord \in Chords
<1>1. Delays \subseteq Nat /\ Texts \subseteq Nat /\ Clicks \subseteq Nat /\ Steps \subseteq Nat /\ Wheel \subseteq Nat
  BY InputAssumption
<1>2. \A op, n, chord, d, reset :
         LET q == Request(op, n, chord, d, reset)
         IN  q.op = op /\ q.n = n /\ q.chord = chord /\ q.delay = d
  BY DEF Request
<1>3. PICK op, n, chord, d, reset :
         /\ r = Request(op, n, chord, d, reset) /\ d \in Delays
         /\ n \in Nat /\ op \in Ops /\ (op = "key" => chord \in Chords)
  <2>1. r \in TypeRequests \cup KeyRequests \cup ClickRequests \cup DragRequests
                 \cup MoveRequests \cup ScrollRequests
    BY DEF Requests
  <2>2. CASE r \in TypeRequests
    <3>1. PICK n \in Texts, d \in Delays : r = Request("type", n, <<>>, d, FALSE)
      BY <2>2 DEF TypeRequests, Request
    <3>2. n \in Nat /\ "type" \in Ops /\ "type" # "key"
      BY <1>1 DEF Ops
    <3> QED BY <3>1, <3>2, Zenon
  <2>3. CASE r \in KeyRequests
    <3>1. PICK chord \in Chords, d \in Delays, reset \in BOOLEAN : r = Request("key", 1, chord, d, reset)
      BY <2>3 DEF KeyRequests, Request
    <3> QED BY <3>1 DEF Ops
  <2>4. CASE r \in ClickRequests
    <3>1. PICK op \in {"click", "click_at"}, n \in Clicks, d \in Delays : r = Request(op, n, <<>>, d, FALSE)
      BY <2>4 DEF ClickRequests, Request
    <3>2. n \in Nat /\ op \in Ops /\ op # "key"
      BY <1>1, <3>1 DEF Ops
    <3> QED BY <3>1, <3>2, Zenon
  <2>5. CASE r \in DragRequests
    <3>1. PICK n \in Steps, d \in Delays : r = Request("drag", n, <<>>, d, FALSE)
      BY <2>5 DEF DragRequests, Request
    <3>2. n \in Nat /\ "drag" \in Ops /\ "drag" # "key"
      BY <1>1 DEF Ops
    <3> QED BY <3>1, <3>2, Zenon
  <2>6. CASE r \in MoveRequests
    <3>1. PICK n \in Steps, d \in Delays : r = Request("mouse_move", n, <<>>, d, FALSE)
      BY <2>6 DEF MoveRequests, Request
    <3>2. n \in Nat /\ "mouse_move" \in Ops /\ "mouse_move" # "key"
      BY <1>1 DEF Ops
    <3> QED BY <3>1, <3>2, Zenon
  <2>7. CASE r \in ScrollRequests
    <3>1. PICK n \in Wheel, d \in Delays : r = Request("scroll", n, <<>>, d, FALSE)
      BY <2>7 DEF ScrollRequests, Request
    <3>2. n \in Nat /\ "scroll" \in Ops /\ "scroll" # "key"
      BY <1>1 DEF Ops
    <3> QED BY <3>1, <3>2, Zenon
  <2> QED BY <2>1, <2>2, <2>3, <2>4, <2>5, <2>6, <2>7
<1>4. r.op = op /\ r.n = n /\ r.chord = chord /\ r.delay = d
  BY <1>2, <1>3
<1> QED BY <1>1, <1>3, <1>4

LEMMA RequestSound ==
    ASSUME NEW r \in Requests
    PROVE  SoundEvents(Events(r), r.op)
<1>1. /\ r.n \in Nat /\ r.delay \in Delays /\ r.delay \in Nat /\ r.op \in Ops
      /\ r.op = "key" => r.chord \in Chords
  BY RequestFields
<1>2. CASE r.op = "key"
  BY <1>1, <1>2, KeySound DEF Events
<1>3. CASE r.op = "type"
  <2>1. PICK h \in Nat : h = IF r.delay > 2 THEN r.delay \div 2 ELSE r.delay
    BY <1>1
  <2>2. SoundEvents(TypeEvents(r), "type")
    BY <1>1, <2>1, StrokesSound DEF TypeEvents
  <2> QED BY <1>3, <2>2 DEF Events
<1>4. CASE r.op \in {"click", "click_at"}
  BY <1>1, <1>4, ClickSound DEF Events
<1>5. CASE r.op = "drag"
  BY <1>1, <1>5, DragSound DEF Events
<1>6. CASE r.op \notin {"key", "type", "click", "click_at", "drag"}
  <2>1. Events(r) = Moves(r.n, r.delay)
    BY <1>6 DEF Events
  <2> QED BY <1>1, <2>1, MovesSound
<1> QED BY <1>2, <1>3, <1>4, <1>5, <1>6

----------------------------------------------------------------------------
(* One call at a time.                                                     *)

CallInv(c) ==
    /\ TodoInv(c.todo, c.op) /\ HeldInv(c)
    /\ c.pc \in {"idle", "gone"} => c.pressed = {}
    /\ c.pc = "writing" /\ c.op = "key" => InBudget(c)
DownInv == \A k \in down : k \in left \/ \E w \in Workers : k \in calls[w].pressed
Rest == enabled \in [host: BOOLEAN, daemon: BOOLEAN] /\ made \in 0..MaxCalls /\ kills \in 0..MaxKills

LEMMA ContextType ==
    ASSUME NEW cs \in [Workers -> Context], NEW w \in Workers
    PROVE  /\ cs[w].pc \in {"idle", "writing", "closing", "gone"}
           /\ cs[w].events \in 0..INPUT_MAX_EVENTS /\ cs[w].spent_ms \in Nat
           /\ ToSet(cs[w].held_mods) \subseteq Modifiers
           /\ cs[w].pressed \subseteq Keys
BY DEF Context, ToSet

LEMMA InvParts ==
    InputInv <=> /\ Rest /\ down \subseteq Keys /\ left \subseteq Keys /\ DownInv
                 /\ calls \in [Workers -> Context] /\ \A w \in Workers : CallInv(calls[w])
BY ContextType, Zenon DEF InputInv, InputTypeOK, Rest, DownInv, CallInv

LEMMA InvPartsNext ==
    InputInv' <=> /\ Rest' /\ down' \subseteq Keys /\ left' \subseteq Keys /\ DownInv'
                  /\ calls' \in [Workers -> Context] /\ \A w \in Workers : CallInv(calls'[w])
BY ContextType, Zenon DEF InputInv, InputTypeOK, Rest, DownInv, CallInv

LEMMA OneCall ==
    ASSUME InputInv, NEW w \in Workers, NEW c \in Context, CallInv(c),
           calls' = [calls EXCEPT ![w] = c]
    PROVE  /\ calls' \in [Workers -> Context] /\ \A v \in Workers : CallInv(calls'[v])
           /\ calls'[w] = c /\ \A v \in Workers : v # w => calls'[v] = calls[v]
<1>1. calls \in [Workers -> Context] /\ \A v \in Workers : CallInv(calls[v])
  BY InvParts
<1>2. /\ calls' \in [Workers -> Context] /\ calls'[w] = c
      /\ \A v \in Workers : v # w => calls'[v] = calls[v]
  BY <1>1
<1> QED BY <1>1, <1>2

LEMMA IdleCall ==
    /\ Idle \in Context /\ CallInv(Idle) /\ Idle.pressed = {}
    /\ [Idle EXCEPT !.pc = "gone"] \in Context /\ CallInv([Idle EXCEPT !.pc = "gone"])
    /\ [Idle EXCEPT !.pc = "gone"].pressed = {}
<1>1. INPUT_MAX_EVENTS \in Nat /\ <<>> \in Seq(EventType) /\ <<>> \in Seq(Modifiers) /\ DOMAIN <<>> = {}
  BY InputAssumption, EmptySeq
<1>2. PICK c : c = Idle
  OBVIOUS
<1>3. c \in Context
  BY <1>1, <1>2 DEF Idle, Context, Ops
<1>4. c.pc = "idle" /\ c.op = "none" /\ c.todo = <<>> /\ c.pressed = {}
  BY <1>2 DEF Idle
<1>5. TodoInv(<<>>, "none")
  BY <1>1 DEF TodoInv
<1>6. CallInv(c)
  BY <1>4, <1>5 DEF CallInv, HeldInv
<1>7. PICK g : g = [c EXCEPT !.pc = "gone"]
  OBVIOUS
<1>8. g \in Context
  BY <1>3, <1>7 DEF Context
<1>9. g.pc = "gone" /\ g.op = "none" /\ g.todo = <<>> /\ g.pressed = {}
  BY <1>3, <1>4, <1>7 DEF Context
<1>10. CallInv(g)
  BY <1>9, <1>5 DEF CallInv, HeldInv
<1> QED BY <1>2, <1>3, <1>4, <1>6, <1>7, <1>8, <1>9, <1>10

----------------------------------------------------------------------------
(* Writing an event.                                                       *)

LEMMA TailFacts ==
    ASSUME NEW es \in Seq(EventType), es # <<>>
    PROVE  /\ Tail(es) \in Seq(EventType) /\ Head(es) = es[1] /\ Head(es) \in EventType
           /\ Len(es) \in Nat /\ Len(es) >= 1 /\ Len(Tail(es)) = Len(es) - 1 /\ DOMAIN es = 1..Len(es)
           /\ DOMAIN Tail(es) = 1..(Len(es) - 1)
           /\ \A i \in 1..(Len(es) - 1) : Tail(es)[i] = es[i + 1]
<1>1. Len(es) \in Nat /\ Len(es) >= 1 /\ DOMAIN es = 1..Len(es)
  BY EmptySeq, LenProperties
<1>2. PICK t : t = Tail(es)
  OBVIOUS
<1>3. t \in Seq(EventType) /\ Len(t) = Len(es) - 1 /\ \A i \in 1..Len(t) : t[i] = es[i + 1]
  BY <1>2, HeadTailProperties
<1>4. DOMAIN t = 1..Len(t)
  BY <1>3, LenProperties
<1>5. Head(es) = es[1] /\ Head(es) \in EventType
  BY <1>1, HeadTailProperties
<1> QED BY <1>1, <1>2, <1>3, <1>4, <1>5

LEMMA TailSound ==
    ASSUME NEW es \in Seq(EventType), es # <<>>, NEW op, TodoInv(es, op)
    PROVE  TodoInv(Tail(es), op)
<1>1. PICK n \in Nat, t \in Seq(EventType) :
        /\ t = Tail(es) /\ n = Len(es) - 1 /\ DOMAIN es = 1..(n + 1) /\ DOMAIN t = 1..n
        /\ \A i \in 1..n : t[i] = es[i + 1]
  <2>1. /\ Len(es) \in Nat /\ Len(es) >= 1 /\ DOMAIN es = 1..Len(es)
        /\ Tail(es) \in Seq(EventType) /\ DOMAIN Tail(es) = 1..(Len(es) - 1)
        /\ \A i \in 1..(Len(es) - 1) : Tail(es)[i] = es[i + 1]
    BY TailFacts
  <2>2. Len(es) - 1 \in Nat /\ (Len(es) - 1) + 1 = Len(es)
    BY <2>1
  <2> QED BY <2>1, <2>2
<1>2. ASSUME NEW i \in DOMAIN t
      PROVE  /\ Remembers(t[i])
             /\ Strikes(t[i]) =>
                  /\ op \in {"key", "type"}
                  /\ i + 1 \in DOMAIN t /\ t[i + 1].does = "up"
                  /\ t[i + 1].keeps = "none" /\ t[i + 1].key = t[i].key
  <2>1. PICK j \in DOMAIN es : j = i + 1 /\ t[i] = es[j]
    BY <1>1
  <2>2. /\ Remembers(es[j])
        /\ Strikes(es[j]) =>
             /\ op \in {"key", "type"}
             /\ j + 1 \in DOMAIN es /\ es[j + 1].does = "up"
             /\ es[j + 1].keeps = "none" /\ es[j + 1].key = es[j].key
    BY DEF TodoInv
  <2>3. j + 1 \in DOMAIN es => i + 1 \in DOMAIN t /\ t[i + 1] = es[j + 1]
    BY <1>1, <2>1
  <2> QED BY <2>1, <2>2, <2>3
<1> QED BY <1>1, <1>2 DEF TodoInv

\* The budget a chord still needs after one event more.
LEMMA BudgetStep ==
    ASSUME NEW c \in Context, InBudget(c), c.todo # <<>>, NEW c2 \in Context,
           c2.todo = Tail(c.todo), c2.events = c.events + 1,
           c2.spent_ms \in {c.spent_ms, c.spent_ms + Head(c.todo).wait}
    PROVE  InBudget(c2)
<1>1. PICK chord \in Chords, d \in Delays :
        /\ \A i \in DOMAIN c.todo : c.todo[i].wait <= d
        /\ c.events + Len(c.todo) = Len(chord) + 1
        /\ c.todo # <<>> => c.spent_ms + (Len(c.todo) - 1) * d <= Len(chord) * d
  BY DEF InBudget
<1>2. /\ c.todo \in Seq(EventType) /\ c.events \in Nat /\ c.spent_ms \in Nat /\ c2.spent_ms \in Nat
      /\ INPUT_MAX_EVENTS \in Nat
  BY InputAssumption DEF Context
<1>3. PICK es \in Seq(EventType) : es = c.todo
  BY <1>2
<1>4. es # <<>>
  BY <1>3
<1>5. /\ Tail(es) \in Seq(EventType) /\ Head(es) = es[1] /\ Head(es) \in EventType
      /\ Len(es) \in Nat /\ Len(es) >= 1 /\ Len(Tail(es)) = Len(es) - 1 /\ DOMAIN es = 1..Len(es)
      /\ DOMAIN Tail(es) = 1..(Len(es) - 1)
      /\ \A i \in 1..(Len(es) - 1) : Tail(es)[i] = es[i + 1]
  BY <1>4, TailFacts
<1>6. d \in Nat /\ Len(chord) \in Nat
  BY InputAssumption, ChordFacts
<1>7. \A i \in DOMAIN Tail(es) : Tail(es)[i].wait <= d
  BY <1>1, <1>3, <1>5
<1>8. c2.events + Len(Tail(es)) = Len(chord) + 1
  BY <1>1, <1>2, <1>3, <1>5, <1>6
<1>9. ASSUME Tail(es) # <<>>
      PROVE  c2.spent_ms + (Len(Tail(es)) - 1) * d <= Len(chord) * d
  <2>1. Len(Tail(es)) >= 1
    BY <1>5, <1>9, EmptySeq
  <2>2. PICK m \in Nat : Len(Tail(es)) = m + 1 /\ Len(es) = m + 2
    <3>1. PICK l \in Nat : l = Len(es) /\ l - 1 = Len(Tail(es))
      BY <1>5
    <3>2. l - 2 \in Nat /\ l - 1 = (l - 2) + 1 /\ l = (l - 2) + 2
      BY <2>1, <3>1
    <3> QED BY <3>1, <3>2
  <2>3. PICK q \in Nat : q = m * d
    BY <1>6
  <2>4. (m + 1) * d = q + d
    BY <1>6, <2>3
  <2>5. Head(es).wait <= d /\ Head(es).wait \in Nat
    BY <1>1, <1>3, <1>5 DEF EventType
  <2>6. c2.spent_ms <= c.spent_ms + d
    BY <1>2, <1>3, <1>6, <2>5
  <2>7. PICK z \in Nat : z = Len(chord) * d
    BY <1>6
  <2>8. c.spent_ms + (q + d) <= z
    <3>1. Len(c.todo) - 1 = m + 1
      BY <1>3, <2>2
    <3> QED BY <1>1, <1>3, <1>4, <2>4, <2>7, <3>1
  <2>9. c2.spent_ms + q <= z
    BY <1>2, <1>6, <2>6, <2>8
  <2>10. Len(Tail(es)) - 1 = m
    BY <2>2
  <2> QED BY <2>3, <2>7, <2>9, <2>10
<1>10. c2.todo = Tail(es)
  BY <1>3
<1> QED BY <1>7, <1>8, <1>9, <1>10 DEF InBudget

\* A chord is never cut short.
LEMMA ChordNotCut ==
    ASSUME NEW c \in Context, InBudget(c), c.todo # <<>>
    PROVE  c.events < INPUT_MAX_EVENTS /\ c.spent_ms < INPUT_MAX_BUDGET_MS
<1>1. PICK chord \in Chords, d \in Delays :
        /\ c.events + Len(c.todo) = Len(chord) + 1
        /\ c.spent_ms + (Len(c.todo) - 1) * d <= Len(chord) * d
  BY DEF InBudget
<1>2. PICK z \in Nat : z = Len(chord) * d /\ z < INPUT_MAX_BUDGET_MS
  BY InputAssumption, ChordFacts
<1>3. d \in Nat /\ Len(chord) \in Nat /\ Len(chord) < INPUT_MAX_EVENTS
  BY InputAssumption, ChordFacts
<1>4. c.todo \in Seq(EventType) /\ c.events \in Nat /\ c.spent_ms \in Nat
  BY InputAssumption DEF Context
<1>5. PICK m \in Nat : Len(c.todo) = m + 1
  <2>1. Len(c.todo) \in Nat /\ Len(c.todo) >= 1
    BY <1>4, TailFacts
  <2>2. Len(c.todo) - 1 \in Nat /\ Len(c.todo) = (Len(c.todo) - 1) + 1
    BY <2>1
  <2> QED BY <2>2
<1>6. PICK q \in Nat : q = m * d
  BY <1>3
<1>7. c.spent_ms + q <= z
  <2>1. Len(c.todo) - 1 = m
    BY <1>5
  <2> QED BY <1>1, <1>2, <1>6, <2>1
<1>8. INPUT_MAX_EVENTS \in Nat /\ INPUT_MAX_BUDGET_MS \in Nat
  BY InputAssumption
<1>9. c.events < INPUT_MAX_EVENTS
  BY <1>1, <1>3, <1>4, <1>5, <1>8
<1>10. c.spent_ms < INPUT_MAX_BUDGET_MS
  BY <1>2, <1>4, <1>7, <1>8
<1> QED BY <1>9, <1>10

\* What is held and remembered after one event more.
LEMMA HeldStep ==
    ASSUME NEW c \in Context, CallInv(c), c.pc = "writing", c.todo # <<>>,
           NEW c2 \in Context, NEW e, e = Head(c.todo),
           c2.pc = "writing", c2.op = c.op, c2.todo = Tail(c.todo),
           c2.held_mods = IF e.keeps = "modifier" THEN Append(c.held_mods, e.key) ELSE c.held_mods,
           c2.held_button = IF e.keeps = "button" THEN e.does = "down" ELSE c.held_button,
           c2.pressed = After(c.pressed, e)
    PROVE  HeldInv(c2)
<1>1. PICK es \in Seq(EventType) : es = c.todo
  BY DEF Context
<1>2. /\ Head(es) = es[1] /\ Head(es) \in EventType /\ Len(es) \in Nat /\ Len(es) >= 1
      /\ Len(Tail(es)) = Len(es) - 1 /\ DOMAIN es = 1..Len(es) /\ Tail(es) \in Seq(EventType)
      /\ DOMAIN Tail(es) = 1..(Len(es) - 1) /\ \A i \in 1..(Len(es) - 1) : Tail(es)[i] = es[i + 1]
  BY <1>1, TailFacts
<1>3. /\ e \in EventType /\ e = es[1] /\ 1 \in DOMAIN es
  BY <1>1, <1>2
<1>4. /\ Remembers(e)
      /\ Strikes(e) =>
            /\ c.op \in {"key", "type"} /\ 2 \in DOMAIN es /\ es[2].does = "up"
            /\ es[2].keeps = "none" /\ es[2].key = e.key
  <2>1. TodoInv(es, c.op)
    BY <1>1 DEF CallInv
  <2>2. 1 + 1 = 2
    OBVIOUS
  <2> QED BY <1>3, <2>1, <2>2 DEF TodoInv
<1>5. \/ c.pressed \subseteq Held(c)
      \/ e.does = "up" /\ e.keeps = "none" /\ c.pressed \subseteq Held(c) \cup {e.key}
  <2>1. HeldInv(c)
    BY DEF CallInv
  <2> QED BY <2>1, Zenon DEF HeldInv
<1>6. c.held_mods \in Seq(Modifiers) /\ c.held_button \in BOOLEAN
  BY DEF Context
<1>7. CASE Strikes(e)
  <2>1. e.does = "down" /\ e.keeps = "none"
    BY <1>7 DEF Strikes
  <2>2. Held(c2) = Held(c) /\ c2.pressed = c.pressed \cup {e.key}
    BY <2>1 DEF Held, After
  <2>3. c2.pressed \subseteq Held(c2) \cup {e.key}
    BY <1>5, <2>1, <2>2
  <2>4. Len(es) >= 2
    BY <1>2, <1>4, <1>7
  <2>5. PICK t \in Seq(EventType) : t = Tail(es) /\ t # <<>>
    <3>1. Len(Tail(es)) # 0 /\ Len(<<>>) = 0
      BY <1>2, <2>4
    <3>2. Tail(es) # <<>>
      BY <3>1, Zenon
    <3> QED BY <1>2, <3>2
  <2>6. Head(t) = es[2]
    <3>1. Head(t) = t[1]
      BY <2>5, TailFacts
    <3>2. 1 \in 1..(Len(es) - 1)
      BY <1>2, <2>4
    <3> QED BY <1>2, <2>5, <3>1, <3>2
  <2>7. c2.todo = t
    BY <1>1, <2>5
  <2> QED BY <1>4, <1>7, <2>3, <2>5, <2>6, <2>7 DEF HeldInv
<1>8. CASE e.does = "down" /\ e.keeps = "modifier"
  <2>1. e.key \in Modifiers
    BY <1>4, <1>8 DEF Remembers
  <2>2. PICK m \in Seq(Modifiers) : m = c.held_mods
    BY <1>6
  <2>3. PICK n : n = Append(m, e.key)
    OBVIOUS
  <2>4. /\ Len(m) \in Nat /\ DOMAIN m = 1..Len(m) /\ n \in Seq(Modifiers) /\ Len(n) = Len(m) + 1
        /\ DOMAIN n = 1..(Len(m) + 1)
        /\ (\A i \in 1..Len(m) : n[i] = m[i]) /\ n[Len(m) + 1] = e.key
    BY <2>1, <2>2, <2>3, LenProperties, AppendProperties
  <2>5. ToSet(m) \cup {e.key} \subseteq ToSet(n)
    BY <2>4 DEF ToSet
  <2>6. c2.held_mods = n /\ c2.held_button = c.held_button
    BY <1>8, <2>2, <2>3
  <2>7. Held(c) \cup {e.key} \subseteq Held(c2)
    BY <2>2, <2>5, <2>6 DEF Held
  <2>8. c2.pressed = c.pressed \cup {e.key}
    BY <1>8 DEF After
  <2> QED BY <1>5, <1>8, <2>7, <2>8 DEF HeldInv
<1>9. CASE e.does = "down" /\ e.keeps = "button"
  <2>1. e.key = Button
    BY <1>4, <1>9 DEF Remembers
  <2>2. c2.held_button = TRUE /\ c2.held_mods = c.held_mods
    BY <1>9
  <2>3. Held(c) \cup {Button} \subseteq Held(c2)
    BY <2>2 DEF Held
  <2>4. c2.pressed = c.pressed \cup {Button}
    BY <1>9, <2>1 DEF After
  <2> QED BY <1>5, <1>9, <2>3, <2>4 DEF HeldInv
<1>10. CASE e.does = "up" /\ e.keeps = "none"
  <2>1. Held(c2) = Held(c)
    BY <1>10 DEF Held
  <2>2. c2.pressed = c.pressed \ {e.key}
    BY <1>10 DEF After
  <2> QED BY <1>5, <2>1, <2>2 DEF HeldInv
<1>11. CASE e.does = "up" /\ e.keeps = "button"
  <2>1. e.key = Button
    BY <1>4, <1>11 DEF Remembers
  <2>2. c2.held_button = FALSE /\ c2.held_mods = c.held_mods
    BY <1>11
  <2>3. Held(c) \ {Button} \subseteq Held(c2)
    BY <2>2 DEF Held
  <2>4. c2.pressed = c.pressed \ {Button}
    BY <1>11, <2>1 DEF After
  <2> QED BY <1>5, <1>11, <2>3, <2>4 DEF HeldInv
<1>12. CASE e.does = "moves"
  <2>1. e.keeps = "none"
    BY <1>3, <1>4, <1>12 DEF Remembers, EventType
  <2>2. Held(c2) = Held(c) /\ c2.pressed = c.pressed
    BY <1>12, <2>1 DEF Held, After
  <2> QED BY <1>5, <1>12, <2>2 DEF HeldInv
<1>13. e.does \in {"down", "up", "moves"} /\ e.keeps \in {"none", "modifier", "button"}
  BY <1>3 DEF EventType
<1>14. e.keeps = "modifier" => e.does = "down"
  BY <1>4 DEF Remembers
<1> QED BY <1>7, <1>8, <1>9, <1>10, <1>11, <1>12, <1>13, <1>14 DEF Strikes

----------------------------------------------------------------------------
(* The actions.                                                            *)

LEMMA OpenKeeps ==
    ASSUME InputInv, NEW w \in Workers, NEW r \in Requests, _inject_open(w, r)
    PROVE  InputInv'
<1>1. PICK timer \in BOOLEAN :
         calls' = [calls EXCEPT ![w] = [Idle EXCEPT !.pc = "writing", !.op = r.op, !.timer = timer,
                                                    !.todo = Events(r)]]
  BY DEF _inject_open
<1>2. PICK es \in Seq(EventType) : es = Events(r) /\ TodoInv(es, r.op)
  BY RequestSound DEF SoundEvents
<1>3. PICK i \in Context : i = Idle
  BY IdleCall
<1>4. PICK c : c = [i EXCEPT !.pc = "writing", !.op = r.op, !.timer = timer, !.todo = es]
  OBVIOUS
<1>5. r.op \in Ops /\ r.delay \in Delays /\ r.delay \in Nat /\ (r.op = "key" => r.chord \in Chords)
  BY RequestFields
<1>6. c \in Context
  BY <1>3, <1>4, <1>5 DEF Context
<1>7. /\ c.pc = "writing" /\ c.op = r.op /\ c.todo = es /\ c.events = i.events
      /\ c.spent_ms = i.spent_ms /\ c.pressed = i.pressed
  BY <1>3, <1>4 DEF Context
<1>8. i.events = 0 /\ i.spent_ms = 0 /\ i.pressed = {}
  BY <1>3 DEF Idle
<1>9. ASSUME r.op = "key"
      PROVE  InBudget(c)
  <2>1. PICK chord \in Chords, d \in Delays : chord = r.chord /\ d = r.delay
    BY <1>5, <1>9
  <2>2. d \in Nat /\ Len(chord) \in Nat
    BY InputAssumption, ChordFacts
  <2>3. Events(r) = KeyEvents(r)
    BY <1>9 DEF Events
  <2>4. Len(es) = Len(chord) + 1 /\ \A j \in DOMAIN es : es[j].wait <= d
    BY <1>2, <2>1, <2>2, <2>3, KeySound
  <2>5. PICK z \in Nat : z = Len(chord) * d
    BY <2>2
  <2>6. c.events + Len(c.todo) = Len(chord) + 1
    BY <1>7, <1>8, <2>2, <2>4
  <2>7. c.spent_ms + (Len(c.todo) - 1) * d <= Len(chord) * d
    <3>1. Len(c.todo) - 1 = Len(chord)
      BY <1>7, <2>2, <2>4
    <3>2. 0 + z <= z
      BY <2>5
    <3> QED BY <1>7, <1>8, <2>5, <3>1, <3>2
  <2> QED BY <1>7, <2>4, <2>6, <2>7 DEF InBudget
<1>10. CallInv(c)
  BY <1>2, <1>7, <1>8, <1>9 DEF CallInv, HeldInv
<1>11. calls' = [calls EXCEPT ![w] = c]
  BY <1>1, <1>2, <1>3, <1>4
<1>12. /\ calls' \in [Workers -> Context] /\ \A v \in Workers : CallInv(calls'[v])
       /\ calls'[w] = c /\ \A v \in Workers : v # w => calls'[v] = calls[v]
  BY <1>6, <1>10, <1>11, OneCall
<1>13. Rest /\ down \subseteq Keys /\ left \subseteq Keys /\ DownInv /\ CallInv(calls[w])
  BY InvParts
<1>14. calls[w].pc = "idle" /\ down' = down /\ left' = left
  BY DEF _inject_open
<1>15. calls[w].pressed = {}
  BY <1>13, <1>14 DEF CallInv
<1>16. DownInv'
  BY <1>12, <1>13, <1>14, <1>15 DEF DownInv
<1>17. Rest'
  BY <1>13, InputAssumption DEF _inject_open, Rest
<1> QED BY <1>12, <1>13, <1>14, <1>16, <1>17, InvPartsNext

LEMMA TurnedAwayKeeps ==
    ASSUME InputInv, NEW w \in Workers, NEW r \in Requests, Refuses(w, r) \/ OpenFails(w, r)
    PROVE  InputInv'
<1>1. /\ made < MaxCalls /\ made' = made + 1 /\ enabled' = enabled /\ calls' = calls
      /\ down' = down /\ left' = left /\ kills' = kills
  BY DEF Refuses, OpenFails
<1>2. /\ Rest /\ down \subseteq Keys /\ left \subseteq Keys /\ DownInv
      /\ calls \in [Workers -> Context] /\ \A v \in Workers : CallInv(calls[v])
  BY InvParts
<1>3. Rest'
  BY <1>1, <1>2, InputAssumption DEF Rest
<1>4. DownInv'
  BY <1>1, <1>2 DEF DownInv
<1> QED BY <1>1, <1>2, <1>3, <1>4, InvPartsNext

LEMMA WriteKeeps ==
    ASSUME InputInv, NEW w \in Workers, _write_event(w)
    PROVE  InputInv'
<1>1. /\ Rest /\ down \subseteq Keys /\ left \subseteq Keys /\ DownInv
      /\ calls \in [Workers -> Context] /\ CallInv(calls[w])
  BY InvParts
<1>2. PICK c \in Context : c = calls[w] /\ CallInv(c)
  BY <1>1
<1>3. c.pc = "writing" /\ c.todo # <<>>
  BY <1>2 DEF _write_event
<1>4. ~(c.events >= INPUT_MAX_EVENTS)
  BY <1>2 DEF _write_event, OverBudget
<1>5. PICK e : e = Head(c.todo)
  OBVIOUS
<1>6. c.todo \in Seq(EventType) /\ c.events \in 0..INPUT_MAX_EVENTS /\ c.spent_ms \in Nat
      /\ c.held_mods \in Seq(Modifiers) /\ c.held_button \in BOOLEAN /\ c.pressed \subseteq Keys
      /\ c.timer \in BOOLEAN
  BY DEF Context
<1>7. e \in EventType /\ Tail(c.todo) \in Seq(EventType)
  BY <1>3, <1>5, <1>6, TailFacts
<1>8. e.wait \in Nat /\ e.key \in Keys /\ e.does \in {"down", "up", "moves"}
  BY <1>7 DEF EventType
<1>9. Remembers(e) /\ TodoInv(Tail(c.todo), c.op)
  <2>1. TodoInv(c.todo, c.op)
    BY <1>2 DEF CallInv
  <2>2. 1 \in DOMAIN c.todo /\ e = c.todo[1]
    BY <1>3, <1>5, <1>6, TailFacts
  <2>3. Remembers(e)
    BY <2>1, <2>2 DEF TodoInv
  <2>4. TodoInv(Tail(c.todo), c.op)
    BY <1>3, <1>6, <2>1, TailSound
  <2> QED BY <2>3, <2>4
<1>10. PICK ev : ev = c.events + 1
  OBVIOUS
<1>11. PICK sp : sp = IF c.timer THEN c.spent_ms + e.wait ELSE c.spent_ms
  OBVIOUS
<1>12. PICK hm : hm = IF e.keeps = "modifier" THEN Append(c.held_mods, e.key) ELSE c.held_mods
  OBVIOUS
<1>13. PICK hb \in BOOLEAN : hb = IF e.keeps = "button" THEN e.does = "down" ELSE c.held_button
  BY <1>6
<1>14. PICK pr : pr = After(c.pressed, e)
  OBVIOUS
<1>15. /\ ev \in 0..INPUT_MAX_EVENTS /\ sp \in Nat /\ sp \in {c.spent_ms, c.spent_ms + e.wait}
  <2>1. INPUT_MAX_EVENTS \in Nat
    BY InputAssumption
  <2>2. ev \in 0..INPUT_MAX_EVENTS
    BY <1>4, <1>6, <1>10, <2>1
  <2>3. c.spent_ms + e.wait \in Nat
    BY <1>6, <1>8
  <2>4. sp \in {c.spent_ms, c.spent_ms + e.wait}
    BY <1>11
  <2> QED BY <1>6, <2>2, <2>3, <2>4
<1>16. hm \in Seq(Modifiers)
  <2>1. e.keeps = "modifier" => e.key \in Modifiers
    BY <1>9 DEF Remembers
  <2>2. CASE e.keeps = "modifier"
    <3>1. e.key \in Modifiers /\ c.held_mods \in Seq(Modifiers)
      BY <1>6, <2>1, <2>2
    <3>2. Append(c.held_mods, e.key) \in Seq(Modifiers)
      BY <3>1, AppendProperties
    <3> QED BY <1>12, <2>2, <3>2
  <2> QED BY <1>6, <1>12, <2>2
<1>17. pr \in SUBSET Keys
  BY <1>6, <1>8, <1>14 DEF After
<1>18. PICK c2 : c2 = [c EXCEPT !.todo = Tail(c.todo), !.events = ev, !.spent_ms = sp,
                                !.held_mods = hm, !.held_button = hb, !.pressed = pr]
  OBVIOUS
<1>19. c2 \in Context
  BY <1>7, <1>15, <1>16, <1>17, <1>18 DEF Context
<1>20. /\ c2.pc = c.pc /\ c2.op = c.op /\ c2.todo = Tail(c.todo) /\ c2.events = ev
       /\ c2.spent_ms = sp /\ c2.held_mods = hm /\ c2.held_button = hb /\ c2.pressed = pr
  BY <1>18 DEF Context
<1>21. HeldInv(c2)
  <2>1. /\ c2.pc = "writing"
        /\ c2.held_mods = IF e.keeps = "modifier" THEN Append(c.held_mods, e.key) ELSE c.held_mods
        /\ c2.held_button = IF e.keeps = "button" THEN e.does = "down" ELSE c.held_button
        /\ c2.pressed = After(c.pressed, e)
    BY <1>3, <1>12, <1>13, <1>14, <1>20
  <2> QED BY <1>2, <1>3, <1>5, <1>19, <1>20, <2>1, HeldStep
<1>22. c.op = "key" => InBudget(c2)
  <2>1. c.op = "key" => InBudget(c)
    BY <1>2, <1>3 DEF CallInv
  <2>2. c2.events = c.events + 1 /\ c2.spent_ms \in {c.spent_ms, c.spent_ms + Head(c.todo).wait}
    BY <1>5, <1>10, <1>15, <1>20
  <2> QED BY <1>3, <1>19, <1>20, <2>1, <2>2, BudgetStep
<1>23. CallInv(c2)
  BY <1>3, <1>9, <1>20, <1>21, <1>22 DEF CallInv
<1>24. calls' = [calls EXCEPT ![w] = c2]
  BY <1>2, <1>5, <1>10, <1>11, <1>12, <1>13, <1>14, <1>18 DEF _write_event
<1>25. /\ calls' \in [Workers -> Context] /\ \A v \in Workers : CallInv(calls'[v])
       /\ calls'[w] = c2 /\ \A v \in Workers : v # w => calls'[v] = calls[v]
  BY <1>19, <1>23, <1>24, OneCall
<1>26. down' = After(down, e) /\ left' = left \cap down' /\ enabled' = enabled /\ made' = made /\ kills' = kills
  BY <1>2, <1>5 DEF _write_event
<1>27. down' \subseteq Keys /\ left' \subseteq Keys
  BY <1>1, <1>8, <1>26 DEF After
<1>28. ASSUME NEW k \in down'
       PROVE  k \in left' \/ \E v \in Workers : k \in calls'[v].pressed
  <2>1. CASE k \in down /\ k \in left
    BY <1>26, <2>1
  <2>2. CASE k \in down /\ k \notin left
    <3>1. PICK v \in Workers : k \in calls[v].pressed
      BY <1>1, <2>2 DEF DownInv
    <3>2. CASE v = w
      <4>1. k \in pr
        BY <1>2, <1>14, <1>26, <3>1, <3>2 DEF After
      <4> QED BY <1>20, <1>25, <4>1
    <3> QED BY <1>25, <3>1, <3>2
  <2>3. CASE k \notin down
    <3>1. e.does = "down" /\ k = e.key
      BY <1>26, <2>3 DEF After
    <3>2. k \in pr
      BY <1>14, <3>1 DEF After
    <3> QED BY <1>20, <1>25, <3>2
  <2> QED BY <2>1, <2>2, <2>3
<1>29. DownInv'
  BY <1>28 DEF DownInv
<1>30. Rest'
  BY <1>1, <1>26 DEF Rest
<1> QED BY <1>25, <1>27, <1>29, <1>30, InvPartsNext

LEMMA EndsKeeps ==
    ASSUME InputInv, NEW w \in Workers, Ends(w)
    PROVE  InputInv'
<1>1. /\ Rest /\ down \subseteq Keys /\ left \subseteq Keys /\ DownInv
      /\ calls \in [Workers -> Context] /\ CallInv(calls[w])
  BY InvParts
<1>2. PICK c \in Context : c = calls[w] /\ CallInv(c)
  BY <1>1
<1>3. c.pc = "writing"
  BY <1>2 DEF Ends
<1>4. TodoInv(c.todo, c.op) /\ HeldInv(c) /\ (c.op = "key" => InBudget(c)) /\ c.truncated \in BOOLEAN
  BY <1>2, <1>3 DEF CallInv, Context
<1>5. PICK t \in BOOLEAN : /\ calls' = [calls EXCEPT ![w] = [c EXCEPT !.pc = "closing", !.truncated = t]]
                           /\ c.todo = <<>> \/ (t /\ OverBudget(w))
  <2>1. CASE c.todo = <<>> /\ calls' = [calls EXCEPT ![w].pc = "closing"]
    <3>1. [c EXCEPT !.pc = "closing"] = [c EXCEPT !.pc = "closing", !.truncated = c.truncated]
      BY DEF Context
    <3>2. calls' = [calls EXCEPT ![w] = [c EXCEPT !.pc = "closing"]]
      BY <1>1, <1>2, <2>1
    <3>3. calls' = [calls EXCEPT ![w] = [c EXCEPT !.pc = "closing", !.truncated = c.truncated]]
      BY <3>1, <3>2
    <3>4. c.truncated \in BOOLEAN
      BY <1>4
    <3> WITNESS c.truncated \in BOOLEAN
    <3> QED BY <2>1, <3>3
  <2>2. CASE /\ c.todo # <<>> /\ OverBudget(w)
             /\ calls' = [calls EXCEPT ![w].pc = "closing", ![w].truncated = TRUE]
    <3>1. calls' = [calls EXCEPT ![w] = [c EXCEPT !.pc = "closing", !.truncated = TRUE]]
      BY <1>1, <1>2, <2>2
    <3> QED BY <2>2, <3>1
  <2> QED BY <1>2, <2>1, <2>2 DEF Ends
<1>6. PICK c2 : c2 = [c EXCEPT !.pc = "closing", !.truncated = t]
  OBVIOUS
<1>7. c2 \in Context
  BY <1>6 DEF Context
<1>8. /\ c2.pc = "closing" /\ c2.op = c.op /\ c2.todo = c.todo /\ c2.truncated = t
      /\ c2.held_mods = c.held_mods /\ c2.held_button = c.held_button /\ c2.pressed = c.pressed
  BY <1>6 DEF Context
<1>9. OverBudget(w) /\ c.todo # <<>> => c.op # "key"
  <2>1. c.events \in Nat /\ c.spent_ms \in Nat /\ INPUT_MAX_EVENTS \in Nat /\ INPUT_MAX_BUDGET_MS \in Nat
    BY InputAssumption DEF Context
  <2>2. c.op = "key" /\ c.todo # <<>> =>
            c.events < INPUT_MAX_EVENTS /\ c.spent_ms < INPUT_MAX_BUDGET_MS
    BY <1>4, ChordNotCut
  <2> QED BY <1>2, <2>1, <2>2 DEF OverBudget
<1>10. Held(c2) = Held(c)
  BY <1>8 DEF Held
<1>11. HeldInv(c2)
  <2>1. CASE c.pressed \subseteq Held(c)
    BY <1>8, <1>10, <2>1 DEF HeldInv
  <2>2. CASE c.todo # <<>> /\ c.op \in {"key", "type"}
    <3>1. c.op = "type" /\ t
      BY <1>5, <1>9, <2>2
    <3> QED BY <1>8, <3>1 DEF HeldInv
  <2> QED BY <1>3, <1>4, <2>1, <2>2 DEF HeldInv
<1>12. CallInv(c2)
  BY <1>4, <1>8, <1>11 DEF CallInv
<1>13. calls' = [calls EXCEPT ![w] = c2]
  BY <1>5, <1>6
<1>14. /\ calls' \in [Workers -> Context] /\ \A v \in Workers : CallInv(calls'[v])
       /\ calls'[w] = c2 /\ \A v \in Workers : v # w => calls'[v] = calls[v]
  BY <1>7, <1>12, <1>13, OneCall
<1>15. enabled' = enabled /\ down' = down /\ left' = left /\ made' = made /\ kills' = kills
  BY DEF Ends
<1>16. \A v \in Workers : calls'[v].pressed = calls[v].pressed
  BY <1>2, <1>8, <1>14
<1>17. DownInv'
  BY <1>1, <1>15, <1>16 DEF DownInv
<1>18. Rest'
  BY <1>1, <1>15 DEF Rest
<1> QED BY <1>1, <1>14, <1>15, <1>17, <1>18, InvPartsNext

\* Letting a key go, by a context that no longer remembers it.
LEMMA LetsGoKeeps ==
    ASSUME InputInv, NEW w \in Workers, NEW key, NEW c \in Context, LetsGo(w, key, c),
           c.pc = "closing", c.pressed = calls[w].pressed, TodoInv(c.todo, c.op),
           \/ c.pressed \ {key} \subseteq Held(c)
           \/ (c.op = "type" /\ c.truncated)
    PROVE  InputInv'
<1>1. Rest /\ down \subseteq Keys /\ left \subseteq Keys /\ DownInv
  BY InvParts
<1>2. PICK c2 : c2 = [c EXCEPT !.pressed = c.pressed \ {key}]
  OBVIOUS
<1>3. c2 \in Context
  BY <1>2 DEF Context
<1>4. /\ c2.pc = "closing" /\ c2.op = c.op /\ c2.todo = c.todo /\ c2.truncated = c.truncated
      /\ c2.held_mods = c.held_mods /\ c2.held_button = c.held_button /\ c2.pressed = c.pressed \ {key}
  BY <1>2 DEF Context
<1>5. Held(c2) = Held(c)
  BY <1>4 DEF Held
<1>6. CallInv(c2)
  BY <1>4, <1>5 DEF CallInv, HeldInv
<1>7. calls' = [calls EXCEPT ![w] = c2]
  BY <1>2 DEF LetsGo
<1>8. /\ calls' \in [Workers -> Context] /\ \A v \in Workers : CallInv(calls'[v])
      /\ calls'[w] = c2 /\ \A v \in Workers : v # w => calls'[v] = calls[v]
  BY <1>3, <1>6, <1>7, OneCall
<1>9. /\ enabled' = enabled /\ down' = down \ {key} /\ left' = left \ {key}
      /\ made' = made /\ kills' = kills
  BY DEF LetsGo
<1>10. \A v \in Workers : calls[v].pressed \ {key} \subseteq calls'[v].pressed
  BY <1>4, <1>8
<1>11. DownInv'
  BY <1>1, <1>9, <1>10 DEF DownInv
<1>12. Rest'
  BY <1>1, <1>9 DEF Rest
<1>13. down' \subseteq Keys /\ left' \subseteq Keys
  BY <1>1, <1>9
<1> QED BY <1>8, <1>11, <1>12, <1>13, InvPartsNext

LEMMA ClosingHeld ==
    ASSUME NEW c \in Context, HeldInv(c), c.pc = "closing"
    PROVE  c.pressed \subseteq Held(c) \/ (c.op = "type" /\ c.truncated)
<1>1. c.truncated \in BOOLEAN
  BY DEF Context
<1>2. CASE c.pressed \subseteq Held(c)
  BY <1>2
<1>3. CASE c.pc = "closing" /\ c.op = "type" /\ c.truncated
  BY <1>3
<1>4. CASE c.pc = "writing"
  BY <1>4
<1> QED BY <1>2, <1>3, <1>4, Zenon DEF HeldInv

LEMMA ReleaseButtonsKeeps ==
    ASSUME InputInv, NEW w \in Workers, _release_buttons(w)
    PROVE  InputInv'
<1>1. calls \in [Workers -> Context] /\ CallInv(calls[w])
  BY InvParts
<1>2. PICK c \in Context : c = calls[w] /\ CallInv(c) /\ c.pc = "closing"
  BY <1>1 DEF _release_buttons
<1>3. PICK c2 : c2 = [c EXCEPT !.held_button = FALSE]
  OBVIOUS
<1>4. c2 \in Context
  BY <1>3 DEF Context
<1>5. /\ c2.pc = "closing" /\ c2.op = c.op /\ c2.todo = c.todo /\ c2.truncated = c.truncated
      /\ c2.held_mods = c.held_mods /\ c2.pressed = c.pressed
  BY <1>2, <1>3 DEF Context
<1>6. Held(c) \ {Button} \subseteq Held(c2)
  BY <1>5 DEF Held
<1>7. c.pressed \subseteq Held(c) \/ (c.op = "type" /\ c.truncated)
  BY <1>2, ClosingHeld DEF CallInv
<1>8. c2.pressed \ {Button} \subseteq Held(c2) \/ (c2.op = "type" /\ c2.truncated)
  BY <1>5, <1>6, <1>7
<1>9. LetsGo(w, Button, c2)
  BY <1>2, <1>3 DEF _release_buttons
<1>10. TodoInv(c2.todo, c2.op) /\ c2.pressed = calls[w].pressed
  BY <1>2, <1>5 DEF CallInv
<1> QED BY <1>4, <1>5, <1>8, <1>9, <1>10, LetsGoKeeps

LEMMA FrontKeeps ==
    ASSUME NEW m \in Seq(Modifiers), m # <<>>
    PROVE  Front(m) \in Seq(Modifiers) /\ ToSet(m) \ {Last(m)} \subseteq ToSet(Front(m))
<1>1. Len(m) \in Nat /\ Len(m) >= 1 /\ DOMAIN m = 1..Len(m)
  BY EmptySeq, LenProperties
<1>2. PICK f : f = [j \in 1..(Len(m) - 1) |-> m[j]]
  OBVIOUS
<1>3. Front(m) = f
  BY <1>1, <1>2 DEF Front
<1>4. Len(m) - 1 \in Nat
  BY <1>1
<1>5. f \in Seq(Modifiers) /\ DOMAIN f = 1..(Len(m) - 1) /\ \A j \in 1..(Len(m) - 1) : f[j] = m[j]
  <2>1. \A j \in 1..(Len(m) - 1) : m[j] \in Modifiers
    BY <1>1
  <2> QED BY <1>2, <1>4, <2>1
<1>6. ASSUME NEW k \in ToSet(m), k # Last(m)
      PROVE  k \in ToSet(f)
  <2>1. PICK j \in DOMAIN m : k = m[j]
    BY DEF ToSet
  <2>2. j \in 1..(Len(m) - 1)
    BY <1>1, <1>6, <2>1 DEF Last
  <2> QED BY <1>5, <2>1, <2>2 DEF ToSet
<1> QED BY <1>3, <1>5, <1>6

LEMMA ReleaseModifiersKeeps ==
    ASSUME InputInv, NEW w \in Workers, _release_modifiers(w)
    PROVE  InputInv'
<1>1. calls \in [Workers -> Context] /\ CallInv(calls[w])
  BY InvParts
<1>2. PICK c \in Context : c = calls[w] /\ CallInv(c) /\ c.pc = "closing" /\ c.held_mods # <<>>
  BY <1>1 DEF _release_modifiers
<1>3. PICK m \in Seq(Modifiers) : m = c.held_mods /\ m # <<>>
  BY <1>2 DEF Context
<1>4. PICK f \in Seq(Modifiers) : f = Front(m) /\ ToSet(m) \ {Last(m)} \subseteq ToSet(f)
  BY <1>3, FrontKeeps
<1>5. PICK key : key = Last(m)
  OBVIOUS
<1>6. PICK c2 : c2 = [c EXCEPT !.held_mods = f]
  OBVIOUS
<1>7. c2 \in Context
  BY <1>6 DEF Context
<1>8. /\ c2.pc = "closing" /\ c2.op = c.op /\ c2.todo = c.todo /\ c2.truncated = c.truncated
      /\ c2.held_mods = f /\ c2.held_button = c.held_button /\ c2.pressed = c.pressed
  BY <1>2, <1>6 DEF Context
<1>9. Held(c) \ {key} \subseteq Held(c2)
  BY <1>3, <1>4, <1>5, <1>8 DEF Held
<1>10. c.pressed \subseteq Held(c) \/ (c.op = "type" /\ c.truncated)
  BY <1>2, ClosingHeld DEF CallInv
<1>11. c2.pressed \ {key} \subseteq Held(c2) \/ (c2.op = "type" /\ c2.truncated)
  BY <1>8, <1>9, <1>10
<1>12. LetsGo(w, key, c2)
  BY <1>2, <1>3, <1>4, <1>5, <1>6 DEF _release_modifiers
<1>13. TodoInv(c2.todo, c2.op) /\ c2.pressed = calls[w].pressed
  BY <1>2, <1>8 DEF CallInv
<1> QED BY <1>7, <1>8, <1>11, <1>12, <1>13, LetsGoKeeps

LEMMA CloseKeeps ==
    ASSUME InputInv, NEW w \in Workers, _inject_close(w) \/ Killed(w)
    PROVE  InputInv'
<1>1. /\ Rest /\ down \subseteq Keys /\ left \subseteq Keys /\ DownInv
      /\ calls \in [Workers -> Context] /\ CallInv(calls[w])
  BY InvParts
<1>2. PICK c \in Context : c = calls[w] /\ CallInv(c)
  BY <1>1
<1>3. PICK n \in Context : n \in {Idle, [Idle EXCEPT !.pc = "gone"]} /\ CallInv(n) /\ n.pressed = {}
                           /\ calls' = [calls EXCEPT ![w] = n]
  BY IdleCall DEF _inject_close, Killed
<1>4. /\ calls' \in [Workers -> Context] /\ \A v \in Workers : CallInv(calls'[v])
      /\ calls'[w] = n /\ \A v \in Workers : v # w => calls'[v] = calls[v]
  BY <1>3, OneCall
<1>5. /\ left \subseteq left' /\ left' \subseteq left \cup c.pressed /\ c.pressed \subseteq left'
  <2>1. CASE Killed(w)
    BY <1>2, <2>1 DEF Killed
  <2>2. CASE _inject_close(w)
    <3>1. c.pc = "closing" /\ ~c.held_button /\ c.held_mods = <<>>
      BY <1>2, <2>2 DEF _inject_close
    <3>2. DOMAIN <<>> = {}
      BY EmptySeq
    <3>3. Held(c) = {}
      BY <3>1, <3>2 DEF Held, ToSet
    <3>4. c.pressed \subseteq Held(c) \/ (c.op = "type" /\ c.truncated)
      BY <1>2, <3>1, ClosingHeld DEF CallInv
    <3>5. c.pressed = {} \/ (c.op = "type" /\ c.truncated)
      BY <3>3, <3>4
    <3> QED BY <1>2, <2>2, <3>5 DEF _inject_close
  <2> QED BY <2>1, <2>2
<1>6. down' = down /\ enabled' = enabled /\ made' = made
  BY DEF _inject_close, Killed
<1>7. DownInv'
  BY <1>1, <1>2, <1>4, <1>5, <1>6 DEF DownInv
<1>8. c.pressed \subseteq Keys
  BY DEF Context
<1>9. Rest'
  BY <1>1, <1>6, InputAssumption DEF Rest, _inject_close, Killed
<1> QED BY <1>1, <1>4, <1>5, <1>6, <1>7, <1>8, <1>9, InvPartsNext

LEMMA InitKeepsInput == InputInit => InputInv
<1> SUFFICES ASSUME InputInit PROVE InputInv
  OBVIOUS
<1>1. calls \in [Workers -> Context] /\ \A w \in Workers : CallInv(calls[w])
  BY IdleCall DEF InputInit
<1>2. Rest /\ down \subseteq Keys /\ left \subseteq Keys /\ DownInv
  BY InputAssumption DEF InputInit, Rest, DownInv
<1> QED BY <1>1, <1>2, InvParts

LEMMA NextKeepsInput == InputInv /\ [InputNext]_inputVars => InputInv'
<1> SUFFICES ASSUME InputInv, [InputNext]_inputVars PROVE InputInv'
  OBVIOUS
<1>1. CASE UNCHANGED inputVars
  <2>1. /\ enabled' = enabled /\ calls' = calls /\ down' = down /\ left' = left
        /\ made' = made /\ kills' = kills
    BY <1>1 DEF inputVars
  <2>2. /\ Rest /\ down \subseteq Keys /\ left \subseteq Keys /\ DownInv
        /\ calls \in [Workers -> Context] /\ \A v \in Workers : CallInv(calls[v])
    BY InvParts
  <2>3. Rest' /\ DownInv'
    BY <2>1, <2>2 DEF Rest, DownInv
  <2> QED BY <2>1, <2>2, <2>3, InvPartsNext
<1>2. CASE InputNext
  <2>1. PICK w \in Workers :
        \/ \E r \in Requests : Refuses(w, r) \/ _inject_open(w, r) \/ OpenFails(w, r)
        \/ _write_event(w) \/ Ends(w)
        \/ _release_buttons(w) \/ _release_modifiers(w) \/ _inject_close(w)
        \/ Killed(w)
    BY <1>2 DEF InputNext
  <2> QED BY <2>1, TurnedAwayKeeps, OpenKeeps, WriteKeeps, EndsKeeps, ReleaseButtonsKeeps,
             ReleaseModifiersKeeps, CloseKeeps
<1> QED BY <1>1, <1>2

(* Every key a handler puts down is one its context remembers, or goes up  *)
(* with its next event; a chord is written to its end within both budgets; *)
(* and everything the machine takes to be held is held by a call still     *)
(* being served, or was left by a cut input.type or a dead worker          *)
(* (_write_event, _push_modifier, _inject_close in methods/input.c).       *)
THEOREM InputInvariant == InputSpec => []InputInv
<1> QED BY InitKeepsInput, NextKeepsInput, PTL DEF InputSpec

(* Whatever the workers interleave and wherever the budgets cut a call,    *)
(* once every call has ended no key, modifier or button stays held but     *)
(* what a cut input.type or a worker killed by an exception left: the      *)
(* releases of _inject_close (methods/input.c) undo all the rest.          *)
THEOREM NothingIsLeftHeld == InputSpec => []NothingStaysHeld
<1>1. InputInv => NothingStaysHeld
  BY DEF InputInv, NothingStaysHeld
<1> QED BY <1>1, InputInvariant, PTL

=============================================================================
