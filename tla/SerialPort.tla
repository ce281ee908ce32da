------------------------------ MODULE SerialPort ------------------------------
(***************************************************************************)
(* The MCU's serial port of one target: the capture that logs it           *)
(* (transports/serial_capture.py, tools/serial.py) and the power.* tools   *)
(* that drive the MCU's shell over it (tools/power.py, transports/p18.py). *)
(*                                                                         *)
(* serial.* tools run to their end on the event loop; the capture's reader *)
(* is a thread; a power.* tool checks on the loop and then works the port  *)
(* in a thread.  Bytes are counted, not told apart.  Reading the log back  *)
(* (serial.read, tail, status) changes nothing and is left out.            *)
(***************************************************************************)
EXTENDS Naturals, FiniteSets

CONSTANTS
    Calls,      \* power.* calls that may be under way at a time
    MaxReaders, \* bound on reader threads
    MaxBytes,   \* bound on the log
    MaxCalls,   \* bound on power.* calls
    MaxFaults   \* bound on port errors, stuck writes and dying daemons

ASSUME SerialAssumption ==
    IsFiniteSet(Calls) /\ {MaxReaders, MaxBytes, MaxCalls, MaxFaults} \subseteq Nat

VARIABLES
    exclusive,  \* whether a port can be opened once only (Windows) or not (POSIX)
    hasMcpd,    \* whether the target has an MCPd channel to judge the board by
    \* SerialCapture
    thread,     \* the reader it knows of; 0 is none
    stopping,   \* its stop event
    readers,    \* reader threads that are alive
    stuck,      \* those held up in a write of the log
    started,    \* readers so far
    log, total, \* bytes in the log file, and its count of them
    \* power.* calls and the board
    power,      \* power.* calls under way
    calls,
    board,      \* "off", "booting" or "up" (its daemon answers)
    stream,     \* the MCU's continuous output
    wedged,     \* which call's command wedged the MCU
    overstayed, \* history: a stop gave up waiting for its reader
    faults

capture == <<thread, stopping, readers, stuck, started, log, total, overstayed>>
mcu == <<power, calls, board, stream, wedged>>
config == <<exclusive, hasMcpd>>
serialVars == <<exclusive, hasMcpd, thread, stopping, readers, stuck, started, log, total,
                power, calls, board, stream, wedged, overstayed, faults>>

Commands == {"p", "s", "query", "q", "watch"}
NoPowerCall == [pc |-> "idle", cmd |-> "p", force |-> FALSE, unjudged |-> FALSE, offSince |-> FALSE]

SerialTypeOK ==
    /\ exclusive \in BOOLEAN /\ hasMcpd \in BOOLEAN
    /\ thread \in 0..MaxReaders /\ stopping \in BOOLEAN
    /\ readers \subseteq 1..started /\ stuck \subseteq readers /\ started \in 0..MaxReaders
    /\ log \in 0..MaxBytes /\ total \in 0..MaxBytes
    /\ power \in [Calls -> [pc: {"idle", "open", "send", "watching"}, cmd: Commands,
                            force: BOOLEAN, unjudged: BOOLEAN, offSince: BOOLEAN]]
    /\ calls \in 0..MaxCalls /\ board \in {"off", "booting", "up"}
    /\ stream \in BOOLEAN /\ wedged \in {"no"} \cup {"forced", "unjudged", "raced", "judged"}
    /\ overstayed \in BOOLEAN /\ faults \in 0..MaxFaults

SerialInit ==
    /\ exclusive \in BOOLEAN /\ hasMcpd \in BOOLEAN
    /\ thread = 0 /\ stopping = FALSE /\ readers = {} /\ stuck = {} /\ started = 0
    /\ log = 0 /\ total = 0 /\ power = [c \in Calls |-> NoPowerCall] /\ calls = 0
    /\ board \in {"off", "up"} /\ stream = FALSE /\ wedged = "no" /\ overstayed = FALSE /\ faults = 0

Fault == faults < MaxFaults /\ faults' = faults + 1

running == thread \in readers
Driving == {c \in Calls : power[c].pc \in {"send", "watching"}}
PortTaken == exclusive /\ (readers # {} \/ Driving # {})

----------------------------------------------------------------------------
(* The capture.                                                            *)

(* start: the log is removed and the count reset before the port is opened, *)
(* and the stop event is cleared for every reader there is.                *)
start(truncate) ==
    /\ stopping' = FALSE /\ total' = 0 /\ log' = IF truncate THEN 0 ELSE log
    /\ \/ /\ ~PortTaken
          /\ started' = started + 1 /\ thread' = started' /\ readers' = readers \cup {started'}
          /\ UNCHANGED faults
       \/ PortTaken /\ UNCHANGED <<started, thread, readers, faults>>
       \/ Fault /\ UNCHANGED <<started, thread, readers>>

serial_start(truncate) ==
    /\ ~running /\ started < MaxReaders
    /\ start(truncate)
    /\ UNCHANGED <<config, stuck, mcu, overstayed>>

(* _run, once around its loop.                                             *)
Read(r) ==
    /\ r \in readers \ stuck /\ ~stopping
    /\ log < MaxBytes /\ log' = log + 1 /\ total' = IF total < MaxBytes THEN total + 1 ELSE total
    /\ UNCHANGED <<config, thread, stopping, readers, stuck, started, mcu, overstayed, faults>>
Ends(r) ==
    /\ r \in readers \ stuck
    /\ \/ stopping /\ UNCHANGED faults
       \/ ~stopping /\ Fault     \* in_waiting or read raised, or an older reader, at its
                                 \* end, took the port object away before this one began
    /\ readers' = readers \ {r}
    /\ UNCHANGED <<config, thread, stopping, stuck, started, log, total, mcu, overstayed>>
Stuck(r) ==
    /\ r \in readers \ stuck /\ Fault /\ stuck' = stuck \cup {r}
    /\ UNCHANGED <<config, thread, stopping, readers, started, log, total, mcu, overstayed>>
Unstuck(r) ==
    /\ r \in stuck /\ stuck' = stuck \ {r}
    /\ UNCHANGED <<config, thread, stopping, readers, started, log, total, mcu, overstayed, faults>>

stopUnjoined == stopping' = TRUE /\ thread' = 0 /\ UNCHANGED <<readers, overstayed>>

(* stop: the join waits for the reader, but no longer than 2 s.            *)
stop ==
    /\ stopping' = TRUE /\ thread' = 0
    /\ IF thread \in stuck THEN overstayed' = TRUE /\ UNCHANGED readers
                           ELSE readers' = readers \ {thread} /\ UNCHANGED overstayed

serial_stop ==
    /\ running /\ stop
    /\ UNCHANGED <<config, stuck, started, log, total, mcu, faults>>

clear_log == log' = 0 /\ total' = 0

(* serial_clear: only with no capture running.                             *)
serial_clear ==
    /\ ~running /\ clear_log
    /\ UNCHANGED <<config, thread, stopping, readers, stuck, started, mcu, overstayed, faults>>

----------------------------------------------------------------------------
(* power.* tools.                                                          *)

\* What a cold MCU survives.
ColdSafeAnyShort(cmd) == cmd \in {"p", "s", "q"}
ColdSafe(cmd) == cmd \in {"p", "s"}

_daemon_reachable == board = "up"

(* Judged by whether the daemon can be reached.                            *)
_refuse_if_board_cold(cmd, force) == ~ColdSafe(cmd) /\ ~force /\ hasMcpd /\ ~_daemon_reachable

(* The checks, on the loop (confirm is given, a channel is configured).    *)
PowerBegin(c, cmd, force) ==
    /\ power[c].pc = "idle" /\ calls < MaxCalls /\ calls' = calls + 1
    /\ power' = IF running \/ _refuse_if_board_cold(cmd, force) THEN power
                ELSE [power EXCEPT ![c] =
                        [pc |-> "open", cmd |-> cmd, force |-> force, unjudged |-> ~hasMcpd,
                         offSince |-> FALSE]]
    /\ UNCHANGED <<config, capture, board, stream, wedged, faults>>

\* p18._open in the thread.
PowerOpen(c) ==
    /\ power[c].pc = "open"
    /\ power' = IF PortTaken THEN [power EXCEPT ![c] = NoPowerCall] ELSE [power EXCEPT ![c].pc = "send"]
    /\ UNCHANGED <<config, capture, calls, board, stream, wedged, faults>>

(* _send_blocking and the first half of _stream_capture_blocking: the MCU  *)
(* gets the command.  p boots or hard-resets, s cuts the supplies, q turns *)
(* the stream over; a cold MCU is wedged by anything but p and s.          *)
SwitchedOff == [c \in Calls |-> IF power[c].pc = "idle" THEN NoPowerCall
                                ELSE [power[c] EXCEPT !.offSince = TRUE]]
Why(call) == IF call.force THEN "forced" ELSE IF call.unjudged THEN "unjudged"
             ELSE IF call.offSince THEN "raced" ELSE "judged"

PowerSend(c) ==
    LET cmd == power[c].cmd
        cold == board = "off" /\ ~ cmd \in {"p", "s"}
        rest == IF cmd = "s" /\ wedged = "no" THEN SwitchedOff ELSE power
    IN  /\ power[c].pc = "send"
        /\ power' = [rest EXCEPT ![c] = IF cmd = "watch" THEN [@ EXCEPT !.pc = "watching"] ELSE NoPowerCall]
        /\ board' = IF wedged # "no" THEN board
                    ELSE CASE cmd = "p" -> "booting" [] cmd = "s" -> "off" [] OTHER -> board
        /\ wedged' = IF wedged = "no" /\ cold THEN Why(power[c]) ELSE wedged
        /\ stream' = IF board = "off" \/ wedged # "no" \/ cmd = "s" THEN FALSE
                     ELSE IF cmd \in {"q", "watch"} THEN ~stream ELSE stream
        /\ UNCHANGED <<config, capture, calls, faults>>

(* The second q of a watch, or a port error that leaves it out.            *)
PowerWatched(c) ==
    /\ power[c].pc = "watching" /\ power' = [power EXCEPT ![c] = NoPowerCall]
    /\ \/ stream' = (board # "off" /\ wedged = "no" /\ ~stream) /\ UNCHANGED faults
       \/ Fault /\ UNCHANGED stream
    /\ UNCHANGED <<config, capture, calls, board, wedged>>

\* The board (external).
Boots ==
    /\ board = "booting" /\ board' = "up"
    /\ UNCHANGED <<config, capture, power, calls, stream, wedged, faults>>
DaemonDies ==
    /\ board = "up" /\ Fault /\ board' = "booting"
    /\ UNCHANGED <<config, capture, power, calls, stream, wedged>>

----------------------------------------------------------------------------
\* power_help, power_on, power_shell and the others differ in their command.
PowerTool(c, force) == \E cmd \in Commands : PowerBegin(c, cmd, force)

\* What a client may call.
PowerCalled(c) == \E force \in BOOLEAN : PowerTool(c, force)
SerialCalled ==
    \/ \E truncate \in BOOLEAN : serial_start(truncate)
    \/ serial_stop \/ serial_clear

Power(c) ==
    \/ PowerCalled(c) \/ PowerOpen(c) \/ PowerSend(c) \/ PowerWatched(c)

SerialNext ==
    \/ SerialCalled
    \/ \E r \in readers : Read(r) \/ Ends(r) \/ Stuck(r) \/ Unstuck(r)
    \/ \E c \in Calls : Power(c)
    \/ Boots \/ DaemonDies

SerialSpec == SerialInit /\ [][SerialNext]_serialVars

----------------------------------------------------------------------------
(* Properties.                                                             *)

(* With no capture running there is no reader left that could write to a   *)
(* log being cleared or take bytes from a power.* tool's reply, and a      *)
(* running one has one reader; unless a reader was held up longer than     *)
(* stop waits for it, when the next start sets it going again.             *)
StoppedMeansQuiet ==
    /\ SerialTypeOK
    /\ ~overstayed => readers \subseteq {thread}

(* An MCU is never wedged by a command the cold-board guard let through:   *)
(* only by a forced one, by one there was no daemon to judge by, or by one *)
(* whose board another call switched off after its check.                  *)
GuardedMcuIsNotWedged == wedged # "judged"

(* What makes it inductive: a command that could wedge the MCU and has no  *)
(* excuse is under way only while the board has power.                     *)
GuardInv ==
    \A c \in Calls : LET m == power[c] IN
        m.pc # "idle" => \/ m.cmd \in {"p", "s"} \/ board # "off"
                         \/ m.force \/ m.unjudged \/ m.offSince

SerialInv == StoppedMeansQuiet /\ GuardedMcuIsNotWedged /\ GuardInv

=============================================================================
