--------------------------------- MODULE Input ---------------------------------
(***************************************************************************)
(* Keyboard and mouse injection: the input.* tools of the host             *)
(* (tools/input.py) and the handlers of the daemon (methods/input.c).      *)
(*                                                                         *)
(* A handler turns its request into a sequence of input events, written    *)
(* one by one; connection workers interleave at every event.  The state of *)
(* the machine is the set of keys and buttons it takes to be held.  Where  *)
(* the pointer is, which character a key makes and what ctrl-amiga-amiga   *)
(* does to the machine are left out; a character of several keystrokes     *)
(* counts as that many.                                                    *)
(***************************************************************************)
EXTENDS Naturals, Sequences, SequencesExt, FiniteSets

CONSTANTS
    Workers,              \* connection workers of the daemon
    INPUT_MAX_EVENTS,
    INPUT_MAX_BUDGET_MS,  \* in units of the delays
    Delays,               \* values of delay_ms
    BUTTON_MS,            \* INPUT_DEF_BUTTON_MS
    Texts,                \* keystrokes of an input.type
    Chords,               \* keys of an input.key
    Clicks, Steps, Wheel, \* counts of input.click, of drag and move, of scroll
    max_events, allow_drag,   \* the target's [input] block
    MaxCalls,             \* bound on calls
    MaxKills              \* bound on workers ended by an exception

Modifiers == {"ctrl", "lshift", "lamiga", "ramiga"}
ResetChord == {"ctrl", "lamiga", "ramiga"}
PlainKey == "q"
Button == "left"
Keys == Modifiers \cup {PlainKey, Button}

ASSUME InputAssumption ==
    /\ {INPUT_MAX_EVENTS, INPUT_MAX_BUDGET_MS, BUTTON_MS, max_events, MaxCalls, MaxKills} \subseteq Nat
    /\ Delays \cup Texts \cup Clicks \cup Steps \cup Wheel \subseteq Nat
    /\ Chords \subseteq Seq(Modifiers \cup {PlainKey})
    /\ \A chord \in Chords : chord # <<>> /\ ToSet(Front(chord)) \subseteq Modifiers
    \* A chord has few keys (INPUT_MAX_CHORD_KEYS): it fits both budgets, as 9 keys and
    \* 9 * INPUT_MAX_DELAY_MS fit the 256 events and 20 seconds of the code.
    /\ \A chord \in Chords : Len(chord) < INPUT_MAX_EVENTS
    /\ \A chord \in Chords, d \in Delays : Len(chord) * d < INPUT_MAX_BUDGET_MS

VARIABLES
    enabled,   \* [host, daemon]: the two gates
    calls,     \* inject_ctx of every worker, with what is still to be written
    down,      \* what the machine takes to be held
    left,      \* history: left down by an input.type cut short or a killed worker, not let go since
    made, kills

inputVars == <<enabled, calls, down, left, made, kills>>

----------------------------------------------------------------------------
(* The host's tools: the requests they let through.                        *)

Request(op, n, chord, delay, reset) ==
    [op |-> op, n |-> n, chord |-> chord, delay |-> delay, confirm_reset |-> reset]

_check_events_budget(requested) == requested <= max_events
TypeRequests == {Request("type", n, <<>>, d, FALSE) :
                    n \in {k \in Texts : _check_events_budget(2 * k)}, d \in Delays}
KeyRequests == {Request("key", 1, chord, d, reset) :
                    chord \in Chords, d \in Delays, reset \in BOOLEAN}
ClickRequests == {Request(op, n, <<>>, d, FALSE) :
                    op \in {"click", "click_at"}, n \in Clicks, d \in Delays}
DragRequests == {Request("drag", n, <<>>, d, FALSE) :
                    n \in {k \in Steps : allow_drag /\ _check_events_budget(k + 3)}, d \in Delays}
MoveRequests == {Request("mouse_move", n, <<>>, d, FALSE) : n \in Steps, d \in Delays}
ScrollRequests == {Request("scroll", n, <<>>, d, FALSE) : n \in Wheel, d \in Delays}
_resolve_input == enabled.host
Requests == IF _resolve_input
            THEN TypeRequests \cup KeyRequests \cup ClickRequests \cup DragRequests
                   \cup MoveRequests \cup ScrollRequests
            ELSE {}

----------------------------------------------------------------------------
(* The daemon's handlers: the events they would write, each with the delay *)
(* that follows it and what the context remembers to undo.                 *)

Event(does, key, wait, keeps) == [does |-> does, key |-> key, wait |-> wait, keeps |-> keeps]
Repeat(n, first, second) == [i \in 1..(2 * n) |-> IF i % 2 = 1 THEN first ELSE second]
Moves(n, d) == [i \in 1..n |-> Event("moves", Button, d, "none")]

\* A shifted character is a chord with lshift.
_push_modifier(key, d) == Event("down", key, d, "modifier")
KeyEvents(r) ==
    LET d == r.delay
        key == Last(r.chord)
    IN  [i \in 1..(Len(r.chord) - 1) |-> _push_modifier(r.chord[i], d)]
        \o <<Event("down", key, d, "none"), Event("up", key, 0, "none")>>
TypeEvents(r) ==
    LET half == IF r.delay > 2 THEN r.delay \div 2 ELSE r.delay
    IN  Repeat(r.n, Event("down", PlainKey, half, "none"), Event("up", PlainKey, r.delay, "none"))
ClickEvents(r) ==
    Moves(IF r.op = "click_at" THEN 1 ELSE 0, r.delay)
    \o Repeat(r.n, Event("down", Button, r.delay, "button"), Event("up", Button, r.delay, "button"))
DragEvents(r) ==
    <<Event("moves", Button, BUTTON_MS, "none"), Event("down", Button, BUTTON_MS, "button")>>
    \o Moves(r.n, r.delay)
Events(r) == CASE r.op = "key" -> KeyEvents(r) [] r.op = "type" -> TypeEvents(r)
               [] r.op \in {"click", "click_at"} -> ClickEvents(r) [] r.op = "drag" -> DragEvents(r)
               [] OTHER -> Moves(r.n, r.delay)

NeedsReset(r) == r.op = "key" /\ ResetChord \subseteq ToSet(r.chord)

Idle == [pc |-> "idle", op |-> "none", todo |-> <<>>, timer |-> FALSE, events |-> 0, spent_ms |-> 0,
         held_mods |-> <<>>, held_button |-> FALSE, truncated |-> FALSE, pressed |-> {}]

InputTypeOK ==
    /\ enabled \in [host: BOOLEAN, daemon: BOOLEAN]
    /\ \A w \in Workers :
          /\ calls[w].pc \in {"idle", "writing", "closing", "gone"}
          /\ calls[w].events \in 0..INPUT_MAX_EVENTS /\ calls[w].spent_ms \in Nat
          /\ ToSet(calls[w].held_mods) \subseteq Modifiers
          /\ calls[w].pressed \subseteq Keys
    /\ down \subseteq Keys /\ left \subseteq Keys
    /\ made \in 0..MaxCalls /\ kills \in 0..MaxKills

(* input_init_gate decides once, before any worker exists.                 *)
InputInit ==
    /\ enabled \in [host: BOOLEAN, daemon: BOOLEAN]
    /\ calls = [w \in Workers |-> Idle]
    /\ down = {} /\ left = {} /\ made = 0 /\ kills = 0

----------------------------------------------------------------------------
(* A request reaches a worker: the gate, the reset chord's own             *)
(* acknowledgement, then the devices; the timer is best effort.            *)
Refuses(w, r) ==
    /\ calls[w].pc = "idle" /\ made < MaxCalls
    /\ enabled.daemon => NeedsReset(r) /\ ~r.confirm_reset
    /\ made' = made + 1
    /\ UNCHANGED <<enabled, calls, down, left, kills>>
_inject_open(w, r) ==
    /\ calls[w].pc = "idle" /\ made < MaxCalls
    /\ enabled.daemon /\ (NeedsReset(r) => r.confirm_reset)
    /\ made' = made + 1
    /\ \E timer \in BOOLEAN :
          calls' = [calls EXCEPT ![w] = [Idle EXCEPT !.pc = "writing", !.op = r.op, !.timer = timer,
                                                     !.todo = Events(r)]]
    /\ UNCHANGED <<enabled, down, left, kills>>
OpenFails(w, r) ==
    /\ calls[w].pc = "idle" /\ made < MaxCalls /\ enabled.daemon
    /\ NeedsReset(r) => r.confirm_reset
    /\ made' = made + 1
    /\ UNCHANGED <<enabled, calls, down, left, kills>>

OverBudget(w) == calls[w].events >= INPUT_MAX_EVENTS \/ calls[w].spent_ms >= INPUT_MAX_BUDGET_MS
After(held, e) == CASE e.does = "down" -> held \cup {e.key}
                    [] e.does = "up" -> held \ {e.key}
                    [] OTHER -> held

(* One event and the delay after it; a refused one ends the call.          *)
_write_event(w) ==
    LET c == calls[w]
        e == Head(c.todo)
    IN  /\ c.pc = "writing" /\ c.todo # <<>> /\ ~OverBudget(w)
        /\ down' = After(down, e) /\ left' = left \cap down'
        /\ calls' = [calls EXCEPT ![w] =
              [c EXCEPT !.todo = Tail(c.todo), !.events = @ + 1,
                        !.spent_ms = IF c.timer THEN @ + e.wait ELSE @,
                        !.held_mods = IF e.keeps = "modifier" THEN Append(@, e.key) ELSE @,
                        !.held_button = IF e.keeps = "button" THEN e.does = "down" ELSE @,
                        !.pressed = After(c.pressed, e)]]
        /\ UNCHANGED <<enabled, made, kills>>
Ends(w) ==
    /\ calls[w].pc = "writing"
    /\ \/ calls[w].todo = <<>> /\ calls' = [calls EXCEPT ![w].pc = "closing"]
       \/ /\ calls[w].todo # <<>> /\ OverBudget(w)
          /\ calls' = [calls EXCEPT ![w].pc = "closing", ![w].truncated = TRUE]
    /\ UNCHANGED <<enabled, down, left, made, kills>>

(* _inject_close undoes what the context remembers, whatever the budget    *)
(* says, and the reply goes out.                                           *)
LetsGo(w, key, c) ==
    /\ down' = down \ {key} /\ left' = left \ {key}
    /\ calls' = [calls EXCEPT ![w] = [c EXCEPT !.pressed = @ \ {key}]]
    /\ UNCHANGED <<enabled, made, kills>>
_release_buttonsInBudget(w) ==
    /\ calls[w].pc = "closing" /\ calls[w].held_button
    /\ \/ ~OverBudget(w) /\ LetsGo(w, Button, [calls[w] EXCEPT !.held_button = FALSE])
       \/ /\ OverBudget(w) /\ calls' = [calls EXCEPT ![w].held_button = FALSE]
          /\ UNCHANGED <<enabled, down, left, made, kills>>
_release_buttons(w) ==
    /\ calls[w].pc = "closing" /\ calls[w].held_button
    /\ LetsGo(w, Button, [calls[w] EXCEPT !.held_button = FALSE])
_release_modifiers(w) ==
    LET mods == calls[w].held_mods
    IN  /\ calls[w].pc = "closing" /\ ~calls[w].held_button /\ mods # <<>>
        /\ LetsGo(w, Last(mods), [calls[w] EXCEPT !.held_mods = Front(mods)])
_inject_close(w) ==
    LET c == calls[w]
    IN  /\ c.pc = "closing" /\ ~c.held_button /\ c.held_mods = <<>>
        /\ left' = IF c.op = "type" /\ c.truncated THEN left \cup c.pressed ELSE left
        /\ calls' = [calls EXCEPT ![w] = Idle]
        /\ UNCHANGED <<enabled, down, made, kills>>

(* An exception in the handler ends the worker on the spot.                *)
Killed(w) ==
    /\ calls[w].pc \in {"writing", "closing"} /\ kills < MaxKills
    /\ kills' = kills + 1 /\ left' = left \cup calls[w].pressed
    /\ calls' = [calls EXCEPT ![w] = [Idle EXCEPT !.pc = "gone"]]
    /\ UNCHANGED <<enabled, down, made>>

InputNext ==
    \E w \in Workers :
        \/ \E r \in Requests : Refuses(w, r) \/ _inject_open(w, r) \/ OpenFails(w, r)
        \/ _write_event(w) \/ Ends(w)
        \/ _release_buttons(w) \/ _release_modifiers(w) \/ _inject_close(w)
        \/ Killed(w)

InputSpec == InputInit /\ [][InputNext]_inputVars

----------------------------------------------------------------------------
(* Once every call has ended, no button and no modifier is held: a drag    *)
(* cut short by the budget, a chord and the calls of other workers in      *)
(* between all come undone.  The one key that may stay down is that of an  *)
(* input.type whose time ran out between a keystroke's down and its up,    *)
(* which the context does not remember; and what a worker held that an     *)
(* exception ended.                                                        *)
NothingStaysHeld ==
    /\ InputTypeOK
    /\ (\A w \in Workers : calls[w].pc \in {"idle", "gone"}) => down \subseteq left

----------------------------------------------------------------------------
(* What makes it inductive.  The shape of a call's context ...             *)
Ops == {"none", "type", "key", "click", "click_at", "drag", "mouse_move", "scroll"}
EventType == [does: {"down", "up", "moves"}, key: Keys, wait: Nat, keeps: {"none", "modifier", "button"}]
Context == [pc: {"idle", "writing", "closing", "gone"}, op: Ops, todo: Seq(EventType), timer: BOOLEAN,
            events: 0..INPUT_MAX_EVENTS, spent_ms: Nat, held_mods: Seq(Modifiers), held_button: BOOLEAN,
            truncated: BOOLEAN, pressed: SUBSET Keys]

(* ... every key that goes down is one the context remembers, or goes up   *)
(* with the next event ...                                                 *)
Remembers(e) ==
    /\ e.keeps = "modifier" => e.does = "down" /\ e.key \in Modifiers
    /\ e.keeps = "button" => e.does # "moves" /\ e.key = Button
    /\ e.does # "moves" /\ e.key = Button => e.keeps = "button"
Strikes(e) == e.does = "down" /\ e.keeps = "none"
TodoInv(todo, op) ==
    \A i \in DOMAIN todo :
        /\ Remembers(todo[i])
        /\ Strikes(todo[i]) =>
              /\ op \in {"key", "type"}
              /\ i + 1 \in DOMAIN todo /\ todo[i + 1].does = "up"
              /\ todo[i + 1].keeps = "none" /\ todo[i + 1].key = todo[i].key

(* ... so that at most the one key just struck is held and not remembered, *)
(* and a chord is through before the budget is ...                         *)
Held(c) == ToSet(c.held_mods) \cup (IF c.held_button THEN {Button} ELSE {})
HeldInv(c) ==
    \/ c.pressed \subseteq Held(c)
    \/ /\ c.pc = "writing" /\ c.op \in {"key", "type"} /\ c.todo # <<>>
       /\ Head(c.todo).does = "up" /\ Head(c.todo).keeps = "none"
       /\ c.pressed \subseteq Held(c) \cup {Head(c.todo).key}
    \/ c.pc = "closing" /\ c.op = "type" /\ c.truncated
InBudget(c) ==
    \E chord \in Chords, d \in Delays :
        /\ \A i \in DOMAIN c.todo : c.todo[i].wait <= d
        /\ c.events + Len(c.todo) = Len(chord) + 1
        /\ c.todo # <<>> => c.spent_ms + (Len(c.todo) - 1) * d <= Len(chord) * d

(* ... and all that is held is held by a call, or left behind.             *)
InputInv ==
    /\ InputTypeOK
    /\ calls \in [Workers -> Context]
    /\ \A w \in Workers :
          /\ TodoInv(calls[w].todo, calls[w].op) /\ HeldInv(calls[w])
          /\ calls[w].pc \in {"idle", "gone"} => calls[w].pressed = {}
          /\ calls[w].pc = "writing" /\ calls[w].op = "key" => InBudget(calls[w])
    /\ \A k \in down : k \in left \/ \E w \in Workers : k \in calls[w].pressed

================================================================================
