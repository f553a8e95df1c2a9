------------------------------- MODULE KbHandler -------------------------------
(***************************************************************************)
(* The kb_handler thread (kb_handler_core.c) and the choice of transport   *)
(* for its reports (kb_handler_transport.c): key values become presses,    *)
(* layers, FN shortcuts and HID reports.                                   *)
(*                                                                         *)
(* One step of the thread handles one key of the frame, because the        *)
(* configurator's settings (applied on the system workqueue) can arrive    *)
(* between any two keys.  Calibration is abstracted to one Threshold and   *)
(* one Maximum for all keys.  A keyboard report is the set of its codes,   *)
(* a mouse report the values of the mouse keys that count for it.          *)
(***************************************************************************)
EXTENDS Naturals, FiniteSets

CONSTANTS
    KeyCount,      \* TOTAL_KEY_COUNT
    Threshold, Maximum,
    Modifiers,     \* the codes that are modifiers
    KeySlots,      \* room for other codes in a report (6)
    Rollover,      \* CONFIG_KB_HANDLER_REPORT_ROLLOVER
    MouseButtons,  \* settings->mouseemu: the keys that are buttons,
    MouseMoves,    \* and those that move or scroll
    InitSettings,  \* settings the thread may start with
    Configured,    \* settings the configurator may apply
    Switching      \* whether transports come and go

VARIABLES
    settings,   \* settings_snapshot, which st->settings points to
    mode,       \* st->active_mode
    cache,      \* st->layer1_keys, layer2_keys and fn_keys
    second, third,   \* st->second_layer_active, third_layer_active
    pressed,    \* st->pressed_keys
    value,      \* st->current_values, and values[]
    consumed,   \* st->shortcut_consumed_keys
    cursor,     \* the key of the frame that is next
    prevKb, prevMouse,   \* the reports sent last
    ready,      \* transports that can send reports
    host        \* what the host behind each transport saw last

keyVars    == <<second, third, pressed, value, consumed>>
reportVars == <<prevKb, prevMouse, host>>
vars == <<settings, mode, cache, keyVars, cursor, reportVars, ready>>

Keys       == 0 .. KeyCount - 1
Modes      == {"NORMAL", "RACE", "MOUSESIM"}
Transports == {"USB", "BT"}
MouseKeys  == MouseButtons \cup MouseMoves
Still      == [k \in MouseKeys |-> 0]     \* the empty mouse report
NoReports  == [kb |-> {}, mouse |-> Still]
Symbolic   == {"LAYER1", "LAYER2", "FN", "NOKEY"}

ASSUME HandlerAssumption ==
    /\ {KeyCount, KeySlots, Threshold} \subseteq Nat \ {0}
    /\ Maximum \in Nat /\ Maximum >= Threshold
    /\ MouseKeys \subseteq Keys
    /\ {Rollover, Switching} \subseteq BOOLEAN

-----------------------------------------------------------------------------
(* Layers and reports *)

KeysMappedTo(s, code) == {k \in Keys : s.map[1][k] = code}

\* rebuild_layer_cache
LayerCache(s) == [layer1 |-> KeysMappedTo(s, "LAYER1"),
                  layer2 |-> KeysMappedTo(s, "LAYER2"),
                  fn     |-> KeysMappedTo(s, "FN")]

ResolveHid(s, k, snd, trd) ==
    s.map[IF trd THEN 3 ELSE IF snd THEN 2 ELSE 1][k]

(* The codes for which there is room, in the order of the keys; all the    *)
(* modifiers; the error code in place of the keys on overflow.             *)
BuildKbReport(s, keys, snd, trd) ==
    LET Code(k)  == ResolveHid(s, k, snd, trd)
        shown    == {k \in keys : /\ Code(k) \notin Symbolic
                                  /\ s.mode = "MOUSESIM" => k \notin MouseKeys}
        mods     == {Code(k) : k \in shown} \cap Modifiers
        plain    == {Code(k) : k \in shown} \ Modifiers
        First(c) == CHOOSE k \in shown :
                       Code(k) = c /\ \A j \in shown : Code(j) = c => k <= j
        kept     == {c \in plain :
                       Cardinality({d \in plain : First(d) < First(c)}) < KeySlots}
    IN mods \cup IF Cardinality(plain) > KeySlots /\ Rollover
                 THEN {"ROLLOVER"} ELSE kept

\* mouseemu_value_handler: buttons are pressed or not, moves are analog.
MouseReport(down, val) ==
    [k \in MouseKeys |->
        IF k \in MouseButtons THEN (IF down[k] THEN 1 ELSE 0)
        ELSE IF val[k] > Maximum THEN Maximum ELSE val[k]]

\* Faulty variant: every key that is pressed counts.
AllRaceKeys(down, val) ==
    {k \in Keys : down[k] /\ Maximum > Threshold /\ val[k] > Threshold}

\* The key send_race_report_if_changed picks: pressed the furthest.
RaceKeys(down, val) ==
    {k \in Keys : /\ down[k] /\ Maximum > Threshold /\ val[k] > Threshold
                  /\ \A j \in Keys : down[j] =>
                        val[j] < val[k] \/ (val[j] = val[k] /\ k <= j)}

Target(prio) ==
    IF ready = Transports THEN {prio} ELSE ready

Deliver(kind, report, prio) ==
    host' = [t \in Transports |->
               IF t \in Target(prio) THEN [host[t] EXCEPT ![kind] = report]
               ELSE host[t]]

\* Faulty variant: the empty report is not sent.
SendKbIfKeys(report, prio) ==
    IF report = prevKb \/ report = {} THEN UNCHANGED <<prevKb, host>>
    ELSE prevKb' = report /\ Deliver("kb", report, prio)

SendKbIfChanged(report, prio) ==
    IF report = prevKb THEN UNCHANGED <<prevKb, host>>
    ELSE prevKb' = report /\ Deliver("kb", report, prio)

-----------------------------------------------------------------------------
(* reset_handler_state sends empty reports, which change nothing a host    *)
(* that has just come up shows.                                            *)
Init ==
    /\ settings \in InitSettings /\ mode = settings.mode
    /\ cache = LayerCache(settings)
    /\ second = FALSE /\ third = FALSE
    /\ pressed = [k \in Keys |-> FALSE]
    /\ value = [k \in Keys |-> 0]
    /\ consumed = [k \in Keys |-> FALSE]
    /\ cursor = 0
    /\ prevKb = {} /\ prevMouse = Still
    /\ ready \in IF Switching THEN SUBSET Transports ELSE {Transports}
    /\ host = [t \in Transports |-> NoReports]

\* process_key_value up to the decision whether the key moved.
Sample(v) ==
    /\ cursor < KeyCount
    /\ value' = [value EXCEPT ![cursor] = v]
    /\ cursor' = cursor + 1

Moves(v) == pressed[cursor] # (v >= Threshold)

SetPressed == pressed' = [pressed EXCEPT ![cursor] = ~@]

KeyRests(v) ==
    /\ Sample(v) /\ ~Moves(v)
    /\ UNCHANGED <<settings, mode, cache, second, third, pressed, consumed,
                   reportVars, ready>>

\* is_any_fn_pressed, after the new state of the key is stored.
FnPressed(k) == \E f \in cache.fn \ {k} : pressed[f] \/ value[f] >= Threshold

Hid(k) == ResolveHid(settings, k, second, third)

\* Faulty variant: a consumed key stays consumed.
KeyStaysConsumed(v) ==
    /\ Sample(v) /\ Moves(v) /\ SetPressed
    /\ consumed[cursor]
    /\ UNCHANGED <<settings, mode, cache, second, third, consumed, reportVars, ready>>

\* A key that a shortcut used up: nothing sees its release.
KeyWasConsumed(v) ==
    /\ Sample(v) /\ Moves(v) /\ SetPressed
    /\ consumed[cursor]
    /\ consumed' = [consumed EXCEPT ![cursor] = v >= Threshold]
    /\ UNCHANGED <<settings, mode, cache, second, third, reportVars, ready>>

StartsShortcut(v) ==
    /\ ~consumed[cursor]
    /\ v >= Threshold
    /\ Hid(cursor) # "FN"
    /\ FnPressed(cursor)

\* execute_fn_action.  Backlight actions change nothing the handler uses.
FnAction(action) ==
    CASE action \in Modes      -> [settings EXCEPT !.mode = action]
      [] action \in Transports -> [settings EXCEPT !.prio = action]
      [] OTHER                 -> settings

\* saved is the result of kb_settings_apply.
KeyIsShortcut(v, saved) ==
    /\ Sample(v) /\ Moves(v) /\ SetPressed
    /\ StartsShortcut(v)
    /\ consumed' = [consumed EXCEPT ![cursor] = TRUE]
    /\ IF Hid(cursor) \in DOMAIN settings.shortcuts
       THEN /\ settings' = FnAction(settings.shortcuts[Hid(cursor)])
            /\ mode' = IF saved THEN settings'.mode ELSE mode
       ELSE UNCHANGED <<settings, mode>>
    /\ UNCHANGED <<cache, second, third, reportVars, ready>>

\* handle_layer_key: a release counts when no other key holds the layer.
Holds(v, layerKeys) ==
    v < Threshold /\ \E k \in layerKeys \ {cursor} : pressed[k]

\* Faulty variant: a release never ends the layer.
LayerSticks(flag, layerKeys, v) ==
    IF cursor \in layerKeys /\ ~Holds(v, layerKeys) THEN TRUE ELSE flag

LayerFlag(flag, layerKeys, v) ==
    IF cursor \in layerKeys /\ ~Holds(v, layerKeys) THEN v >= Threshold ELSE flag

\* The handler returns before the report for these.
NoReport(v) ==
    \/ mode = "RACE"
    \/ cursor \in cache.layer1 /\ Holds(v, cache.layer1)
    \/ cursor \in cache.layer2 /\ Holds(v, cache.layer2)
    \/ cursor \in cache.fn

KeyMoves(v) ==
    /\ Sample(v) /\ Moves(v) /\ SetPressed
    /\ ~consumed[cursor] /\ ~StartsShortcut(v)
    /\ IF mode = "RACE" THEN UNCHANGED <<second, third>>
       ELSE /\ second' = LayerFlag(second, cache.layer1, v)
            /\ third' = LayerFlag(third, cache.layer2, v)
    /\ IF NoReport(v) THEN UNCHANGED <<prevKb, host>>
       ELSE SendKbIfChanged(
              BuildKbReport(settings, {k \in Keys : pressed'[k]}, second', third'),
              settings.prio)
    /\ UNCHANGED <<settings, mode, cache, consumed, prevMouse, ready>>

(* finish_value_frame: mouse reports and race reports are built per frame. *)
FrameEnd ==
    /\ cursor = KeyCount /\ cursor' = 0
    /\ UNCHANGED <<settings, mode, cache, keyVars, ready>>

FinishNormal == FrameEnd /\ mode = "NORMAL" /\ UNCHANGED reportVars

FinishMouse ==
    LET report == MouseReport(pressed, value)
    IN /\ FrameEnd /\ mode = "MOUSESIM"
       /\ prevMouse' = report
       /\ IF report = prevMouse THEN UNCHANGED host
          ELSE Deliver("mouse", report, settings.prio)
       /\ UNCHANGED prevKb

FinishRace ==
    /\ FrameEnd /\ mode = "RACE"
    /\ SendKbIfChanged(
          BuildKbReport(settings, RaceKeys(pressed, value), second, third),
          settings.prio)
    /\ UNCHANGED prevMouse

FinishFrame == FinishNormal \/ FinishMouse \/ FinishRace

ScanKey ==
    \E v \in 0 .. Maximum :
        \/ KeyRests(v) \/ KeyWasConsumed(v) \/ KeyMoves(v)
        \/ \E saved \in BOOLEAN : KeyIsShortcut(v, saved)

(* kb_handler_on_settings_update from another thread: the thread is        *)
(* suspended while its snapshot is replaced.                               *)
SettingsUpdate ==
    /\ settings' \in Configured
    /\ UNCHANGED <<mode, cache, keyVars, cursor, reportVars, ready>>

\* A host that loses its keyboard forgets the keys.
TransportChanges ==
    /\ Switching
    /\ \E t \in Transports :
          /\ ready' = IF t \in ready THEN ready \ {t} ELSE ready \cup {t}
          /\ host' = [host EXCEPT ![t] = NoReports]
    /\ UNCHANGED <<settings, mode, cache, keyVars, cursor, prevKb, prevMouse>>

Next == ScanKey \/ FinishFrame \/ SettingsUpdate \/ TransportChanges

Spec == Init /\ [][Next]_vars

-----------------------------------------------------------------------------
Codes == UNION {{s.map[l][k] : l \in 1 .. 3, k \in Keys} :
                    s \in Configured \cup InitSettings}

TypeOK ==
    /\ mode \in Modes /\ settings.mode \in Modes /\ settings.prio \in Transports
    /\ {second, third} \subseteq BOOLEAN
    /\ {pressed, consumed} \subseteq [Keys -> BOOLEAN]
    /\ value \in [Keys -> 0 .. Maximum]
    /\ cursor \in 0 .. KeyCount
    /\ ready \subseteq Transports
    /\ \A t \in Transports : host[t].kb \subseteq (Codes \ Symbolic) \cup {"ROLLOVER"}

AtRest == cursor = 0 /\ \A k \in Keys : ~pressed[k] /\ value[k] = 0

(* When every key has been up for a whole frame, no host shows a key.      *)
RestIsSilent == AtRest => \A t \in Transports : host[t].kb = {}

(* When every key has been up for a whole frame, no host sees the mouse    *)
(* move or a button held.                                                  *)
RestStopsMouse == AtRest => \A t \in Transports : host[t].mouse = Still

(* A key a shortcut used up is still down: its release ends the use, so    *)
(* that the next press counts again (shortcut_consumed_keys).              *)
ConsumedIsPressed == \A k \in Keys : consumed[k] => pressed[k]

(* A layer is never active without one of its keys being down, as long as  *)
(* the mode stays the same (handle_layer_key counts the other layer keys). *)
LayerHasKey ==
    /\ second => \E k \in cache.layer1 : pressed[k]
    /\ third => \E k \in cache.layer2 : pressed[k]

(* In race mode the report of a frame never shows two keys.                *)
RaceShowsOneKey ==
    cursor = 0 /\ mode = "RACE" => Cardinality(prevKb) <= 1
=============================================================================
