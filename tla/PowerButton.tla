----------------------------- MODULE PowerButton -----------------------------
(***************************************************************************)
(* The power button (subsys/ykb_power/src/ykb_power.c): a thread samples it *)
(* and turns the keyboard off when it has been down for the time of the    *)
(* settings, which may change under a press.  Both have ykb_power_mut.     *)
(*                                                                         *)
(* Time passes in periods of the thread, which may sleep for longer; the   *)
(* button does not move twice between two samples (it bounces for less).   *)
(* Times are what has passed since, up to MaxTime, which is as good as     *)
(* more; None is pressed_since_ms = 0.                                     *)
(***************************************************************************)
EXTENDS Integers

CONSTANTS
    Times,      \* values of shutdown_time
    MaxTime     \* bound: the longest time that is told apart

None == -1

VARIABLES
    button,         \* is down
    moved,          \* and has moved since the last sample
    booting,        \* k_uptime_get is 0
    held,           \* how long it is down
    since,          \* the time since pressed_since_ms
    requested,      \* shutdown_requested
    shutdown_time,  \* settings_snap
    gpio,           \* shdn_gpio
    unread,         \* ghost: a sample failed since the last one that did not
    stuck           \* ghost: setting the GPIO failed

buttonVars == <<button, moved, booting, held, since, requested, shutdown_time, gpio,
                unread, stuck>>

ButtonInit ==
    /\ button \in BOOLEAN /\ moved = FALSE /\ booting = TRUE
    /\ held = 0 /\ since = None /\ requested = FALSE
    /\ shutdown_time \in Times
    /\ gpio = FALSE /\ unread = FALSE /\ stuck = FALSE

-----------------------------------------------------------------------------
ButtonMoves ==
    /\ ~moved
    /\ button' = ~button /\ moved' = TRUE /\ held' = 0
    /\ UNCHANGED <<booting, since, requested, shutdown_time, gpio, unread, stuck>>

Later(time) == IF time \in 0 .. MaxTime - 1 THEN time + 1 ELSE time

TimePasses ==
    /\ booting' = FALSE
    /\ held' = IF button THEN Later(held) ELSE held
    /\ since' = Later(since)
    /\ UNCHANGED <<button, moved, requested, shutdown_time, gpio, unread, stuck>>

\* on_settings_update
SettingsChange ==
    /\ shutdown_time' \in Times \ {shutdown_time}
    /\ UNCHANGED <<button, moved, booting, held, since, requested, gpio, unread, stuck>>

-----------------------------------------------------------------------------
(* ykb_power_handle_power_button_shutdown *)

\* Faulty variant: an error ends the press.
SampleFailsReset ==
    /\ moved' = FALSE /\ unread' = TRUE
    /\ since' = None
    /\ UNCHANGED <<button, booting, held, requested, shutdown_time, gpio, stuck>>

SampleFails ==
    /\ moved' = FALSE /\ unread' = TRUE
    /\ UNCHANGED <<button, booting, held, since, requested, shutdown_time, gpio, stuck>>

\* Faulty variant: the time of a press is left behind.
ReleasedKeepsTime ==
    /\ ~button
    /\ requested' = FALSE
    /\ moved' = FALSE /\ unread' = FALSE
    /\ UNCHANGED <<button, booting, held, since, shutdown_time, gpio, stuck>>

Released ==
    /\ ~button
    /\ since' = None /\ requested' = FALSE
    /\ moved' = FALSE /\ unread' = FALSE
    /\ UNCHANGED <<button, booting, held, shutdown_time, gpio, stuck>>

\* At uptime 0 the time of the press is the one that stands for no press.
Pressed ==
    /\ button /\ since = None
    /\ since' = IF booting THEN None ELSE 0
    /\ moved' = FALSE
    /\ UNCHANGED <<button, booting, held, requested, shutdown_time, gpio, unread, stuck>>

StaysPressed ==
    /\ button /\ since # None
    /\ requested \/ since < shutdown_time
    /\ moved' = FALSE
    /\ UNCHANGED <<button, booting, held, since, requested, shutdown_time, gpio, unread,
                   stuck>>

\* ykb_power_trigger_shutdown; its error is logged.
LongPress ==
    /\ button /\ since # None
    /\ ~requested /\ since >= shutdown_time
    /\ requested' = TRUE /\ moved' = FALSE
    /\ \/ gpio' = TRUE /\ UNCHANGED stuck
       \/ stuck' = TRUE /\ UNCHANGED gpio
    /\ UNCHANGED <<button, booting, held, since, shutdown_time, unread>>

Sample == Released \/ Pressed \/ StaysPressed \/ LongPress

ButtonNext == ButtonMoves \/ TimePasses \/ SettingsChange \/ SampleFails \/ Sample

ButtonSpec == ButtonInit /\ [][ButtonNext]_buttonVars

-----------------------------------------------------------------------------
(* Only a press that lasts turns the keyboard off: the button was down for *)
(* shutdown_time, as the settings are now.  Samples that fail may hide     *)
(* that it was up.                                                         *)
PressIsLong == gpio' # gpio => unread \/ held >= shutdown_time
OnlyLongPresses == [][PressIsLong]_gpio

(* A button that is held turns the keyboard off, also if samples fail      *)
(* again and again.                                                        *)
HeldTurnsOff == <>[]button => <>(gpio \/ stuck)
=============================================================================
