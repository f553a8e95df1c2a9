----------------------------- MODULE KbHandlerMC -----------------------------
(***************************************************************************)
(* Instance for TLC: a handful of keys, in the order of their indices, and *)
(* one start in each mode.  disturbed remembers that anything but keys has *)
(* moved: a shortcut was used, settings were applied, a transport came or  *)
(* went.                                                                   *)
(***************************************************************************)
EXTENDS KbHandler

VARIABLE disturbed

Layer(a, b, c, d) ==
    [k \in Keys |-> CASE k = 0 -> a [] k = 1 -> b [] k = 2 -> c [] k = 3 -> d]

\* 0 and 1 are plain keys, 2 holds a layer, 3 is FN or a second layer key.
Maps(last) == [l \in 1 .. 3 |-> CASE l = 1 -> Layer("A", "W", "LAYER1", last)
                                  [] l = 2 -> Layer("LSHIFT", "W", "LAYER1", last)
                                  [] l = 3 -> Layer("C", "W", "NOKEY", "NOKEY")]

Start(startMode, last, shortcuts) ==
    [mode |-> startMode, prio |-> "USB", map |-> Maps(last), shortcuts |-> shortcuts]

NoShortcuts == [h \in {} |-> "NONE"]

MCStarts ==
    {Start("NORMAL", "LAYER1", NoShortcuts), Start("MOUSESIM", "LAYER2", NoShortcuts),
     Start("RACE", "LAYER2", NoShortcuts), Start("NORMAL", "FN", [h \in {"W"} |-> "RACE"])}

\* The configurator turns a key into an FN key and changes the mode.
MCRemapped == {[Start("RACE", "LAYER1", NoShortcuts) EXCEPT !.map[1][1] = "FN"]}

MCInit == Init /\ disturbed = FALSE
MCNext ==
    /\ Next
    /\ disturbed' = (disturbed \/ <<settings, ready, consumed>>' # <<settings, ready, consumed>>)
MCSpec == MCInit /\ [][MCNext]_<<vars, disturbed>>

-----------------------------------------------------------------------------
(* When every key has been up for a whole frame no host shows a key, sees  *)
(* a mouse button held or the mouse move (kb_handler_core.c sends empty    *)
(* reports; what it sends after a shortcut, new settings or a switch of    *)
(* the transport is another matter).                                       *)
RestIsQuiet == ~disturbed => RestIsSilent /\ RestStopsMouse

(* What a key does ends with it: a layer is never active without one of    *)
(* its keys being down (handle_layer_key counts the other layer keys), and *)
(* only a key that is down is used up by a shortcut.                       *)
LayersAreHeld == (~disturbed => LayerHasKey) /\ ConsumedIsPressed
=============================================================================
