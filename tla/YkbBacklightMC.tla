---- MODULE YkbBacklightMC ----
(* A small instance of YkbBacklight: scripts "a" and "b" are defaults, "bad" *)
(* is bytecode the VM refuses.                                               *)
EXTENDS YkbBacklight

MCScripts == {"a", "b", "bad"}
MCLoadable == {"a", "b"}
MCDefaults == [s \in Slots |-> IF s = 0 THEN "a" ELSE "b"]

\* Whether a shortcut changed the settings while a slot was being set, since
\* the last restart.
VARIABLE overtaken

MCInit == Init /\ overtaken = FALSE

MCNext ==
    /\ Next
    /\ overtaken' = \/ job' # None /\ notifies' # None
                    \/ overtaken /\ crashes' = crashes

MCSpec == MCInit /\ [][MCNext]_<<vars, overtaken>>

(* When all work is done, the backlight runs the script of the slot that the *)
(* settings name, with these settings, unless a shortcut changed them while  *)
(* a slot was being set.                                                     *)
SyncedUnlessOvertaken == overtaken \/ BacklightInSync
====
