---------------------------- MODULE YkbBacklight ----------------------------
(***************************************************************************)
(* ykb_backlight.c: the script slots, their copies in flash, the program   *)
(* in the Lumiscript VM and what the LEDs show.                            *)
(*                                                                         *)
(* Three threads meet here.  The system workqueue sets script slots, for   *)
(* the configurator or the other half; it saves every slot, one after the  *)
(* other, and blocks in each.  The kb_handler thread applies settings of   *)
(* its own when an FN shortcut changes them.  The backlight thread renders *)
(* frames.  ykb_bl_mut makes each copy, each update and each frame a step. *)
(*                                                                         *)
(* Of the settings, what matters is whether the light is on and which slot *)
(* is active; what a restart does to the settings themselves is the matter *)
(* of KbSettings, here they survive it.  Pressed keys, colours and timing  *)
(* of frames are left out.                                                 *)
(***************************************************************************)
EXTENDS Integers

CONSTANTS
    SlotCount,       \* CONFIG_YKB_BL_SCRIPT_SLOT_COUNT
    Scripts,         \* the scripts that slots may be set to
    Loadable,        \* the bytecodes the VM takes
    DefaultScripts,  \* default_backlight_script_slots
    Empty,           \* a slot that is not occupied
    Shortcuts,       \* whether FN shortcuts change settings meanwhile
    SavesFail,       \* whether flash may refuse a slot
    MaxSets,         \* bound: calls of ykb_backlight_set_script_slot
    MaxApplies,      \* bound: changes of the settings
    MaxCrashes,      \* bound: restarts
    None

Slots == 0 .. SlotCount - 1

Contents == Scripts \cup {Empty}

\* The index may lie behind the last slot.
Settings == [on : BOOLEAN, index : 0 .. SlotCount]

\* What ykb_backlight_set_script_slot keeps while it runs.
Jobs == [slot : Slots, script : Contents, settings : Settings, reload : BOOLEAN]

ASSUME YkbBacklightAssumption ==
    /\ SlotCount \in Nat \ {0}
    /\ DefaultScripts \in [Slots -> Contents]
    /\ Loadable \subseteq Scripts
    /\ Empty \notin Scripts
    /\ None \notin Contents \cup Jobs \cup Settings
    /\ {MaxSets, MaxApplies, MaxCrashes} \subseteq Nat

DefaultSettings == [on |-> TRUE, index |-> 0]

VARIABLES
    slots,       \* script_slots
    stored,      \* the records in flash, None where there is none
    settings,    \* kb_settings
    applied,     \* the settings the backlight took over: on, active script
    vm,          \* the program in the VM, None unless script_loaded
    shown,       \* the script whose frame the LEDs show, None when dark
    pc,          \* where the system workqueue is
    job,         \* the slot it sets, and the settings it found at first
    next,        \* the slot it saves next
    saved,       \* the last attempt to save went through
    notifies,    \* the settings the kb_handler thread has yet to hand over
    sets, applies, crashes

flash    == <<stored, saved, next>>
light    == <<applied, vm, shown>>
counters == <<sets, applies, crashes>>
vars     == <<slots, flash, settings, light, pc, job, notifies, counters>>

-----------------------------------------------------------------------------
(* on_settings_update: dark first, then the active script is loaded anew *)

Program(s) ==
    IF s.index \in Slots /\ slots[s.index] \in Loadable THEN slots[s.index] ELSE None

\* Faulty variant: the last frame stays on the LEDs.
UpdateKeepsFrame(s) ==
    /\ applied' = s
    /\ vm' = Program(s)
    /\ UNCHANGED shown

OnSettingsUpdate(s) ==
    /\ applied' = s
    /\ vm' = Program(s)
    /\ shown' = None

-----------------------------------------------------------------------------
(* ykb_backlight_init, then the first settings update of kb_settings_init *)

\* settings_load_subtree: one record is enough to be content with.
Boot(records) ==
    LET found == \E s \in Slots : records[s] # None
    IN /\ slots' = IF found
                   THEN [s \in Slots |-> IF records[s] = None THEN Empty ELSE records[s]]
                   ELSE DefaultScripts
       /\ pc' = IF found THEN "bootUpdate" ELSE "bootSave"
       /\ next' = 0
       /\ saved' = found
       /\ applied' = DefaultSettings /\ vm' = None /\ shown' = None
       /\ job' = None /\ notifies' = None

Init ==
    /\ slots = DefaultScripts
    /\ stored = [s \in Slots |-> None]
    /\ settings = DefaultSettings
    /\ applied = DefaultSettings /\ vm = None /\ shown = None
    /\ pc = "bootSave" /\ job = None /\ next = 0 /\ saved = FALSE
    /\ notifies = None
    /\ sets = 0 /\ applies = 0 /\ crashes = 0

Crash ==
    /\ crashes < MaxCrashes
    /\ crashes' = crashes + 1
    /\ Boot(stored)
    /\ UNCHANGED <<stored, settings, sets, applies>>

BootUpdate ==
    /\ pc = "bootUpdate"
    /\ OnSettingsUpdate(settings)
    /\ pc' = "idle"
    /\ UNCHANGED <<slots, flash, settings, job, notifies, counters>>

-----------------------------------------------------------------------------
(* ykb_backlight_set_script_slot, on the system workqueue *)

\* It remembers the settings, and whether the slot is the active one.
SetScriptSlot(slot, script) ==
    /\ pc = "idle"
    /\ sets < MaxSets
    /\ sets' = sets + 1
    /\ job' = [slot |-> slot, script |-> script, settings |-> settings,
               reload |-> settings.index = slot]
    /\ pc' = "write"
    /\ UNCHANGED <<slots, flash, settings, light, notifies, applies, crashes>>

WriteSlot ==
    /\ pc = "write"
    /\ slots' = [slots EXCEPT ![job.slot] = job.script]
    /\ next' = 0
    /\ pc' = "save"
    /\ UNCHANGED <<stored, saved, settings, light, job, notifies, counters>>

AfterSaves == IF pc = "bootSave" THEN "bootUpdate" ELSE "reload"

\* Faulty variant: the last slot is left out.
SavedButLast == next >= SlotCount - 1

AllSaved == next >= SlotCount

\* ykb_backlight_save_scripts: slot by slot, up to the first that fails.
SaveSlot ==
    /\ pc \in {"bootSave", "save"} /\ ~AllSaved
    /\ \/ /\ stored' = [stored EXCEPT ![next] = slots[next]]
          /\ next' = next + 1
          /\ UNCHANGED <<saved, pc>>
       \/ /\ SavesFail
          /\ saved' = FALSE
          /\ pc' = AfterSaves
          /\ UNCHANGED <<stored, next>>
    /\ UNCHANGED <<slots, settings, light, job, notifies, counters>>

SavesDone ==
    /\ pc \in {"bootSave", "save"} /\ AllSaved
    /\ saved' = TRUE
    /\ pc' = AfterSaves
    /\ UNCHANGED <<slots, stored, next, settings, light, job, notifies, counters>>

\* Faulty variant: the active script goes on as it was loaded.
NeverReloads ==
    /\ pc = "reload"
    /\ pc' = "idle"
    /\ job' = None
    /\ UNCHANGED <<slots, flash, settings, light, notifies, counters>>

\* With the settings remembered at first; then whoever wants to know is told.
Reload ==
    /\ pc = "reload"
    /\ IF job.reload THEN OnSettingsUpdate(job.settings) ELSE UNCHANGED light
    /\ pc' = "idle"
    /\ job' = None
    /\ UNCHANGED <<slots, flash, settings, notifies, counters>>

-----------------------------------------------------------------------------
(* Settings that change *)

Running == pc \notin {"bootSave", "bootUpdate"}

\* The configurator's, on the workqueue itself.
ConfiguratorApplies(s) ==
    /\ pc = "idle" /\ notifies = None
    /\ applies < MaxApplies
    /\ applies' = applies + 1
    /\ settings' = s
    /\ OnSettingsUpdate(s)
    /\ UNCHANGED <<slots, flash, pc, job, notifies, sets, crashes>>

Occupied(slot) == slots[slot] # Empty

\* find_next_occupied_script_slot: the next one in a direction, all around.
Step(direction, n) == (settings.index + SlotCount + n * direction) % SlotCount

NextOccupied(direction) ==
    LET hits == {n \in 1 .. SlotCount : Occupied(Step(direction, n))}
    IN IF hits = {} THEN settings.index
       ELSE Step(direction, CHOOSE n \in hits : \A m \in hits : n <= m)

\* What the shortcuts of the backlight make of the settings.
ShortcutSettings ==
    {[settings EXCEPT !.on = ~settings.on],
     [settings EXCEPT !.index = NextOccupied(1)],
     [settings EXCEPT !.index = NextOccupied(-1)]}
    \cup {[settings EXCEPT !.index = slot] : slot \in Slots}

\* The settings change, and are saved, before the backlight is called.
ShortcutApplies(s) ==
    /\ Shortcuts
    /\ Running /\ notifies = None
    /\ applies < MaxApplies
    /\ applies' = applies + 1
    /\ settings' = s
    /\ notifies' = s
    /\ UNCHANGED <<slots, flash, light, pc, job, sets, crashes>>

ShortcutNotifies ==
    /\ notifies # None
    /\ OnSettingsUpdate(notifies)
    /\ notifies' = None
    /\ UNCHANGED <<slots, flash, settings, pc, job, counters>>

-----------------------------------------------------------------------------
(* ykb_backlight_thread_handler: a frame, unless there is nothing to run *)

RenderFrame ==
    /\ vm # None /\ applied.on
    /\ shown' = vm
    /\ UNCHANGED <<slots, flash, settings, applied, vm, pc, job, notifies, counters>>

Next ==
    \/ Crash \/ BootUpdate
    \/ \E slot \in Slots, script \in Contents : SetScriptSlot(slot, script)
    \/ WriteSlot \/ SaveSlot \/ SavesDone \/ Reload
    \/ \E s \in Settings : ConfiguratorApplies(s)
    \/ \E s \in ShortcutSettings : ShortcutApplies(s)
    \/ ShortcutNotifies
    \/ RenderFrame

Spec == Init /\ [][Next]_vars

-----------------------------------------------------------------------------
(* Every variable holds what the code puts there. *)
TypeOK ==
    /\ slots \in [Slots -> Contents]
    /\ stored \in [Slots -> Contents \cup {None}]
    /\ settings \in Settings /\ applied \in Settings
    /\ vm \in Scripts \cup {None} /\ shown \in Scripts \cup {None}
    /\ pc \in {"bootSave", "bootUpdate", "idle", "write", "save", "reload"}
    /\ job \in Jobs \cup {None}
    /\ (pc \in {"write", "save", "reload"}) = (job # None)
    /\ next \in 0 .. SlotCount
    /\ saved \in BOOLEAN
    /\ notifies \in Settings \cup {None}
    /\ sets \in 0 .. MaxSets /\ applies \in 0 .. MaxApplies /\ crashes \in 0 .. MaxCrashes

(* The LEDs only show a frame of the program that is in the VM, and none     *)
(* while the light is off: no update leaves the frame of a script on the     *)
(* LEDs that was replaced, is gone or does not load.                         *)
DarkUnlessRunning == shown # None => applied.on /\ shown = vm

(* When all work is done, the backlight runs the script of the slot that the *)
(* settings name, with these settings.                                       *)
BacklightInSync ==
    pc = "idle" /\ notifies = None => applied = settings /\ vm = Program(settings)

(* When the slots were saved, a restart finds all of them as they are, with  *)
(* whatever slot the settings name and whatever was set since.               *)
FlashHasSlots ==
    pc = "idle" /\ saved =>
        \A s \in Slots : slots[s] = IF stored[s] = None THEN Empty ELSE stored[s]
=============================================================================
