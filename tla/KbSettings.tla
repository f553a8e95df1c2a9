------------------------------ MODULE KbSettings ------------------------------
(***************************************************************************)
(* kb_settings.c: the settings of the keyboard, their copy in flash and    *)
(* the copies the subsystems keep.  Two threads call kb_settings_apply:    *)
(* the system workqueue, for the configurator or the other half, with      *)
(* settings that are new in every part, and the kb_handler thread, for an  *)
(* FN shortcut, with its own cached copy in which it changed one part.     *)
(*                                                                         *)
(* kb_settings_mut protects kb_settings and notify_snapshot while both are *)
(* copied; save_img, the reads of notify_snapshot and the settings that    *)
(* the kb_handler thread applies are unprotected.  The workqueue is        *)
(* cooperative: its copies are whole, the ones of the other thread go part *)
(* by part.  Both block in the flash driver.                               *)
(***************************************************************************)
EXTENDS Integers, FiniteSets

CONSTANTS
    Parts,         \* the parts of the settings a copy may come between
    FnPart,        \* the part an FN shortcut changes
    Subscribers,   \* those that keep a copy: ON_SETTINGS_UPDATE_DEFINE
    KbHandler,     \* the one whose copy the FN shortcut changes and applies
    MaxApplies,    \* bound: calls of kb_settings_apply
    MaxCrashes     \* bound: restarts

ASSUME KbSettingsAssumption ==
    /\ FnPart \in Parts
    /\ KbHandler \in Subscribers
    /\ {MaxApplies, MaxCrashes} \subseteq Nat

Appliers == {"sysworkq", "kb_handler"}

Values == 0 .. MaxApplies

Settings == [Parts -> Values]

Default == [i \in Parts |-> 0]

NoRecord == [i \in {} |-> 0]
Nobody   == "nobody"

Records == Settings \union {NoRecord}

VARIABLES
    kb_settings,
    notify_snapshot,
    save_img,
    flash,         \* the record of the settings subsystem
    draft,         \* the record it is writing
    writer,        \* who holds the lock of the settings subsystem
    caches,        \* the subscribers' copies
    pc,            \* where each thread is in kb_settings_apply
    left,          \* the chunks it has yet to copy there
    calls,         \* the callbacks it has yet to make, with their chunks
    argument,      \* the settings the workqueue applies
    failed,        \* the last attempt to save failed
    overtaken,     \* a callback changed the settings that were last copied
    applies, crashes

image == <<save_img, flash, draft, writer>>
kbSettingsVars == <<kb_settings, notify_snapshot, image, caches, pc, left, calls,
          argument, failed, overtaken, applies, crashes>>

(* kb_settings_init: the record in flash, else the defaults, saved at once. *)
Boot(record) ==
    LET booted == IF record = NoRecord THEN Default ELSE record
    IN /\ kb_settings' = booted
       /\ notify_snapshot' = booted
       /\ save_img' = Default
       /\ caches' = [s \in Subscribers |-> booted]
       /\ \/ flash' = booted /\ failed' = FALSE
          \/ record = NoRecord /\ flash' = NoRecord /\ failed' = TRUE
       /\ draft' = Default /\ writer' = Nobody
       /\ pc' = [p \in Appliers |-> "idle"]
       /\ left' = [p \in Appliers |-> {}]
       /\ calls' = [p \in Appliers |-> {}]
       /\ argument' = Default /\ overtaken' = FALSE

KbSettingsInit ==
    /\ kb_settings = Default /\ notify_snapshot = Default
    /\ save_img = Default
    /\ caches = [s \in Subscribers |-> Default]
    /\ \/ flash = Default /\ failed = FALSE
       \/ flash = NoRecord /\ failed = TRUE
    /\ draft = Default /\ writer = Nobody
    /\ pc = [p \in Appliers |-> "idle"]
    /\ left = [p \in Appliers |-> {}]
    /\ calls = [p \in Appliers |-> {}]
    /\ argument = Default /\ overtaken = FALSE
    /\ applies = 0 /\ crashes = 0

Crash ==
    /\ crashes < MaxCrashes
    /\ crashes' = crashes + 1
    /\ Boot(flash)
    /\ UNCHANGED applies

-----------------------------------------------------------------------------
(* kb_settings_apply, step by step *)

Goes(p, from, to) == pc[p] = from /\ pc' = [pc EXCEPT ![p] = to]

Calls(p) ==
    /\ Goes(p, "idle", "lock")
    /\ applies < MaxApplies
    /\ applies' = applies + 1
    /\ UNCHANGED <<kb_settings, notify_snapshot, image, left, calls, failed,
                   overtaken, crashes>>

ConfiguratorApplies ==
    /\ Calls("sysworkq")
    /\ argument' = [i \in Parts |-> applies']
    /\ UNCHANGED caches

\* execute_fn_action changes settings_snapshot in place.
FnShortcutApplies ==
    /\ Calls("kb_handler")
    /\ caches' = [caches EXCEPT ![KbHandler][FnPart] = applies']
    /\ UNCHANGED argument

\* What a thread copies before anyone else runs.
Chunks(p) ==
    IF p = "sysworkq" THEN {Parts} ELSE {{i} : i \in Parts}

\* The kb_handler thread is between the lock and the unlock of kb_settings_mut.
HoldsMutex == pc["kb_handler"] \in {"settings", "snapshot"}

\* The two memcpys of the workqueue.
CopySettings(p) ==
    /\ p = "sysworkq" /\ ~HoldsMutex
    /\ Goes(p, "lock", "clear")
    /\ kb_settings' = argument /\ notify_snapshot' = argument
    /\ overtaken' = FALSE
    /\ UNCHANGED <<image, caches, left, calls, argument, failed, applies, crashes>>

LockSettings(p) ==
    /\ p = "kb_handler"
    /\ Goes(p, "lock", "settings")
    /\ left' = [left EXCEPT ![p] = Chunks(p)]
    /\ overtaken' = FALSE
    /\ UNCHANGED <<kb_settings, notify_snapshot, image, caches, calls, argument,
                   failed, applies, crashes>>

\* The two memcpys of the kb_handler thread: what it copies is its cached copy,
\* which a callback of the workqueue may overwrite between any two parts.
CopyPart(p) ==
    /\ p = "kb_handler" /\ HoldsMutex
    /\ \E chunk \in left[p] :
          LET copied(to) == [i \in Parts |-> IF i \in chunk THEN caches[KbHandler][i]
                                             ELSE to[i]]
          IN /\ IF pc[p] = "settings"
                THEN kb_settings' = copied(kb_settings) /\ UNCHANGED notify_snapshot
                ELSE notify_snapshot' = copied(notify_snapshot) /\ UNCHANGED kb_settings
             /\ IF left[p] # {chunk}
                THEN left' = [left EXCEPT ![p] = @ \ {chunk}] /\ UNCHANGED pc
                ELSE IF pc[p] = "settings"
                THEN Goes(p, "settings", "snapshot") /\ left' = [left EXCEPT ![p] = Chunks(p)]
                ELSE Goes(p, "snapshot", "clear") /\ left' = [left EXCEPT ![p] = {}]
    /\ UNCHANGED <<image, caches, calls, argument, failed, overtaken, applies, crashes>>

\* Faulty variant: the caller's settings are saved, not kb_settings.
CopyArgument(p) ==
    /\ pc[p] = "image"
    /\ \E chunk \in left[p] :
          /\ save_img' = [i \in Parts |->
                IF i \notin chunk THEN save_img[i]
                ELSE IF p = "sysworkq" THEN argument[i] ELSE caches[KbHandler][i]]
          /\ left' = [left EXCEPT ![p] = @ \ {chunk}]
    /\ pc' = [pc EXCEPT ![p] = IF left'[p] = {} THEN "save" ELSE "image"]
    /\ UNCHANGED <<kb_settings, notify_snapshot, flash, draft, writer, caches,
                   calls, argument, failed, overtaken, applies, crashes>>

\* save_img is assigned a fresh image first ...
ClearImage(p) ==
    /\ Goes(p, "clear", "image")
    /\ save_img' = Default
    /\ left' = [left EXCEPT ![p] = Chunks(p)]
    /\ UNCHANGED <<kb_settings, notify_snapshot, flash, draft, writer, caches,
                   calls, argument, failed, overtaken, applies, crashes>>

\* ... and then the settings.
CopyImage(p) ==
    /\ pc[p] = "image"
    /\ \E chunk \in left[p] :
          /\ save_img' = [i \in Parts |-> IF i \in chunk THEN kb_settings[i]
                                          ELSE save_img[i]]
          /\ left' = [left EXCEPT ![p] = @ \ {chunk}]
    /\ pc' = [pc EXCEPT ![p] = IF left'[p] = {} THEN "save" ELSE "image"]
    /\ UNCHANGED <<kb_settings, notify_snapshot, flash, draft, writer, caches,
                   calls, argument, failed, overtaken, applies, crashes>>

StartSave(p) ==
    /\ Goes(p, "save", "write")
    /\ writer = Nobody
    /\ writer' = p
    /\ left' = [left EXCEPT ![p] = {{i} : i \in Parts}]
    /\ UNCHANGED <<kb_settings, notify_snapshot, save_img, flash, draft, caches,
                   calls, argument, failed, overtaken, applies, crashes>>

\* The flash driver writes from save_img, word by word.
WritePart(p) ==
    /\ pc[p] = "write"
    /\ \E chunk \in left[p] :
          /\ draft' = [i \in Parts |-> IF i \in chunk THEN save_img[i]
                                       ELSE draft[i]]
          /\ left' = [left EXCEPT ![p] = @ \ {chunk}]
    /\ UNCHANGED <<kb_settings, notify_snapshot, save_img, flash, writer, caches,
                   pc, calls, argument, failed, overtaken, applies, crashes>>

\* Faulty variant of EndSave: a failed save returns before the callbacks.
EndSaveOrReturn(p) ==
    /\ pc[p] = "write"
    /\ \/ /\ left[p] = {} /\ flash' = draft /\ failed' = FALSE
          /\ pc' = [pc EXCEPT ![p] = "notify"]
          /\ calls' = [calls EXCEPT ![p] = Subscribers \X Chunks(p)]
       \/ /\ flash' = flash /\ failed' = TRUE
          /\ pc' = [pc EXCEPT ![p] = "idle"]
          /\ UNCHANGED calls
    /\ writer' = Nobody
    /\ left' = [left EXCEPT ![p] = {}]
    /\ UNCHANGED <<kb_settings, notify_snapshot, save_img, draft, caches,
                   argument, overtaken, applies, crashes>>

EndSave(p) ==
    /\ Goes(p, "write", "notify")
    /\ \/ left[p] = {} /\ flash' = draft /\ failed' = FALSE
       \/ flash' = flash /\ failed' = TRUE
    /\ writer' = Nobody
    /\ left' = [left EXCEPT ![p] = {}]
    /\ calls' = [calls EXCEPT ![p] = Subscribers \X Chunks(p)]
    /\ UNCHANGED <<kb_settings, notify_snapshot, save_img, draft, caches,
                   argument, overtaken, applies, crashes>>

\* kb_settings_handle_on_update_snapshot
Notify(p) ==
    /\ pc[p] = "notify"
    /\ \E callback \in calls[p] :
          /\ caches' = [caches EXCEPT ![callback[1]] =
                [i \in Parts |-> IF i \in callback[2] THEN notify_snapshot[i]
                                 ELSE @[i]]]
          /\ calls' = [calls EXCEPT ![p] = @ \ {callback}]
          /\ overtaken' = (overtaken \/ (callback[1] = KbHandler /\ HoldsMutex))
    /\ pc' = [pc EXCEPT ![p] = IF calls'[p] = {} THEN "idle" ELSE "notify"]
    /\ UNCHANGED <<kb_settings, notify_snapshot, image, left, argument, failed,
                   applies, crashes>>

Apply(p) ==
    \/ CopySettings(p) \/ LockSettings(p) \/ CopyPart(p)
    \/ ClearImage(p) \/ CopyImage(p)
    \/ StartSave(p) \/ WritePart(p) \/ EndSave(p) \/ Notify(p)

KbSettingsNext ==
    \/ ConfiguratorApplies
    \/ FnShortcutApplies
    \/ \E p \in Appliers : Apply(p)
    \/ Crash

KbSettingsSpec == KbSettingsInit /\ [][KbSettingsNext]_kbSettingsVars

-----------------------------------------------------------------------------
Idle == \A p \in Appliers : pc[p] = "idle"

Steps == {"idle", "lock", "settings", "snapshot", "clear", "image", "save", "write",
          "notify"}

KbSettingsTypeOK ==
    /\ {kb_settings, notify_snapshot, save_img, draft, argument} \subseteq Settings
    /\ flash \in Records
    /\ writer \in Appliers \union {Nobody}
    /\ caches \in [Subscribers -> Settings]
    /\ pc \in [Appliers -> Steps]
    /\ left \in [Appliers -> SUBSET (SUBSET Parts)]
    /\ calls \in [Appliers -> SUBSET (Subscribers \X SUBSET Parts)]
    /\ failed \in BOOLEAN /\ overtaken \in BOOLEAN
    /\ applies \in 0 .. MaxApplies /\ crashes \in 0 .. MaxCrashes

(* When no call of kb_settings_apply is under way, every subscriber has    *)
(* what the last call told them all, whatever way the calls overlapped:    *)
(* the unprotected copies are always made again by a later call.  These    *)
(* are the settings, unless a callback of the other call changed the copy  *)
(* that the kb_handler thread was applying.                                *)
CachesAgree ==
    Idle => /\ \A s \in Subscribers : caches[s] = notify_snapshot
            /\ notify_snapshot = kb_settings \/ overtaken

(* The flash has the settings, unless the last attempt to save failed.     *)
FlashInSync == Idle => flash = kb_settings \/ failed

(* Both: what kb_settings_apply leaves everybody with.                     *)
SettingsInSync == CachesAgree /\ FlashInSync

(* What docs/subsys/KB_SETTINGS.md:60 says of the callbacks.  It is false  *)
(* of a call that was overtaken.                                           *)
CachesInSync == Idle => \A s \in Subscribers : caches[s] = kb_settings
=============================================================================
