------------------------- MODULE YkbBacklightProofs -------------------------
(***************************************************************************)
(* What holds of YkbBacklight for any number of slots, scripts and         *)
(* restarts.  FlashHasSlots is not inductive: while slots are saved, those *)
(* before "next" are in flash already, and between the saves and the end   *)
(* of the call the last attempt tells whether all of them are.             *)
(***************************************************************************)
EXTENDS YkbBacklightMC, WellFoundedInduction, TLAPS

InFlash(s) == slots[s] = IF stored[s] = None THEN Empty ELSE stored[s]

(* The slots hold contents, so that a slot in flash is never None. *)
SlotsAreContents == slots \in [Slots -> Contents] /\ stored \in [Slots -> Contents \cup {None}]

JobIsContent == pc = "write" => job.slot \in Slots /\ job.script \in Contents

NextInRange == next \in Nat

(* Saving has come as far as next ... *)
SavedSoFar ==
    pc \in {"bootSave", "save"} =>
        \A s \in Slots : s < next => stored[s] = slots[s]

(* ... and outside of it, "saved" tells of all of them. *)
SavedIsWhole ==
    pc \notin {"bootSave", "save"} /\ saved => \A s \in Slots : InFlash(s)

SaveInv ==
    /\ SlotsAreContents
    /\ JobIsContent
    /\ NextInRange
    /\ SavedSoFar
    /\ SavedIsWhole

LEMMA NoneIsNoContent == None \notin Contents
  BY YkbBacklightAssumption DEF Contents

LEMMA SaveInvInit == Init => SaveInv
  <1> SUFFICES ASSUME Init PROVE SaveInv
    OBVIOUS
  <1>1. SlotsAreContents
    BY YkbBacklightAssumption DEF Init, SlotsAreContents, Contents
  <1> QED
    BY <1>1 DEF Init, SaveInv, JobIsContent, NextInRange, SavedSoFar, SavedIsWhole, Slots

(* A restart: what it finds in flash is what it puts into the slots. *)
LEMMA BootKeepsSaveInv ==
    ASSUME SlotsAreContents, Boot(stored), stored' = stored
    PROVE  SaveInv'
  <1>1. SlotsAreContents'
    BY YkbBacklightAssumption DEF SlotsAreContents, Boot, Contents
  <1>2. SavedIsWhole'
    <2>1. CASE \E s \in Slots : stored[s] # None
      BY <2>1 DEF Boot, SavedIsWhole, InFlash
    <2>2. CASE ~ \E s \in Slots : stored[s] # None
      BY <2>2 DEF Boot, SavedIsWhole
    <2> QED
      BY <2>1, <2>2
  <1>3. SavedSoFar' /\ NextInRange'
    BY DEF Boot, SavedSoFar, NextInRange, Slots
  <1>4. JobIsContent'
    BY DEF Boot, JobIsContent
  <1> QED
    BY <1>1, <1>2, <1>3, <1>4 DEF SaveInv

LEMMA SaveInvNext == SaveInv /\ [Next]_vars => SaveInv'
  <1> SUFFICES ASSUME SaveInv, [Next]_vars PROVE SaveInv'
    OBVIOUS
  <1> USE DEF SaveInv
  <1>1. CASE Crash
    BY <1>1, BootKeepsSaveInv DEF Crash
  <1>2. CASE BootUpdate
    BY <1>2 DEF BootUpdate, flash, counters, SlotsAreContents, JobIsContent,
        NextInRange, SavedSoFar, SavedIsWhole, InFlash
  <1>3. ASSUME NEW slot \in Slots, NEW script \in Contents,
               SetScriptSlot(slot, script)
        PROVE  SaveInv'
    <2>1. UNCHANGED <<slots, stored, next, saved>> /\ pc = "idle" /\ pc' = "write"
      BY <1>3 DEF SetScriptSlot, flash
    <2>2. JobIsContent'
      BY <1>3 DEF SetScriptSlot, JobIsContent, Contents
    <2> QED
      BY <2>1, <2>2 DEF SlotsAreContents, NextInRange, SavedSoFar, SavedIsWhole, InFlash
  <1>4. CASE WriteSlot
    <2>1. /\ pc = "write" /\ pc' = "save" /\ next' = 0
          /\ slots' = [slots EXCEPT ![job.slot] = job.script]
          /\ UNCHANGED stored
      BY <1>4 DEF WriteSlot
    <2>2. SlotsAreContents'
      BY <2>1 DEF SlotsAreContents, JobIsContent
    <2> QED
      BY <2>1, <2>2 DEF JobIsContent, NextInRange, SavedSoFar, SavedIsWhole, Slots
  <1>5. CASE SaveSlot
    <2>1. CASE /\ stored' = [stored EXCEPT ![next] = slots[next]]
               /\ next' = next + 1
               /\ UNCHANGED <<saved, pc>>
      <3>1. pc \in {"bootSave", "save"} /\ next \in Slots /\ UNCHANGED slots
        BY <1>5, YkbBacklightAssumption DEF SaveSlot, AllSaved, NextInRange, Slots
      <3>2. SlotsAreContents'
        BY <2>1, <3>1 DEF SlotsAreContents
      <3>3. SavedSoFar'
        <4> SUFFICES ASSUME NEW s \in Slots, s < next + 1 PROVE stored'[s] = slots'[s]
          BY <2>1 DEF SavedSoFar
        <4>1. CASE s = next
          BY <4>1, <2>1, <3>1 DEF SlotsAreContents
        <4>2. CASE s # next
          <5>1. s < next
            BY <4>2 DEF Slots, NextInRange
          <5> QED
            BY <5>1, <4>2, <2>1, <3>1 DEF SlotsAreContents, SavedSoFar
        <4> QED
          BY <4>1, <4>2
      <3> QED
        BY <2>1, <3>1, <3>2, <3>3 DEF JobIsContent, NextInRange, SavedIsWhole
    <2>2. CASE saved' = FALSE /\ pc' = AfterSaves /\ UNCHANGED <<stored, next>>
      <3>1. UNCHANGED slots /\ pc' \in {"bootUpdate", "reload"}
        BY <1>5, <2>2 DEF SaveSlot, AfterSaves
      <3> QED
        BY <2>2, <3>1 DEF SlotsAreContents, JobIsContent, NextInRange, SavedSoFar, SavedIsWhole
    <2> QED
      BY <1>5, <2>1, <2>2 DEF SaveSlot
  <1>6. CASE SavesDone
    <2>1. /\ pc \in {"bootSave", "save"} /\ ~(next < SlotCount)
          /\ pc' \in {"bootUpdate", "reload"}
          /\ UNCHANGED <<slots, stored, next>>
      BY <1>6, YkbBacklightAssumption DEF SavesDone, AllSaved, AfterSaves, NextInRange
    <2>2. \A s \in Slots : stored[s] = slots[s]
      BY <2>1, YkbBacklightAssumption DEF SavedSoFar, Slots, NextInRange
    <2>3. \A s \in Slots : InFlash(s)'
      BY <2>1, <2>2, NoneIsNoContent DEF SlotsAreContents, InFlash
    <2> QED
      BY <2>1, <2>3 DEF SlotsAreContents, JobIsContent, NextInRange, SavedSoFar, SavedIsWhole
  <1>7. CASE Reload
    BY <1>7 DEF Reload, flash, SlotsAreContents, JobIsContent, NextInRange,
        SavedSoFar, SavedIsWhole, InFlash
  <1>8. CASE \E s \in Settings : ConfiguratorApplies(s)
    BY <1>8 DEF ConfiguratorApplies, flash, SlotsAreContents, JobIsContent,
        NextInRange, SavedSoFar, SavedIsWhole, InFlash
  <1>9. CASE \E s \in ShortcutSettings : ShortcutApplies(s)
    BY <1>9 DEF ShortcutApplies, flash, SlotsAreContents, JobIsContent,
        NextInRange, SavedSoFar, SavedIsWhole, InFlash
  <1>10. CASE ShortcutNotifies
    BY <1>10 DEF ShortcutNotifies, flash, SlotsAreContents, JobIsContent,
        NextInRange, SavedSoFar, SavedIsWhole, InFlash
  <1>11. CASE RenderFrame
    BY <1>11 DEF RenderFrame, flash, SlotsAreContents, JobIsContent,
        NextInRange, SavedSoFar, SavedIsWhole, InFlash
  <1>12. CASE UNCHANGED vars
    BY <1>12 DEF vars, flash, SlotsAreContents, JobIsContent, NextInRange,
        SavedSoFar, SavedIsWhole, InFlash
  <1> QED
    BY <1>1, <1>2, <1>3, <1>4, <1>5, <1>6, <1>7, <1>8, <1>9, <1>10, <1>11, <1>12 DEF Next

(* Whenever the last save went through and no slot is being set, a restart   *)
(* finds every script slot as it is: for any number of slots, after any      *)
(* failed saves and restarts.                                                *)
THEOREM FlashKeepsSlots == Spec => []FlashHasSlots
  <1>1. SaveInv => FlashHasSlots
    BY DEF SaveInv, SavedIsWhole, InFlash, FlashHasSlots
  <1> QED
    BY <1>1, SaveInvInit, SaveInvNext, PTL DEF Spec

-----------------------------------------------------------------------------
(* Types *)

LEMMA UpdateType ==
  ASSUME NEW s \in Settings, TypeOK, OnSettingsUpdate(s)
  PROVE  applied' \in Settings /\ vm' \in Scripts \cup {None} /\ shown' \in Scripts \cup {None}
  <1>1. Program(s) \in Scripts \cup {None}
    BY YkbBacklightAssumption DEF Program
  <1> QED
    BY <1>1 DEF OnSettingsUpdate

LEMMA DefaultType == DefaultSettings \in Settings
  BY YkbBacklightAssumption DEF DefaultSettings, Settings

LEMMA BootType ==
  ASSUME TypeOK, Crash
  PROVE  TypeOK'
  <1>1. slots' \in [Slots -> Contents]
    BY YkbBacklightAssumption DEF TypeOK, Crash, Boot, Contents
  <1>2. pc' \in {"bootUpdate", "bootSave"} /\ job' = None /\ next' \in 0 .. SlotCount
        /\ saved' \in BOOLEAN
    BY YkbBacklightAssumption DEF Crash, Boot
  <1> QED
    BY <1>1, <1>2, DefaultType, YkbBacklightAssumption DEF TypeOK, Crash, Boot

\* Every set of natural numbers but the empty one has a least one.
LEMMA HasLeast ==
    ASSUME NEW T \in SUBSET Nat, T # {}
    PROVE  \E x \in T : \A y \in T : x <= y
  <1>1. PICK x \in T : \A y \in T : <<y, x>> \notin OpToRel(<, Nat)
    BY NatLessThanWellFounded, WFMin, Zenon
  <1>2. ASSUME NEW y \in T PROVE x <= y
    <2>1. ~(y < x)
      BY <1>1 DEF OpToRel
    <2> QED
      BY <2>1
  <1> QED
    BY <1>2

\* The search for an occupied slot ends at one, or where it began.
LEMMA ShortcutType == TypeOK => ShortcutSettings \subseteq Settings
  <1> SUFFICES ASSUME TypeOK PROVE ShortcutSettings \subseteq Settings
    OBVIOUS
  <1>1. ASSUME NEW direction \in {1, -1} PROVE NextOccupied(direction) \in 0 .. SlotCount
    <2>1. \A n \in 1 .. SlotCount : Step(direction, n) \in 0 .. SlotCount
      BY YkbBacklightAssumption DEF TypeOK, Settings, Step
    <2> DEFINE hits == {n \in 1 .. SlotCount : Occupied(Step(direction, n))}
    <2>2. CASE hits = {}
      BY <2>2 DEF NextOccupied, TypeOK, Settings
    <2>3. CASE hits # {}
      <3>1. \E n \in hits : \A m \in hits : n <= m
        <4> HIDE DEF hits
        <4>1. hits \in SUBSET Nat
          BY YkbBacklightAssumption DEF hits
        <4> QED
          BY <4>1, <2>3, HasLeast
      <3>2. (CHOOSE n \in hits : \A m \in hits : n <= m) \in hits
        BY <3>1
      <3> QED
        BY <2>1, <2>3, <3>2 DEF NextOccupied
    <2> QED
      BY <2>2, <2>3
  <1>2. settings \in [on : BOOLEAN, index : 0 .. SlotCount]
    BY DEF TypeOK, Settings
  <1>3. ASSUME NEW i \in 0 .. SlotCount PROVE [settings EXCEPT !.index = i] \in Settings
    BY <1>2 DEF Settings
  <1>4. [settings EXCEPT !.on = ~settings.on] \in Settings
    BY <1>2 DEF Settings
  <1>5. NextOccupied(1) \in 0 .. SlotCount /\ NextOccupied(-1) \in 0 .. SlotCount
    BY <1>1
  <1>6. Slots \subseteq 0 .. SlotCount
    BY YkbBacklightAssumption DEF Slots
  <1> QED
    BY <1>3, <1>4, <1>5, <1>6 DEF ShortcutSettings

LEMMA TypeInit == Init => TypeOK
  <1> SUFFICES ASSUME Init PROVE TypeOK
    OBVIOUS
  <1>1. slots \in [Slots -> Contents] /\ stored \in [Slots -> Contents \cup {None}]
    BY YkbBacklightAssumption DEF Init
  <1>2. (pc \in {"write", "save", "reload"}) = (job # None)
    BY DEF Init
  <1>3. sets \in 0 .. MaxSets /\ applies \in 0 .. MaxApplies /\ crashes \in 0 .. MaxCrashes
        /\ next \in 0 .. SlotCount
    BY YkbBacklightAssumption DEF Init
  <1> QED
    BY <1>1, <1>2, <1>3, DefaultType DEF Init, TypeOK

LEMMA TypeNext == TypeOK /\ [Next]_vars => TypeOK'
  <1> SUFFICES ASSUME TypeOK, [Next]_vars PROVE TypeOK'
    OBVIOUS
  <1>1. CASE Crash
    BY <1>1, BootType
  <1>2. CASE BootUpdate
    <2>1. OnSettingsUpdate(settings) /\ settings \in Settings
      BY <1>2 DEF BootUpdate, TypeOK
    <2> QED
      BY <1>2, <2>1, UpdateType DEF BootUpdate, flash, counters, TypeOK
  <1>3. ASSUME NEW slot \in Slots, NEW script \in Contents, SetScriptSlot(slot, script)
        PROVE  TypeOK'
    <2>1. job' \in Jobs
      BY <1>3 DEF SetScriptSlot, TypeOK, Jobs
    <2>3. job' # None /\ pc' = "write"
      BY <1>3, <2>1, YkbBacklightAssumption DEF SetScriptSlot
    <2>2. sets' \in 0 .. MaxSets
      BY <1>3, YkbBacklightAssumption DEF SetScriptSlot, TypeOK
    <2> QED
      BY <1>3, <2>1, <2>2, <2>3 DEF SetScriptSlot, flash, light, TypeOK
  <1>4. CASE WriteSlot
    <2>1. job \in Jobs
      BY <1>4 DEF WriteSlot, TypeOK
    <2>2. slots' \in [Slots -> Contents] /\ next' \in 0 .. SlotCount
      BY <1>4, <2>1, YkbBacklightAssumption DEF WriteSlot, TypeOK, Jobs
    <2> QED
      BY <1>4, <2>2 DEF WriteSlot, light, counters, TypeOK
  <1>5. CASE SaveSlot
    <2>1. next \in Slots
      BY <1>5, YkbBacklightAssumption DEF SaveSlot, AllSaved, TypeOK, Slots
    <2>2. stored' \in [Slots -> Contents \cup {None}] /\ next' \in 0 .. SlotCount
      BY <1>5, <2>1, YkbBacklightAssumption DEF SaveSlot, TypeOK, Slots
    <2>3. saved' \in BOOLEAN /\ UNCHANGED job
      BY <1>5 DEF SaveSlot, TypeOK
    <2>4. /\ pc' \in {"bootSave", "bootUpdate", "save", "reload"}
          /\ (pc' \in {"save", "reload"}) = (pc = "save")
      BY <1>5 DEF SaveSlot, AfterSaves
    <2>5. (pc' \in {"write", "save", "reload"}) = (job' # None)
      BY <1>5, <2>3, <2>4 DEF SaveSlot, TypeOK
    <2> QED
      BY <1>5, <2>2, <2>3, <2>4, <2>5 DEF SaveSlot, light, counters, TypeOK
  <1>6. CASE SavesDone
    BY <1>6 DEF SavesDone, AfterSaves, light, counters, TypeOK
  <1>7. CASE Reload
    <2>1. job \in Jobs /\ job.settings \in Settings
      BY <1>7 DEF Reload, TypeOK, Jobs
    <2>2. applied' \in Settings /\ vm' \in Scripts \cup {None} /\ shown' \in Scripts \cup {None}
      BY <1>7, <2>1, UpdateType DEF Reload, light, TypeOK
    <2> QED
      BY <1>7, <2>2 DEF Reload, flash, counters, TypeOK
  <1>8. ASSUME NEW s \in Settings, ConfiguratorApplies(s) PROVE TypeOK'
    <2>1. applies' \in 0 .. MaxApplies
      BY <1>8, YkbBacklightAssumption DEF ConfiguratorApplies, TypeOK
    <2> QED
      BY <1>8, <2>1, UpdateType DEF ConfiguratorApplies, flash, TypeOK
  <1>9. ASSUME NEW s \in ShortcutSettings, ShortcutApplies(s) PROVE TypeOK'
    <2>1. s \in Settings
      BY <1>9, ShortcutType
    <2>2. applies' \in 0 .. MaxApplies
      BY <1>9, YkbBacklightAssumption DEF ShortcutApplies, TypeOK
    <2> QED
      BY <1>9, <2>1, <2>2 DEF ShortcutApplies, flash, light, TypeOK
  <1>10. CASE ShortcutNotifies
    <2>1. notifies \in Settings /\ OnSettingsUpdate(notifies)
      BY <1>10 DEF ShortcutNotifies, TypeOK
    <2> QED
      BY <1>10, <2>1, UpdateType DEF ShortcutNotifies, flash, counters, TypeOK
  <1>11. CASE RenderFrame
    BY <1>11 DEF RenderFrame, flash, counters, TypeOK
  <1>12. CASE UNCHANGED vars
    BY <1>12 DEF vars, flash, light, counters, TypeOK
  <1> QED
    BY <1>1, <1>2, <1>3, <1>4, <1>5, <1>6, <1>7, <1>8, <1>9, <1>10, <1>11, <1>12 DEF Next

(* No failed save, restart or shortcut brings a variable where it should not *)
(* be: the index of the next slot to save stays in bounds, the slot that is  *)
(* set is known exactly while it is being set, and the search for an         *)
(* occupied slot never leaves the table.                                     *)
THEOREM StateIsWellFormed == Spec => []TypeOK
  BY TypeInit, TypeNext, PTL DEF Spec

-----------------------------------------------------------------------------
LEMMA DarkNext == DarkUnlessRunning /\ [Next]_vars => DarkUnlessRunning'
  <1> SUFFICES ASSUME DarkUnlessRunning, [Next]_vars PROVE DarkUnlessRunning'
    OBVIOUS
  <1> USE DEF DarkUnlessRunning
  <1>1. ASSUME NEW s, OnSettingsUpdate(s) PROVE DarkUnlessRunning'
    BY <1>1 DEF OnSettingsUpdate
  <1>2. CASE Crash
    BY <1>2 DEF Crash, Boot
  <1>3. CASE UNCHANGED light
    BY <1>3 DEF light
  <1>4. CASE Reload
    BY <1>1, <1>3, <1>4 DEF Reload
  <1>5. CASE RenderFrame
    BY <1>5 DEF RenderFrame
  <1>6. CASE BootUpdate \/ ShortcutNotifies
    BY <1>1, <1>6 DEF BootUpdate, ShortcutNotifies
  <1>7. ASSUME NEW s \in Settings, ConfiguratorApplies(s) PROVE DarkUnlessRunning'
    BY <1>1, <1>7 DEF ConfiguratorApplies
  <1>8. ASSUME NEW slot \in Slots, NEW script \in Contents,
               SetScriptSlot(slot, script)
        PROVE  DarkUnlessRunning'
    BY <1>3, <1>8 DEF SetScriptSlot
  <1>9. CASE WriteSlot \/ SaveSlot \/ SavesDone
    BY <1>3, <1>9 DEF WriteSlot, SaveSlot, SavesDone
  <1>10. ASSUME NEW s \in ShortcutSettings, ShortcutApplies(s) PROVE DarkUnlessRunning'
    BY <1>3, <1>10 DEF ShortcutApplies
  <1>11. CASE UNCHANGED vars
    BY <1>3, <1>11 DEF vars
  <1> QED
    BY <1>2, <1>4, <1>5, <1>6, <1>7, <1>8, <1>9, <1>10, <1>11 DEF Next

(* Whatever is set, applied and rendered in whatever order, the LEDs show    *)
(* frames of the program in the VM only, and none while the light is off.    *)
THEOREM LightsFollow == Spec => []DarkUnlessRunning
  <1>1. Init => DarkUnlessRunning
    BY DEF Init, DarkUnlessRunning
  <1> QED
    BY <1>1, DarkNext, PTL DEF Spec
-----------------------------------------------------------------------------
(* The program in the VM and the settings *)

(* What a call that sets a slot remembers is still so: its settings, and     *)
(* that the program can only be another one if the slot is the active one.   *)
JobIsCurrent ==
    job # None =>
        /\ job.settings = settings
        /\ job.reload <=> settings.index = job.slot
        /\ applied = settings
        /\ pc = "write" \/ ~job.reload => vm = Program(settings)

(* Unless a shortcut overtook a call: what is yet to be handed over are the  *)
(* settings, nobody sets a slot meanwhile, and otherwise all is in sync.     *)
SyncInv ==
    ~overtaken =>
        /\ job = None \/ notifies = None
        /\ notifies # None => notifies = settings
        /\ JobIsCurrent
        /\ BacklightInSync

(* An update with the settings brings the VM in sync with them.              *)
LEMMA UpdateSyncs ==
    ASSUME OnSettingsUpdate(settings), UNCHANGED <<slots, settings>>
    PROVE  applied' = settings' /\ vm' = Program(settings)'
  BY DEF OnSettingsUpdate, Program

(* Setting a slot that is not the active one leaves the program as it is.    *)
LEMMA OtherSlotsKeepProgram ==
    ASSUME TypeOK, NEW slot \in Slots, NEW script \in Contents,
           slots' = [slots EXCEPT ![slot] = script], settings' = settings,
           settings.index # slot
    PROVE  Program(settings)' = Program(settings)
  BY DEF Program, TypeOK

LEMMA SyncInit == MCInit => SyncInv
  BY DEF MCInit, Init, SyncInv, JobIsCurrent, BacklightInSync

LEMMA SyncNext ==
    ASSUME TypeOK, SyncInv, [MCNext]_<<vars, overtaken>>
    PROVE  SyncInv'
  <1> SUFFICES ASSUME ~overtaken'
               PROVE  /\ job' = None \/ notifies' = None
                      /\ notifies' # None => notifies' = settings'
                      /\ JobIsCurrent'
                      /\ BacklightInSync'
    BY DEF SyncInv
  <1>1. CASE Crash
    <2>1. job' = None /\ notifies' = None /\ pc' # "idle"
      BY <1>1 DEF Crash, Boot
    <2> QED
      BY <2>1 DEF JobIsCurrent, BacklightInSync
  <1>2. CASE UNCHANGED <<vars, overtaken>>
    <2>1. UNCHANGED <<slots, settings, applied, vm, pc, job, notifies, overtaken>>
      BY <1>2 DEF vars, light
    <2> QED
      BY <2>1 DEF SyncInv, JobIsCurrent, BacklightInSync, Program
  <1> SUFFICES ASSUME MCNext, ~Crash
               PROVE  /\ job' = None \/ notifies' = None
                      /\ notifies' # None => notifies' = settings'
                      /\ JobIsCurrent'
                      /\ BacklightInSync'
    BY <1>1, <1>2
  <1>3. crashes' = crashes
    BY DEF MCNext, Next, BootUpdate, SetScriptSlot, WriteSlot, SaveSlot, SavesDone, Reload,
           ConfiguratorApplies, ShortcutApplies, ShortcutNotifies, RenderFrame, counters
  <1>4. ~overtaken /\ (job' = None \/ notifies' = None)
    <2>1. overtaken' = \/ job' # None /\ notifies' # None
                       \/ overtaken /\ crashes' = crashes
      BY DEF MCNext
    <2>2. ~(\/ job' # None /\ notifies' # None
            \/ overtaken /\ crashes' = crashes)
      BY <2>1, Zenon
    <2> QED
      BY <1>3, <2>2
  <1>5. /\ job = None \/ notifies = None
        /\ notifies # None => notifies = settings
        /\ JobIsCurrent /\ BacklightInSync
    BY <1>4 DEF SyncInv
  <1>6. CASE BootUpdate
    <2>1. /\ OnSettingsUpdate(settings) /\ UNCHANGED <<slots, settings, job, notifies>>
          /\ pc = "bootUpdate" /\ pc' = "idle"
      BY <1>6 DEF BootUpdate
    <2>2. job = None
      BY <2>1 DEF TypeOK
    <2> QED
      BY <1>5, <2>1, <2>2, UpdateSyncs DEF JobIsCurrent, BacklightInSync
  <1>7. ASSUME NEW slot \in Slots, NEW script \in Contents, SetScriptSlot(slot, script)
        PROVE  /\ notifies' # None => notifies' = settings'
               /\ JobIsCurrent' /\ BacklightInSync'
    <2>1. /\ pc = "idle" /\ pc' = "write"
          /\ job' = [slot |-> slot, script |-> script, settings |-> settings,
                     reload |-> settings.index = slot]
          /\ UNCHANGED <<slots, settings, applied, vm, notifies>>
      BY <1>7 DEF SetScriptSlot, light
    <2>2. job' # None
      <3>1. job' \in Jobs
        BY <2>1 DEF Jobs, TypeOK
      <3> QED
        BY <3>1, YkbBacklightAssumption
    <2>3. notifies = None
      BY <1>4, <2>1, <2>2
    <2>4. applied' = settings' /\ vm' = Program(settings)'
      BY <1>5, <2>1, <2>3 DEF BacklightInSync, Program
    <2> QED
      BY <2>1, <2>3, <2>4 DEF JobIsCurrent, BacklightInSync
  <1>8. CASE WriteSlot
    <2>1. /\ pc = "write" /\ pc' = "save"
          /\ slots' = [slots EXCEPT ![job.slot] = job.script]
          /\ UNCHANGED <<settings, applied, vm, job, notifies>>
      BY <1>8 DEF WriteSlot, light
    <2>2. job # None /\ job.slot \in Slots /\ job.script \in Contents
      BY <2>1 DEF TypeOK, Jobs
    <2>3. ~job.reload => Program(settings)' = Program(settings)
      BY <1>5, <2>1, <2>2, OtherSlotsKeepProgram DEF JobIsCurrent
    <2> QED
      BY <1>5, <2>1, <2>2, <2>3 DEF JobIsCurrent, BacklightInSync
  <1>9. CASE SaveSlot \/ SavesDone
    <2>1. /\ pc' # "idle" /\ pc # "write" /\ pc' # "write"
          /\ UNCHANGED <<slots, settings, applied, vm, job, notifies>>
      BY <1>9 DEF SaveSlot, SavesDone, AfterSaves, light
    <2> QED
      BY <1>5, <2>1 DEF JobIsCurrent, BacklightInSync, Program
  <1>10. CASE Reload
    <2>1. /\ pc = "reload" /\ pc' = "idle" /\ job' = None
          /\ UNCHANGED <<slots, settings, notifies>>
          /\ IF job.reload THEN OnSettingsUpdate(job.settings) ELSE UNCHANGED <<applied, vm>>
      BY <1>10 DEF Reload, light
    <2>2. job # None
      BY <2>1 DEF TypeOK
    <2>3. applied' = settings' /\ vm' = Program(settings)'
      <3>1. CASE job.reload
        BY <1>5, <2>1, <2>2, <3>1, UpdateSyncs DEF JobIsCurrent
      <3>2. CASE ~job.reload
        BY <1>5, <2>1, <2>2, <3>2 DEF JobIsCurrent, Program
      <3> QED
        BY <3>1, <3>2
    <2> QED
      BY <1>5, <2>1, <2>3 DEF JobIsCurrent, BacklightInSync
  <1>11. ASSUME NEW s \in Settings, ConfiguratorApplies(s)
         PROVE  /\ notifies' # None => notifies' = settings'
                /\ JobIsCurrent' /\ BacklightInSync'
    <2>1. /\ pc = "idle" /\ notifies = None /\ settings' = s /\ OnSettingsUpdate(s)
          /\ UNCHANGED <<slots, pc, job, notifies>>
      BY <1>11 DEF ConfiguratorApplies
    <2>2. job = None
      BY <2>1 DEF TypeOK
    <2>3. applied' = settings' /\ vm' = Program(settings)'
      BY <2>1 DEF OnSettingsUpdate, Program
    <2> QED
      BY <2>1, <2>2, <2>3 DEF JobIsCurrent, BacklightInSync
  <1>12. ASSUME NEW s \in ShortcutSettings, ShortcutApplies(s)
         PROVE  /\ notifies' # None => notifies' = settings'
                /\ JobIsCurrent' /\ BacklightInSync'
    <2>1. notifies' = s /\ settings' = s
      BY <1>12 DEF ShortcutApplies
    <2>2. notifies' # None
      <3>1. settings' \in Settings
        BY <1>12, <2>1, ShortcutType
      <3> QED
        BY <2>1, <3>1, YkbBacklightAssumption
    <2>3. job' = None
      BY <1>4, <2>2
    <2> QED
      BY <2>1, <2>2, <2>3 DEF JobIsCurrent, BacklightInSync
  <1>13. CASE ShortcutNotifies
    <2>1. /\ notifies # None /\ OnSettingsUpdate(notifies) /\ notifies' = None
          /\ UNCHANGED <<slots, settings, job>>
      BY <1>13 DEF ShortcutNotifies
    <2>2. job' = None /\ notifies = settings
      BY <1>5, <2>1
    <2> QED
      BY <2>1, <2>2, UpdateSyncs DEF JobIsCurrent, BacklightInSync
  <1>14. CASE RenderFrame
    <2>1. UNCHANGED <<slots, settings, applied, vm, pc, job, notifies>>
      BY <1>14 DEF RenderFrame
    <2> QED
      BY <1>5, <2>1 DEF JobIsCurrent, BacklightInSync, Program
  <1> QED
    BY <1>4, <1>6, <1>7, <1>8, <1>9, <1>10, <1>11, <1>12, <1>13, <1>14 DEF MCNext, Next

(* Whatever is set, applied, saved and restarted, in any order and for any   *)
(* number of slots: when all work is done the VM runs the script of the slot *)
(* the settings name, with these settings, unless a shortcut changed them    *)
(* while a slot was being set.                                               *)
THEOREM BacklightFollowsSettings == MCSpec => []SyncedUnlessOvertaken
  <1>1. MCInit => TypeOK /\ SyncInv
    BY TypeInit, SyncInit DEF MCInit
  <1>2. TypeOK /\ SyncInv /\ [MCNext]_<<vars, overtaken>> => TypeOK' /\ SyncInv'
    <2> SUFFICES ASSUME TypeOK, SyncInv, [MCNext]_<<vars, overtaken>>
                 PROVE  TypeOK' /\ SyncInv'
      OBVIOUS
    <2>1. [Next]_vars
      BY DEF MCNext
    <2> QED
      BY <2>1, TypeNext, SyncNext
  <1>3. SyncInv => SyncedUnlessOvertaken
    BY DEF SyncInv, SyncedUnlessOvertaken
  <1> QED
    BY <1>1, <1>2, <1>3, PTL DEF MCSpec
=============================================================================
