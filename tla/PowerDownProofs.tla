---------------------------- MODULE PowerDownProofs ----------------------------
(* What holds of the three ways to turn the keyboard off, for any thresholds, *)
(* times and levels, with any charger: the driver of the charger loses no     *)
(* edge, whoever listens to the battery knows what it can, and no short press *)
(* of the button counts.  Each part has an invariant of its own, which the    *)
(* steps of the others leave alone.                                           *)
EXTENDS PowerDown, TLAPS

-----------------------------------------------------------------------------
(* The driver of the charger *)

BqType ==
    /\ stat1 \in BOOLEAN /\ stat2 \in BOOLEAN /\ vin \in BOOLEAN
    /\ cache \in [1 .. 3 -> BOOLEAN]

(* What a work has read already is what the pins are, unless another edge     *)
(* has queued the work again.                                                 *)
BqInv ==
    /\ BqType
    /\ ~queued =>
         /\ step \in {"stat2", "vin", "decode"} => cache[1] = stat1
         /\ step \in {"vin", "decode"} => cache[2] = stat2
         /\ step = "decode" => cache[3] = vin
         /\ ReportsPins

(* The cache is read of the pins when the driver starts (bq25185_init).       *)
LEMMA BqInvInit == Bq!ChargerInit => BqInv
<1> SUFFICES ASSUME Bq!ChargerInit PROVE BqInv
  OBVIOUS
<1>1. /\ stat1 \in BOOLEAN /\ stat2 \in BOOLEAN /\ vin \in BOOLEAN
      /\ cache = <<stat1, stat2, vin>> /\ step = "idle"
      /\ reported = Bq!Decode(stat1, stat2, vin)
  BY DEF Bq!ChargerInit, Bq!pins
<1>2. cache \in [1 .. 3 -> BOOLEAN]
  BY <1>1
<1> QED
  BY <1>1, <1>2 DEF BqInv, BqType, ReportsPins, Bq!ReportsPins

(* An edge at any time queues the work, and then nothing read before counts.  *)
LEMMA EdgeKeepsBqInv == BqInv /\ Bq!PinsMove => BqInv'
<1> SUFFICES ASSUME BqInv, NEW value \in BOOLEAN,
                    \/ Bq!Edge(stat1, value) /\ stat1' = value /\ UNCHANGED <<stat2, vin>>
                    \/ Bq!Edge(stat2, value) /\ stat2' = value /\ UNCHANGED <<stat1, vin>>
                    \/ Bq!Edge(vin, value) /\ vin' = value /\ UNCHANGED <<stat1, stat2>>
             PROVE  BqInv'
  BY DEF Bq!PinsMove
<1>1. queued' /\ cache' = cache
  BY DEF Bq!Edge
<1>2. BqType'
  BY <1>1 DEF BqInv, BqType
<1> QED
  BY <1>1, <1>2 DEF BqInv

(* Reading a pin brings its entry of the cache up to date.                    *)
LEMMA ReadKeepsBqInv == BqInv /\ Bq!ReadPins => BqInv'
<1> SUFFICES ASSUME BqInv, Bq!ReadPins PROVE BqInv'
  OBVIOUS
<1>1. UNCHANGED <<stat1, stat2, vin, queued, reported, failed>>
  BY DEF Bq!ReadPins, Bq!Reads, Bq!pins
<1>2. ASSUME step = "stat1", step' = "stat2", cache' = [cache EXCEPT ![1] = stat1]
      PROVE  BqInv'
  BY <1>1, <1>2 DEF BqInv, BqType, ReportsPins, Bq!ReportsPins
<1>3. ASSUME step = "stat2", step' = "vin", cache' = [cache EXCEPT ![2] = stat2]
      PROVE  BqInv'
  BY <1>1, <1>3 DEF BqInv, BqType, ReportsPins, Bq!ReportsPins
<1>4. ASSUME step = "vin", step' = "decode", cache' = [cache EXCEPT ![3] = vin]
      PROVE  BqInv'
  BY <1>1, <1>4 DEF BqInv, BqType, ReportsPins, Bq!ReportsPins
<1> QED
  BY <1>2, <1>3, <1>4 DEF Bq!ReadPins, Bq!Reads, Bq!pins

(* So does every other step of the work (bq25185_work_handler).               *)
LEMMA BqInvStep == BqInv /\ [Bq!ChargerNext]_bqVars => BqInv'
<1> SUFFICES ASSUME BqInv, [Bq!ChargerNext]_bqVars PROVE BqInv'
  OBVIOUS
<1>1. CASE Bq!BeginWork
  <2>1. step' = "stat1" /\ UNCHANGED <<stat1, stat2, vin, cache>>
    BY <1>1 DEF Bq!BeginWork, Bq!pins
  <2> QED
    BY <2>1 DEF BqInv, BqType, ReportsPins, Bq!ReportsPins
<1>2. CASE Bq!PinReadFails
  <2>1. step' = "idle" /\ failed' /\ UNCHANGED <<stat1, stat2, vin, cache>>
    BY <1>2 DEF Bq!PinReadFails, Bq!pins
  <2> QED
    BY <2>1 DEF BqInv, BqType, ReportsPins, Bq!ReportsPins
<1>3. CASE Bq!DecodeState
  <2>1. /\ step = "decode" /\ step' = "idle"
        /\ reported' = Bq!Decode(cache[1], cache[2], cache[3])
        /\ UNCHANGED <<stat1, stat2, vin, cache, queued>>
    BY <1>3 DEF Bq!DecodeState, Bq!pins
  <2>2. ~queued => reported' = Bq!Decode(stat1, stat2, vin)
    BY <2>1 DEF BqInv
  <2>3. ~queued' => ReportsPins'
    BY <2>1, <2>2 DEF ReportsPins, Bq!ReportsPins, Bq!Decode
  <2> QED
    BY <2>1, <2>3 DEF BqInv, BqType
<1>4. CASE UNCHANGED bqVars
  BY <1>4 DEF bqVars, BqInv, BqType, ReportsPins, Bq!ReportsPins, Bq!Decode
<1> QED
  BY <1>1, <1>2, <1>3, <1>4, EdgeKeepsBqInv, ReadKeepsBqInv DEF Bq!ChargerNext, Bq!Work

(* With no work to do the driver of the charger reports what the pins say,    *)
(* unless reading them failed: whenever the edges come, between any two       *)
(* reads, none of them is lost.                                               *)
THEOREM NoEdgeIsLost == PowerSpec => []ReportsPins
<1>1. PowerInit => BqInv
  BY BqInvInit DEF PowerInit
<1>2. [PowerNext]_powerVars => [Bq!ChargerNext]_bqVars
  BY DEF PowerNext, Monitor, powerVars
<1>3. BqInv => ReportsPins
  BY DEF BqInv, ReportsPins, Bq!ReportsPins
<1> QED
  BY <1>1, <1>2, <1>3, BqInvStep, PTL DEF PowerSpec

-----------------------------------------------------------------------------
(* The battery monitor *)

MonitorType ==
    /\ level \in Readings
    /\ status \in ChargeStatus
    /\ state \in States /\ toldChanged \in States

MonitorInv == MonitorType /\ ListenersAreTold

(* What a step may do to the state and to what its listeners know: nothing,   *)
(* or tell both of a new state, or only the one who listens to everything,    *)
(* when the battery has fallen.                                               *)
Tells ==
    /\ level' \in Readings
    /\ status' \in ChargeStatus
    /\ \/ UNCHANGED <<state, toldChanged, toldAny>>
       \/ /\ state' = Sampled /\ toldAny' = Sampled
          /\ \/ toldChanged' = Sampled
             \/ toldChanged' = toldChanged /\ state.percentage > Sampled.percentage

LEMMA TellsKeepsMonitorInv == MonitorInv /\ Tells => MonitorInv'
<1> SUFFICES ASSUME MonitorInv, Tells PROVE MonitorInv'
  OBVIOUS
<1>1. Sampled \in States
  BY BattSenseAssumption DEF Sampled, States, Levels, Readings, MonitorInv, MonitorType
<1>2. MonitorType'
  BY <1>1 DEF Tells, MonitorInv, MonitorType
<1>3. ListenersKnow'
  BY DEF Tells, MonitorInv, ListenersAreTold, ListenersKnow
<1>4. /\ state.percentage \in Int /\ toldChanged.percentage \in Int
      /\ Sampled.percentage \in Int
  BY <1>1, BattSenseAssumption DEF MonitorInv, MonitorType, States, Levels
<1>5. toldChanged = state \/ toldChanged.percentage > state.percentage
  BY DEF MonitorInv, ListenersAreTold, OnlyFallsAreMissed
<1>6. OnlyFallsAreMissed'
  BY <1>4, <1>5 DEF Tells, OnlyFallsAreMissed
<1> QED
  BY <1>2, <1>3, <1>6 DEF MonitorInv, ListenersAreTold

(* The steps of the thread (battsense_thread_handler) do no more than that.   *)
LEMMA ThreadTells == MonitorType /\ Thread => Tells
<1> SUFFICES ASSUME MonitorType, Thread PROVE Tells
  OBVIOUS
<1>1. level' = level /\ level \in Readings
  BY DEF Thread, Lock, ChargerFailure, ChargerHealthy, ReadCharger, ReadFails, ReadGauge,
         CriticalLevel, LowLevel, StateChanged, NoChange, Samples, ShutDown, UnlockAndSleep,
         battery, MonitorType
<1>2. CASE CriticalLevel \/ LowLevel
  BY <1>1, <1>2 DEF CriticalLevel, LowLevel, Falls, Samples, Tells, MonitorType
<1>3. CASE StateChanged \/ NoChange
  BY <1>1, <1>3 DEF StateChanged, NoChange, Samples, Tells, MonitorType
<1>4. CASE ReadCharger
  BY <1>1, <1>4 DEF ReadCharger, told, Tells, ChargeStatus
<1>5. CASE Lock \/ ChargerFailure \/ ChargerHealthy \/ ReadFails \/ ShutDown \/ UnlockAndSleep
  BY <1>1, <1>5 DEF Lock, ChargerFailure, ChargerHealthy, ReadFails, ShutDown, UnlockAndSleep,
                    told, Tells, MonitorType
<1> QED
  BY <1>2, <1>3, <1>4, <1>5 DEF Thread, ReadGauge

LEMMA BehindThreadTells == MonitorType /\ Behind!Thread => Tells
<1> SUFFICES ASSUME MonitorType, Behind!Thread PROVE Tells
  OBVIOUS
<1>1. level' = level /\ level \in Readings
  BY DEF Behind!Thread, Behind!Lock, Behind!ChargerFailure, Behind!ChargerHealthy,
         Behind!ReadCharger, Behind!ReadFails, Behind!ReadGauge, Behind!CriticalLevel,
         Behind!LowLevel, Behind!StateChanged, Behind!NoChange, Behind!Samples,
         Behind!ShutDown, Behind!UnlockAndSleep, Behind!battery, MonitorType
<1>2. Behind!Sampled = Sampled
  BY DEF Behind!Sampled, Sampled
<1>3. CASE Behind!CriticalLevel \/ Behind!LowLevel
  BY <1>1, <1>2, <1>3 DEF Behind!CriticalLevel, Behind!LowLevel, Behind!Falls, Behind!Samples,
                          Tells, MonitorType
<1>4. CASE Behind!StateChanged \/ Behind!NoChange
  BY <1>1, <1>2, <1>4 DEF Behind!StateChanged, Behind!NoChange, Behind!Samples, Tells, MonitorType
<1>5. CASE Behind!ReadCharger
  BY <1>1, <1>5 DEF Behind!ReadCharger, Behind!told, Tells, ChargeStatus
<1>6. CASE \/ Behind!Lock \/ Behind!ChargerFailure \/ Behind!ChargerHealthy
           \/ Behind!ReadFails \/ Behind!ShutDown \/ Behind!UnlockAndSleep
  BY <1>1, <1>6 DEF Behind!Lock, Behind!ChargerFailure, Behind!ChargerHealthy,
                    Behind!ReadFails, Behind!ShutDown, Behind!UnlockAndSleep,
                    Behind!told, Tells, MonitorType
<1> QED
  BY <1>3, <1>4, <1>5, <1>6 DEF Behind!Thread, Behind!ReadGauge

(* Works, the battery and the charger tell nobody.                            *)
LEMMA OthersTellNothing ==
    MonitorType /\ (Workqueue \/ Behind!Workqueue \/ BatteryMoves \/ ChargerMoves) => Tells
<1> SUFFICES ASSUME MonitorType,
                    Workqueue \/ Behind!Workqueue \/ BatteryMoves \/ ChargerMoves
             PROVE  Tells
  OBVIOUS
<1>1. CASE Workqueue
  BY <1>1 DEF Workqueue, WorkUsesMutex, WorkHasMutex, ShutdownWork, battery, told,
              Tells, MonitorType
<1>2. CASE Behind!Workqueue
  BY <1>2 DEF Behind!Workqueue, Behind!WorkUsesMutex, Behind!WorkHasMutex,
              Behind!ShutdownWork, Behind!battery, Behind!told, Tells, MonitorType
<1>3. CASE BatteryMoves
  BY <1>3 DEF BatteryMoves, told, Tells, MonitorType
<1>4. CASE ChargerMoves
  BY <1>4 DEF ChargerMoves, told, Tells, MonitorType
<1> QED
  BY <1>1, <1>2, <1>3, <1>4

LEMMA MonitorInvInit == PowerInit => MonitorInv
<1> SUFFICES ASSUME PowerInit PROVE MonitorInv
  OBVIOUS
<1>1. /\ level \in Readings
      /\ status = "unknown" /\ state = Zero /\ toldChanged = Zero /\ toldAny = Zero
  BY BattSenseAssumption
    DEF PowerInit, Init, Behind!Init, Behind!Readings, Readings, Behind!Zero, Zero
<1>2. Zero \in States
  BY BattSenseAssumption DEF Zero, States, ChargeStatus, Levels
<1> QED
  BY <1>1, <1>2 DEF MonitorInv, MonitorType, ListenersAreTold, ListenersKnow,
                    OnlyFallsAreMissed, ChargeStatus

LEMMA MonitorInvStep == MonitorInv /\ [PowerNext]_powerVars => MonitorInv'
<1> SUFFICES ASSUME MonitorInv, [PowerNext]_powerVars PROVE MonitorInv'
  OBVIOUS
<1>1. MonitorType
  BY DEF MonitorInv
<1>2. CASE Next
  BY <1>1, <1>2, ThreadTells, OthersTellNothing, TellsKeepsMonitorInv DEF Next
<1>3. CASE Behind!Thread \/ Behind!Workqueue
  BY <1>1, <1>3, BehindThreadTells, OthersTellNothing, TellsKeepsMonitorInv
<1>4. CASE UNCHANGED <<level, status, state, told>>
  BY <1>1, <1>4, TellsKeepsMonitorInv DEF told, Tells, MonitorType
<1> QED
  BY <1>2, <1>3, <1>4 DEF PowerNext, Monitor, powerVars, vars, battery, monitorVars

(* Whatever is sampled and whichever sample fails: a listener to all three    *)
(* callbacks knows the state, and one to on_state_changed misses nothing but  *)
(* falls, for any thresholds and with the charger behind its driver too.      *)
THEOREM ListenersKnowBattery == PowerSpec => []ListenersAreTold
<1>1. MonitorInv => ListenersAreTold
  BY DEF MonitorInv
<1> QED
  BY <1>1, MonitorInvInit, MonitorInvStep, PTL DEF PowerSpec

-----------------------------------------------------------------------------
(* The button *)

ButtonType ==
    /\ button \in BOOLEAN /\ moved \in BOOLEAN /\ unread \in BOOLEAN
    /\ held \in 0 .. MaxTime
    /\ since \in (0 .. MaxTime) \cup {Button!None}
    /\ shutdown_time \in Times

(* A press that is timed is still on, and has been for at least as long, or   *)
(* it has ended after the last sample; unless a sample failed meanwhile.      *)
ButtonInv ==
    /\ ButtonType
    /\ since # Button!None /\ ~unread =>
         /\ button => ~moved /\ since <= held
         /\ ~button => moved

LEMMA ButtonInvInit == Button!ButtonInit => ButtonInv
<1> SUFFICES ASSUME Button!ButtonInit PROVE ButtonInv
  OBVIOUS
<1>1. /\ button \in BOOLEAN /\ moved \in BOOLEAN /\ unread \in BOOLEAN
      /\ held = 0 /\ since = Button!None /\ shutdown_time \in Times
  BY DEF Button!ButtonInit
<1>2. held \in 0 .. MaxTime
  BY <1>1, PowerDownAssumption
<1> QED
  BY <1>1, <1>2 DEF ButtonInv, ButtonType

LEMMA ButtonInvStep == ButtonInv /\ [Button!ButtonNext]_buttonVars => ButtonInv'
<1> SUFFICES ASSUME ButtonInv, [Button!ButtonNext]_buttonVars PROVE ButtonInv'
  OBVIOUS
<1> USE DEF ButtonInv, ButtonType, Button!None
<1>1. CASE Button!ButtonMoves
  BY <1>1, PowerDownAssumption DEF Button!ButtonMoves
<1>2. CASE Button!TimePasses
  <2>1. /\ held' = (IF button THEN Button!Later(held) ELSE held)
        /\ since' = Button!Later(since)
        /\ UNCHANGED <<button, moved, unread, shutdown_time>>
    BY <1>2 DEF Button!TimePasses
  <2>2. Button!Later(held) \in 0 .. MaxTime
    BY PowerDownAssumption DEF Button!Later
  <2>3. CASE since = Button!None
    <3>1. since' = Button!None
      BY <2>1, <2>3, PowerDownAssumption DEF Button!Later
    <3> QED
      BY <2>1, <2>2, <3>1
  <2>4. CASE since # Button!None
    <3>1. since \in 0 .. MaxTime /\ since' \in 0 .. MaxTime
      BY <2>1, <2>4, PowerDownAssumption DEF Button!Later
    <3>2. since <= held => since' <= Button!Later(held)
      BY <2>1, <3>1, PowerDownAssumption DEF Button!Later
    <3> QED
      BY <2>1, <2>2, <2>4, <3>1, <3>2
  <2> QED
    BY <2>3, <2>4
<1>3. CASE Button!SettingsChange
  BY <1>3 DEF Button!SettingsChange
<1>4. CASE Button!SampleFails
  BY <1>4 DEF Button!SampleFails
<1>5. CASE Button!Released
  BY <1>5 DEF Button!Released
<1>6. CASE Button!Pressed
  <2>1. /\ button /\ moved' = FALSE /\ UNCHANGED <<button, held, shutdown_time, unread>>
        /\ since' = Button!None \/ since' = 0
    BY <1>6 DEF Button!Pressed
  <2>2. 0 \in 0 .. MaxTime /\ 0 <= held
    BY PowerDownAssumption
  <2> QED
    BY <2>1, <2>2
<1>7. CASE Button!StaysPressed \/ Button!LongPress
  <2>1. /\ button /\ moved' = FALSE
        /\ UNCHANGED <<button, held, since, shutdown_time, unread>>
    BY <1>7 DEF Button!StaysPressed, Button!LongPress
  <2> QED
    BY <2>1
<1>8. CASE UNCHANGED buttonVars
  BY <1>8 DEF buttonVars
<1> QED
  BY <1>1, <1>2, <1>3, <1>4, <1>5, <1>6, <1>7, <1>8 DEF Button!ButtonNext, Button!Sample

(* The GPIO only changes on a press that has been timed to be long enough.    *)
LEMMA PressWasTimed ==
    ButtonInv /\ [Button!ButtonNext]_buttonVars => Button!PressIsLong
<1> SUFFICES ASSUME ButtonInv, [Button!ButtonNext]_buttonVars, gpio' # gpio, ~unread
             PROVE  held >= shutdown_time
  BY DEF Button!PressIsLong
<1>1. Button!LongPress
  BY DEF Button!ButtonNext, Button!ButtonMoves, Button!TimePasses, Button!SettingsChange,
         Button!SampleFails, Button!Sample, Button!Released, Button!Pressed,
         Button!StaysPressed, buttonVars
<1>2. button /\ since # Button!None /\ since >= shutdown_time
  BY <1>1 DEF Button!LongPress
<1>3. since <= held /\ since \in Int /\ held \in Int /\ shutdown_time \in Int
  BY <1>2, PowerDownAssumption DEF ButtonInv, ButtonType
<1> QED
  BY <1>2, <1>3

(* Only a press that lasts for the time of the settings, as they are by then, *)
(* turns the keyboard off, however the settings change under it and whenever  *)
(* it bounces between two samples.                                            *)
THEOREM ShortPressesAreIgnored == PowerSpec => OnlyLongPresses
<1>1. PowerInit => ButtonInv
  BY ButtonInvInit DEF PowerInit
<1>2. [PowerNext]_powerVars => [Button!ButtonNext]_buttonVars
  BY DEF PowerNext, Monitor, powerVars
<1>3. ButtonInv /\ [PowerNext]_powerVars => ButtonInv'
  BY <1>2, ButtonInvStep
<1>4. ButtonInv /\ [PowerNext]_powerVars => [Button!PressIsLong]_powerVars
  BY <1>2, PressWasTimed
<1> QED
  BY <1>1, <1>3, <1>4, PTL DEF PowerSpec, OnlyLongPresses
=============================================================================
