------------------------------- MODULE BattSense -------------------------------
(***************************************************************************)
(* The battery monitor (ykb_battsense.c) and the shutdown it asks YKB      *)
(* Power for (ykb_power.c).  The thread samples the charger and the fuel   *)
(* gauge with battsense_mut held, over a bus it may sleep on.  Works of    *)
(* the system workqueue take the same mutex, to read the state or to       *)
(* change the settings; the shutdown is a work of the same queue.          *)
(***************************************************************************)
EXTENDS Integers

CONSTANTS
    MaxLevel,      \* a full battery, 100 percent
    Critical,      \* CONFIG_YKB_BATTSENSE_CRIT_THRESHOLD
    Thresholds,    \* values of low_threshold
    ShutoffOnChargerFailure

ASSUME BattSenseAssumption ==
    /\ MaxLevel \in Nat /\ Critical \in 0 .. MaxLevel
    /\ Thresholds # {} /\ Thresholds \subseteq 0 .. MaxLevel
    /\ ShutoffOnChargerFailure \in BOOLEAN

Levels == 0 .. MaxLevel

\* What the fuel gauge says; a gauge may say more than 100 percent.
Readings == 0 .. MaxLevel + 1

ChargeStatus == {"unknown", "charging", "discharging"}

States == [charge_status : ChargeStatus, percentage : Levels]

Nobody == "nobody"

VARIABLES
    level,             \* the battery
    plugged, faulty,   \* the status and the health the charger reports
    thread,            \* where the thread is
    status,            \* charger_state, its sample
    state,
    mutex,             \* who holds battsense_mut
    low_threshold,     \* battsense_settings
    users,             \* works of the system workqueue use BattSense
    sysworkq,          \* what the system workqueue does
    shutdownWork,      \* ykb_power_shutdown_work is queued
    shutdownGpio,
    callback,          \* the last callbacks the thread made
    toldChanged,       \* what a subscriber of on_state_changed was told last
    toldAny            \* the same for a subscriber of all three

charger == <<plugged, faulty>>
battery == <<level, charger>>
told    == <<callback, toldChanged, toldAny>>
power   == <<shutdownWork, shutdownGpio>>
vars == <<battery, thread, status, state, mutex, low_threshold, users, sysworkq,
          power, told>>

Zero == [charge_status |-> "unknown", percentage |-> 0]

Init ==
    /\ level \in Readings /\ plugged \in BOOLEAN /\ faulty = FALSE
    /\ thread = "top" /\ status = "unknown" /\ state = Zero
    /\ mutex = Nobody
    /\ low_threshold \in Thresholds
    /\ users \in BOOLEAN /\ sysworkq = "idle"
    /\ shutdownWork = FALSE /\ shutdownGpio = FALSE
    /\ callback = "none" /\ toldChanged = Zero /\ toldAny = Zero

BatteryMoves ==
    /\ level' \in {level - 1, level + 1} \intersect Readings
    /\ UNCHANGED charger
    /\ UNCHANGED <<thread, status, state, mutex, low_threshold, users, sysworkq,
                   power, told>>

\* The charger is external here; PowerDown has one that follows its driver.
ChargerMoves ==
    /\ \/ plugged' = ~plugged /\ UNCHANGED faulty
       \/ faulty' = ~faulty /\ UNCHANGED plugged
    /\ UNCHANGED <<level, thread, status, state, mutex, low_threshold, users, sysworkq,
                   power, told>>

-----------------------------------------------------------------------------
(* battsense_thread_handler *)

\* k_mutex_unlock hands the mutex to a work that waits for it.
Lock ==
    /\ thread = "top" /\ thread' = "charger"
    /\ mutex = Nobody /\ mutex' = "thread"
    /\ sysworkq # "waits"
    /\ UNCHANGED <<battery, status, state, low_threshold, users, sysworkq, power, told>>

ScheduleShutdown == shutdownWork' = TRUE /\ UNCHANGED shutdownGpio

\* The health is asked for first, and the status after it.
ChargerFailure ==
    /\ ShutoffOnChargerFailure /\ faulty
    /\ thread = "charger" /\ thread' = "ended"
    /\ mutex' = Nobody
    /\ ScheduleShutdown
    /\ UNCHANGED <<battery, status, state, low_threshold, users, sysworkq, told>>

\* An error of the driver counts as health.
ChargerHealthy ==
    /\ thread = "charger" /\ thread' = "status"
    /\ UNCHANGED <<battery, status, state, mutex, low_threshold, users, sysworkq, power, told>>

ReadCharger ==
    /\ thread = "status" /\ thread' = "gauge"
    /\ status' = IF plugged THEN "charging" ELSE "discharging"
    /\ UNCHANGED <<battery, state, mutex, low_threshold, users, sysworkq, power, told>>

\* An error of a driver: at once to the top again.
ReadFails ==
    /\ thread \in {"status", "gauge"} /\ thread' = "top"
    /\ mutex' = Nobody
    /\ UNCHANGED <<battery, status, state, low_threshold, users, sysworkq, power, told>>

Sampled == [charge_status |-> status,
            percentage |-> IF level < MaxLevel THEN level ELSE MaxLevel]

\* The new state, and the subscribers it is told to.
Samples(which, next) ==
    /\ thread = "gauge" /\ thread' = next
    /\ state' = Sampled
    /\ callback' = which
    /\ toldChanged' = IF which = "state_changed" THEN Sampled ELSE toldChanged
    /\ toldAny' = IF which = "none" THEN toldAny ELSE Sampled
    /\ UNCHANGED <<battery, status, mutex, low_threshold, users, sysworkq, power>>

\* Faulty variants: every low sample is a fall; the threshold itself is good.
IsLow(threshold) == Sampled.percentage <= threshold

FallsBelow(threshold) ==
    /\ state.percentage > Sampled.percentage
    /\ Sampled.percentage < threshold

Falls(threshold) ==
    /\ state.percentage > Sampled.percentage
    /\ Sampled.percentage <= threshold

CriticalLevel == Falls(Critical) /\ Samples("critical_percentage", "critical")

LowLevel ==
    /\ ~Falls(Critical) /\ Falls(low_threshold)
    /\ Samples("low_percentage", "unlock")

StateChanged ==
    /\ ~Falls(Critical) /\ ~Falls(low_threshold) /\ Sampled # state
    /\ Samples("state_changed", "unlock")

\* Faulty variant: a change of the charge status alone does not count.
SameLevel ==
    Sampled.percentage = state.percentage /\ Samples("none", "unlock")

NoChange == Sampled = state /\ Samples("none", "unlock")

\* The thread ends without giving the mutex back.
ShutDown ==
    /\ thread = "critical" /\ thread' = "ended"
    /\ ScheduleShutdown
    /\ UNCHANGED <<battery, status, state, mutex, low_threshold, users, sysworkq, told>>

UnlockAndSleep ==
    /\ thread = "unlock" /\ thread' = "top"
    /\ mutex' = Nobody
    /\ UNCHANGED <<battery, status, state, low_threshold, users, sysworkq, power, told>>

ReadGauge == CriticalLevel \/ LowLevel \/ StateChanged \/ NoChange

Thread ==
    \/ Lock \/ ChargerFailure \/ ChargerHealthy \/ ReadCharger \/ ReadFails \/ ReadGauge
    \/ ShutDown \/ UnlockAndSleep

-----------------------------------------------------------------------------
(* The system workqueue *)

\* ykb_battsense_get_state or on_settings_update; a work that ShutDown queued
\* runs before others that come later.
WorkUsesMutex ==
    /\ users
    /\ sysworkq = "idle" /\ ~shutdownWork
    /\ \/ mutex = Nobody /\ low_threshold' \in Thresholds /\ UNCHANGED sysworkq
       \/ mutex # Nobody /\ sysworkq' = "waits" /\ UNCHANGED low_threshold
    /\ UNCHANGED <<battery, thread, status, state, mutex, users, power, told>>

WorkHasMutex ==
    /\ sysworkq = "waits" /\ mutex = Nobody
    /\ sysworkq' = "idle"
    /\ low_threshold' \in Thresholds
    /\ UNCHANGED <<battery, thread, status, state, mutex, users, power, told>>

\* ykb_power_shutdown_work_handler
ShutdownWork ==
    /\ sysworkq = "idle" /\ shutdownWork
    /\ shutdownWork' = FALSE /\ shutdownGpio' = TRUE
    /\ UNCHANGED <<battery, thread, status, state, mutex, low_threshold, users, sysworkq,
                   told>>

Workqueue == WorkUsesMutex \/ WorkHasMutex \/ ShutdownWork

Next == BatteryMoves \/ ChargerMoves \/ Thread \/ Workqueue

Spec == Init /\ [][Next]_vars

(* The scheduler lets both run, and the drivers do not fail forever.       *)
Fairness ==
    /\ WF_vars(Thread) /\ SF_vars(ReadCharger) /\ SF_vars(ReadGauge)
    /\ WF_vars(WorkHasMutex \/ ShutdownWork)

FairSpec == Spec /\ Fairness

-----------------------------------------------------------------------------
TypeOK ==
    /\ level \in Readings
    /\ thread \in {"top", "charger", "status", "gauge", "critical", "unlock", "ended"}
    /\ {state, toldChanged, toldAny} \subseteq States
    /\ status \in ChargeStatus
    /\ mutex \in {"thread", Nobody}
    /\ low_threshold \in Thresholds
    /\ sysworkq \in {"idle", "waits"}
    /\ {users, plugged, faulty, shutdownWork, shutdownGpio} \subseteq BOOLEAN
    /\ callback \in {"none", "state_changed", "low_percentage", "critical_percentage"}

(* Who listens to all three callbacks (BT Connect) always knows the state  *)
(* BattSense would report.                                                 *)
ListenersKnow == toldAny = state

(* A battery that falls to the critical threshold and stays there turns    *)
(* the keyboard off, if no work is waiting for the mutex that the thread   *)
(* keeps when it ends.                                                     *)
EmptyShutsDown ==
    ~users /\ state.percentage > Critical /\ level <= Critical
        ~> level > Critical \/ shutdownGpio

(* Who only listens to on_state_changed (the slave, for its master) may    *)
(* miss a fall below a threshold, and nothing else: what it was told last  *)
(* is the state, or is that of a fuller battery (the three branches of     *)
(* battsense_thread_handler exclude one another).                          *)
OnlyFallsAreMissed ==
    toldChanged = state \/ toldChanged.percentage > state.percentage

(* Both kinds of listeners know what they can.                             *)
ListenersAreTold == ListenersKnow /\ OnlyFallsAreMissed
=============================================================================
