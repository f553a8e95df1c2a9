------------------------------- MODULE PowerDown -------------------------------
(* What turns the keyboard off: the battery and an external charger (the      *)
(* module this one extends), the charger behind its driver, and the button.   *)
EXTENDS BattSense

CONSTANTS ReadsFail, Times, MaxTime

ASSUME PowerDownAssumption ==
    /\ ReadsFail \in BOOLEAN
    /\ MaxTime \in Nat /\ Times # {} /\ Times \subseteq 0 .. MaxTime

VARIABLES
    stat1, stat2, vin, cache, queued, step, failed, reported,   \* ChargerBq25185
    button, moved, booting, held, since, requested, shutdown_time, gpio, unread, stuck,
    part                                                       \* what is looked at

Bq == INSTANCE ChargerBq25185 WITH charger <- reported
Button == INSTANCE PowerButton

\* The monitor with what the driver reports.
Behind == INSTANCE BattSense
    WITH plugged <- reported.status = "charging", faulty <- reported.health = "failure"

bqVars == <<stat1, stat2, vin, cache, queued, step, failed, reported>>
buttonVars == <<button, moved, booting, held, since, requested, shutdown_time, gpio,
                unread, stuck>>
monitorVars == <<level, thread, status, state, mutex, low_threshold, users, sysworkq,
                 power, told>>

PowerInit ==
    \/ /\ part = "battery" /\ Init
       /\ Bq!ChargerInit /\ ~stat1 /\ ~stat2 /\ ~vin
       /\ Button!ButtonInit /\ ~button /\ shutdown_time = MaxTime
    \/ /\ part = "charger" /\ Bq!ChargerInit /\ Behind!Init /\ level = Critical + 1
       /\ ~users /\ low_threshold = 0
       /\ plugged = FALSE /\ faulty = FALSE
       /\ Button!ButtonInit /\ ~button /\ shutdown_time = MaxTime
    \/ /\ part = "button" /\ Button!ButtonInit
       /\ Bq!ChargerInit /\ ~stat1 /\ ~stat2 /\ ~vin
       /\ Init /\ level = MaxLevel /\ ~users /\ ~plugged /\ low_threshold = 0

\* An action of the monitor with this driver, which has no errors to report.
Monitor(A) ==
    /\ part = "charger" /\ UNCHANGED bqVars
    /\ A
    /\ reported.health = "failure" => thread' # "status"

PowerNext ==
    /\ UNCHANGED part
    /\ \/ part = "battery" /\ Next /\ UNCHANGED <<bqVars, buttonVars>>
       \/ Monitor(Behind!Thread \/ Behind!Workqueue) /\ UNCHANGED <<charger, buttonVars>>
       \/ /\ part = "charger" /\ Bq!ChargerNext
          /\ UNCHANGED <<monitorVars, charger, buttonVars>>
       \/ part = "button" /\ Button!ButtonNext /\ UNCHANGED <<vars, bqVars>>

powerVars == <<vars, bqVars, buttonVars, part>>

bothVars == <<monitorVars, bqVars>>

(* The fairness of BattSense, with either charger; the works of the driver   *)
(* run; the thread of the button runs, time passes, and not every sample of  *)
(* the button fails.                                                         *)
PowerSpec ==
    /\ PowerInit /\ [][PowerNext]_powerVars
    /\ WF_vars(part = "battery" /\ Thread)
    /\ SF_vars(part = "battery" /\ ReadCharger) /\ SF_vars(part = "battery" /\ ReadGauge)
    /\ WF_vars(part = "battery" /\ (WorkHasMutex \/ ShutdownWork))
    /\ WF_bothVars(Monitor(Behind!Thread)) /\ WF_bothVars(Monitor(Behind!ShutdownWork))
    /\ WF_bqVars(part = "charger" /\ Bq!Work)
    /\ WF_buttonVars(part = "button" /\ Button!TimePasses)
    /\ SF_buttonVars(part = "button" /\ Button!Sample)

-----------------------------------------------------------------------------
(* With no work to do the driver reports what the pins of the charger say.   *)
ReportsPins == Bq!ReportsPins

(* A battery that is empty turns the keyboard off, and so does a charger     *)
(* that asserts STAT1 for a fault and goes on to do so, if reading the pins  *)
(* did not fail.                                                            *)
DangerShutsDown ==
    /\ part = "battery" => EmptyShutsDown
    /\ ShutoffOnChargerFailure /\ stat1 /\ vin
           ~> part # "charger" \/ ~stat1 \/ ~vin \/ failed \/ shutdownGpio

(* Only a press of the button that lasts turns the keyboard off, and one     *)
(* does.                                                                    *)
OnlyLongPresses == [][Button!PressIsLong]_powerVars
HeldTurnsOff == part = "button" => Button!HeldTurnsOff
=============================================================================
