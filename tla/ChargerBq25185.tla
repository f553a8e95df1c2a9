---------------------------- MODULE ChargerBq25185 ----------------------------
(***************************************************************************)
(* The driver of the charger (drivers/charger/src/charger_bq25185.c).  An  *)
(* edge of one of its three pins submits a work, which reads the pins one  *)
(* by one into a cache and then decodes the cache.  Pins change at any     *)
(* time, also between two reads.  A read that fails ends the work; nothing *)
(* but the next edge makes it try again.                                   *)
(*                                                                         *)
(* The work has the mutex of the driver for all of its steps, so that      *)
(* others see the state before or after them.  There is no CE pin, as on   *)
(* the boards in the tree, so that charging is always enabled.             *)
(***************************************************************************)
EXTENDS Integers

CONSTANT ReadsFail    \* gpio_pin_get_dt may fail

VARIABLES
    stat1, stat2, vin,    \* the pins, TRUE when active
    cache,                \* what was read of them
    queued,               \* the work is in the queue of the system workqueue
    step,                 \* what it reads next
    failed,               \* ghost: the last work failed
    charger               \* status and health as they are reported

pins == <<stat1, stat2, vin>>
chargerVars == <<pins, cache, queued, step, failed, charger>>

\* bq25185_decode_state
Decode(one, two, input) ==
    [status |-> IF ~input \/ one THEN "not charging"
                ELSE IF two THEN "charging" ELSE "full",
     health |-> IF input /\ one THEN "failure" ELSE "good"]

\* bq25185_init reads and decodes what the pins are.
ChargerInit ==
    /\ stat1 \in BOOLEAN /\ stat2 \in BOOLEAN /\ vin \in BOOLEAN
    /\ cache = pins
    /\ queued = FALSE /\ step = "idle" /\ failed = FALSE
    /\ charger = Decode(stat1, stat2, vin)

\* Faulty variant: an edge is left to a work that is running already.
EdgeUnlessRunning(pin, value) ==
    /\ pin # value
    /\ queued' = (queued \/ step = "idle")
    /\ UNCHANGED <<cache, step, failed, charger>>

\* bq25185_gpio_cb: an interrupt.
Edge(pin, value) ==
    /\ pin # value
    /\ queued' = TRUE
    /\ UNCHANGED <<cache, step, failed, charger>>

PinsMove == \E value \in BOOLEAN :
    \/ Edge(stat1, value) /\ stat1' = value /\ UNCHANGED <<stat2, vin>>
    \/ Edge(stat2, value) /\ stat2' = value /\ UNCHANGED <<stat1, vin>>
    \/ Edge(vin, value) /\ vin' = value /\ UNCHANGED <<stat1, stat2>>

-----------------------------------------------------------------------------
(* bq25185_work_handler *)

BeginWork ==
    /\ queued /\ step = "idle"
    /\ queued' = FALSE /\ step' = "stat1"
    /\ UNCHANGED <<pins, cache, failed, charger>>

Reads(which, pin, next) ==
    /\ step = which /\ step' = next
    /\ cache' = [cache EXCEPT ![pin] = pins[pin]]
    /\ UNCHANGED <<pins, queued, failed, charger>>

ReadPins ==
    Reads("stat1", 1, "stat2") \/ Reads("stat2", 2, "vin") \/ Reads("vin", 3, "decode")

PinReadFails ==
    /\ ReadsFail
    /\ step \in {"stat1", "stat2", "vin"} /\ step' = "idle"
    /\ failed' = TRUE
    /\ UNCHANGED <<pins, cache, queued, charger>>

DecodeState ==
    /\ step = "decode" /\ step' = "idle"
    /\ failed' = FALSE
    /\ charger' = Decode(cache[1], cache[2], cache[3])
    /\ UNCHANGED <<pins, cache, queued>>

Work == BeginWork \/ ReadPins \/ PinReadFails \/ DecodeState

ChargerNext == PinsMove \/ Work

ChargerSpec == ChargerInit /\ [][ChargerNext]_chargerVars

-----------------------------------------------------------------------------
(* With no work to do the driver reports what the pins say, unless reading *)
(* them failed: no edge is lost, also not one between the reads of a work  *)
(* (k_work_submit queues a work again that is running).                    *)
ReportsPins ==
    ~queued /\ step = "idle" /\ ~failed => charger = Decode(stat1, stat2, vin)
=============================================================================
