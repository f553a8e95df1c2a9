----------------------------- MODULE YkbTimeslot -----------------------------
(***************************************************************************)
(* How the network core gets radio time for ESB beside Bluetooth            *)
(* (lib/ykb_timeslot): the handler of the signals of MPSL, and the thread   *)
(* that makes the calls which must not be made from a handler.              *)
(*                                                                         *)
(* MPSL is external.  A session is idle, has a request pending, or runs a   *)
(* timeslot; a timeslot is extended again and again until MPSL refuses.     *)
(* The answer to an extension comes before the next timer event.  A session *)
(* whose timeslot ended without a request signals that it is idle; a        *)
(* request that is blocked or cancelled is signalled as just that.  MPSL    *)
(* refuses MaxRefusals times: an extension, a request, or the rest of a     *)
(* timeslot (OVERSTAYED and INVALID_RETURN, which are treated alike).       *)
(* Nobody schedules CLOSE_SESSION.                                          *)
(***************************************************************************)
EXTENDS Integers, Sequences, SequencesExt

CONSTANTS
  Calls,        \* places in mpsl_api_msgq (10)
  MaxRefusals   \* bound: refusals of MPSL

VARIABLES
  slot,       \* m_in_timeslot
  session,    \* of MPSL: "none", "idle", "requested", "running", "over"
  timer,      \* in a timeslot: "early" (CC0), "asked" or "late" (CC1)
  extension_failed,
  calls,      \* mpsl_api_msgq
  oops,       \* a call that fails, or has no place, ends the core: k_oops
  refusals    \* counter of the bound

slotVars == << slot, session, timer, extension_failed, calls, oops, refusals >>

(* timeslot_handler_init *)
SlotInit ==
  /\ slot = FALSE /\ session = "none" /\ timer = "early"
  /\ extension_failed = FALSE
  /\ calls = << "open", "request" >> /\ oops = FALSE /\ refusals = 0

-----------------------------------------------------------------------------
Refuse == refusals < MaxRefusals /\ refusals' = refusals + 1

(* schedule_request *)
Schedule(call) ==
  IF Len(calls) < Calls
  THEN calls' = Append(calls, call) /\ UNCHANGED oops
  ELSE oops' = TRUE /\ UNCHANGED calls

(* mpsl_nonpreemptible_thread *)
MakeCall ==
  /\ ~oops /\ calls # << >>
  /\ calls' = Tail(calls)
  /\ \/ /\ Head(calls) = "open"
        /\ IF session = "none" THEN session' = "idle" /\ UNCHANGED oops
                               ELSE oops' = TRUE /\ UNCHANGED session
     \/ /\ Head(calls) = "request"
        /\ IF session = "idle" THEN session' = "requested" /\ UNCHANGED oops
                               ELSE oops' = TRUE /\ UNCHANGED session
  /\ UNCHANGED << slot, timer, extension_failed, refusals >>

-----------------------------------------------------------------------------
(* mpsl_timeslot_callback *)

Start ==
  /\ ~oops /\ session = "requested"
  /\ session' = "running" /\ timer' = "early" /\ extension_failed' = FALSE
  /\ slot' = TRUE
  /\ UNCHANGED << calls, oops, refusals >>

(* CC0: ACTION_EXTEND *)
AskExtension ==
  /\ ~oops /\ session = "running" /\ timer = "early"
  /\ timer' = "asked"
  /\ UNCHANGED << slot, session, extension_failed, calls, oops, refusals >>

(* CC0 and CC1 are set one slot later. *)
ExtendSucceeded ==
  /\ ~oops /\ timer = "asked"
  /\ timer' = "early"
  /\ UNCHANGED << slot, session, extension_failed, calls, oops, refusals >>

(* Faulty variant: the new timeslot is asked for at once. *)
ExtendFailedRequests ==
  /\ ~oops /\ timer = "asked" /\ Refuse
  /\ extension_failed' = TRUE /\ timer' = "late"
  /\ slot' = FALSE
  /\ Schedule("request")
  /\ UNCHANGED session

(* ESB stops; the timeslot goes on until CC1. *)
ExtendFailed ==
  /\ ~oops /\ timer = "asked" /\ Refuse
  /\ extension_failed' = TRUE /\ timer' = "late"
  /\ slot' = FALSE
  /\ UNCHANGED << session, calls, oops >>

(* CC1: ACTION_REQUEST ends the timeslot and asks for the next. *)
RequestNext ==
  /\ ~oops /\ session = "running" /\ timer = "late" /\ extension_failed
  /\ session' = "requested" /\ timer' = "early"
  /\ UNCHANGED << slot, extension_failed, calls, oops, refusals >>

(* OVERSTAYED, INVALID_RETURN: ACTION_END *)
Overstayed ==
  /\ ~oops /\ session = "running" /\ timer # "asked" /\ Refuse
  /\ slot' = FALSE
  /\ session' = "over" /\ timer' = "early"
  /\ UNCHANGED << extension_failed, calls, oops >>

(* Faulty variant: an idle session stays idle. *)
SessionIdleStays ==
  /\ ~oops /\ session = "over"
  /\ session' = "idle"
  /\ slot' = FALSE
  /\ UNCHANGED << timer, extension_failed, calls, oops, refusals >>

SessionIdle ==
  /\ ~oops /\ session = "over"
  /\ session' = "idle"
  /\ slot' = FALSE
  /\ Schedule("request")
  /\ UNCHANGED << timer, extension_failed, refusals >>

(* BLOCKED, CANCELLED *)
Blocked ==
  /\ ~oops /\ session = "requested" /\ Refuse
  /\ session' = "idle"
  /\ slot' = FALSE
  /\ Schedule("request")
  /\ UNCHANGED << timer, extension_failed >>

(* The signals that leave m_in_timeslot as it is. *)
Quiet ==
  \/ MakeCall \/ AskExtension \/ ExtendSucceeded \/ RequestNext
  \/ SessionIdle \/ Blocked

Stop == ExtendFailed \/ Overstayed

-----------------------------------------------------------------------------
(* No call fails or finds the queue full: a session is opened once, and a   *)
(* timeslot is asked for by one call, only while none runs or is asked for. *)
CallsSucceed ==
  /\ ~oops
  /\ calls # << >> => session \in {"none", "idle"} /\ ToSet(calls) \subseteq {"open", "request"}

(* Whatever MPSL refuses, there are timeslots again when it stops refusing. *)
SlotsGoOn == []<>slot
=============================================================================
