------------------------------ MODULE YkbEsbPrx ------------------------------
(***************************************************************************)
(* The receiver of the ESB library (lib/ykb_esb/src/ykb_esb.c, mode PRX) in *)
(* timeslots: what it sends goes out with the acknowledgement of the next   *)
(* packet of the transmitter.                                               *)
(*                                                                         *)
(* ykb_esb_send copies the data into a cache, and if ESB is active puts the *)
(* cache into the FIFO of the driver in place of what was there; the start  *)
(* of a timeslot, an interrupt, does the same.  The data are two parts: a   *)
(* timeslot that starts while the cache is copied finds it half old, and a  *)
(* third field of what it puts into the FIFO (history) says so.  The driver *)
(* sends the head of its FIFO with an acknowledgement and drops it when the *)
(* transmitter goes on to its next packet.                                  *)
(***************************************************************************)
EXTENDS Integers, Sequences

CONSTANTS
  MaxSends,     \* bound: calls of ykb_esb_send
  MaxSlots,     \* bound: timeslots that end
  InitFails     \* esb_initialize may fail at the start of a timeslot

VARIABLES
  slot, active,   \* m_in_timeslot, m_active
  cache,          \* m_prx_ack_cache.data, in two parts
  valid,          \* m_prx_ack_cache_valid
  acks,           \* the TX FIFO of the ESB driver
  acking,         \* its head went out with an acknowledgement
  sender,         \* the next step of ykb_esb_send
  sent,           \* calls so far; the data of each is its number
  heard,          \* the data of acknowledgements that arrived last
  lost,           \* the transmitter went on without having got the head
  slots           \* counter of the bound

prxVars == << slot, active, cache, valid, acks, acking, sender, sent, heard, lost, slots >>

PrxInit ==
  /\ slot = FALSE /\ active = FALSE
  /\ cache = << 0, 0 >> /\ valid = FALSE
  /\ acks = << >> /\ acking = FALSE
  /\ sender = "idle" /\ sent = 0 /\ heard = << 0, 0, FALSE >>
  /\ lost = FALSE /\ slots = 0

-----------------------------------------------------------------------------
(* ykb_esb_send, prx_set_cached_ack_from_data: by the thread *)

BeginCopy ==
  /\ sender = "idle" /\ sent < MaxSends
  /\ sent' = sent + 1
  /\ cache' = << sent + 1, cache[2] >>
  /\ sender' = "copying"
  /\ UNCHANGED << slot, active, valid, acks, acking, heard, lost, slots >>

EndCopy ==
  /\ sender = "copying"
  /\ cache' = << cache[1], sent >>
  /\ valid' = TRUE
  /\ sender' = "copied"
  /\ UNCHANGED << slot, active, acks, acking, sent, heard, lost, slots >>

CheckActive ==
  /\ sender = "copied"
  /\ sender' = IF active THEN "flush" ELSE "idle"
  /\ UNCHANGED << slot, active, cache, valid, acks, acking, sent, heard, lost, slots >>

Payload == << cache[1], cache[2], sender = "copying" >>

(* prx_preload_cached_ack, in two steps *)
Flush ==
  /\ sender = "flush"
  /\ acks' = << >> /\ acking' = FALSE
  /\ sender' = "write"
  /\ UNCHANGED << slot, active, cache, valid, sent, heard, lost, slots >>

(* It fails when the driver is off meanwhile. *)
Write ==
  /\ sender = "write"
  /\ acks' = IF active THEN Append(acks, Payload) ELSE acks
  /\ sender' = "idle" /\ lost' = FALSE
  /\ UNCHANGED << slot, active, cache, valid, acking, sent, heard, slots >>

PrxSend == BeginCopy \/ EndCopy \/ CheckActive \/ Flush \/ Write

-----------------------------------------------------------------------------
(* on_timeslot_start_stop *)

(* Faulty variant: a timeslot starts with an empty FIFO. *)
StartsEmpty ==
  /\ ~slot
  /\ slot' = TRUE /\ active' = TRUE
  /\ acks' = << >> /\ acking' = FALSE /\ lost' = FALSE
  /\ UNCHANGED << cache, valid, sender, sent, heard, slots >>

SlotStarts ==
  /\ ~slot
  /\ slot' = TRUE /\ active' \in {TRUE, ~InitFails}
  /\ acks' = IF active' /\ valid THEN << Payload >> ELSE << >>
  /\ acking' = FALSE /\ lost' = FALSE
  /\ UNCHANGED << cache, valid, sender, sent, heard, slots >>

SlotEnds ==
  /\ slot /\ slots < MaxSlots
  /\ slot' = FALSE /\ active' = FALSE
  /\ acks' = << >> /\ acking' = FALSE
  /\ slots' = slots + 1
  /\ UNCHANGED << cache, valid, sender, sent, heard, lost >>

(* A packet of the transmitter: its next one, or the last one again because *)
(* the acknowledgement was lost.  Each is acknowledged, and that may arrive. *)
Polled(next) ==
  /\ active
  /\ acks' = IF next /\ acking THEN Tail(acks) ELSE acks
  /\ lost' = (lost \/ (acks' # acks /\ heard # Head(acks)))
  /\ acking' = (acks' # << >>)
  /\ \/ acking' /\ heard' = Head(acks')
     \/ UNCHANGED heard
  /\ UNCHANGED << slot, active, cache, valid, sender, sent, slots >>

(* An acknowledgement with data that arrives. *)
Arrives == \E next \in BOOLEAN : Polled(next) /\ heard' # heard

PrxNext ==
  \/ PrxSend \/ SlotStarts \/ SlotEnds \/ \E next \in BOOLEAN : Polled(next)

(* What the thread goes on to do. *)
Goes == EndCopy \/ CheckActive \/ Flush \/ Write

-----------------------------------------------------------------------------
(* No part of what arrives is older than what arrived before ("latest       *)
(* wins"), and the parts are of one call of ykb_esb_send unless a timeslot  *)
(* started while it copied them.                                            *)
AckIsNewer ==
  /\ heard[1] <= heard'[1] /\ heard[2] <= heard'[2]
  /\ heard'[1] = heard'[2] \/ heard'[3]
AcksNeverGoBack == [][AckIsNewer]_heard

(* What was sent last arrives in the end, both parts of it, whatever it was  *)
(* mixed up with before, unless its acknowledgement was lost and the         *)
(* transmitter went on in the same timeslot, or the driver could not be      *)
(* initialised in the last one.                                              *)
LatestArrives ==
  \/ <>[](slot /\ ~active)
  \/ <>[](sender = "idle" => (heard[1] = sent /\ heard[2] = sent) \/ lost)
=============================================================================
