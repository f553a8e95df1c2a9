------------------------------ MODULE VendorHid ------------------------------
(***************************************************************************)
(* VendorHID (subsys/vendor_hid): the configurator on a host sends a       *)
(* request as a ykb_protocol transfer; the transport's callback puts the   *)
(* packets together; a work on the system workqueue performs the request   *)
(* and sends the answer back, packet by packet.  USB and Bluetooth each    *)
(* have a context of their own, but share the workqueue and the static     *)
(* buffers answers are sent from.                                          *)
(*                                                                         *)
(* Callbacks run on cooperative threads and never block, so a callback is  *)
(* one step; the work gives way wherever it sends a packet.  A request is  *)
(* its type byte and the bytes of its body, settings are SettingsSize      *)
(* equal bytes.  There is one script slot; which slot a request names, and *)
(* the failures that come from it, are the Boolean "ok" of Perform.        *)
(***************************************************************************)
EXTENDS YkbProtocol, WorkQueue

CONSTANTS
    Contexts,         \* the transports: a vendor_hid_protocol_ctx_t each
    ReportsErrors,    \* the transports whose send_packet returns an error
    Hosts,            \* the configurators
    Via,              \* the context a host talks to
    Requests,         \* the requests hosts make, as messages
    SettingsSize,     \* sizeof(kb_settings_t)
    RequestSize,      \* sizeof(rx_buffer)
    SendsFail,        \* whether a packet of an answer may fail
    HostsWait,        \* whether a configurator leaves a busy keyboard alone
    HostsRestart,     \* whether a configurator may be closed and opened again
    MaxRequests,      \* bound: the requests of a host
    None

ASSUME VendorHidAssumption ==
    /\ ReportsErrors \subseteq Contexts
    /\ Via \in [Hosts -> Contexts]
    /\ SettingsSize \in 1 .. U16 - 2    \* a request that carries them has a length
    /\ RequestSize \in Nat
    /\ \A m \in Requests : DOMAIN m = 0 .. Cardinality(DOMAIN m) - 1

VARIABLES
    rx,           \* ctx->rx, the request being put together
    busy,         \* ctx->busy
    response,     \* ctx->current_response, as the type of the request
    works,        \* the response works on the system workqueue
    answers,      \* the handlers that run: what each is sending
    settings,     \* the keyboard's settings
    script,       \* the keyboard's script slot
    snapshots,    \* settings_snap, script_slot_snap, script_slot_info_snap
    host,         \* the configurators: what each does and has left to send
    sent          \* history: the bytes built into packets of each answer

vars == <<rx, busy, response, works, answers, settings, script, snapshots,
          host, sent>>

Known == {"GET_FEATURES", "GET_VALUES", "GET_SETTINGS", "SET_SETTINGS",
          "GET_SLOT", "SET_SLOT", "SLOT_INFO", "CLEAR_SLOT", "RENAME_SLOT",
          "GET_BATTERY", "GET_SECONDARY_BATTERY"}

\* The answers that are sent from static buffers both contexts share.
Snapshots == {"GET_SETTINGS", "GET_SLOT", "SLOT_INFO"}

\* A byte is a type, a code or a value, all of them strings.
Zero == "0"

NoSlot == [code |-> Zero, name |-> Zero]

Init ==
    /\ rx = [c \in Contexts |->
               RxInit([i \in 0 .. RequestSize - 1 |-> Zero], RequestSize, FALSE, 0)]
    /\ busy = [c \in Contexts |-> FALSE]
    /\ response = [c \in Contexts |-> None]
    /\ works = << >>
    /\ answers = [c \in Contexts |-> None]
    /\ settings = [i \in 0 .. SettingsSize - 1 |-> Zero]
    /\ script = NoSlot
    /\ snapshots = [s \in Snapshots |-> [i \in {} |-> Zero]]
    /\ host = [h \in Hosts |-> [does |-> "rests", tx |-> None, requests |-> 0]]
    /\ sent = [c \in Contexts |-> [i \in {} |-> Zero]]

-----------------------------------------------------------------------------
(* vendor_hid_protocol_parse, called with each report of a host *)

Type(buffer) == buffer[0]

\* Faulty variant: the context is made ready for the next request, not busy.
ReadyForNext(c, new) ==
    /\ rx' = [rx EXCEPT ![c] = RxReset(new)]
    /\ response' = [response EXCEPT
                      ![c] = IF Type(new.buffer) \in Known THEN Type(new.buffer)
                             ELSE "ERROR"]
    /\ works' = Submit(works, c)
    /\ UNCHANGED busy

\* The request is complete: choose the answer and leave the rest to the work.
RequestComplete(c, new) ==
    /\ rx' = [rx EXCEPT ![c] = new]
    /\ busy' = [busy EXCEPT ![c] = TRUE]
    /\ response' = [response EXCEPT
                      ![c] = IF Type(new.buffer) \in Known THEN Type(new.buffer)
                             ELSE "ERROR"]
    /\ works' = Submit(works, c)

\* A packet that meets a busy context is skipped; one that does not fit the
\* transfer in progress is refused and leaves it as it is.
Parse(c, p) ==
    LET push == RxPushPacket(rx[c], p)
    IN IF busy[c]
       THEN UNCHANGED <<rx, busy, response, works>>
       ELSE IF push.res # "COMPLETE"
       THEN /\ rx' = [rx EXCEPT ![c] = push.rx]
            /\ UNCHANGED <<busy, response, works>>
       ELSE RequestComplete(c, push.rx)

-----------------------------------------------------------------------------
(* The configurators (external): one request at a time, no timeout *)

HostStarts(h, m) ==
    /\ host[h].does = "rests"
    /\ HostsWait => ~busy[Via[h]]
    /\ host[h].requests < MaxRequests
    /\ host' = [host EXCEPT ![h] =
                  [does |-> "sends", tx |-> TxInit(m, Cardinality(DOMAIN m), 0),
                   requests |-> @.requests + 1]]
    /\ UNCHANGED <<rx, busy, response, works, answers, settings, script,
                   snapshots, sent>>

HostSends(h) ==
    /\ host[h].does = "sends"
    /\ Parse(Via[h], TxPacket(host[h].tx))
    /\ LET tx == TxAfterPacket(host[h].tx)
       IN host' = [host EXCEPT ![h].tx = tx,
                               ![h].does = IF TxHasMore(tx) THEN "sends" ELSE "waits"]
    /\ UNCHANGED <<answers, settings, script, snapshots, sent>>

\* The configurator is closed, or its cable pulled, and forgets its request.
HostRestarts(h) ==
    /\ HostsRestart
    /\ host[h].does # "rests"
    /\ host' = [host EXCEPT ![h].does = "rests", ![h].tx = None]
    /\ UNCHANGED <<rx, busy, response, works, answers, settings, script,
                   snapshots, sent>>

\* What the waiting hosts of a context make of a packet of an answer.
Heard(c, p) ==
    [h \in Hosts |->
       IF Via[h] = c /\ host[h].does = "waits" /\ p.end
       THEN [host[h] EXCEPT !.does = "rests", !.tx = None]
       ELSE host[h]]

-----------------------------------------------------------------------------
(* response_work_handler, on the system workqueue *)

Body(c, i) == rx[c].buffer[i]

\* Faulty variant: the header of the request is taken for settings.
SettingsWithHeader(c) == [i \in 0 .. SettingsSize - 1 |-> Body(c, i)]

SettingsOf(c) == [i \in 0 .. SettingsSize - 1 |-> Body(c, i + 1)]

\* What the request does to settings and script slot.
Effect(c, ok) ==
    LET r == response[c]
        slot == CASE r = "SET_SLOT"    -> [code |-> Body(c, 1), name |-> Body(c, 2)]
                  [] r = "RENAME_SLOT" -> [script EXCEPT !.name = Body(c, 1)]
                  [] r = "CLEAR_SLOT"  -> NoSlot
                  [] OTHER             -> script
    IN /\ settings' = IF ok /\ r = "SET_SETTINGS" THEN SettingsOf(c) ELSE settings
       /\ script' = IF ok THEN slot ELSE script

\* What it puts into the shared buffers.
Take(r, ok) ==
    IF ~ok THEN snapshots
    ELSE CASE r = "GET_SETTINGS" -> [snapshots EXCEPT ![r] = settings]
           [] r = "GET_SLOT" ->
                [snapshots EXCEPT ![r] = [i \in 0 .. 1 |-> IF i = 0 THEN script.code
                                                           ELSE script.name]]
           [] r = "SLOT_INFO" -> [snapshots EXCEPT ![r] = [i \in {0} |-> script.name]]
           [] OTHER -> snapshots

\* The bytes the answer points to.  Features, values and battery states are
\* one byte each, as are the codes that say how a change went.
Bytes(a) == IF a.from \in Snapshots THEN snapshots[a.from] ELSE [i \in {0} |-> a.from]

\* Faulty variant: a workqueue for each transport.
OnlyOwnWork(c) == answers[c] = None

\* The workqueue runs one work to its end before the next.
WorkqueueFree(c) == \A other \in Contexts : answers[other] = None

StartResponse(c, ok) ==
    /\ works # << >> /\ Head(works) = c
    /\ WorkqueueFree(c)
    /\ works' = Tail(works)
    /\ Effect(c, ok)
    /\ snapshots' = Take(response[c], ok)
    /\ LET from == IF ok THEN response[c] ELSE "ERROR"
           data == IF from \in Snapshots THEN snapshots'[from] ELSE [i \in {0} |-> from]
       IN answers' = [answers EXCEPT
                        ![c] = [from |-> from, tx |-> TxInit(data, Cardinality(DOMAIN data), 0)]]
    /\ sent' = [sent EXCEPT ![c] = [i \in {} |-> Zero]]
    /\ UNCHANGED <<rx, busy, response, host>>

\* The packet is built from the buffer as it is now.
NextPacket(c) == TxPacket([answers[c].tx EXCEPT !.data = Bytes(answers[c])])

SendsOn(c) == answers[c] # None /\ TxHasMore(answers[c].tx)

\* The bytes built so far, with those of the next packet.
Built(c) ==
    LET at == answers[c].tx.offset
        payload == NextPacket(c).payload
    IN [i \in 0 .. at + Cardinality(DOMAIN payload) - 1 |->
          IF i < at THEN sent[c][i] ELSE payload[i - at]]

SendPacket(c) ==
    /\ SendsOn(c)
    /\ answers' = [answers EXCEPT ![c].tx = TxAfterPacket(@)]
    /\ sent' = [sent EXCEPT ![c] = Built(c)]
    /\ host' = Heard(c, NextPacket(c))
    /\ UNCHANGED <<rx, busy, response, works, settings, script, snapshots>>

GivenUp(tx) == [tx EXCEPT !.next_packet_idx = tx.packet_count]

\* USB gives the answer up; Bluetooth takes no notice and sends the rest.
SendFails(c) ==
    /\ SendsFail
    /\ SendsOn(c)
    /\ answers' = [answers EXCEPT
                     ![c].tx = IF c \in ReportsErrors THEN GivenUp(@)
                               ELSE TxAfterPacket(@)]
    /\ sent' = [sent EXCEPT ![c] = Built(c)]
    /\ UNCHANGED <<rx, busy, response, works, settings, script, snapshots, host>>

\* Faulty variant: the receive context is left as the request filled it.
FinishKeepsTransfer(c) ==
    /\ answers[c] # None /\ ~TxHasMore(answers[c].tx)
    /\ answers' = [answers EXCEPT ![c] = None]
    /\ busy' = [busy EXCEPT ![c] = FALSE]
    /\ UNCHANGED <<rx, response, works, settings, script, snapshots, host, sent>>

FinishResponse(c) ==
    /\ answers[c] # None /\ ~TxHasMore(answers[c].tx)
    /\ answers' = [answers EXCEPT ![c] = None]
    /\ rx' = [rx EXCEPT ![c] = RxReset(@)]
    /\ busy' = [busy EXCEPT ![c] = FALSE]
    /\ UNCHANGED <<response, works, settings, script, snapshots, host, sent>>

-----------------------------------------------------------------------------
Works(c) ==
    \/ \E ok \in BOOLEAN : StartResponse(c, ok)
    \/ SendPacket(c)
    \/ SendFails(c)
    \/ FinishResponse(c)

Next ==
    \/ \E h \in Hosts :
         \/ \E m \in Requests : HostStarts(h, m)
         \/ HostSends(h)
         \/ HostRestarts(h)
    \/ \E c \in Contexts : Works(c)

Spec == Init /\ [][Next]_vars

(* The workqueue runs what is queued, and a host sends a request it began. *)
Fairness ==
    /\ \A c \in Contexts : WF_vars(Works(c))
    /\ \A h \in Hosts : WF_vars(HostSends(h))

FairSpec == Spec /\ Fairness

-----------------------------------------------------------------------------
(* Contexts, buffers and hosts hold what the code puts there. *)
TypeOK ==
    /\ \A c \in Contexts : rx[c].received_count \in 0 .. rx[c].packet_count
    /\ busy \in [Contexts -> BOOLEAN]
    /\ response \in [Contexts -> Known \cup {"ERROR", None}]
    /\ \A i \in DOMAIN works : works[i] \in Contexts
    /\ \A c \in Contexts : answers[c] # None => answers[c].from \in Known \cup {"ERROR"}
    /\ DOMAIN settings = 0 .. SettingsSize - 1
    /\ DOMAIN script = DOMAIN NoSlot
    /\ DOMAIN snapshots = Snapshots
    /\ \A h \in Hosts : host[h].does \in {"rests", "sends", "waits"}

Pending(c) == (\E i \in DOMAIN works : works[i] = c) \/ answers[c] # None

(* The work reads the request out of the buffer the packets are put together *)
(* in: from the moment it is queued until it ends, no packet of the host     *)
(* changes that buffer or what is known of it.                               *)
RequestUndisturbed ==
    [][\A c \in Contexts : Pending(c) /\ Pending(c)' => rx'[c] = rx[c]]_vars

(* An answer of several packets is sent from a buffer both transports share: *)
(* its packets carry what the buffer held when the answer began, although    *)
(* the other transport may change the settings, or ask for them, between two *)
(* packets.                                                                  *)
AnswersAreWhole ==
    \A c \in Contexts :
        answers[c] # None =>
            \A i \in DOMAIN sent[c] : sent[c][i] = answers[c].tx.data[i]

(* The keyboard's settings are what one request carried, never the beginning *)
(* of one request and the end of another.                                    *)
SettingsAreWhole == \A i, j \in DOMAIN settings : settings[i] = settings[j]

(* A configurator that sent its request hears of it. *)
RequestsAreAnswered ==
    \A h \in Hosts : host[h].does = "sends" ~> host[h].does = "rests"
=============================================================================
