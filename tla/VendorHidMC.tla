----------------------------- MODULE VendorHidMC -----------------------------
(***************************************************************************)
(* Instance for TLC: packets of two bytes, settings of three.  The initial *)
(* state chooses between two configurators, one on USB and one on          *)
(* Bluetooth, that are closed and opened again, do not wait for a busy     *)
(* keyboard and lose packets of answers; one patient configurator that     *)
(* makes every kind of request; and the framing alone over a bad channel,  *)
(* which is what SplitLink has, with a buffer of five bytes.               *)
(***************************************************************************)
EXTENDS VendorHid

CONSTANTS
    Lengths,        \* the payload length of each transfer on the bad channel
    Ids,            \* and its transfer id
    Capacity        \* bytes of the receive buffer at its end

\* uint16_t total_len.
ASSUME ChannelAssumption ==
    /\ 1 \in DOMAIN Lengths
    /\ \A t \in DOMAIN Lengths : Lengths[t] \in 0 .. U16 - 1
    /\ Capacity \in Nat

VARIABLES
    part,                                       \* "hosts", "patient" or "channel"
    owner, transfer, tx, packets, ctx, result   \* YkbTransfer

MCContexts == {"usb", "bt"}
MCReportsErrors == {"usb"}
MCHosts == {"pc", "tablet"}
MCVia == [h \in MCHosts |-> IF h = "pc" THEN "usb" ELSE "bt"]

Alone(type) == [i \in {0} |-> type]
SetSettings(v) == [i \in 0 .. SettingsSize |-> IF i = 0 THEN "SET_SETTINGS" ELSE v]
SetSlot(v) == [i \in 0 .. 2 |-> IF i = 0 THEN "SET_SLOT" ELSE v]
Rename(v) == [i \in 0 .. 1 |-> IF i = 0 THEN "RENAME_SLOT" ELSE v]

SettingsRequests == {Alone("GET_SETTINGS"), SetSettings("1")}
AllRequests ==
    {Alone(t) : t \in {"GET_FEATURES", "GET_SETTINGS", "GET_SLOT", "SLOT_INFO",
                       "CLEAR_SLOT", "UNKNOWN"}}
    \cup {SetSettings("1"), SetSettings("2"), SetSlot("1"), Rename("2")}

Patient == INSTANCE VendorHid
    WITH Contexts <- {"usb"}, Hosts <- {"pc"}, Via <- [h \in {"pc"} |-> "usb"],
         Requests <- AllRequests, SendsFail <- FALSE, HostsWait <- TRUE,
         HostsRestart <- FALSE, MaxRequests <- 3

\* Two transfers that fill the buffer and cannot be told from one another, one of
\* whole packets only, one of a byte too many, and one with no byte and another id.
MCLengths ==
    [t \in 1 .. 5 |-> CASE t \in {1, 2} -> 5 [] t = 3 -> 4 [] t = 4 -> 6 [] t = 5 -> 0]
MCIds == [t \in 1 .. 5 |-> IF t < 5 THEN 2 ELSE 0]

Channel == INSTANCE YkbTransfer WITH rx <- ctx, sent <- packets

channelVars == <<owner, transfer, tx, packets, ctx, result>>

MCInit ==
    /\ Channel!Init
    /\ \/ part = "hosts" /\ Init /\ owner.outOfOrder
       \/ part = "patient" /\ Patient!Init /\ owner.outOfOrder
       \/ part = "channel" /\ Init

MCNext ==
    /\ UNCHANGED part
    /\ \/ part = "hosts" /\ Next /\ UNCHANGED channelVars
       \/ part = "patient" /\ Patient!Next /\ UNCHANGED channelVars
       \/ part = "channel" /\ Channel!Next /\ UNCHANGED vars

MCVars == <<vars, part, channelVars>>

MCSpec == MCInit /\ [][MCNext]_MCVars /\ (part = "patient" => Patient!Fairness)

-----------------------------------------------------------------------------
(* An answer of several packets is sent from a buffer both transports share: *)
(* its packets carry what the buffer held when the answer began, although    *)
(* the other transport may change the settings, or ask for them, between two *)
(* packets.  And the work reads the request out of the buffer the packets    *)
(* are put together in: from the moment it is queued until it ends, no       *)
(* packet of the host changes that buffer or what is known of it.            *)
AnswersStayWhole ==
    [][part = "hosts" =>
         /\ AnswersAreWhole'
         /\ \A c \in Contexts : Pending(c) /\ Pending(c)' => rx'[c] = rx[c]]_MCVars

(* As long as no configurator is closed within a request, the keyboard's     *)
(* settings are what one request carried.                                    *)
SettingsStayWhole == part = "patient" => Patient!SettingsAreWhole

(* A patient configurator that sent its request hears of it.                 *)
PatientHostsAreAnswered == part = "patient" => Patient!RequestsAreAnswered

(* Whatever the channel does, a transfer that is complete has every packet   *)
(* in its place, each as it was sent in a transfer of that id and length,    *)
(* and nothing is written behind its end.                                    *)
FramingHolds == [][Channel!CompleteIsSent' /\ Channel!WritesInside]_MCVars
=============================================================================
