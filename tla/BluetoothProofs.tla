--------------------------- MODULE BluetoothProofs ---------------------------
(***************************************************************************)
(* What holds of the Bluetooth of both halves for any number of failures,   *)
(* and of its host for any number of connection objects.                    *)
(*                                                                         *)
(* The two halves agree because a connection goes through few stages, which *)
(* the invariant lists: what the central has asked for, what it looks for   *)
(* and which handles it has belong together.  A second discovery, which a   *)
(* late MTU exchange starts, has stages of its own, and only there a        *)
(* handle is made up.                                                       *)
(***************************************************************************)
EXTENDS Bluetooth, SequenceTheorems, TLAPS

(* Callbacks, requests and works queue up, never more than two of them. *)
One(a)    == <<a>>
Two(a, b) == <<a, b>>

(* The callbacks that can be due for a half. *)
Up     == One("connected")
Failed == One("failed")
Down   == One("disconnected")
UpDown == Two("connected", "disconnected")
Queues == { << >>, Up, Failed, Down, UpDown }

Stage(asked, looksFor, found, tx, rx, timer) ==
  /\ requests = asked /\ want = looksFor /\ service = found
  /\ txHandle = tx /\ rxHandle = rx /\ fallback = timer

Fresh == Stage(<< >>, "none", FALSE, "none", "none", FALSE)

(* The central looks for the service and its characteristics; after a late  *)
(* MTU exchange twice.                                                      *)
Looking ==
  \/ Stage(One("mtu"), "none", FALSE, "none", "none", TRUE)
  \/ Stage(One("primary"), "service", FALSE, "none", "none", FALSE)
  \/ Stage(One("characteristic"), "tx", TRUE, "none", "none", FALSE)
  \/ Stage(One("characteristic"), "rx", TRUE, "good", "none", FALSE)
LookingTwice ==
  \/ Stage(Two("mtu", "primary"), "service", FALSE, "none", "none", FALSE)
  \/ Stage(Two("primary", "primary"), "service", FALSE, "none", "none", FALSE)
  \/ Stage(Two("primary", "characteristic"), "tx", TRUE, "none", "none", FALSE)
  \/ Stage(Two("characteristic", "characteristic"), "rx", TRUE, "bad", "none", FALSE)

(* It has found them, and asks for notifications; then it has them, ... *)
Found     == Stage(One("subscribe"), "rx", TRUE, "good", "good", FALSE)
FoundTwice ==
  \/ Stage(Two("characteristic", "subscribe"), "rx", TRUE, "bad", "good", FALSE)
  \/ Stage(Two("subscribe", "subscribe"), "rx", TRUE, "bad", "good", FALSE)
Notified  == Stage(<< >>, "rx", TRUE, "good", "good", FALSE)

(* ... or is refused. *)
Refused ==
  \/ Stage(One("subscribe"), "rx", TRUE, "none", "none", FALSE)
  \/ Stage(<< >>, "rx", TRUE, "none", "none", FALSE)

Connecting == Looking \/ (late /\ LookingTwice)
Connected  == Found \/ (late /\ FoundTwice) \/ Notified

(* The central, from its scan to the loss of its connection. *)
CentralInv ==
  \/ /\ ~radio /\ events["central"] \in { << >>, Failed }
     /\ ~connected["central"] /\ Fresh
  \/ /\ radio /\ conn /\ events["central"] = Up
     /\ ~connected["central"] /\ Fresh
  \/ /\ radio /\ conn /\ events["central"] = << >>
     /\ \/ ~connected["central"] /\ (Connecting \/ (late /\ Refused))
        \/ connected["central"] /\ Connected
  \/ /\ ~radio /\ conn /\ events["central"] = UpDown
     /\ ~connected["central"] /\ Fresh
  \/ /\ ~radio /\ conn /\ events["central"] = Down
     /\ requests = << >>
     /\ connected["central"] => late \/ (txHandle = "good" /\ rxHandle = "good")

(* The peripheral advertises, has a callback due, a connection, or the work *)
(* that starts advertising again, and never two of them.                    *)
PeripheralInv ==
  \/ /\ ~radio /\ events["peripheral"] \in { << >>, Failed, UpDown }
     /\ ~peer /\ ~connected["peripheral"]
     /\ events["peripheral"] = << >> => advertising # restart
     /\ events["peripheral"] # << >> => ~advertising /\ ~restart
  \/ /\ radio /\ events["peripheral"] = Up
     /\ ~peer /\ ~connected["peripheral"] /\ ~advertising /\ ~restart
  \/ /\ radio /\ events["peripheral"] = << >>
     /\ peer /\ ~advertising /\ ~restart
     /\ connected["peripheral"] =>
          notifyEnabled /\ events["central"] = << >> /\ connected["central"] /\ Notified
  \/ /\ ~radio /\ events["peripheral"] = Down
     /\ peer /\ ~advertising /\ ~restart

LinkInv ==
  /\ events \in [Halves -> Queues]
  /\ connected \in [Halves -> BOOLEAN]
  /\ radio \in BOOLEAN /\ conn \in BOOLEAN /\ scanning = ~conn
  /\ {advertising, peer, restart} \subseteq BOOLEAN
  /\ CentralInv
  /\ PeripheralInv

WorkQueues == { << >>, One("connect"), One("disconnect"), Two("connect", "disconnect") }

(* What the sync layer was told last is what the works make of it. *)
WorkInv ==
  \A h \in Halves :
    \/ works[h] = << >> /\ told[h] = connected[h]
    \/ works[h] = One("connect") /\ connected[h]
    \/ works[h] \in { One("disconnect"), Two("connect", "disconnect") } /\ ~connected[h]

(* As long as a half may become connected there are none. *)
QuietInv ==
  /\ works \in [Halves -> WorkQueues]
  /\ told \in [Halves -> BOOLEAN]
  /\ radio /\ ~connected["peripheral"] => works["peripheral"] = << >>
  /\ radio /\ ~connected["central"] /\ (events["central"] # << >> \/ Connecting)
       => works["central"] = << >>

-----------------------------------------------------------------------------
(* Queues by name: the steps below go by these facts and never look into     *)
(* a sequence.                                                               *)

LEMMA PairAppended ==
  ASSUME NEW a, NEW b
  PROVE  Append(<<a>>, b) = <<a, b>>
  <1>1. Append(<<a>>, b) \in Seq({a, b}) /\ <<a, b>> \in Seq({a, b})
    OBVIOUS
  <1>2. /\ Len(Append(<<a>>, b)) = 2 /\ Len(<<a, b>>) = 2
        /\ Append(<<a>>, b)[1] = a /\ Append(<<a>>, b)[2] = b
    OBVIOUS
  <1>3. \A i \in 1 .. 2 : Append(<<a>>, b)[i] = <<a, b>>[i]
    BY <1>2
  <1> QED
    BY <1>1, <1>2, <1>3, SeqEqual

LEMMA QueueFacts ==
  ASSUME NEW a, NEW b, NEW c
  PROVE  /\ Append(<< >>, a) = One(a) /\ Append(One(a), b) = Two(a, b)
         /\ Head(One(a)) = a /\ Tail(One(a)) = << >>
         /\ Head(Two(a, b)) = a /\ Tail(Two(a, b)) = One(b)
         /\ One(a) # << >> /\ Two(a, b) # << >> /\ One(c) # Two(a, b)
         /\ One(a) = One(b) => a = b
  <1>1. Append(<< >>, a) = One(a) /\ Append(One(a), b) = Two(a, b)
    BY PairAppended DEF One, Two
  <1>2. /\ Head(One(a)) = a /\ Tail(One(a)) = << >>
        /\ Head(Two(a, b)) = a /\ Tail(Two(a, b)) = One(b)
    BY DEF One, Two
  <1>3. /\ One(a) # << >> /\ Two(a, b) # << >> /\ One(c) # Two(a, b)
        /\ One(a) = One(b) => a = b
    BY DEF One, Two
  <1> QED
    BY <1>1, <1>2, <1>3

(* The same for the callbacks, ... *)
LEMMA CallbackFacts ==
  /\ Append(<< >>, "connected") = Up /\ Append(<< >>, "failed") = Failed
  /\ Append(<< >>, "disconnected") = Down /\ Append(Up, "disconnected") = UpDown
  /\ Head(Up) = "connected" /\ Tail(Up) = << >>
  /\ Head(Failed) = "failed" /\ Tail(Failed) = << >>
  /\ Head(Down) = "disconnected" /\ Tail(Down) = << >>
  /\ Head(UpDown) = "connected" /\ Tail(UpDown) = Down
  /\ Up # << >> /\ Failed # << >> /\ Down # << >> /\ UpDown # << >>
  /\ Up # Failed /\ Up # Down /\ Up # UpDown
  /\ Failed # Down /\ Failed # UpDown /\ Down # UpDown
  <1>1. /\ Append(<< >>, "connected") = Up /\ Append(<< >>, "failed") = Failed
        /\ Append(<< >>, "disconnected") = Down /\ Append(Up, "disconnected") = UpDown
    BY QueueFacts DEF Up, Failed, Down, UpDown
  <1>2. /\ Head(Up) = "connected" /\ Tail(Up) = << >>
        /\ Head(Failed) = "failed" /\ Tail(Failed) = << >>
        /\ Head(Down) = "disconnected" /\ Tail(Down) = << >>
    BY QueueFacts DEF Up, Failed, Down
  <1>3. Head(UpDown) = "connected" /\ Tail(UpDown) = Down
    BY QueueFacts DEF UpDown, Down
  <1>4. Up # << >> /\ Failed # << >> /\ Down # << >> /\ UpDown # << >>
    BY QueueFacts DEF Up, Failed, Down, UpDown
  <1>5. Up # UpDown /\ Failed # UpDown /\ Down # UpDown
    BY <1>2, <1>3, <1>4
  <1>6. Up # Failed /\ Up # Down /\ Failed # Down
    BY <1>2
  <1> QED
    BY <1>1, <1>2, <1>3, <1>4, <1>5, <1>6

(* ... and for the requests that the central makes. *)
LEMMA RequestFacts ==
  /\ \A r \in {"mtu", "primary", "characteristic", "subscribe"} :
        Append(<< >>, r) = One(r) /\ Head(One(r)) = r /\ Tail(One(r)) = << >> /\ One(r) # << >>
  /\ \A r, s \in {"mtu", "primary", "characteristic", "subscribe"} :
        /\ Append(One(r), s) = Two(r, s) /\ Head(Two(r, s)) = r /\ Tail(Two(r, s)) = One(s)
        /\ Two(r, s) # << >>
  BY QueueFacts

-----------------------------------------------------------------------------
(* Each step of the radio, the central and the peripheral keeps LinkInv.     *)

LEMMA ConnectsKeeps ==
  ASSUME LinkInv, Connects, UNCHANGED build
  PROVE  LinkInv'
  BY CallbackFacts DEF LinkInv, CentralInv, PeripheralInv, Connects, central, search,
     upwards, build, Queues, Halves, Fresh, Stage

LEMMA CreateFailsKeeps ==
  ASSUME LinkInv, CreateFails, UNCHANGED build
  PROVE  LinkInv'
  BY CallbackFacts DEF LinkInv, CentralInv, PeripheralInv, CreateFails, Due, Fault, central,
     search, other, upwards, build, Queues, Halves, Fresh, Stage

LEMMA AdvertisingFailsKeeps ==
  ASSUME LinkInv, AdvertisingFails, UNCHANGED build
  PROVE  LinkInv'
  BY CallbackFacts DEF LinkInv, CentralInv, PeripheralInv, AdvertisingFails, Due, Fault,
     central, search, upwards, build, Queues, Halves, Fresh, Stage

LEMMA ConnectionLostKeeps ==
  ASSUME LinkInv, ConnectionLost, UNCHANGED build
  PROVE  LinkInv'
  BY CallbackFacts DEF LinkInv, CentralInv, PeripheralInv, ConnectionLost, EndConnection,
     Fault, search, other, upwards, build, Queues, Halves, Fresh, Stage, Looking, LookingTwice,
     Found, FoundTwice, Notified, Refused, Connecting, Connected

LEMMA DeviceFoundKeeps ==
  ASSUME LinkInv, DeviceFound, UNCHANGED build
  PROVE  LinkInv'
  BY DEF LinkInv, CentralInv, PeripheralInv, DeviceFound, air, search, other, upwards,
     build, Queues, Halves, Fresh, Stage

LEMMA CentralConnectedKeeps ==
  ASSUME LinkInv, CentralConnected, UNCHANGED build
  PROVE  LinkInv'
  <1> USE DEF Handle, Halves, Queues, other, upwards, build
  <1>1. /\ UNCHANGED <<radio, scanning, conn, service, txHandle, rxHandle, late,
                        advertising, peer, restart, notifyEnabled, connected>>
        /\ events' \in [Halves -> Queues] /\ events'["peripheral"] = events["peripheral"]
    BY CallbackFacts DEF CentralConnected, LinkInv
  <1>2. /\ ~connected["central"] /\ conn /\ Fresh
        /\ \/ radio /\ events["central"] = Up /\ events'["central"] = << >>
           \/ ~radio /\ events["central"] = UpDown /\ events'["central"] = Down
    BY CallbackFacts DEF CentralConnected, LinkInv, CentralInv
  <1>3. /\ radio => \/ requests' = One("mtu") /\ fallback' = TRUE /\ want' = "none"
                    \/ requests' = One("primary") /\ fallback' = FALSE /\ want' = "service"
        /\ ~radio => requests' = << >>
    <2>1. requests = << >> /\ want = "none" /\ service = FALSE /\ conn
      BY <1>2 DEF Fresh, Stage
    <2>2. Append(<< >>, "mtu") = One("mtu") /\ Append(<< >>, "primary") = One("primary")
      BY RequestFacts
    <2>3. /\ radio => Request(requests, "mtu") = One("mtu") /\ Request(requests, "primary") = One("primary")
          /\ ~radio => Request(requests, "primary") = << >>
      BY <2>1, <2>2 DEF Request
    <2>4. CASE /\ radio /\ requests' = Request(requests, "mtu")
               /\ fallback' = TRUE /\ UNCHANGED want
      BY <2>1, <2>3, <2>4
    <2>5. CASE PrimaryDiscovery(requests) /\ fallback' = FALSE
      <3>1. requests' = Request(requests, "primary") /\ want' = "service"
        BY <2>1, <2>5 DEF PrimaryDiscovery
      <3> QED
        BY <2>3, <2>5, <3>1
    <2> QED
      BY <2>4, <2>5 DEF CentralConnected
  <1>4. CentralInv'
    BY <1>1, <1>2, <1>3 DEF CentralInv, Connecting, Looking, Fresh, Stage
  <1>5. radio => ~connected["peripheral"]
    BY <1>2, CallbackFacts DEF LinkInv, PeripheralInv
  <1>6. PeripheralInv'
    BY <1>1, <1>5 DEF LinkInv, PeripheralInv
  <1> QED
    BY <1>1, <1>4, <1>6 DEF LinkInv

LEMMA CentralFailedKeeps ==
  ASSUME LinkInv, CentralFailed, UNCHANGED build
  PROVE  LinkInv'
  BY CallbackFacts DEF LinkInv, CentralInv, PeripheralInv, CentralFailed, Handle, search,
     other, upwards, build, Queues, Halves, Fresh, Stage

LEMMA CentralDisconnectedKeeps ==
  ASSUME LinkInv, CentralDisconnected, UNCHANGED build
  PROVE  LinkInv'
  BY CallbackFacts DEF LinkInv, CentralInv, PeripheralInv, CentralDisconnected, Handle,
     NotifyDisconnected, other, build, Queues, Halves, Fresh, Stage

(* What the central has when its host has nothing more to tell it. *)
LEMMA OnConnection ==
  ASSUME CentralInv, radio, events["central"] = << >>, events["central"] # Up
  PROVE  /\ conn
         /\ \/ ~connected["central"] /\ (Connecting \/ (late /\ Refused))
            \/ connected["central"] /\ Connected
  BY DEF CentralInv

LEMMA MtuExchangedKeeps ==
  ASSUME LinkInv, MtuExchanged, UNCHANGED build
  PROVE  LinkInv'
  <1> USE DEF Answered, Halves, air, other, upwards, build
  <1>1. /\ UNCHANGED <<radio, events, scanning, conn, service, txHandle, rxHandle, late,
                        connected, advertising, peer, restart, notifyEnabled>>
        /\ radio /\ events["central"] = << >> /\ requests # << >> /\ Head(requests) = "mtu"
        /\ fallback' = FALSE
    BY DEF MtuExchanged
  <1>2. CentralInv /\ events["central"] # Up
    BY <1>1, CallbackFacts DEF LinkInv
  <1>3. /\ conn
        /\ \/ ~connected["central"] /\ (Connecting \/ (late /\ Refused))
           \/ connected["central"] /\ Connected
    BY <1>1, <1>2, OnConnection
  <1>4. /\ Head(One("mtu")) = "mtu" /\ Tail(One("mtu")) = << >>
        /\ Head(Two("mtu", "primary")) = "mtu" /\ Tail(Two("mtu", "primary")) = One("primary")
        /\ Append(<< >>, "primary") = One("primary")
        /\ Append(One("primary"), "primary") = Two("primary", "primary")
        /\ \A r \in {"primary", "characteristic", "subscribe"} : Head(One(r)) # "mtu"
        /\ \A r, s \in {"primary", "characteristic", "subscribe"} : Head(Two(r, s)) # "mtu"
    BY RequestFacts
  <1>5. /\ ~connected["central"]
        /\ \/ Stage(One("mtu"), "none", FALSE, "none", "none", TRUE)
           \/ late /\ Stage(Two("mtu", "primary"), "service", FALSE, "none", "none", FALSE)
    BY <1>1, <1>3, <1>4
       DEF Stage, Looking, LookingTwice, Found, FoundTwice, Notified, Refused, Connecting, Connected
  <1>6. requests' = Append(Tail(requests), "primary") /\ want' = "service"
    BY <1>1, <1>3, <1>5 DEF MtuExchanged, PrimaryDiscovery, Request, Stage
  <1>7. (Connecting)'
    <2>1. CASE Stage(One("mtu"), "none", FALSE, "none", "none", TRUE)
      <3>1. Stage(One("primary"), "service", FALSE, "none", "none", FALSE)'
        BY <1>1, <1>4, <1>6, <2>1 DEF Stage
      <3> QED
        BY <3>1 DEF Connecting, Looking
    <2>2. CASE late /\ Stage(Two("mtu", "primary"), "service", FALSE, "none", "none", FALSE)
      <3>1. late' /\ Stage(Two("primary", "primary"), "service", FALSE, "none", "none", FALSE)'
        BY <1>1, <1>4, <1>6, <2>2 DEF Stage
      <3> QED
        BY <3>1 DEF Connecting, LookingTwice
    <2> QED
      BY <1>5, <2>1, <2>2
  <1>8. CentralInv'
    BY <1>1, <1>3, <1>5, <1>7 DEF CentralInv
  <1>9. PeripheralInv'
    <2>1. ~connected["peripheral"]
      BY <1>1, <1>5, CallbackFacts DEF LinkInv, PeripheralInv
    <2> QED
      BY <1>1, <2>1 DEF LinkInv, PeripheralInv
  <1> QED
    BY <1>1, <1>8, <1>9 DEF LinkInv

LEMMA MtuFallbackKeeps ==
  ASSUME LinkInv, MtuFallback, UNCHANGED build, late
  PROVE  LinkInv'
  BY RequestFacts DEF LinkInv, CentralInv, PeripheralInv, MtuFallback, Request,
     PrimaryDiscovery, air, other, upwards, build, Queues, Halves, Fresh, Stage, Looking,
     LookingTwice, Found, FoundTwice, Notified, Refused, Connecting, Connected

LEMMA DiscoveryFailsKeeps ==
  ASSUME LinkInv, DiscoveryFails, UNCHANGED build
  PROVE  LinkInv'
  BY CallbackFacts, RequestFacts DEF LinkInv, CentralInv, PeripheralInv, DiscoveryFails,
     Answered, GivesUp, EndConnection, Fault, other, upwards, build, Queues, Halves, Fresh,
     Stage, Looking, LookingTwice, Found, FoundTwice, Notified, Refused, Connecting, Connected

LEMMA SubscribedKeeps ==
  ASSUME LinkInv, Subscribed, UNCHANGED build
  PROVE  LinkInv'
  BY RequestFacts DEF LinkInv, CentralInv, PeripheralInv, Subscribed, Answered,
     NotifyConnected, NotifyDisconnected, air, search, build, Queues, Halves, Fresh, Stage,
     Looking, LookingTwice, Found, FoundTwice, Notified, Refused, Connecting, Connected

LEMMA NotificationsStoppedKeeps ==
  ASSUME LinkInv, NotificationsStopped, UNCHANGED build
  PROVE  LinkInv'
  BY RequestFacts DEF LinkInv, CentralInv, PeripheralInv, NotificationsStopped, Answered,
     NotifyDisconnected, air, other, build, Queues, Halves, Fresh, Stage, Looking,
     LookingTwice, Found, FoundTwice, Notified, Refused, Connecting, Connected

LEMMA PeripheralConnectedKeeps ==
  ASSUME LinkInv, PeripheralConnected, UNCHANGED build
  PROVE  LinkInv'
  BY CallbackFacts DEF LinkInv, CentralInv, PeripheralInv, PeripheralConnected,
     HandleAtPeer, central, search, upwards, build, Queues, Halves, Fresh, Stage, Looking,
     LookingTwice, Found, FoundTwice, Notified, Refused, Connecting, Connected

LEMMA PeripheralFailedKeeps ==
  ASSUME LinkInv, PeripheralFailed, UNCHANGED build
  PROVE  LinkInv'
  BY CallbackFacts DEF LinkInv, CentralInv, PeripheralInv, PeripheralFailed, HandleAtPeer,
     central, search, upwards, build, Queues, Halves, Fresh, Stage

LEMMA PeripheralDisconnectedKeeps ==
  ASSUME LinkInv, PeripheralDisconnected, UNCHANGED build
  PROVE  LinkInv'
  BY CallbackFacts DEF LinkInv, CentralInv, PeripheralInv, PeripheralDisconnected,
     HandleAtPeer, NotifyDisconnected, central, search, build, Queues, Halves, Fresh, Stage

LEMMA RestartAdvertisingKeeps ==
  ASSUME LinkInv, RestartAdvertising, UNCHANGED build
  PROVE  LinkInv'
  BY CallbackFacts DEF LinkInv, CentralInv, PeripheralInv, RestartAdvertising, Fault,
     central, search, upwards, build, Queues, Halves, Fresh, Stage

LEMMA DiscoveredKeeps ==
  ASSUME NEW request \in {"primary", "characteristic"}, LinkInv, Discovered(request), UNCHANGED build
  PROVE  LinkInv'
  <1> USE DEF Answered, Halves, air, other, build
  <1>1. /\ UNCHANGED <<radio, events, scanning, conn, fallback, late,
                        advertising, peer, restart, notifyEnabled>>
        /\ radio /\ events["central"] = << >> /\ requests # << >> /\ Head(requests) = request
        /\ connected'["peripheral"] = connected["peripheral"]
        /\ connected' \in [Halves -> BOOLEAN]
    BY DEF Discovered, LinkInv, NotifyConnected, upwards
  <1>2. /\ conn
        /\ \/ ~connected["central"] /\ (Connecting \/ (late /\ Refused))
           \/ connected["central"] /\ Connected
    <2>1. CentralInv /\ radio /\ events["central"] = << >> /\ events["central"] # Up
      BY <1>1, CallbackFacts DEF LinkInv
    <2> QED
      BY <2>1, OnConnection
  <1>3. /\ Head(One("primary")) = "primary" /\ Tail(One("primary")) = << >>
        /\ Head(One("characteristic")) = "characteristic" /\ Tail(One("characteristic")) = << >>
        /\ Head(One("mtu")) = "mtu" /\ Head(One("subscribe")) = "subscribe"
        /\ Head(Two("mtu", "primary")) = "mtu" /\ Head(Two("subscribe", "subscribe")) = "subscribe"
        /\ Head(Two("primary", "primary")) = "primary" /\ Tail(Two("primary", "primary")) = One("primary")
        /\ Head(Two("primary", "characteristic")) = "primary"
        /\ Tail(Two("primary", "characteristic")) = One("characteristic")
        /\ Head(Two("characteristic", "characteristic")) = "characteristic"
        /\ Tail(Two("characteristic", "characteristic")) = One("characteristic")
        /\ Head(Two("characteristic", "subscribe")) = "characteristic"
        /\ Tail(Two("characteristic", "subscribe")) = One("subscribe")
        /\ Append(<< >>, "characteristic") = One("characteristic")
        /\ Append(<< >>, "subscribe") = One("subscribe")
        /\ Append(One("primary"), "characteristic") = Two("primary", "characteristic")
        /\ Append(One("characteristic"), "characteristic") = Two("characteristic", "characteristic")
        /\ Append(One("characteristic"), "subscribe") = Two("characteristic", "subscribe")
        /\ Append(One("subscribe"), "subscribe") = Two("subscribe", "subscribe")
    BY RequestFacts
  <1>4. CentralInv'
    <2>1. CASE want = "service"
      <3>1. /\ requests' = Append(Tail(requests), "characteristic")
            /\ service' = TRUE /\ want' = "tx" /\ UNCHANGED <<txHandle, rxHandle, connected>>
        BY <2>1 DEF Discovered, upwards
      <3>2. /\ ~connected["central"]
            /\ \/ Stage(One("primary"), "service", FALSE, "none", "none", FALSE)
               \/ late /\ Stage(Two("primary", "primary"), "service", FALSE, "none", "none", FALSE)
        BY <1>1, <1>2, <2>1, <1>3
           DEF Stage, Looking, LookingTwice, Found, FoundTwice, Notified, Refused, Connecting, Connected
      <3>3. (Connecting)'
        BY <1>1, <1>3, <3>1, <3>2 DEF Stage, Connecting, Looking, LookingTwice
      <3> QED
        BY <1>1, <1>2, <3>1, <3>2, <3>3 DEF CentralInv
    <2>2. CASE want = "tx"
      <3>1. /\ requests' = Append(Tail(requests), "characteristic")
            /\ txHandle' = ValueHandle(request) /\ want' = "rx" /\ UNCHANGED <<service, rxHandle, connected>>
        BY <2>2 DEF Discovered, upwards
      <3>2. /\ ~connected["central"]
            /\ \/ Stage(One("characteristic"), "tx", TRUE, "none", "none", FALSE)
               \/ late /\ Stage(Two("primary", "characteristic"), "tx", TRUE, "none", "none", FALSE)
        BY <1>1, <1>2, <2>2, <1>3
           DEF Stage, Looking, LookingTwice, Found, FoundTwice, Notified, Refused, Connecting, Connected
      <3>3. (Connecting)'
        BY <1>1, <1>3, <3>1, <3>2 DEF Stage, Connecting, Looking, LookingTwice, ValueHandle
      <3> QED
        BY <1>1, <1>2, <3>1, <3>2, <3>3 DEF CentralInv
    <2>3. CASE want = "rx"
      <3>1. /\ requests' = Append(Tail(requests), "subscribe")
            /\ rxHandle' = ValueHandle(request) /\ connected'["central"]
            /\ UNCHANGED <<want, service, txHandle>>
        BY <2>3 DEF Discovered, NotifyConnected, LinkInv
      <3>2. \/ Stage(One("characteristic"), "rx", TRUE, "good", "none", FALSE)
            \/ late /\ \/ Stage(Two("characteristic", "characteristic"), "rx", TRUE, "bad", "none", FALSE)
                       \/ Stage(Two("characteristic", "subscribe"), "rx", TRUE, "bad", "good", FALSE)
        BY <1>1, <1>2, <2>3, <1>3
           DEF Stage, Looking, LookingTwice, Found, FoundTwice, Notified, Refused, Connecting, Connected
      <3>3. (Connected)'
        <4>2. rxHandle' = "good"
          BY <1>1, <3>1, <3>2, <1>3 DEF Stage, ValueHandle
        <4> QED
          BY <1>1, <3>1, <3>2, <1>3, <4>2 DEF Stage, Connected, Found, FoundTwice
      <3> QED
        BY <1>1, <1>2, <3>1, <3>3 DEF CentralInv
    <2> QED
      BY <2>1, <2>2, <2>3 DEF Discovered
  <1>5. ~connected["peripheral"]
    BY <1>1, RequestFacts DEF LinkInv, PeripheralInv, Notified, Stage
  <1>6. PeripheralInv'
    BY <1>1, <1>5 DEF LinkInv, PeripheralInv
  <1> QED
    BY <1>1, <1>4, <1>6 DEF LinkInv

-----------------------------------------------------------------------------
LEMMA LinkInit == MCInit => LinkInv
  BY CallbackFacts DEF MCInit, Init, LinkInv, CentralInv, PeripheralInv, Queues, Halves,
     Fresh, Stage

LEMMA RunWorkKeeps ==
  ASSUME NEW h \in Halves, LinkInv, RunWork(h), UNCHANGED build
  PROVE  LinkInv'
  BY DEF RunWork, LinkInv, CentralInv, PeripheralInv, air, central, search, other, build,
     Stage, Fresh, Looking, LookingTwice, Found, FoundTwice, Notified, Refused, Connecting,
     Connected

(* Every step of the two halves is one of these, ... *)
LEMMA LinkSteps ==
  ASSUME LinkNext, UNCHANGED build
  PROVE  \/ Connects \/ CreateFails \/ AdvertisingFails \/ ConnectionLost
         \/ DeviceFound \/ CentralConnected \/ CentralFailed \/ CentralDisconnected
         \/ MtuExchanged \/ (late /\ MtuFallback) \/ DiscoveryFails
         \/ \E request \in {"primary", "characteristic"} : Discovered(request)
         \/ Subscribed \/ NotificationsStopped
         \/ PeripheralConnected \/ PeripheralFailed \/ PeripheralDisconnected
         \/ RestartAdvertising
         \/ \E h \in Halves : RunWork(h)
  BY DEF LinkNext, LinkProgress, Progress, Faults

(* ... and the host takes no part in the connection of the halves. *)
LEMMA LinkKeeps ==
  ASSUME LinkInv, [MCNext]_<<vars, hostVars, build>>
  PROVE  LinkInv'
  <1>1. CASE LinkNext /\ UNCHANGED build
    BY <1>1, LinkSteps, ConnectsKeeps, CreateFailsKeeps, AdvertisingFailsKeeps,
       ConnectionLostKeeps, DeviceFoundKeeps, CentralConnectedKeeps, CentralFailedKeeps,
       CentralDisconnectedKeeps, MtuExchangedKeeps, MtuFallbackKeeps, DiscoveryFailsKeeps,
       SubscribedKeeps, NotificationsStoppedKeeps, PeripheralConnectedKeeps,
       PeripheralFailedKeeps, PeripheralDisconnectedKeeps, RestartAdvertisingKeeps,
       DiscoveredKeeps, RunWorkKeeps
  <1>2. CASE UNCHANGED <<vars, build>>
    BY <1>2 DEF vars, air, central, search, other, upwards, build, LinkInv, CentralInv,
       PeripheralInv, Stage, Fresh, Looking, LookingTwice, Found, FoundTwice, Notified,
       Refused, Connecting, Connected
  <1> QED
    BY <1>1, <1>2 DEF MCNext

LEMMA LinkInvHolds == MCSpec => []LinkInv
  BY LinkInit, LinkKeeps, PTL DEF MCSpec

LEMMA HalvesAgreeNow == LinkInv => PromptHalvesAgree
  <1> SUFFICES ASSUME LinkInv, ~late
               PROVE  ConnectedHasHandles /\ PeripheralHasCentral
    BY DEF PromptHalvesAgree
  <1>1. ConnectedHasHandles
    <2>1. CentralInv /\ scanning = ~conn
      BY DEF LinkInv
    <2> QED
      BY <2>1 DEF CentralInv, Connected, Found, Notified, Stage, ConnectedHasHandles
  <1>2. PeripheralHasCentral
    <2>1. PeripheralInv /\ Up # << >> /\ Down # << >>
      BY CallbackFacts DEF LinkInv
    <2> QED
      BY <2>1 DEF PeripheralInv, PeripheralHasCentral, Halves
  <1> QED
    BY <1>1, <1>2

(* While the MTU exchange answers in time, a half that calls itself          *)
(* connected has what it needs to send: the central the handles of this      *)
(* connection, the peripheral a central that listens.                        *)
THEOREM HalvesAgree == MCSpec => []PromptHalvesAgree
  BY LinkInvHolds, HalvesAgreeNow, PTL

-----------------------------------------------------------------------------
LEMMA HostStep ==
  ASSUME HostIsServed, [MCNext]_<<vars, hostVars, build>>
  PROVE  HostIsServed'
  <1> USE DEF HostIsServed, Host!HostIsServed
  <1>1. CASE UNCHANGED hostVars
    BY <1>1 DEF hostVars
  <1>2. CASE Host!Connected
    BY <1>2 DEF Host!Connected
  <1>3. CASE Host!LinkLost
    BY <1>3 DEF Host!LinkLost
  <1>4. CASE \E on \in BOOLEAN : Host!SetProtocol(on)
    BY <1>4 DEF Host!SetProtocol
  <1>5. CASE Host!Disconnected
    <2>1. is_advertising' = advertised'
      BY <1>5 DEF Host!Disconnected, Host!RestartAdvertising
    <2>2. slot' = FALSE /\ link' = "none"
      BY <1>5 DEF Host!Disconnected
    <2> QED
      BY <2>1, <2>2
  <1>6. CASE UNCHANGED Host!connection
    BY <1>6 DEF Host!connection
  <1>7. Host!PublishPending \/ Host!MarkPending \/ Host!Reschedule
          \/ Host!SecurityChanged \/ Host!ReadLevel
          \/ (\E on \in BOOLEAN : Host!Subscribe(on)) \/ (\E level \in Levels : Host!SetLevel(level))
        => UNCHANGED Host!connection
    BY DEF Host!PublishPending, Host!MarkPending, Host!Reschedule, Host!SecurityChanged,
       Host!ReadLevel, Host!Subscribe, Host!SetLevel
  <1> QED
    BY <1>1, <1>2, <1>3, <1>4, <1>5, <1>6, <1>7 DEF MCNext, Host!Firmware, Host!Host

(* Reports go to the link's slot in the mode its host asked for, and          *)
(* bt_connect believes of its advertising what the stack does, for every      *)
(* number of connection objects and whatever the other half does.             *)
THEOREM HostStaysServed == MCSpec => []HostIsServed
  <1>1. MCInit => HostIsServed
    BY DEF MCInit, Host!HostInit, HostIsServed, Host!HostIsServed
  <1> QED
    BY <1>1, HostStep, PTL DEF MCSpec

-----------------------------------------------------------------------------
(* Queues of works, by name. *)
LEMMA WorkFacts ==
  /\ Submit(<< >>, "connect") = One("connect") /\ Submit(<< >>, "disconnect") = One("disconnect")
  /\ Submit(One("connect"), "disconnect") = Two("connect", "disconnect")
  /\ Head(One("connect")) = "connect" /\ Tail(One("connect")) = << >>
  /\ Head(One("disconnect")) = "disconnect" /\ Tail(One("disconnect")) = << >>
  /\ Head(Two("connect", "disconnect")) = "connect"
  /\ Tail(Two("connect", "disconnect")) = One("disconnect")
  /\ One("connect") # << >> /\ One("disconnect") # << >> /\ Two("connect", "disconnect") # << >>
  <1>1. DOMAIN << >> = {} /\ DOMAIN <<"connect">> = {1} /\ <<"connect">>[1] = "connect"
    OBVIOUS
  <1>2. /\ Submit(<< >>, "connect") = One("connect") /\ Submit(<< >>, "disconnect") = One("disconnect")
    BY <1>1, QueueFacts DEF Submit
  <1>3. Submit(One("connect"), "disconnect") = Two("connect", "disconnect")
    BY <1>1, QueueFacts DEF Submit, One
  <1> QED
    BY <1>2, <1>3, QueueFacts

(* A half that learns of its connection has told all it knew before. *)
LEMMA ConnectedIsHeard ==
  ASSUME NEW h \in Halves, NotifyConnected(h), LinkInv, WorkInv, QuietInv,
         connected[h] \/ works[h] = << >>
  PROVE  /\ WorkInv'
         /\ works' \in [Halves -> WorkQueues] /\ told' \in [Halves -> BOOLEAN]
         /\ connected'[h] = TRUE
         /\ \A k \in Halves \ {h} : works'[k] = works[k] /\ connected'[k] = connected[k]
  BY WorkFacts DEF NotifyConnected, LinkInv, WorkInv, QuietInv, WorkQueues

LEMMA DisconnectedIsHeard ==
  ASSUME NEW h \in Halves, NotifyDisconnected(h), LinkInv, WorkInv, QuietInv
  PROVE  /\ WorkInv'
         /\ works' \in [Halves -> WorkQueues] /\ told' \in [Halves -> BOOLEAN]
         /\ \A k \in Halves \ {h} : works'[k] = works[k] /\ connected'[k] = connected[k]
  BY WorkFacts DEF NotifyDisconnected, LinkInv, WorkInv, QuietInv, WorkQueues

LEMMA Telling ==
  ASSUME NEW h \in Halves, RunWork(h), UNCHANGED build, LinkInv, WorkInv, QuietInv
  PROVE  WorkInv' /\ QuietInv'
  <1>1. /\ works[h] \in WorkQueues \ { << >> }
        /\ works'[h] = Tail(works[h]) /\ told'[h] = (Head(works[h]) = "connect")
        /\ \A k \in Halves \ {h} : works'[k] = works[k] /\ told'[k] = told[k]
        /\ UNCHANGED connected /\ connected[h] \in BOOLEAN
    BY DEF RunWork, QuietInv, LinkInv
  <1>2. WorkInv'
    <2>1. \/ works'[h] = << >> /\ told'[h] = connected[h]
          \/ works'[h] = One("disconnect") /\ ~connected[h]
      <3>1. CASE works[h] = One("connect") /\ connected[h]
        BY <1>1, <3>1, WorkFacts
      <3>2. CASE works[h] = One("disconnect") /\ ~connected[h]
        <4>1. "disconnect" # "connect"
          OBVIOUS
        <4> QED
          BY <1>1, <3>2, <4>1, WorkFacts
      <3>3. CASE works[h] = Two("connect", "disconnect") /\ ~connected[h]
        BY <1>1, <3>3, WorkFacts
      <3> QED
        BY <1>1, <3>1, <3>2, <3>3 DEF WorkInv
    <2> QED
      BY <1>1, <2>1 DEF WorkInv
  <1>3. works'[h] \in WorkQueues
    BY <1>1, WorkFacts DEF WorkQueues
  <1>4. works' \in [Halves -> WorkQueues] /\ told' \in [Halves -> BOOLEAN]
    BY <1>1, <1>3 DEF RunWork, QuietInv
  <1>5. /\ UNCHANGED <<radio, events>>
        /\ Connecting' <=> Connecting
    BY DEF RunWork, air, central, search, build, Connecting, Looking, LookingTwice, Stage
  <1>6. \A k \in Halves : works[k] = << >> => works'[k] = << >>
    BY <1>1
  <1> QED
    BY <1>1, <1>2, <1>4, <1>5, <1>6 DEF QuietInv, Halves

(* A half that is not told of anything and is not nearer to a connection.    *)
LEMMA NothingTold ==
  ASSUME WorkInv, QuietInv, UNCHANGED upwards, radio' => radio,
         radio' /\ ~connected["central"] /\ (events'["central"] # << >> \/ Connecting')
           => events["central"] # << >> \/ Connecting
  PROVE  WorkInv' /\ QuietInv'
  BY DEF WorkInv, QuietInv, upwards

(* Who asks for a service or a characteristic is on the way to a connection. *)
LEMMA AskingConnects ==
  ASSUME LinkInv, radio, events["central"] = << >>, ~connected["central"],
         \/ want \in {"service", "tx"} \/ fallback = TRUE
         \/ requests # << >> /\ Head(requests) \in {"mtu", "primary", "characteristic"}
  PROVE  Connecting
  <1>1. CentralInv /\ events["central"] # Up
    BY CallbackFacts DEF LinkInv
  <1>2. Connecting \/ Refused
    BY <1>1, OnConnection
  <1>3. Head(One("subscribe")) = "subscribe"
    BY RequestFacts
  <1> QED
    BY <1>2, <1>3 DEF Refused, Stage

LEMMA QuietSteps ==
  ASSUME LinkInv, WorkInv, QuietInv, UNCHANGED build,
         \/ CreateFails \/ AdvertisingFails \/ ConnectionLost \/ DiscoveryFails
         \/ DeviceFound \/ CentralConnected \/ CentralFailed \/ MtuExchanged \/ MtuFallback
         \/ PeripheralConnected \/ PeripheralFailed \/ RestartAdvertising
  PROVE  WorkInv' /\ QuietInv'
  <1> USE DEF upwards
  <1>1. CASE CreateFails \/ ConnectionLost \/ DiscoveryFails
    BY <1>1, NothingTold DEF CreateFails, ConnectionLost, DiscoveryFails, GivesUp,
       EndConnection
  <1>2. CASE AdvertisingFails \/ DeviceFound \/ PeripheralConnected \/ PeripheralFailed \/ RestartAdvertising
    <2>1. /\ UNCHANGED <<radio, requests, search, fallback, late, upwards>>
          /\ events'["central"] = events["central"]
      BY <1>2 DEF AdvertisingFails, DeviceFound, PeripheralConnected, PeripheralFailed,
         RestartAdvertising, HandleAtPeer, Due, air, central, search, build, LinkInv, Halves
    <2>2. Connecting' <=> Connecting
      BY <2>1 DEF search, Connecting, Looking, LookingTwice, Stage
    <2> QED
      BY <2>1, <2>2, NothingTold
  <1>3. CASE CentralConnected \/ CentralFailed
    BY <1>3, NothingTold DEF CentralConnected, CentralFailed, Handle
  <1>4. CASE MtuExchanged \/ MtuFallback
    <2>1. UNCHANGED <<radio, events, upwards>>
      BY <1>4 DEF MtuExchanged, MtuFallback, air
    <2>2. radio /\ events["central"] = << >> /\ ~connected["central"] => Connecting
      BY <1>4, AskingConnects DEF MtuExchanged, MtuFallback, Answered
    <2> QED
      BY <2>1, <2>2, NothingTold
  <1> QED
    BY <1>1, <1>2, <1>3, <1>4

LEMMA QuietConnects ==
  ASSUME ~BusyWorkqueue, LinkInv, WorkInv, QuietInv, Connects
  PROVE  WorkInv' /\ QuietInv'
  <1>1. UNCHANGED <<connected, works, told>> /\ \A h \in Halves : works[h] = << >>
    BY DEF Connects, Rested, upwards
  <1> QED
    BY <1>1 DEF WorkInv, QuietInv, Halves

LEMMA QuietDisconnects ==
  ASSUME LinkInv, WorkInv, QuietInv, UNCHANGED build, CentralDisconnected \/ PeripheralDisconnected
  PROVE  WorkInv' /\ QuietInv'
  <1>1. ~radio'
    BY CallbackFacts DEF LinkInv, CentralInv, PeripheralInv, CentralDisconnected,
       PeripheralDisconnected, Handle, HandleAtPeer
  <1>2. WorkInv' /\ works' \in [Halves -> WorkQueues] /\ told' \in [Halves -> BOOLEAN]
    BY DisconnectedIsHeard DEF CentralDisconnected, PeripheralDisconnected, Halves
  <1> QED
    BY <1>1, <1>2 DEF QuietInv

LEMMA QuietDiscovers ==
  ASSUME NEW request \in {"primary", "characteristic"}, Discovered(request),
         LinkInv, WorkInv, QuietInv, UNCHANGED build
  PROVE  WorkInv' /\ QuietInv'
  <1>1. /\ UNCHANGED <<radio, events>> /\ radio /\ events["central"] = << >>
        /\ ~connected["central"] => Connecting
    BY AskingConnects DEF Discovered, Answered, Halves, air
  <1>2. CASE UNCHANGED upwards
    BY <1>1, <1>2, NothingTold
  <1>3. CASE NotifyConnected("central")
    <2>1. connected["central"] \/ works["central"] = << >>
      BY <1>1 DEF QuietInv
    <2>2. /\ WorkInv'
          /\ works' \in [Halves -> WorkQueues] /\ told' \in [Halves -> BOOLEAN]
          /\ connected'["central"] = TRUE
          /\ works'["peripheral"] = works["peripheral"]
          /\ connected'["peripheral"] = connected["peripheral"]
      BY <1>3, <2>1, ConnectedIsHeard DEF Halves
    <2> QED
      BY <1>1, <2>2 DEF QuietInv
  <1> QED
    BY <1>2, <1>3 DEF Discovered

LEMMA QuietSubscribes ==
  ASSUME LinkInv, WorkInv, QuietInv, UNCHANGED build, Subscribed
  PROVE  WorkInv' /\ QuietInv'
  <1>1. /\ UNCHANGED <<radio, events>> /\ radio
        /\ events["central"] = << >> /\ events["peripheral"] = << >>
        /\ requests # << >> /\ Head(requests) = "subscribe" /\ txHandle = "good"
    BY DEF Subscribed, Answered, Halves, air
  <1>2. peer
    BY <1>1, CallbackFacts DEF LinkInv, PeripheralInv
  <1>3. connected["central"]
    <2>1. CentralInv /\ events["central"] # Up
      BY <1>1, CallbackFacts DEF LinkInv
    <2>2. ~connected["central"] => Connecting \/ Refused
      BY <1>1, <2>1, OnConnection
    <2>3. /\ Head(One("mtu")) = "mtu" /\ Head(One("primary")) = "primary"
          /\ Head(One("characteristic")) = "characteristic"
          /\ Head(Two("mtu", "primary")) = "mtu" /\ Head(Two("primary", "primary")) = "primary"
          /\ Head(Two("primary", "characteristic")) = "primary"
          /\ Head(Two("characteristic", "characteristic")) = "characteristic"
      BY RequestFacts
    <2> QED
      BY <1>1, <2>2, <2>3 DEF Connecting, Looking, LookingTwice, Refused, Stage
  <1>4. NotifyConnected("peripheral")
    BY <1>2 DEF Subscribed
  <1>5. connected["peripheral"] \/ works["peripheral"] = << >>
    BY <1>1 DEF QuietInv
  <1>6. /\ WorkInv'
        /\ works' \in [Halves -> WorkQueues] /\ told' \in [Halves -> BOOLEAN]
        /\ connected'["peripheral"] = TRUE /\ connected'["central"] = connected["central"]
    BY <1>4, <1>5, ConnectedIsHeard DEF Halves
  <1> QED
    BY <1>3, <1>6 DEF QuietInv

LEMMA QuietStops ==
  ASSUME LinkInv, WorkInv, QuietInv, UNCHANGED build, NotificationsStopped
  PROVE  WorkInv' /\ QuietInv'
  <1>1. /\ UNCHANGED <<radio, events>> /\ radio /\ events["central"] = << >>
        /\ requests # << >> /\ Head(requests) = "subscribe" /\ txHandle' = "none"
        /\ UNCHANGED want
    BY DEF NotificationsStopped, Answered, Halves, air
  <1>2. /\ WorkInv'
        /\ works' \in [Halves -> WorkQueues] /\ told' \in [Halves -> BOOLEAN]
        /\ works'["peripheral"] = works["peripheral"]
        /\ connected'["peripheral"] = connected["peripheral"]
    BY DisconnectedIsHeard DEF NotificationsStopped, Halves
  <1>3. want = "rx"
    <2>1. CentralInv /\ events["central"] # Up
      BY <1>1, CallbackFacts DEF LinkInv
    <2>2. Connecting \/ Refused \/ Connected
      BY <1>1, <2>1, OnConnection
    <2>3. /\ Head(One("mtu")) = "mtu" /\ Head(One("primary")) = "primary"
          /\ Head(One("characteristic")) = "characteristic"
          /\ Head(Two("mtu", "primary")) = "mtu" /\ Head(Two("primary", "primary")) = "primary"
          /\ Head(Two("primary", "characteristic")) = "primary"
      BY RequestFacts
    <2> QED
      BY <1>1, <2>2, <2>3 DEF Connecting, Connected, Found, FoundTwice, Notified, Looking,
         LookingTwice, Refused, Stage
  <1>4. ~Connecting'
    BY <1>1, <1>3 DEF Connecting, Looking, LookingTwice, Stage
  <1> QED
    BY <1>1, <1>2, <1>4 DEF QuietInv

LEMMA WorksKeep ==
  ASSUME ~BusyWorkqueue, LinkInv, WorkInv, QuietInv, [MCNext]_<<vars, hostVars, build>>
  PROVE  WorkInv' /\ QuietInv'
  <1>1. CASE LinkNext /\ UNCHANGED build
    BY <1>1, LinkSteps, QuietSteps, QuietConnects, QuietDisconnects, QuietDiscovers,
       QuietSubscribes,
       QuietStops, Telling
  <1>2. CASE UNCHANGED <<vars, build>>
    <2>1. UNCHANGED <<radio, events, requests, search, fallback, late, upwards>>
      BY <1>2 DEF vars, air, central, build
    <2>2. Connecting' <=> Connecting
      BY <2>1 DEF search, Connecting, Looking, LookingTwice, Stage
    <2> QED
      BY <2>1, <2>2, NothingTold
  <1> QED
    BY <1>1, <1>2 DEF MCNext

(* As long as the halves take their time to find each other again, the sync  *)
(* layer of each was told last what is so, however often the connection is   *)
(* lost and whatever is refused.                                             *)
THEOREM SyncIsTold ==
  ASSUME ~BusyWorkqueue
  PROVE  MCSpec => []SyncKnows
  <1>1. MCInit => WorkInv /\ QuietInv
    BY DEF MCInit, Init, WorkInv, QuietInv, WorkQueues, Halves
  <1>2. WorkInv => SyncKnows
    BY WorkFacts DEF WorkInv, SyncKnows
  <1>3. LinkInv /\ WorkInv /\ QuietInv /\ [MCNext]_<<vars, hostVars, build>> => WorkInv' /\ QuietInv'
    BY WorksKeep
  <1> QED
    BY <1>1, <1>2, <1>3, LinkInvHolds, PTL DEF MCSpec
=============================================================================
