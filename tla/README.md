# A verification project for ykb-firmware

TLA+ models of the keyboard firmware in `src/`, the TLC configurations that check
them on small instances, and TLAPS proofs of what holds for every instance.
`PROJECT.json` maps each definition to the lines of the source it stands for, and
lists runs, mutants, findings, hazards and theorems.

## 1. The system

The firmware drives wireless, split, analogue keyboards on Zephyr. One half (the
*master*) talks to the host, the other (the *slave*) sends it the values of its keys.
Threads and their priorities are what makes it hard: the Bluetooth receive thread and
the system workqueue are cooperative and run before everything else; the `kb_handler`
thread scans keys and can be preempted by both; the BattSense, power and backlight
threads are lower still; with ESB, interrupts run between any two steps of a thread, and
the radio is on another core, behind RPC.

| part | state it keeps | operations | interacts with | what makes it correct |
|---|---|---|---|---|
| `ykb_protocol.h` | transmit and receive contexts | init, build packet, push packet, begin, reset | SplitLink slots, VendorHID | what completes is what was sent in a transfer of that id and length, nothing is written behind the buffer |
| SplitLink sync (`splitlink_sync_*.c`) | a transmit and a receive slot per payload, marks of scripts, pending values and battery state | send, transmit work, receive, receive work, connect, disconnect | KBSettings, BattSense, Backlight, KBHandler through callbacks; the transport | payloads arrive whole, none goes back, the newest one arrives in the end, no slot wedges |
| SplitLink Bluetooth transport | connection, handles, works, receive queue | scan, advertise, connect, MTU exchange, discovery, subscription | sync layer, through two works; BTConnect, through the connection objects | both sync layers know whether there is a connection, and there is one in the end |
| SplitLink ESB transport | `connected`, alive timeout, works, one received packet | callback, works, timeout, start | RPC, sync layer | the sync layer hears of the other half; no part of a packet goes back |
| KBHandler core | pressed keys, layers, mode, last reports, keys used up by shortcuts | a step per key, end of frame, FN shortcuts, settings update | KBSettings (it applies settings itself), HID transports | the host's picture of the keys is that of the keyboard once it rests |
| KBHandler master adapter | newest slave values, `dirty`, `pending`, message queue | values, reset, retry, drain | SplitLink works to scan thread | no values forgotten, no key of a lost slave left down |
| KBSettings | settings, snapshot, image, flash | get, apply, save, notify, init | every subscriber | subscribers and flash end up with the settings |
| BattSense | charge state, mutex, threshold | sample, callbacks, settings update, get state | SplitLink, BTConnect, Power, fuel gauge, charger | an empty battery turns the keyboard off, listeners know the state |
| Power | time of the press, shutdown work | sample the button, settings update, shut down | BattSense, KBSettings | only a long press turns the keyboard off, and one does |
| Charger BQ25185 | cached pins, report | edges, work, get status and health | BattSense | it reports what its pins say |
| Backlight | script slots, flash records, VM program, frame | set slot, save, settings update, render, init | KBSettings, SplitLink, VendorHID | the LEDs show the script the settings name; flash has the slots |
| VendorHID | receive context, busy flag, shared answer buffers | parse, works, answer | USB and Bluetooth HID, KBSettings, Backlight | every request is answered, from one state, and performed on whole data |
| ESB library | message queue, driver FIFO, cached acknowledgement | send, driver events, start and end of a timeslot | radio, timeslots, RPC | no packet lost, repeated in the FIFO or overtaken; the latest data of the receiver arrive |
| Timeslots | timeslot, failed extension, queue of calls | signals of MPSL, the thread of the calls | MPSL, ESB library | one request at a time, radio time comes back |
| BTConnect | connection slot, advertising, protocol mode, level | connection, security and subscription callbacks, delayed publication | hosts, BattSense, SplitLink | reports go to a ready host, it knows the level, a keyboard without a host advertises |
| USBConnect, metrics, other drivers, boards, resource generators, network core mains | counters, registers, tables | | | |

How they interact: settings travel configurator → VendorHID → KBSettings → every
subscriber, SplitLink among them → slave → its KBSettings. Keys travel slave scan →
values slot → Bluetooth → receive work → mailbox → master scan → report → host. Scripts
travel configurator → VendorHID → Backlight → marks → script slot → slave's Backlight.
Battery states travel charger and gauge → BattSense → battery slot → master, and → Power,
→ BTConnect → host. Over ESB a packet travels driver → network core → RPC → transport →
sync layer.

The hazards are listed at their lines in `PROJECT.json`. The main groups:

* two threads in one function without a lock (transfer of settings, `kb_settings_apply`,
  the kick of ESB, the cached acknowledgement);
* a copy taken early and used late (shortcut settings, reload of a script slot, caches
  of the scan thread, shared answer buffers, pins of the charger);
* transfers that end half-way and go on as another (slots, VendorHID);
* something that is sent once and dropped (settings, scripts), or tried once (advertising,
  reading the charger, starting RPC);
* works that are queued at most once and lose an order or a count (connection works);
* a connection object, a timeslot or a place in a queue that is not there just then;
* a timeout that races what it waits for (alive packets, MTU);
* a restart between two writes to flash.

## 2. The modules

| module | models | state and actions against the code |
|---|---|---|
| `YkbProtocol` | `include/lib/ykb_protocol.h` | one operator per function of the header, on a record per context; `RxPushPacket` keeps every check in its order. The CRC is the Boolean `intact`; a payload is a function on its offsets; sizes are cut to 16 bits where the code casts |
| `YkbTransfer` | a sender, a context and a bad channel | packets stay in the channel and may be received at any time, again, damaged, or never; transfers may have the same id, as those of a slot and the answers of VendorHID do |
| `WorkQueue` | `k_work_submit`, `k_work_cancel` | a work that is queued is not queued again |
| `SplitlinkSlot` | one slot of the sync protocol with its transport | `BeginTransfer`, `TxWork…`, `Arrive` (receive thread), `RxWork…` (drain loop), `RxSlotWork`, `LinkUp`, `LinkDown`, `DisconnectWork` |
| `SplitlinkSettings` | the settings slot | `Apply` on the workqueue, `Fn…` on the scan thread in two steps, `ConnectWork` |
| `SplitlinkValues` | the values slot | `Scan`, preemptible copy, `SendValuesWork`, pending values |
| `SplitlinkBattery` | the battery slot | BattSense thread with its test and its two assignments apart, connect work, pending state |
| `ScriptSync` | marks, manifest, request and the script slot | `ScriptUpdate`, `MasterConnectWork`, the manifest packet by packet with its own receive context (`SendManifestPacket`, `ManifestReceived`), a request that may be lost, the kick when the slot empties (`TakesMark`) |
| `SyncRegister` | what a slot promises at its best | abstract register: the reader sees whole values in the order written |
| `SplitlinkSyncMC` | the uses of a slot, side by side | the initial state chooses one of six; states the properties that belong to some of them |
| `SplitlinkLink` | `splitlink_bt/central.c`, `peripheral.c`, `splitlink_core.c` | one action per Bluetooth callback and per work; GATT requests answered in order; `discover_params` shared |
| `BtConnect` | `bt_connect.c` | one action per callback and delayed work; the level is set by the BattSense thread in three steps |
| `Bluetooth` | both on one half | the connection to the slave and the host's hold objects of one pool |
| `SlaveMailbox` | `kb_handler_splitlink_master_adapter.c` | works write, the thread takes a message, copies, clears, checks again, a step each |
| `KbHandler`, `KbHandlerMC` | `kb_handler_core.c`, `kb_handler_transport.c` | one action per kind of key, `FinishFrame`, settings from the configurator between any two keys, transports that come and go |
| `KbSettings`, `KbSettingsMC` | `kb_settings.c` | two calls of `kb_settings_apply`, step by step: the two copies (part by part where their source is a copy that callbacks change), image, flash word by word, callbacks; `Crash` and start |
| `BattSense` | `ykb_battsense.c`, shutdown of `ykb_power.c` | samples, the chain of branches, callbacks with the mutex held, works that want it |
| `ChargerBq25185` | `charger_bq25185.c` | edges, a read of each pin in a step of its own, the decoding |
| `PowerButton` | the button of `ykb_power.c` | `Sample` by the thread, settings, time |
| `PowerDown` | what turns the keyboard off | BattSense with an external charger, BattSense behind `ChargerBq25185`, and the button |
| `VendorHid`, `VendorHidMC` | `vendor_hid_protocol.c` | `Parse` on the callback, `StartResponse` (the work, with what the request does), `SendPacket`, `FinishResponse`; hosts are external. `VendorHidMC` checks the channel of `YkbTransfer`, too |
| `YkbBacklight`, `YkbBacklightMC` | `ykb_backlight.c` | `SetScriptSlot` with a step per slot saved, `OnSettingsUpdate`, `RenderFrame`, `Boot`, `Crash` |
| `YkbEsb` | `ykb_esb.c`, transmitter | `ykb_esb_send` in five steps of a thread, driver events and timeslot callbacks as interrupts |
| `YkbEsbPrx` | `ykb_esb.c`, receiver | `ykb_esb_send` in five steps (the cache is copied in two), polls of the transmitter, timeslots |
| `YkbTimeslot` | `ykb_timeslot.c` | one action per signal of MPSL and per call of the thread |
| `EsbRpc` | `53_net/esb_53.c`, `53_app/esb_53.c`, `splitlink_ykb_esb/prx.c` | interrupt, encoding, event, the callback in its steps, the works, the timeout, the start of both cores |
| `EsbStack` | the four above | the initial state chooses a transmitter alone, a transmitter or a receiver in timeslots, or the transport behind RPC |
| `…Proofs` | | theorems about the module they are named for; those of `SplitlinkSyncProofs` are about `SplitlinkSettings`, `SplitlinkValues` and `ScriptSync`, those of `KbHandlerProofs` about `SlaveMailbox` and `KbSettings`, too, and those of `VendorHidProofs` about `VendorHid` and `YkbTransfer`; `YkbProtocolProofs` has the lemmas about packets and receive contexts that both users of the framing rest on |

How they are put together:

* `SplitlinkSettings`, `SplitlinkValues`, `SplitlinkBattery` and `ScriptSync` extend
  `SplitlinkSlot`, which extends `YkbProtocol` and `WorkQueue`; the framing checked by
  `YkbTransfer` is the one the slots and `VendorHid` run on.
* `SplitlinkSyncMC` extends `SplitlinkSettings` and `ScriptSync` and instantiates the four
  uses over the same slot variables, with their own settings of the bitmap and the queue, and
  `SyncRegister` under the refinement mapping that reads the slave's settings as a value
  when all their parts are of one version, and as no value of the register when they are
  not.
* `Bluetooth` extends `SplitlinkLink` and instantiates `BtConnect` with the connection of
  the central as the object that is not the host's: the host may take the last object, and
  then the central scans again; the slave may hold the one that the advertiser needs.
* `PowerDown` extends `BattSense` and instantiates it a second time with the report of
  `ChargerBq25185` in place of the external charger.
* `EsbStack` joins each start and end of a timeslot of `YkbTimeslot` with the callback of
  the library (`TimeStarts`, `TimeStops`), of either mode; the callback is called when
  the flag changes only.
* The `…MC` modules, `Bluetooth`, `PowerDown` and `EsbStack` fix the inputs, and some
  choose in the initial state between environments of the same module (`patient`, `late`,
  `hosts`, `mode`, `part`), so that a property that needs a good environment is checked
  next to one that does not.

Abstractions that matter:

* Handlers on the system workqueue are atomic with respect to each other, since it is
  cooperative, and preempt lower threads at every step these are cut into. They are cut
  wherever they read or write what another context writes, and wherever they block.
* `SplitlinkSlot`: a byte stands for what one packet carries where `MaxPayload` is 1, and
  is tagged with the version it was copied from. `kb_settings_t` and scripts take several
  packets of 61 bytes, so `TotalLen` is 2 in `SplitlinkSync`; the 30 keys of Skadi fit one
  packet, so a packet carries both keys of `SplitlinkValues`, which are copied one by one.
  After a disconnection the halves meet again only when both have handled it, because
  the peer waits 200 ms before it advertises and discovery follows.
* `KbHandler`: one threshold and one maximum for all keys; a report is the set of its
  codes; the repetition of mouse movements, percentages and per-key callbacks are left
  out, as are the errors `kb_settings_apply` cannot return here.
* `ScriptSync`: of the manifest and the request a packet arrives when it is sent, or is
  lost; only the script slot has a queue of its own. `smooth` is a history variable: nothing
  was lost, refused or skipped since the connection was made, and nothing was left over
  from the one before.
* `KbSettings`: `overtaken` is a history variable, too; the third field of the packets of
  `EsbRpc` and `YkbEsbPrx` is another: a copy of this packet was interrupted.
* `YkbBacklight`: the configurator changes the settings and tells the backlight in one
  step, though `kb_settings_apply` waits for flash in between; two calls at once are
  checked in `KbSettings`.
* `EsbRpc`: RPC has one thread; more of them (the default of the application core) would run
  the callback of one event beside that of the next.
* `BattSense`: a reading may exceed 100, as nothing checks it; the mutex goes to the
  thread that waits for it.
* `ChargerBq25185`: the work holds the mutex of the driver, so that its reads are seen by
  nobody else; there is no CE pin, as on the boards in the tree.
* `PowerButton`: time passes in periods of the thread, up to the longest time that is told
  apart; the button does not move twice between two samples.
* `VendorHid`: settings are a few equal bytes, so that a mixture is visible; there is one
  script slot, and a slot number that is refused is the Boolean result of `Perform`.
* `YkbBacklight`: settings are `on` and the active slot; they survive restarts here, what
  restarts do to them is checked in `KbSettings`.
* `BtConnect`: there is one host, because connectable advertising ends with the connection
  and starts again when it is gone. The object of a link is held while its disconnected
  callback runs, as Zephyr does.
* `YkbEsb`, `YkbEsbPrx`: an interrupt is handled whole before the thread or the next
  timeslot goes on. MPSL and the ESB driver are external, and so is IPC, which keeps the
  order and loses nothing. A packet of `EsbRpc` is copied in two parts.

## 3. The runs

`PROJECT.json` says of every run what it shows, and gives for every property of a passing
run a plausible bug of the code (a mutant, named after what it forgets, next to the
definition it replaces) that violates it.

| run | bounds | states | what it shows |
|---|---|---|---|
| `SplitlinkSync` | three changes (one per key or script), payloads of two packets, one lost connection, a receive queue of two; of eight, which never fills, where order is kept | 1.3 million | in every use slots do not wedge (`SlotsAreServed`: a busy slot has a work, a ready one a queued receiver); nothing the slave has goes back: no part of settings, no key of the master's picture, and in order no script, each of which is whole (`SlaveGoesForward`); in order, settings are a register (`IsRegister`); once both halves are at rest the slave has the scripts of the master, if the connection lost, refused and skipped nothing (`ScriptsComeOver`) |
| `SplitlinkValues` | two keys in one packet, a change of each, a queue of one, one lost connection | 152 thousand | no scan frame is forgotten, and none waits for a slot that is idle (`NewestIsKept`); no key goes back (`PartsNeverGoBack`); once the keys rest the master has them or the link is gone (`MasterCatchesUp`) |
| `KbHandler` | four keys, one slot in the report, values 0..2; four configurations | 1 million | what the hosts show ends with the keys (`RestIsQuiet`), layers and used-up keys do, too (`LayersAreHeld`), a race report shows one key (`RaceShowsOneKey`). Four keys give a modifier, an overflow, a layer and FN at once |
| `SlaveMailbox` | three changes, a queue of one, two lost connections | 20 thousand | new values are announced by one message until they are copied (`NewsIsAnnounced`), nothing older than what the thread has arrives (`KeysNeverGoBack`), and the thread catches up (`KeysFollowSlave`), with a thread that drains its queue |
| `SlaveMailboxIdle` | one change | | the same without the call of `drain_thread_msgs`, as the code is: `KeysFollowSlave` fails. This is the first finding of section 5 |
| `KbSettings` | three calls on two threads, two subscribers, two parts, one restart | 1.3 million | subscribers end up with what the last call told them, which are the settings unless a callback overtook the copy, and flash with the settings (`SettingsInSync`) |
| `PowerDown` | battery: levels 0..5 and a reading above, critical 1, thresholds 0 and 3; charger: three pins that change at any step, failing reads; button: press times up to three periods of the thread, changed under a press | 273 thousand | listeners of all callbacks know the state, a listener of changes misses falls only (`ListenersAreTold`); an empty battery, and a charger that goes on to assert a fault, turn the keyboard off (`DangerShutsDown`); the driver reports its pins (`ReportsPins`); only a long press turns the keyboard off (`OnlyLongPresses`) and one does (`HeldTurnsOff`) |
| `VendorHid` | two hosts with two requests each, closed and opened at any time; one patient host with three; a channel with transfers of 5, 5, 4, 6 and 0 bytes for a buffer of five, all but the last of one id | 186 thousand | answers show one state of the settings, the request a work reads is left alone (`AnswersStayWhole`), also when USB and Bluetooth use the protocol at once, which the `TODO` at `vendor_hid_protocol.c:10` worries about; with patient hosts settings come from one request (`SettingsStayWhole`) and each one is answered (`PatientHostsAreAnswered`); no loss, repetition, order or damage completes a context of SplitLink or VendorHID with a packet missing, misplaced, or of a transfer of another id or length, or writes behind the length of the transfer (`FramingHolds`). The lengths cover two transfers that cannot be told apart, a full buffer, whole packets only, too long, and nothing |
| `Bluetooth` | up to six faults (failed creation, discovery, advertising, lost connection, late MTU); one while a host comes and goes; two and three connection objects, two levels | 309 thousand | both sync layers are told last what is so (`SyncKnows`); unless the MTU exchange is late the halves agree (`PromptHalvesAgree`) and meet (`PromptHalvesMeet`), whatever hosts do; reports go to the connected host in its mode (`HostIsServed`), a subscribed host ends up with the level (`HostKnowsLevel`), and with a spare object a keyboard without a host advertises (`AdvertisesWithSpare`) |
| `BluetoothAlone` | one fault, two objects | | without a spare object it does not: `AdvertisesAlone` fails. This is the second finding of section 5 |
| `YkbBacklight` | two slots, three scripts of which the VM refuses one, two uploads, two changes, one restart, failing saves | 435 thousand | no frame of a program that is gone (`DarkUnlessRunning`), flash has the slots (`FlashHasSlots`), and the backlight follows its settings unless a shortcut overtakes an upload (`SyncedUnlessOvertaken`) |
| `EsbStack` | transmitter: five packets, a queue of two, three failures; receiver: four calls; three timeslots that end, three refusals, the queue of ten calls; RPC: two packets with data, two events between the cores | 140 thousand | the radio sends the head of the queue and a packet leaves only when it arrived or was given up (`HeadIsSent`), in order (`PacketsArriveInOrder`), in the end, as do the last data of the receiver (`SentArrives`); no part of what arrives goes back, and a packet is mixed only if its own copy was interrupted (`ReceivedInOrder`); calls to MPSL succeed and the radio is used in granted timeslots only (`TimeslotsAreKept`), which go on (`SlotsGoOn`); the sync layer hears of the other half (`ConnectedIsTold`, `LinkFollowsPeer`) |

The bounds count events (changes, faults, restarts, refusals), never steps between them;
each is large enough for its hazards to meet twice. The mutants and the deviations of
section 5 show up within the same bounds. `CHECK_DEADLOCK FALSE` is set where the bounds
let the system come to rest.

The modules state their types (`TypeOK`) as the documentation of their variables; they are
proved for `KbSettings` and `YkbBacklight`.

### Fairness

* Weak fairness of works, threads, timers and the radio: the scheduler runs what is ready,
  and nothing in the models holds the processor for ever.
* Weak fairness of `LinkUp` and of the steps of the link (`LinkProgress`): the code scans
  and advertises again after every end. Faults are bounded, so that "finally nothing
  fails" is part of the premise. Hosts need not do anything.
* MPSL goes on to signal what happens: a timeslot that was asked for starts unless it is
  refused, a timer event comes, a session that ended is idle.
* A transmitter that a receiver hears goes on to send, and not every acknowledgement is
  lost (strong fairness of `Arrives`). The other half of SplitLink sends that it is alive
  until it is turned off (strong fairness of `PacketComes(FALSE)`).
* `SplitlinkValues` asks for strong fairness of `TxWorkSend` (a notification is not
  refused for ever) and of the works of the receiver that compete with new packets:
  the queue does drain in between, because a packet takes longer than its handling.
* `PowerDown` asks for strong fairness of successful reads of charger, gauge and button: a
  bus or a pin does not fail for ever.
* `VendorHid`: patient hosts send the request they have begun and wait until the context
  is ready; a USB host that does not may be refused in the step between the last packet
  of an answer and `busy = false`, and repeats are its own business. The other hosts have
  no fairness, and no liveness is claimed for them.

## 4. The proofs

TLAPS proves, for every value of the constants:

* `SplitlinkSyncProofs`: `ScansAreNotLost`. The invariant follows a change from the
  array through the scheduled work or the pending copy to the slot, and relates a slot
  that is busy at a new connection to the order of the connect and disconnect works.
  `SlotsNeverWedge`, from lemmas about the transmit work and the receiver's queue. They
  are what makes a slot live: its work is always going to run. `ValuesNeverGoBack` and, if
  no FN shortcut applies settings (`~FnActions`; section 5 says what happens otherwise),
  `SettingsNeverGoBack`: no part of what is delivered is ever older than before, for any
  number of parts and packets, any queues and any losses. The invariant (`OrderInv`,
  `AgesInv`) puts the places a part passes through in a row, from the keys over the scan
  frame, the array, the waiting payload, the transmit slot, the packets on the air and in
  `rx_msgq` to the receive buffer and the subsystem: no part is newer at a place than at
  the one before, although a receive buffer may mix the parts of several transfers. It
  rests on what one packet writes into a receive context, whatever was accepted or refused
  before it (`PushWrites`).
  `ScriptsAlwaysArrive`: with both halves at rest the slave has the scripts of the master,
  if nothing of the connection was lost, refused or skipped (`smooth`). The receive
  context, `rx_msgq`, the air and the transmit slot then hold one stream of whole scripts in
  turn (`PushInTurn` for the packet that is handed over), and so does the manifest's. For
  each slot one of these is true (`Comes`): it is marked and a transfer runs that will
  take the mark, asked for, being sent, in the stream, received, in a manifest on the way,
  or there; and nothing older of it is behind. The number of slots fits the `uint16_t`
  it is sent in.
* `BluetoothProofs`: `HalvesAgree`, `HostStaysServed` and, if no workqueue is kept busy from
  one connection to the next (`~BusyWorkqueue`), `SyncIsTold`. The invariant of the link
  (`LinkInv`) goes through the stages of a connection on each half: which requests are under
  way, which handles are known and which event is yet to come; a disconnection is
  the last event of a connection, and only then may the next one begin. That of the works
  (`WorkInv`, `QuietInv`) says which of the two is due, by what was told last.
* `KbHandlerProofs`: `ConsumedKeysArePressed`, which needs that a key is `pressed` exactly
  when its value was beyond the threshold, and `RaceFramesShowOneKey`, which needs the
  cardinality of the report while a frame is under way. `LayersHaveKeys` and
  `RestIsAlwaysQuiet`, for any keymap whose layers and FN keys are those the thread started
  with. The invariant (`QuietInv`) says of the report sent last that it was built for the
  layers that are active and for no key that has come up since, but for keys of layers and
  FN, whose moves may go without a report (`KbReportIsLast`), and that the host has it
  (`HostsAreUpToDate`). Of the mailbox: `NewsHasOneMessage`, inductive through `dirty` (once
  the thread has its copy, values that differ from it have set the flag), and
  `KeysGoForward`: versions only get older on the way from the slave to the thread
  (`VersionInv`), which needs that a receive work that is queued has a packet to take.
  Of the settings: `CopiesAreSettings` (types) and `AppliesEndInSync`. The invariant says
  of each copy (snapshot, image, record, caches) that is old which call will renew it; it
  is needed because two calls interleave and only the order of the copies saves the result.
  Between the two copies of the `kb_handler` thread a callback may change what it copies
  (`overtaken`): flash and snapshot may then differ, and section 5 says so.
* `YkbBacklightProofs`: `StateIsWellFormed` (types; that the search for an occupied slot
  ends needs that a set of numbers has a least one), `FlashKeepsSlots`, with the progress
  of saving (`SavedSoFar`) as part of the invariant, and `LightsFollow`.
  `BacklightFollowsSettings`: unless a shortcut overtook it, a call that sets a slot still
  has the settings it remembers, and the program is only out of step with the slots if the
  slot it sets is the active one (`SyncInv`).
* `PowerDownProofs`: `NoEdgeIsLost` of the charger (what a work has read is what the pins
  are, unless it is queued again: `BqInv`), `ListenersKnowBattery` of BattSense with either
  charger (a step tells both listeners of a new state, or one of them of a fall: `Tells`),
  and `ShortPressesAreIgnored` of the button, an action property: a press that is timed is
  still on and was no shorter, or ended after the last sample (`ButtonInv`).
* `EsbStackProofs`: `HeadsAreSent` and `OrderIsKept` of the transmitter (`YkbEsb`), under
  the condition that no timeslot starts between a check and its kick
  (`Mpsl => QuickSends`); section 5 says what happens otherwise. The invariant says that
  a sender that kicks is alone, that the FIFO holds the head of the queue or nothing, and
  that the queue is the end of the sequence of packets taken. `TimeslotsKept` of the whole
  stack: the invariant says which calls are due in which state of the session
  (`CallsAreDue`), and that a timeslot that was not extended has no radio time although it
  goes on (`ActiveInSlot`). It needs a queue of two calls, never ten. `ConnectionsAreTold`:
  a transport that believes in the connection has told, or has the connect work in the
  queue (`TellInv`), which a cancelled timeout does not take out. `LatestWins`: no part
  of what is received is older than what was, and a packet whose own copy was not
  interrupted is whole, whenever timeslots start and packets come. The FIFO of the
  driver holds copies of the cache in the order of the calls (`AcksInv`); between the cores
  the event that is encoded is the only one that is not complete, no place on the way holds
  a part newer than the place before it, and a copy that was interrupted is marked
  (`EventsInv`, `CopyInv`); alive packets, which have no number, are the exception.
* `VendorHidProofs`: `TransfersAreFramed`, for any sizes of packets and buffer and any
  transfers, also of the same id. A context *carries* a payload (`Carries`): the
  packets it has stored hold its bytes at their offsets, and their number and sizes add up
  to what it has counted. A packet of the payload keeps that (`PushCarries`), whatever was
  lost, repeated, damaged or refused before, so a context that has all packets holds all
  bytes and nothing was written behind its end. Over the bad channel the payload itself is
  pieced together (`Pieced`): each packet that is stored for the first time comes from some
  transfer of the id and length of the context, and what other transfers of them have put
  at other places stays (`ChannelInv`). `AnswersAndRequestsStay`, an action property for any number of transports
  and hosts: a context is busy from the moment its work is queued until the work ends,
  only one work runs at a time, and the packets of an answer are pieces of the shared
  buffer as it was when the answer began (`HostsInv`). `SettingsComeWhole`: with a
  configurator that waits, a context that is not busy carries the one request that is
  being sent, and a busy one holds all of it (`PatientInv`).

The assumptions are the named `ASSUME`s of the modules (sizes are positive and fit the
16 bits the code gives them, sentinels are no payload), which TLC evaluates in the runs.
Each invariant was checked in the runs before it was proved.

Out of the prover's reach: liveness under fairness, `ENABLED`, and what recursive
definitions compute. Only model-checked: every liveness property, and of the mixing of
transfers `IsRegister` and the scripts of `SlaveGoesForward`. Both hold for queues that never
fill, which is a matter of the speed of the receiver and not of the code.

## 5. Where code and documentation disagree

Two disagreements are findings of `PROJECT.json`, with a run each:

* Nothing in `kb_handler_splitlink_master_adapter.c` calls `drain_thread_msgs` (line 128), so
  the keys of the slave never reach the host, while `docs/subsys/KB_HANDLER.md:77` says "On
  split master, slave values are received as the second half of the global key array."
  (`SlaveMailboxIdle`).
* A master with both of its connection objects in use (`BT_MAX_CONN` is 2,
  `boards/ykb/skadi/Kconfig.defconfig:54`) stops advertising when its host leaves while the
  slave stays: the callback `bt_connect.c:406` restarts the advertising while the object of
  the host is still held, `bt_le_adv_start` fails (line 261), and nothing tries again. The
  HID information tells hosts `BT_HIDS_NORMALLY_CONNECTABLE` (line 568), and the slave half
  retries just this error (`splitlink_bt/peripheral.c:185`) (`BluetoothAlone`).

The others below were met while modelling. The models contain the behaviour, and the
passing runs state what holds in spite of it. "See" names the formula that TLC refutes when
it is added to the configuration, with the constants to change.

**SplitLink sync** (`docs/subsys/SPLITLINK.md:48-52` lists what the protocol delivers)

* Settings of two versions. `on_disconnect` resets neither slot, and with the bitmap (the
  default for Bluetooth) a packet of a new transfer with the same id and length continues
  the old one. See `SettingsWhole` of `SplitlinkSettings`, `OutOfOrder = TRUE`. In order it
  holds (`IsRegister`), unless FN shortcuts begin transfers, too.
* A transfer overwritten half-way. `tx_slot_begin_transfer` fills the slot without a lock
  and marks it busy last; on the `kb_handler` thread the system workqueue preempts it. See
  the same with `FnActions = TRUE`, in order, with a deep queue.
* Settings dropped. Settings that meet a busy slot are logged and forgotten
  (`splitlink_sync_ykb_protocol.c:207`); the slave keeps the old ones.
* A stale battery. A packet that arrives while the receive slot is `READY` is skipped
  (line 544), and the slave only sends changes.
* Mixed and lost scripts. Script slots are sent back to back under one id and one length:
  skipping the first packet of the second mixes two scripts (see `ScriptsWhole` of
  `ScriptSync`, `OutOfOrder = TRUE`), and a script that is skipped whole has lost its mark.
* Scripts that wait. The manifest takes two packets (74 bytes, `splitlink_sync_private.h:11-20`),
  and a busy slot, a full queue or the half of one that an earlier connection left behind
  drops it (`splitlink_sync_ykb_protocol.c:665` logs the first, nobody sees the others); so
  does the request. What differed then stays different until the script is updated or the
  halves connect again. See `ScriptsArrive` of `ScriptSync` without `smooth`.
* Keys after a reset. Values that are still in the receive queue when the link is lost are
  handed over after the reset (`kb_handler_splitlink_master_adapter.c:168`): keys of a slave
  that is gone stay down.

**SplitLink Bluetooth transport**

* A late MTU exchange. The fallback (`central.c:70`) and the callback both start a
  discovery; the second one overwrites the parameters of the first, the subscription gets
  a handle of 0, and the halves stay connected without a word to the sync layer. See
  `HalvesMeet` and `ConnectedHasHandles` in `Bluetooth`.
* Connections out of order. Connect and disconnect are two works; when the workqueue is
  busy while the link is lost and found, the connect work runs first and the sync layer
  stays disconnected. See `SyncKnows` with `BusyWorkqueue = TRUE`.

**SplitLink ESB transport and RPC**

* RPC that never starts. When `nrf_rpc_init` fails before the cores have met,
  `53_app/esb_53.c:264-266` says it "will retry via rpc_bound_handler", which does not:
  `ykb_esb_init` reports success later and every `ykb_esb_send` fails. See `ReadyCanSend` of
  `EsbRpc`, `RpcInitFails = TRUE`.
* A mixed packet. The comment at `53_net/esb_53.c:38-42` says the work "always sees stable
  data"; the interrupt overwrites `last_rx_data` while the work encodes it (line 63), the
  receive work runs while the callback copies the next packet (`prx.c:73`), and a timeslot
  starts while the cached acknowledgement is copied (`ykb_esb.c:190`). See `NothingIsMixed`
  of `EsbStack`.
* A timeout whose work is queued together with the connection can leave the sync layer
  told TRUE while `connected` is FALSE, until the next packet or timeout.
* The sending half (`ptx.c`) does not compile: it uses a `struct delayable_device_work` that no
  file defines (`splitlink_esb.h:33`).

**KBHandler**

* A key that stays down after a shortcut. A key that a shortcut used up is still in
  `pressed_keys`; the next report shows it, and its release sends none. See `RestIsSilent`.
* A key that stays down on the other transport. The transport is chosen for each report
  (`kb_handler_transport.c:11`) and nothing is sent to the one that is left. See
  `RestIsSilent` in a run that changes `ready` only.
* A mouse button that stays down when a shortcut leaves mouse emulation. See `RestStopsMouse`.
* New settings that do not reach the mode and the key lists, which are derived when the
  thread starts (`kb_handler_core.c:1003`), while `docs/subsys/KB_SETTINGS.md:60` says "This is how
  KBHandler, Backlight, BattSense, Power and SplitLink keep their cached settings in sync."

**KBSettings** (`KB_SETTINGS.md:46`: `kb_settings_apply()` "applies new settings, saves them
to persistent storage, and triggers update callbacks")

* Subscribers that are told other settings than are in force. A shortcut applies the copy
  of the settings that the `kb_handler` thread keeps (`kb_handler_core.c:898`), and
  `kb_settings_apply` copies it twice (`kb_settings.c:282-283`). A callback of the
  configurator's call overwrites that copy without the mutex (`kb_handler_core.c:1003`), also
  between the two: settings and flash then have the old values and every subscriber the new
  ones, or either has a mixture. See `CachesInSync` of `KbSettings`.
* A record of two settings. `save_img` is filled outside the mutex while another save
  writes it; a restart in between finds a mixture. The passing run claims no more than that
  flash is right once the calls are over.
* A lost configuration. A shortcut changes its copy of the settings and applies it whole;
  what the configurator applied since the copy is gone.

**BattSense, charger** (`docs/subsys/YKB_BATTSENSE.md`)

* No shutdown. The thread returns from the critical branch with its mutex locked
  (`ykb_battsense.c:95`); a work that asks for the battery state then waits for ever, before
  the shutdown in the same queue (line 69 of the document: "calls critical callbacks and
  schedules shutdown through YKB Power"). `EmptyShutsDown` without `~users` fails.
* Silence below the threshold. A fall below it calls `on_low_percentage` and not
  `on_state_changed`; the slave listens to the latter only. `OnlyFallsAreMissed` says that
  nothing else is missed.
* Low callbacks without a crossing. They are called for every fall that ends below the
  threshold; line 65 says "only fired when percentage crosses downward."
* A driver that keeps failing makes the thread go round without a sleep (line 67), and the
  threads below it starve.
* A stale charger. A pin that cannot be read ends the work of the driver
  (`charger_bq25185.c:165`) and only the next edge starts another, so the report may stay
  wrong. `ReportsPins` leaves out the state after a failed work.

**VendorHID.** A request that was interrupted leaves a transfer nobody resets: packets of
another length are refused from then on, packets of the same length continue it, so that
settings may be made of two requests. `SettingsStayWhole` and `PatientHostsAreAnswered` are
about hosts that finish what they begin.

**Backlight.**

* A reload that undoes a shortcut: `ykb_backlight_set_script_slot` copies the settings,
  saves, and reloads with the copy (`ykb_backlight.c:629`). See `BacklightInSync`.
* Defaults that are never loaded: a restart during the first save leaves one record, and
  one record is enough for the defaults of the other slots to be left out.

**ESB.**

* A packet in the FIFO twice. Between the checks of `ykb_esb_send` (`ykb_esb.c:373`) and the
  write a timeslot can end and the next one start and kick the same packet. See
  `HeadIsSent` with `QuickSends = FALSE`; the passing run leaves this window out.
* `ykb_esb_suspend` leaves the queue alone; the comment at lines 356-357 says it "was purged
  on suspend".
* Data of a receiver whose acknowledgement is lost while the transmitter goes on to its
  next packet are gone until the next call or timeslot. `SentArrives` leaves this case out
  (`lost`).

## 6. Not modelled

* The Lumiscript interpreter (a submodule that is not in the tree) and its wrapper; metrics
  (counters for logs, which nothing reads back); the drivers of the fuel gauge, the
  multiplexers and the ADC scan (register and pin sequences without a state of their own;
  their values are inputs); the generators, boards and tables of KBHandler; HCI forwarding
  and start-up of the network core.
* Of what is modelled in part: the benchmark packets of SplitLink; the sending half of its
  ESB transport (it does not compile, and `docs/subsys/SPLITLINK.md:21` says that this transport
  does not work yet); the encoding of RPC and its events of sent packets, which the
  transport ignores; the indicator LED; the texts and keys of pairing, the report map and
  the secondary battery service of BTConnect; USBConnect but as a transport; pressed keys,
  colours and timing of the backlight; percentages, callbacks and the repetition of mouse
  movements of KBHandler.
* An error of starting the scan, or of starting to advertise on the slave for a reason
  other than memory, is never retried by the code; the models of the link leave those
  errors out and the hazard is noted. The busy loop of BattSense is not visible without a
  model of CPU time, nor is a scan thread that is suspended inside a driver without the
  locks of the drivers.

## 7. The plan

Done, in this order: framing; slots and their four uses; mailbox; handler; settings;
battery; VendorHID; link; backlight; ESB transmitter and receiver; timeslots; RPC and the
receiving ESB transport; the host's Bluetooth and what it shares with the link; charger and
power button; the proofs above.

Left, by importance:

1. A composition of mailbox and handler: resets in the middle of a frame, layers of keys
   whose slave is gone; and of KBSettings with the settings slots of both halves.
2. Abstract specifications: a queue that `YkbEsb` implements; a register for scripts and for
   the cached acknowledgement.
3. Theorems: `IsRegister` as a refinement proof, and `ScriptsWhole`, under the condition
   that the queue never fills.
4. The sending half of the ESB transport, once it compiles, and the drivers of the keys.
