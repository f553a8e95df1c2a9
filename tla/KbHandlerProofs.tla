---------------------------- MODULE KbHandlerProofs ----------------------------
(***************************************************************************)
(* Facts about the handler for any keyboard, any settings the configurator *)
(* or a shortcut may choose, and transports that come and go at any time:  *)
(* a consumed key is always a key that is down, and the report of a race   *)
(* frame never shows two keys.  As long as nothing but keys moves, layers  *)
(* are held by keys and hosts see nothing once every key is up.  And about *)
(* the mailbox that brings it the slave's values, for a message queue of   *)
(* any size, any number of changes and lost connections: one message       *)
(* stands for new values, none are forgotten, and the keys only go forward.*)
(* And about the settings that all of it works by: every copy of them is   *)
(* brought up to date, however the calls that change them overlap.         *)
(***************************************************************************)
EXTENDS KbHandlerMC, SlaveMailbox, KbSettings, FiniteSetTheorems, TLAPS

-----------------------------------------------------------------------------
(* Consumed keys *)

ConsumedInv ==
    /\ cursor \in 0 .. KeyCount
    /\ pressed \in [Keys -> BOOLEAN]
    /\ consumed \in [Keys -> BOOLEAN]
    /\ ConsumedIsPressed

(* A key that moved is pressed exactly when it is beyond the threshold     *)
(* (process_key_value).                                                    *)
LEMMA MovedKey ==
    ASSUME ConsumedInv, NEW v \in 0 .. Maximum, Sample(v), Moves(v), SetPressed
    PROVE  /\ cursor \in Keys /\ cursor' \in 0 .. KeyCount
           /\ pressed' = [pressed EXCEPT ![cursor] = (v >= Threshold)]
<1>1. cursor \in Keys /\ cursor' \in 0 .. KeyCount
  BY HandlerAssumption DEF ConsumedInv, Sample, Keys
<1>2. pressed[cursor] \in BOOLEAN
  BY <1>1 DEF ConsumedInv
<1>3. (~pressed[cursor]) = (v >= Threshold)
  BY <1>2 DEF Moves
<1> QED
  BY <1>1, <1>3 DEF SetPressed

(* Nothing is pressed when the handler starts.                             *)
LEMMA ConsumedInit == Init => ConsumedInv
  BY HandlerAssumption DEF Init, ConsumedInv, ConsumedIsPressed, Keys

(* Every step keeps the consumed keys among the pressed ones.              *)
LEMMA ConsumedStep == ConsumedInv /\ [Next]_vars => ConsumedInv'
<1> SUFFICES ASSUME ConsumedInv, [Next]_vars PROVE ConsumedInv'
  OBVIOUS
<1>1. ASSUME NEW v \in 0 .. Maximum, KeyRests(v) PROVE ConsumedInv'
  <2>1. cursor' \in 0 .. KeyCount /\ UNCHANGED <<pressed, consumed>>
    BY <1>1, HandlerAssumption DEF KeyRests, Sample, ConsumedInv
  <2> QED
    BY <2>1 DEF ConsumedInv, ConsumedIsPressed
<1>2. ASSUME NEW v \in 0 .. Maximum, KeyWasConsumed(v) PROVE ConsumedInv'
  <2>1. /\ cursor \in Keys /\ cursor' \in 0 .. KeyCount
        /\ pressed' = [pressed EXCEPT ![cursor] = (v >= Threshold)]
    BY <1>2, MovedKey DEF KeyWasConsumed
  <2>2. consumed' = [consumed EXCEPT ![cursor] = (v >= Threshold)]
    BY <1>2 DEF KeyWasConsumed
  <2> QED
    BY <2>1, <2>2 DEF ConsumedInv, ConsumedIsPressed
<1>3. ASSUME NEW v \in 0 .. Maximum, NEW saved \in BOOLEAN, KeyIsShortcut(v, saved)
      PROVE  ConsumedInv'
  <2>1. /\ cursor \in Keys /\ cursor' \in 0 .. KeyCount
        /\ pressed' = [pressed EXCEPT ![cursor] = (v >= Threshold)]
    BY <1>3, MovedKey DEF KeyIsShortcut
  <2>2. v >= Threshold /\ consumed' = [consumed EXCEPT ![cursor] = TRUE]
    BY <1>3 DEF KeyIsShortcut, StartsShortcut
  <2> QED
    BY <2>1, <2>2 DEF ConsumedInv, ConsumedIsPressed
<1>4. ASSUME NEW v \in 0 .. Maximum, KeyMoves(v) PROVE ConsumedInv'
  <2>1. /\ cursor \in Keys /\ cursor' \in 0 .. KeyCount
        /\ pressed' = [pressed EXCEPT ![cursor] = (v >= Threshold)]
    BY <1>4, MovedKey DEF KeyMoves
  <2>2. ~consumed[cursor] /\ consumed' = consumed
    BY <1>4 DEF KeyMoves
  <2> QED
    BY <2>1, <2>2 DEF ConsumedInv, ConsumedIsPressed
<1>5. CASE FinishFrame
  <2>1. cursor' = 0 /\ UNCHANGED <<pressed, consumed>>
    BY <1>5 DEF FinishFrame, FinishNormal, FinishMouse, FinishRace, FrameEnd, keyVars
  <2> QED
    BY <2>1, HandlerAssumption DEF ConsumedInv, ConsumedIsPressed
<1>6. CASE SettingsUpdate \/ TransportChanges \/ UNCHANGED vars
  <2>1. UNCHANGED <<cursor, pressed, consumed>>
    BY <1>6 DEF SettingsUpdate, TransportChanges, vars, keyVars
  <2> QED
    BY <2>1 DEF ConsumedInv, ConsumedIsPressed
<1> QED
  BY <1>1, <1>2, <1>3, <1>4, <1>5, <1>6 DEF Next, ScanKey

(* A key a shortcut used up is still down, in every behaviour: no press is *)
(* swallowed after the release (maybe_handle_fn_shortcut).                 *)
THEOREM ConsumedKeysArePressed == Spec => []ConsumedIsPressed
<1>1. ConsumedInv => ConsumedIsPressed
  BY DEF ConsumedInv
<1> QED
  BY <1>1, ConsumedInit, ConsumedStep, PTL DEF Spec

-----------------------------------------------------------------------------
(* Race mode *)

(* Of all keys that are down at most one is picked, the one pressed the    *)
(* furthest (send_race_report_if_changed).                                 *)
LEMMA RacePicksOneKey ==
    ASSUME NEW down \in [Keys -> BOOLEAN], NEW val \in [Keys -> Int]
    PROVE  \A j, k \in RaceKeys(down, val) : j = k
<1> SUFFICES ASSUME NEW j \in RaceKeys(down, val), NEW k \in RaceKeys(down, val)
             PROVE  j = k
  OBVIOUS
<1>1. j \in Keys /\ k \in Keys /\ down[j] /\ down[k]
  BY DEF RaceKeys
<1>2. /\ val[j] < val[k] \/ (val[j] = val[k] /\ k <= j)
      /\ val[k] < val[j] \/ (val[k] = val[j] /\ j <= k)
  BY <1>1 DEF RaceKeys
<1>3. val[j] \in Int /\ val[k] \in Int /\ j \in Int /\ k \in Int
  BY <1>1, HandlerAssumption DEF Keys
<1> QED
  BY <1>2, <1>3

(* The report of a single key shows a single code (build_kb_report).       *)
LEMMA OneKeyOneCode ==
    ASSUME NEW s, NEW snd, NEW trd, NEW set, \A j, k \in set : j = k
    PROVE  Cardinality(BuildKbReport(s, set, snd, trd)) <= 1
<1> DEFINE Code(k)  == ResolveHid(s, k, snd, trd)
           shown    == {k \in set : /\ Code(k) \notin Symbolic
                                    /\ s.mode = "MOUSESIM" => k \notin MouseKeys}
           codes    == {Code(k) : k \in shown}
           mods     == codes \cap Modifiers
           plain    == codes \ Modifiers
           First(c) == CHOOSE k \in shown :
                          Code(k) = c /\ \A j \in shown : Code(j) = c => k <= j
           kept     == {c \in plain :
                          Cardinality({d \in plain : First(d) < First(c)}) < KeySlots}
<1>1. BuildKbReport(s, set, snd, trd)
        = mods \cup IF Cardinality(plain) > KeySlots /\ Rollover
                    THEN {"ROLLOVER"} ELSE kept
  BY DEF BuildKbReport
<1>2. \A c, d \in codes : c = d
  OBVIOUS
<1>3. kept \subseteq plain
  OBVIOUS
<1> HIDE DEF kept, codes
<1>4. codes = {} \/ \E c : codes = {c}
  BY <1>2
<1>5. IsFiniteSet(codes) /\ Cardinality(codes) <= 1
  <2>1. CASE codes = {}
    <3>1. IsFiniteSet({}) /\ Cardinality({}) = 0
      BY FS_EmptySet
    <3> QED
      BY <2>1, <3>1
  <2>2. CASE \E c : codes = {c}
    <3>1. PICK c : codes = {c}
      BY <2>2
    <3>2. IsFiniteSet({c}) /\ Cardinality({c}) = 1
      BY FS_Singleton
    <3> QED
      BY <3>1, <3>2
  <2> QED
    BY <1>4, <2>1, <2>2
<1>6. IsFiniteSet(plain) /\ Cardinality(plain) \in Nat /\ Cardinality(plain) <= 1
  BY <1>5, FS_Subset, FS_CardinalityType
<1>7. ~(Cardinality(plain) > KeySlots)
  BY <1>6, HandlerAssumption
<1>8. mods \cup kept \subseteq codes
  BY <1>3
<1> QED
  BY <1>1, <1>5, <1>7, <1>8, FS_Subset, FS_CardinalityType

RaceInv ==
    /\ cursor \in 0 .. KeyCount
    /\ pressed \in [Keys -> BOOLEAN]
    /\ value \in [Keys -> Int]
    /\ RaceShowsOneKey

(* The handler starts with empty reports.                                  *)
LEMMA RaceInit == Init => RaceInv
<1> SUFFICES ASSUME Init PROVE RaceInv
  OBVIOUS
<1>1. Cardinality({}) = 0
  BY FS_EmptySet
<1> QED
  BY <1>1, HandlerAssumption DEF Init, RaceInv, RaceShowsOneKey

(* Only the end of a frame brings the handler back to the first key, and   *)
(* in race mode it then has sent the report of one key.                    *)
LEMMA RaceStep == RaceInv /\ [Next]_vars => RaceInv'
<1> SUFFICES ASSUME RaceInv, [Next]_vars PROVE RaceInv'
  OBVIOUS
<1>1. CASE ScanKey
  <2>1. PICK v \in 0 .. Maximum : Sample(v) /\ (UNCHANGED pressed \/ SetPressed)
    BY <1>1 DEF ScanKey, KeyRests, KeyWasConsumed, KeyIsShortcut, KeyMoves
  <2>2. cursor \in Keys /\ cursor' \in 0 .. KeyCount /\ cursor' # 0
    BY <2>1, HandlerAssumption DEF Sample, RaceInv, Keys
  <2>3. value' \in [Keys -> Int]
    <3>1. v \in Int
      BY HandlerAssumption
    <3> QED
      BY <2>1, <3>1 DEF Sample, RaceInv
  <2>4. pressed' \in [Keys -> BOOLEAN]
    BY <2>1, <2>2 DEF SetPressed, RaceInv
  <2> QED
    BY <2>2, <2>3, <2>4 DEF RaceInv, RaceShowsOneKey
<1>2. CASE FinishRace
  <2> DEFINE report ==
        BuildKbReport(settings, RaceKeys(pressed, value), second, third)
  <2>1. Cardinality(report) <= 1
    BY RacePicksOneKey, OneKeyOneCode DEF RaceInv
  <2>2. prevKb' = report
    BY <1>2 DEF FinishRace, SendKbIfChanged
  <2>3. cursor' = 0 /\ UNCHANGED <<pressed, value>>
    BY <1>2 DEF FinishRace, FrameEnd, keyVars
  <2> QED
    BY <2>1, <2>2, <2>3, HandlerAssumption DEF RaceInv, RaceShowsOneKey
<1>3. CASE FinishNormal \/ FinishMouse
  <2>1. cursor' = 0 /\ mode' # "RACE" /\ UNCHANGED <<pressed, value>>
    BY <1>3 DEF FinishNormal, FinishMouse, FrameEnd, keyVars
  <2> QED
    BY <2>1, HandlerAssumption DEF RaceInv, RaceShowsOneKey
<1>4. CASE SettingsUpdate \/ TransportChanges \/ UNCHANGED vars
  <2>1. UNCHANGED <<cursor, pressed, value, mode, prevKb>>
    BY <1>4 DEF SettingsUpdate, TransportChanges, vars, keyVars, reportVars
  <2> QED
    BY <2>1 DEF RaceInv, RaceShowsOneKey
<1> QED
  BY <1>1, <1>2, <1>3, <1>4 DEF Next, FinishFrame

(* In race mode no frame ever ends with two keys in the report, for any    *)
(* values, whatever happened before the mode was chosen.                   *)
THEOREM RaceFramesShowOneKey == Spec => []RaceShowsOneKey
<1>1. RaceInv => RaceShowsOneKey
  BY DEF RaceInv
<1> QED
  BY <1>1, RaceInit, RaceStep, PTL DEF Spec

-----------------------------------------------------------------------------
(* Keys alone *)

NothingConsumed == \A k \in Keys : ~consumed[k]

(* As long as nothing but keys has moved the cache is that of the          *)
(* settings, and a layer flag belongs to a key that is down; in race mode  *)
(* no key sets one.                                                        *)
LayerInv ==
    ~disturbed =>
      /\ NothingConsumed
      /\ cache = LayerCache(settings)
      /\ mode = "RACE" => ~second /\ ~third
      /\ LayerHasKey

(* The report sent last, outside race mode: it was built for the layers    *)
(* that are active and for no key that has come up since, but for the keys *)
(* of layers and FN, which may move without a report.                      *)
KbReportIsLast ==
    mode # "RACE" =>
      \E sent \in SUBSET Keys :
         /\ prevKb = BuildKbReport(settings, sent, second, third)
         /\ \A k \in sent : \/ pressed[k]
                            \/ k \in cache.layer1 \cup cache.layer2 \cup cache.fn

(* Reports that are built per frame are those of the keys at its end.      *)
FrameReportsAreLast ==
    cursor = 0 =>
      /\ mode = "RACE" =>
           prevKb = BuildKbReport(settings, RaceKeys(pressed, value), second, third)
      /\ mode = "MOUSESIM" => prevMouse = MouseReport(pressed, value)

(* The host behind the transport in use has seen the reports sent last,    *)
(* the other one nothing.                                                  *)
HostsAreUpToDate ==
    \A t \in Transports :
       host[t] = IF t \in Target(settings.prio)
                 THEN [kb |-> prevKb, mouse |-> prevMouse] ELSE NoReports

ReportInv ==
    ~disturbed =>
      /\ KbReportIsLast
      /\ FrameReportsAreLast
      /\ mode # "MOUSESIM" => prevMouse = Still
      /\ HostsAreUpToDate

QuietInv == ConsumedInv /\ LayerInv /\ ReportInv

(* As long as only keys move the handler keeps the settings it started     *)
(* with, and every step is one of these.                                   *)
LEMMA OnlyKeysMove ==
    ASSUME ConsumedInv, NothingConsumed, [MCNext]_<<vars, disturbed>>, ~disturbed'
    PROVE  /\ ~disturbed
           /\ UNCHANGED <<settings, ready, consumed, cache, mode>>
           /\ \/ \E v \in 0 .. Maximum : KeyRests(v) \/ KeyMoves(v)
              \/ FinishFrame
              \/ UNCHANGED vars
<1>1. ~disturbed /\ UNCHANGED <<settings, ready, consumed>>
  <2>1. CASE MCNext
    <3>1. disturbed'
            = (disturbed \/ <<settings, ready, consumed>>' # <<settings, ready, consumed>>)
      BY <2>1 DEF MCNext
    <3>2. ~(disturbed \/ <<settings, ready, consumed>>' # <<settings, ready, consumed>>)
      BY <3>1, Zenon
    <3>3. ~disturbed /\ <<settings, ready, consumed>>' = <<settings, ready, consumed>>
      BY <3>2
    <3> QED
      BY <3>3
  <2>2. CASE UNCHANGED <<vars, disturbed>>
    BY <2>2 DEF vars, keyVars
  <2> QED
    BY <2>1, <2>2
<1>2. ASSUME NEW v \in 0 .. Maximum, NEW saved \in BOOLEAN, KeyIsShortcut(v, saved)
      PROVE  FALSE
  <2>1. cursor \in Keys /\ ~consumed[cursor] /\ consumed' = [consumed EXCEPT ![cursor] = TRUE]
    BY <1>2, MovedKey DEF KeyIsShortcut, StartsShortcut
  <2> QED
    BY <1>1, <2>1 DEF ConsumedInv
<1>3. ASSUME NEW v \in 0 .. Maximum, KeyWasConsumed(v)
      PROVE  FALSE
  <2>1. cursor \in Keys /\ consumed[cursor]
    BY <1>3, MovedKey DEF KeyWasConsumed
  <2> QED
    BY <2>1 DEF NothingConsumed
<1>4. SettingsUpdate => UNCHANGED vars
  BY <1>1 DEF SettingsUpdate, vars, keyVars
<1>5. ~TransportChanges
  BY <1>1 DEF TransportChanges
<1>6. \/ \E v \in 0 .. Maximum : KeyRests(v) \/ KeyMoves(v)
      \/ FinishFrame
      \/ UNCHANGED vars
  BY <1>2, <1>3, <1>4, <1>5 DEF MCNext, Next, ScanKey, vars
<1>7. UNCHANGED <<cache, mode>>
  BY <1>6 DEF KeyRests, KeyMoves, FinishFrame, FinishNormal, FinishMouse, FinishRace, FrameEnd, vars
<1> QED
  BY <1>1, <1>6, <1>7

(* The layers are those of the settings, and no key is two of them.        *)
LEMMA CachedKeys ==
    ASSUME cache = LayerCache(settings)
    PROVE  /\ cache.layer1 = KeysMappedTo(settings, "LAYER1")
           /\ cache.layer2 = KeysMappedTo(settings, "LAYER2")
           /\ cache.fn = KeysMappedTo(settings, "FN")
           /\ cache.layer1 \subseteq Keys /\ cache.layer2 \subseteq Keys
           /\ cache.layer1 \cap cache.layer2 = {}
           /\ cache.layer1 \cap cache.fn = {} /\ cache.layer2 \cap cache.fn = {}
<1>1. /\ cache.layer1 = KeysMappedTo(settings, "LAYER1")
      /\ cache.layer2 = KeysMappedTo(settings, "LAYER2")
      /\ cache.fn = KeysMappedTo(settings, "FN")
  BY DEF LayerCache
<1> QED
  BY <1>1 DEF KeysMappedTo

(* A layer flag that is on after a key moved has a key that is down        *)
(* (handle_layer_key counts the other keys of the layer).                  *)
LEMMA FlagHasKey ==
    ASSUME ConsumedInv, NEW v \in 0 .. Maximum, Sample(v), Moves(v), SetPressed,
           NEW flag, NEW layerKeys, layerKeys \subseteq Keys,
           flag => \E k \in layerKeys : pressed[k],
           LayerFlag(flag, layerKeys, v)
    PROVE  \E k \in layerKeys : pressed'[k]
<1>1. /\ cursor \in Keys
      /\ pressed' = [pressed EXCEPT ![cursor] = (v >= Threshold)]
  BY MovedKey
<1>2. /\ pressed'[cursor] = (v >= Threshold)
      /\ \A k \in Keys \ {cursor} : pressed'[k] = pressed[k]
  BY <1>1 DEF ConsumedInv
<1>3. CASE cursor \notin layerKeys
  BY <1>2, <1>3 DEF LayerFlag
<1>4. CASE cursor \in layerKeys /\ Holds(v, layerKeys)
  BY <1>2, <1>4 DEF Holds
<1>5. CASE cursor \in layerKeys /\ ~Holds(v, layerKeys)
  BY <1>2, <1>5 DEF LayerFlag
<1> QED
  BY <1>3, <1>4, <1>5

(* Every step keeps the layers of a handler that only keys have moved.     *)
LEMMA LayerStep ==
    ASSUME ConsumedInv, LayerInv, [MCNext]_<<vars, disturbed>>
    PROVE  LayerInv'
<1> SUFFICES ASSUME ~disturbed'
             PROVE  /\ NothingConsumed' /\ (cache = LayerCache(settings))'
                    /\ mode' = "RACE" => ~second' /\ ~third'
                    /\ LayerHasKey'
  BY DEF LayerInv
<1>0. ~disturbed
  BY DEF MCNext, vars
<1>1. /\ NothingConsumed /\ LayerHasKey /\ (mode = "RACE" => ~second /\ ~third)
      /\ cache = LayerCache(settings)
  BY <1>0 DEF LayerInv
<1>2. /\ UNCHANGED <<settings, ready, consumed, cache, mode>>
      /\ \/ \E v \in 0 .. Maximum : KeyRests(v) \/ KeyMoves(v)
         \/ FinishFrame
         \/ UNCHANGED vars
  BY <1>1, OnlyKeysMove
<1>3. NothingConsumed' /\ (cache = LayerCache(settings))'
  BY <1>1, <1>2 DEF NothingConsumed, LayerCache, KeysMappedTo
<1>4. CASE UNCHANGED <<second, third, pressed>>
  BY <1>1, <1>2, <1>3, <1>4 DEF LayerHasKey
<1>5. ASSUME NEW v \in 0 .. Maximum, KeyMoves(v), mode # "RACE"
      PROVE  LayerHasKey'
  <2>1. /\ Sample(v) /\ Moves(v) /\ SetPressed
        /\ second' = LayerFlag(second, cache.layer1, v)
        /\ third' = LayerFlag(third, cache.layer2, v)
    BY <1>5 DEF KeyMoves
  <2>2. second' => \E k \in cache.layer1 : pressed'[k]
    <3> HAVE second'
    <3>1. LayerFlag(second, cache.layer1, v)
      BY <2>1
    <3> QED
      BY <1>1, <2>1, <3>1, FlagHasKey, CachedKeys DEF LayerHasKey
  <2>3. third' => \E k \in cache.layer2 : pressed'[k]
    <3> HAVE third'
    <3>1. LayerFlag(third, cache.layer2, v)
      BY <2>1
    <3> QED
      BY <1>1, <2>1, <3>1, FlagHasKey, CachedKeys DEF LayerHasKey
  <2> QED
    BY <1>2, <2>2, <2>3 DEF LayerHasKey
<1>6. ASSUME NEW v \in 0 .. Maximum, KeyMoves(v), mode = "RACE"
      PROVE  LayerHasKey' /\ ~second' /\ ~third'
  <2>1. ~second' /\ ~third'
    BY <1>1, <1>6 DEF KeyMoves
  <2> QED
    BY <2>1 DEF LayerHasKey
<1>7. (\E v \in 0 .. Maximum : KeyRests(v)) \/ FinishFrame \/ UNCHANGED vars
        => UNCHANGED <<second, third, pressed>>
  BY DEF KeyRests, FinishFrame, FinishNormal, FinishMouse, FinishRace, FrameEnd, vars, keyVars
<1> QED
  BY <1>1, <1>2, <1>3, <1>4, <1>5, <1>6, <1>7

-----------------------------------------------------------------------------
(* Reports of a handler that only keys move *)

(* Keys that stand for no code make an empty report (build_kb_report).     *)
LEMMA SymbolsShowNothing ==
    ASSUME NEW s, NEW set, NEW snd, NEW trd,
           \A k \in set : ResolveHid(s, k, snd, trd) \in Symbolic
    PROVE  BuildKbReport(s, set, snd, trd) = {}
<1> DEFINE Code(k)  == ResolveHid(s, k, snd, trd)
           shown    == {k \in set : /\ Code(k) \notin Symbolic
                                    /\ s.mode = "MOUSESIM" => k \notin MouseKeys}
           codes    == {Code(k) : k \in shown}
           mods     == codes \cap Modifiers
           plain    == codes \ Modifiers
           First(c) == CHOOSE k \in shown :
                          Code(k) = c /\ \A j \in shown : Code(j) = c => k <= j
           kept     == {c \in plain :
                          Cardinality({d \in plain : First(d) < First(c)}) < KeySlots}
<1>1. BuildKbReport(s, set, snd, trd)
        = mods \cup IF Cardinality(plain) > KeySlots /\ Rollover
                    THEN {"ROLLOVER"} ELSE kept
  BY DEF BuildKbReport
<1>2. codes = {}
  OBVIOUS
<1>3. kept \subseteq plain
  OBVIOUS
<1> HIDE DEF kept, codes
<1>4. mods = {} /\ plain = {}
  BY <1>2
<1>5. ~(Cardinality(plain) > KeySlots)
  <2>1. Cardinality({}) = 0
    BY FS_EmptySet
  <2> QED
    BY <1>4, <2>1, HandlerAssumption
<1> QED
  BY <1>1, <1>3, <1>4, <1>5

(* The mouse report of keys that are all up is the empty one.              *)
LEMMA NothingMovesMouse ==
    ASSUME NEW down, NEW val, \A k \in Keys : ~down[k] /\ val[k] = 0
    PROVE  MouseReport(down, val) = Still
  BY HandlerAssumption DEF MouseReport, Still

(* A keyboard report that is sent if it changed leaves the host with it    *)
(* (kb_handler_transport_send_kb_report).                                  *)
LEMMA KbReportArrives ==
    ASSUME HostsAreUpToDate, NEW report, SendKbIfChanged(report, settings.prio),
           UNCHANGED <<settings, ready, prevMouse>>
    PROVE  prevKb' = report /\ HostsAreUpToDate'
<1>1. CASE report = prevKb
  BY <1>1 DEF SendKbIfChanged, HostsAreUpToDate, Target
<1>2. CASE report # prevKb
  <2>1. prevKb' = report /\ Deliver("kb", report, settings.prio)
    BY <1>2 DEF SendKbIfChanged
  <2>2. Target(settings.prio)' = Target(settings.prio)
    BY DEF Target
  <2>3. ASSUME NEW t \in Transports
        PROVE  host'[t] = IF t \in Target(settings.prio)
                          THEN [kb |-> prevKb', mouse |-> prevMouse] ELSE NoReports
    <3>1. host'[t] = IF t \in Target(settings.prio)
                     THEN [host[t] EXCEPT !["kb"] = report] ELSE host[t]
      BY <2>1 DEF Deliver
    <3>2. host[t] = IF t \in Target(settings.prio)
                    THEN [kb |-> prevKb, mouse |-> prevMouse] ELSE NoReports
      BY DEF HostsAreUpToDate
    <3> QED
      BY <2>1, <3>1, <3>2
  <2> QED
    BY <2>1, <2>2, <2>3 DEF HostsAreUpToDate
<1> QED
  BY <1>1, <1>2

(* So does a mouse report.                                                 *)
LEMMA MouseReportArrives ==
    ASSUME HostsAreUpToDate, NEW report, prevMouse' = report,
           IF report = prevMouse THEN UNCHANGED host
           ELSE Deliver("mouse", report, settings.prio),
           UNCHANGED <<settings, ready, prevKb>>
    PROVE  HostsAreUpToDate'
<1>1. CASE report = prevMouse
  BY <1>1 DEF HostsAreUpToDate, Target
<1>2. CASE report # prevMouse
  <2>1. Target(settings.prio)' = Target(settings.prio)
    BY DEF Target
  <2>2. ASSUME NEW t \in Transports
        PROVE  host'[t] = IF t \in Target(settings.prio)
                          THEN [kb |-> prevKb, mouse |-> prevMouse'] ELSE NoReports
    <3>1. host'[t] = IF t \in Target(settings.prio)
                     THEN [host[t] EXCEPT !["mouse"] = report] ELSE host[t]
      BY <1>2 DEF Deliver
    <3>2. host[t] = IF t \in Target(settings.prio)
                    THEN [kb |-> prevKb, mouse |-> prevMouse] ELSE NoReports
      BY DEF HostsAreUpToDate
    <3> QED
      BY <3>1, <3>2
  <2> QED
    BY <2>1, <2>2 DEF HostsAreUpToDate
<1> QED
  BY <1>1, <1>2

(* Moving a key: the report is that of the keys that are down, or the key  *)
(* belongs to a layer or to FN and the layers stay as they are.            *)
LEMMA KeyMovesReports ==
    ASSUME ConsumedInv, cache = LayerCache(settings), KbReportIsLast, HostsAreUpToDate,
           NEW v \in 0 .. Maximum, KeyMoves(v)
    PROVE  KbReportIsLast' /\ HostsAreUpToDate'
<1> DEFINE special == cache.layer1 \cup cache.layer2 \cup cache.fn
<1>1. /\ Sample(v) /\ Moves(v) /\ SetPressed
      /\ UNCHANGED <<settings, mode, cache, prevMouse, ready>>
  BY DEF KeyMoves
<1>2. /\ cursor \in Keys
      /\ pressed' = [pressed EXCEPT ![cursor] = (v >= Threshold)]
  BY <1>1, MovedKey
<1>3. CASE mode = "RACE"
  <2>1. UNCHANGED <<prevKb, host>>
    BY <1>3 DEF KeyMoves, NoReport
  <2> QED
    BY <1>1, <1>3, <2>1 DEF KbReportIsLast, HostsAreUpToDate, Target
<1>4. CASE mode # "RACE" /\ NoReport(v)
  <2>1. UNCHANGED <<prevKb, host>>
    BY <1>4 DEF KeyMoves
  <2>2. /\ second' = LayerFlag(second, cache.layer1, v)
        /\ third' = LayerFlag(third, cache.layer2, v)
    BY <1>4 DEF KeyMoves
  <2>3. cursor \in special /\ UNCHANGED <<second, third>>
    BY <1>4, <2>2, CachedKeys DEF NoReport, LayerFlag
  <2>4. PICK sent \in SUBSET Keys :
           /\ prevKb = BuildKbReport(settings, sent, second, third)
           /\ \A k \in sent : pressed[k] \/ k \in special
    BY <1>4 DEF KbReportIsLast
  <2>5. \A k \in sent : pressed'[k] \/ k \in special
    BY <1>2, <2>3, <2>4 DEF ConsumedInv
  <2>6. (prevKb = BuildKbReport(settings, sent, second, third))'
    BY <1>1, <2>1, <2>3, <2>4
  <2>7. KbReportIsLast'
    BY <1>1, <2>5, <2>6 DEF KbReportIsLast
  <2> QED
    BY <1>1, <2>1, <2>7 DEF HostsAreUpToDate, Target
<1>5. CASE ~NoReport(v)
  <2>1. PICK down \in SUBSET Keys : down = {k \in Keys : pressed'[k]}
    OBVIOUS
  <2>2. SendKbIfChanged(BuildKbReport(settings, down, second', third'), settings.prio)
    BY <1>5, <2>1 DEF KeyMoves
  <2>3. prevKb' = BuildKbReport(settings, down, second', third') /\ HostsAreUpToDate'
    BY <1>1, <2>2, KbReportArrives
  <2>4. (prevKb = BuildKbReport(settings, down, second, third))'
    BY <1>1, <2>3
  <2>5. \A k \in down : pressed'[k]
    BY <2>1
  <2> QED
    BY <2>3, <2>4, <2>5 DEF KbReportIsLast
<1> QED
  BY <1>3, <1>4, <1>5

(* The end of a frame sends the reports that are built per frame.          *)
LEMMA FrameEndReports ==
    ASSUME KbReportIsLast, HostsAreUpToDate, mode # "MOUSESIM" => prevMouse = Still,
           FinishFrame
    PROVE  /\ KbReportIsLast' /\ FrameReportsAreLast' /\ HostsAreUpToDate'
           /\ (mode # "MOUSESIM" => prevMouse = Still)'
<1>1. UNCHANGED <<settings, mode, cache, second, third, pressed, value, ready>>
  BY DEF FinishFrame, FinishNormal, FinishMouse, FinishRace, FrameEnd, keyVars
<1>2. CASE FinishNormal
  <2>1. mode = "NORMAL" /\ UNCHANGED <<prevKb, prevMouse, host>>
    BY <1>2 DEF FinishNormal, reportVars
  <2> QED
    BY <1>1, <2>1 DEF KbReportIsLast, FrameReportsAreLast, HostsAreUpToDate, Target
<1>3. CASE FinishMouse
  <2>1. /\ mode = "MOUSESIM" /\ prevMouse' = MouseReport(pressed, value)
        /\ IF MouseReport(pressed, value) = prevMouse THEN UNCHANGED host
           ELSE Deliver("mouse", MouseReport(pressed, value), settings.prio)
        /\ UNCHANGED prevKb
    BY <1>3 DEF FinishMouse
  <2>2. HostsAreUpToDate'
    BY <1>1, <2>1, MouseReportArrives
  <2>3. FrameReportsAreLast'
    BY <1>1, <2>1 DEF FrameReportsAreLast, MouseReport
  <2>4. KbReportIsLast'
    BY <1>1, <2>1 DEF KbReportIsLast
  <2> QED
    BY <1>1, <2>1, <2>2, <2>3, <2>4
<1>4. CASE FinishRace
  <2> DEFINE report == BuildKbReport(settings, RaceKeys(pressed, value), second, third)
  <2>1. /\ mode = "RACE" /\ SendKbIfChanged(report, settings.prio)
        /\ UNCHANGED prevMouse
    BY <1>4 DEF FinishRace
  <2>2. prevKb' = report /\ HostsAreUpToDate'
    BY <1>1, <2>1, KbReportArrives
  <2>3. (prevKb = report)'
    BY <1>1, <2>2 DEF RaceKeys
  <2>4. KbReportIsLast' /\ FrameReportsAreLast'
    BY <1>1, <2>1, <2>3 DEF KbReportIsLast, FrameReportsAreLast
  <2> QED
    BY <1>1, <2>1, <2>2, <2>4
<1> QED
  BY <1>2, <1>3, <1>4 DEF FinishFrame

(* A handler that starts has sent empty reports, for no key.               *)
LEMMA QuietInit == MCInit => QuietInv
<1> SUFFICES ASSUME MCInit PROVE QuietInv
  OBVIOUS
<1>1. /\ Init /\ cursor = 0 /\ ~second /\ ~third /\ prevKb = {} /\ prevMouse = Still
      /\ pressed = [k \in Keys |-> FALSE] /\ value = [k \in Keys |-> 0]
      /\ consumed = [k \in Keys |-> FALSE] /\ cache = LayerCache(settings)
      /\ host = [t \in Transports |-> NoReports]
  BY DEF MCInit, Init
<1>2. LayerInv
  BY <1>1 DEF LayerInv, NothingConsumed, LayerHasKey
<1>3. BuildKbReport(settings, {}, second, third) = {}
  BY SymbolsShowNothing
<1>4. KbReportIsLast
  BY <1>1, <1>3 DEF KbReportIsLast
<1>5. RaceKeys(pressed, value) = {}
  BY <1>1 DEF RaceKeys
<1>6. MouseReport(pressed, value) = Still
  BY <1>1, NothingMovesMouse
<1>7. FrameReportsAreLast
  BY <1>1, <1>3, <1>5, <1>6 DEF FrameReportsAreLast
<1>8. HostsAreUpToDate
  BY <1>1 DEF HostsAreUpToDate, NoReports
<1> QED
  BY <1>1, <1>2, <1>4, <1>7, <1>8, ConsumedInit DEF QuietInv, ReportInv

(* Every step keeps the reports up to date as long as only keys move.      *)
LEMMA ReportStep ==
    ASSUME QuietInv, [MCNext]_<<vars, disturbed>>
    PROVE  ReportInv'
<1> SUFFICES ASSUME ~disturbed'
             PROVE  /\ KbReportIsLast' /\ FrameReportsAreLast' /\ HostsAreUpToDate'
                    /\ (mode # "MOUSESIM" => prevMouse = Still)'
  BY DEF ReportInv
<1>0. ~disturbed
  BY DEF MCNext, vars
<1>1. /\ ConsumedInv /\ NothingConsumed /\ cache = LayerCache(settings)
      /\ KbReportIsLast /\ FrameReportsAreLast /\ HostsAreUpToDate
      /\ mode # "MOUSESIM" => prevMouse = Still
  BY <1>0 DEF QuietInv, LayerInv, ReportInv
<1>2. /\ UNCHANGED <<settings, ready, consumed, cache, mode>>
      /\ \/ \E v \in 0 .. Maximum : KeyRests(v) \/ KeyMoves(v)
         \/ FinishFrame
         \/ UNCHANGED vars
  BY <1>1, OnlyKeysMove
<1>3. ASSUME NEW v \in 0 .. Maximum, Sample(v) PROVE FrameReportsAreLast'
  <2>1. cursor' # 0
    BY <1>1, <1>3, HandlerAssumption DEF Sample, ConsumedInv
  <2> QED
    BY <2>1 DEF FrameReportsAreLast
<1>4. ASSUME NEW v \in 0 .. Maximum, KeyRests(v)
      PROVE  /\ KbReportIsLast' /\ FrameReportsAreLast' /\ HostsAreUpToDate'
             /\ (mode # "MOUSESIM" => prevMouse = Still)'
  <2>1. /\ Sample(v)
        /\ UNCHANGED <<second, third, pressed, prevKb, prevMouse, host>>
    BY <1>4 DEF KeyRests, reportVars
  <2> QED
    BY <1>1, <1>2, <1>3, <2>1 DEF KbReportIsLast, HostsAreUpToDate, Target
<1>5. ASSUME NEW v \in 0 .. Maximum, KeyMoves(v)
      PROVE  /\ KbReportIsLast' /\ FrameReportsAreLast' /\ HostsAreUpToDate'
             /\ (mode # "MOUSESIM" => prevMouse = Still)'
  <2>1. Sample(v) /\ UNCHANGED prevMouse
    BY <1>5 DEF KeyMoves
  <2>2. KbReportIsLast' /\ HostsAreUpToDate'
    BY <1>1, <1>5, KeyMovesReports
  <2> QED
    BY <1>1, <1>2, <1>3, <2>1, <2>2
<1>6. CASE FinishFrame
  BY <1>1, <1>6, FrameEndReports
<1>7. CASE UNCHANGED vars
  <2>1. UNCHANGED <<second, third, pressed, value, cursor, prevKb, prevMouse, host>>
    BY <1>7 DEF vars, keyVars, reportVars
  <2> QED
    BY <1>1, <1>2, <2>1
      DEF KbReportIsLast, FrameReportsAreLast, HostsAreUpToDate, Target
<1> QED
  BY <1>2, <1>4, <1>5, <1>6, <1>7

(* With every key up and the layers those of keys that are down, the       *)
(* reports that are due are empty.                                         *)
LEMMA RestShowsNothing == QuietInv => RestIsQuiet
<1> SUFFICES ASSUME QuietInv, ~disturbed, AtRest
             PROVE  \A t \in Transports : host[t].kb = {} /\ host[t].mouse = Still
  BY DEF RestIsQuiet, RestIsSilent, RestStopsMouse
<1>1. /\ cache = LayerCache(settings) /\ LayerHasKey
      /\ KbReportIsLast /\ FrameReportsAreLast /\ HostsAreUpToDate
      /\ mode # "MOUSESIM" => prevMouse = Still
      /\ cursor = 0 /\ \A k \in Keys : ~pressed[k] /\ value[k] = 0
  BY DEF QuietInv, LayerInv, ReportInv, AtRest
<1>2. prevMouse = Still
  BY <1>1, NothingMovesMouse DEF FrameReportsAreLast
<1>3. CASE mode = "RACE"
  <2>1. RaceKeys(pressed, value) = {}
    BY <1>1 DEF RaceKeys
  <2>2. prevKb = {}
    BY <1>1, <1>3, <2>1, SymbolsShowNothing DEF FrameReportsAreLast
  <2> QED
    BY <1>1, <1>2, <2>2 DEF HostsAreUpToDate, NoReports
<1>4. CASE mode # "RACE"
  <2>1. ~second /\ ~third
    BY <1>1, CachedKeys DEF LayerHasKey
  <2>2. PICK sent \in SUBSET Keys :
           /\ prevKb = BuildKbReport(settings, sent, second, third)
           /\ \A k \in sent : \/ pressed[k]
                              \/ k \in cache.layer1 \cup cache.layer2 \cup cache.fn
    BY <1>1, <1>4 DEF KbReportIsLast
  <2>3. \A k \in sent : ResolveHid(settings, k, second, third) \in Symbolic
    <3>1. \A k \in sent : k \in cache.layer1 \cup cache.layer2 \cup cache.fn
      BY <1>1, <2>2
    <3> QED
      BY <1>1, <2>1, <3>1, CachedKeys DEF KeysMappedTo, ResolveHid, Symbolic
  <2>4. prevKb = {}
    BY <2>2, <2>3, SymbolsShowNothing
  <2> QED
    BY <1>1, <1>2, <2>4 DEF HostsAreUpToDate, NoReports
<1> QED
  BY <1>3, <1>4

(* The whole invariant is kept by every step.                              *)
LEMMA QuietStep == QuietInv /\ [MCNext]_<<vars, disturbed>> => QuietInv'
<1> SUFFICES ASSUME QuietInv, [MCNext]_<<vars, disturbed>> PROVE QuietInv'
  OBVIOUS
<1>1. ConsumedInv'
  BY ConsumedStep DEF QuietInv, MCNext
<1> QED
  BY <1>1, LayerStep, ReportStep DEF QuietInv

(* What a key does ends with it: as long as only keys move, a layer has a  *)
(* key that is down, for any keymap, and a consumed key is always down.    *)
THEOREM LayersHaveKeys == MCSpec => []LayersAreHeld
<1>1. QuietInv => LayersAreHeld
  BY DEF QuietInv, ConsumedInv, LayerInv, LayersAreHeld
<1> QED
  BY <1>1, QuietInit, QuietStep, PTL DEF MCSpec

(* With every key up for a whole frame no host shows a key or sees the     *)
(* mouse move, in every mode, for any keymap and any values: the reports   *)
(* that say so were not lost among those that are left out.                *)
THEOREM RestIsAlwaysQuiet == MCSpec => []RestIsQuiet
  BY RestShowsNothing, QuietInit, QuietStep, PTL DEF MCSpec

-----------------------------------------------------------------------------
(* The mailbox between the SplitLink works and the kb_handler thread.  What  *)
(* makes its invariant inductive is slave_values_dirty: once the thread has  *)
(* made its copy, values that differ from it have set the flag.              *)

Messages == {"VALUES", "RESET"}

MailboxInv ==
    /\ queue \in Seq(Messages) /\ Len(queue) <= QueueSize
    /\ {msgPending, dirty, retry} \subseteq BOOLEAN
    /\ thread \in ThreadStates
    /\ OneMessage
    /\ NothingForgotten
    /\ thread \in {"handle", "release", "check"} /\ latest # copy => dirty

-----------------------------------------------------------------------------
(* The places of VALUES messages in a queue *)

Places(q) == {i \in DOMAIN q : q[i] = "VALUES"}

LEMMA PlacesAppend ==
    ASSUME NEW q \in Seq(Messages), NEW message \in Messages
    PROVE  /\ Append(q, message) \in Seq(Messages)
           /\ Len(Append(q, message)) = Len(q) + 1
           /\ message = "RESET" => Places(Append(q, message)) = Places(q)
           /\ message = "VALUES" => Places(Append(q, message)) = Places(q) \union {Len(q) + 1}
BY DEF Places, Messages

LEMMA PlacesTail ==
    ASSUME NEW q \in Seq(Messages), q # <<>>
    PROVE  /\ Tail(q) \in Seq(Messages) /\ Len(Tail(q)) = Len(q) - 1
           /\ \A i \in Places(Tail(q)) : i \in Int /\ i + 1 \in Places(q)
           /\ Head(q) = "VALUES" => 1 \in Places(q)
           /\ Head(q) # "VALUES" /\ Places(q) # {} => Places(Tail(q)) # {}
<1>1. Tail(q) \in Seq(Messages) /\ Len(Tail(q)) = Len(q) - 1
  OBVIOUS
<1>2. \A i \in 1 .. Len(q) - 1 : Tail(q)[i] = q[i + 1]
  OBVIOUS
<1>3. Head(q) = q[1] /\ Len(q) > 0 /\ Len(q) \in Nat
  OBVIOUS
<1>4. DOMAIN Tail(q) = 1 .. Len(q) - 1 /\ DOMAIN q = 1 .. Len(q)
  BY <1>1
<1>5. \A i \in Places(Tail(q)) : i \in Int /\ i + 1 \in Places(q)
  BY <1>2, <1>3, <1>4 DEF Places
<1>6. ASSUME Head(q) # "VALUES", NEW i \in Places(q) PROVE i - 1 \in Places(Tail(q))
  <2>1. i \in 2 .. Len(q) /\ q[i] = "VALUES"
    BY <1>3, <1>4, <1>6 DEF Places
  <2>2. Tail(q)[i - 1] = q[(i - 1) + 1] /\ i - 1 \in 1 .. Len(q) - 1
    BY <1>2, <1>3, <2>1
  <2>3. q[(i - 1) + 1] = q[i]
    BY <2>1
  <2> QED
    BY <1>4, <2>1, <2>2, <2>3 DEF Places
<1> QED
  BY <1>1, <1>3, <1>4, <1>5, <1>6 DEF Places

-----------------------------------------------------------------------------
(* enqueue_slave_values_msg leaves the message queued or the retry work    *)
(* scheduled.                                                              *)
LEMMA EnqueueEffect ==
    ASSUME MailboxInv, Enqueue, ~retry, QueuedValues = {}
    PROVE  /\ queue' \in Seq(Messages) /\ Len(queue') <= QueueSize
           /\ retry' \in BOOLEAN
           /\ \A i, j \in QueuedValues' : i = j
           /\ ~(QueuedValues' # {} /\ retry')
           /\ retry' \/ QueuedValues' # {}
<1> USE MailboxAssumption DEF MailboxInv
<1>1. CASE Len(queue) < QueueSize
  <2>1. queue' = Append(queue, "VALUES") /\ retry' = retry
    BY <1>1 DEF Enqueue
  <2>2. QueuedValues' = {Len(queue) + 1}
    BY <2>1, PlacesAppend DEF QueuedValues, Places, Messages
  <2>3. queue' \in Seq(Messages) /\ Len(queue') <= QueueSize
    BY <1>1, <2>1, PlacesAppend DEF Messages
  <2> QED
    BY <2>1, <2>2, <2>3
<1>2. CASE ~(Len(queue) < QueueSize)
  BY <1>2 DEF Enqueue, QueuedValues
<1> QED
  BY <1>1, <1>2

(* The thread has taken a message off the queue.                           *)
LEMMA TakeEffect ==
    ASSUME MailboxInv, NEW message \in Messages, TakeMessage(message)
    PROVE  /\ queue' \in Seq(Messages) /\ Len(queue') <= QueueSize
           /\ message = "VALUES" => QueuedValues # {} /\ QueuedValues' = {}
           /\ message = "RESET" =>
                /\ QueuedValues' # {} <=> QueuedValues # {}
                /\ \A i, j \in QueuedValues' : i = j
<1> USE MailboxAssumption DEF MailboxInv
<1>1. queue # <<>> /\ Head(queue) = message /\ queue' = Tail(queue)
  BY DEF TakeMessage
<1>2. QueuedValues = Places(queue) /\ QueuedValues' = Places(Tail(queue))
  BY <1>1 DEF QueuedValues, Places
<1>3. /\ Tail(queue) \in Seq(Messages) /\ Len(Tail(queue)) = Len(queue) - 1
      /\ \A i \in QueuedValues' : i \in Int /\ i + 1 \in QueuedValues
      /\ message = "VALUES" => 1 \in QueuedValues
      /\ message # "VALUES" /\ QueuedValues # {} => QueuedValues' # {}
  BY <1>1, <1>2, PlacesTail
<1>4. \A i, j \in QueuedValues : i = j
  BY DEF OneMessage
<1>5. queue' \in Seq(Messages) /\ Len(queue') <= QueueSize
  BY <1>1, <1>3
<1>6. ASSUME message = "VALUES" PROVE QueuedValues # {} /\ QueuedValues' = {}
  <2> SUFFICES ASSUME NEW i \in QueuedValues' PROVE FALSE
    BY <1>3, <1>6
  <2>1. i \in Int /\ i + 1 = 1
    BY <1>3, <1>4, <1>6
  <2>2. i \in DOMAIN Tail(queue) /\ Len(Tail(queue)) \in Nat
    BY <1>2, <1>3 DEF Places
  <2> QED
    BY <1>3, <2>1, <2>2
<1>7. ASSUME NEW i \in QueuedValues', NEW j \in QueuedValues' PROVE i = j
  BY <1>3, <1>4, <1>7
<1> QED
  BY <1>3, <1>5, <1>6, <1>7 DEF Messages

-----------------------------------------------------------------------------
LEMMA MailboxInvInit == MailboxInit => MailboxInv
<1> SUFFICES ASSUME MailboxInit PROVE MailboxInv
  OBVIOUS
<1>1. /\ queue = <<>> /\ thread = "idle" /\ latest = 0 /\ copy = 0
      /\ msgPending = FALSE /\ dirty = FALSE /\ retry = FALSE
  BY DEF MailboxInit
<1>2. queue \in Seq(Messages) /\ Len(queue) <= QueueSize /\ QueuedValues = {}
  BY <1>1, MailboxAssumption DEF QueuedValues
<1>3. ~InHand /\ thread \in ThreadStates
  BY <1>1 DEF InHand, ThreadStates
<1> QED
  BY <1>1, <1>2, <1>3 DEF MailboxInv, OneMessage, NothingForgotten

(* New values, and their message unless there is one.                      *)
LEMMA ValuesWorkStep == ASSUME MailboxInv, ValuesWork PROVE MailboxInv'
<1>1. /\ latest' # copy' => dirty'
      /\ dirty' = TRUE /\ msgPending' = TRUE
      /\ UNCHANGED <<thread, copy>>
  BY DEF ValuesWork, kbVars
<1>2. NothingForgotten'
  BY <1>1 DEF NothingForgotten
<1>3. CASE msgPending
  <2>1. UNCHANGED <<retry, queue>>
    BY <1>3 DEF ValuesWork
  <2> QED
    BY <1>1, <1>2, <1>3, <2>1 DEF MailboxInv, OneMessage, InHand, QueuedValues
<1>4. CASE ~msgPending
  <2>1. Enqueue /\ ~retry /\ QueuedValues = {} /\ ~InHand
    BY <1>4 DEF ValuesWork, MailboxInv, OneMessage
  <2>2. ~InHand'
    BY <1>1, <2>1 DEF InHand
  <2>3. OneMessage'
    BY <1>1, <2>1, <2>2, EnqueueEffect DEF OneMessage
  <2> QED
    BY <1>1, <1>2, <2>1, <2>3, EnqueueEffect DEF MailboxInv
<1> QED
  BY <1>3, <1>4

LEMMA ResetWorkStep == ASSUME MailboxInv, DisconnectWork PROVE MailboxInv'
<1>1. UNCHANGED <<latest, msgPending, dirty, retry, thread, copy>>
  BY DEF DisconnectWork, kbVars
<1>2. queue' \in Seq(Messages) /\ Len(queue') <= QueueSize /\ QueuedValues' = QueuedValues
  <2>1. CASE Len(queue) < QueueSize
    <3>1. queue' = Append(queue, "RESET")
      BY <2>1 DEF DisconnectWork
    <3> QED
      BY <2>1, <3>1, PlacesAppend, MailboxAssumption
         DEF MailboxInv, Messages, QueuedValues, Places
  <2>2. CASE ~(Len(queue) < QueueSize)
    BY <2>2 DEF DisconnectWork, MailboxInv, QueuedValues
  <2> QED
    BY <2>1, <2>2
<1> QED
  BY <1>1, <1>2 DEF MailboxInv, OneMessage, NothingForgotten, InHand

LEMMA RetryWorkStep == ASSUME MailboxInv, RetryWork PROVE MailboxInv'
<1>1. /\ retry /\ msgPending /\ QueuedValues = {} /\ ~InHand
      /\ UNCHANGED <<latest, msgPending, dirty, thread, copy>>
  BY DEF RetryWork, kbVars, MailboxInv, OneMessage
<1>2. ~InHand'
  BY <1>1 DEF InHand
<1>3. CASE Len(queue) < QueueSize
  <2>1. queue' = Append(queue, "VALUES") /\ ~retry'
    <3>1. Len(queue) # QueueSize
      BY <1>3, MailboxAssumption DEF MailboxInv
    <3>2. retry' = FALSE
      BY <3>1 DEF RetryWork
    <3>3. queue' = Append(queue, "VALUES")
      BY <1>1, <1>3 DEF RetryWork
    <3> QED
      BY <3>2, <3>3
  <2>2. QueuedValues' = {Len(queue) + 1}
    BY <1>1, <2>1, PlacesAppend DEF MailboxInv, QueuedValues, Places, Messages
  <2>3. queue' \in Seq(Messages) /\ Len(queue') <= QueueSize
    BY <1>3, <2>1, PlacesAppend, MailboxAssumption DEF MailboxInv, Messages
  <2>4. retry' \in BOOLEAN
    BY DEF RetryWork
  <2> QED
    BY <1>1, <1>2, <2>1, <2>2, <2>3, <2>4 DEF MailboxInv, OneMessage, NothingForgotten
<1>4. CASE ~(Len(queue) < QueueSize)
  <2>1. queue' = queue /\ retry'
    <3>1. Len(queue) = QueueSize
      BY <1>4, MailboxAssumption DEF MailboxInv
    <3> QED
      BY <1>1, <1>4, <3>1 DEF RetryWork
  <2>2. retry' \in BOOLEAN
    BY DEF RetryWork
  <2> QED
    BY <1>1, <1>2, <2>1, <2>2 DEF MailboxInv, OneMessage, NothingForgotten, QueuedValues
<1> QED
  BY <1>3, <1>4

(* The thread: a message, the copy, and what came meanwhile.               *)
LEMMA ThreadStepKeeps == ASSUME MailboxInv, Thread PROVE MailboxInv'
<1> USE DEF ThreadStates
<1>1. CASE TakeReset
  <2>1. TakeMessage("RESET") /\ UNCHANGED <<latest, msgPending, dirty, retry, thread, copy>>
    BY <1>1 DEF TakeReset, TakeMessage
  <2>2. /\ queue' \in Seq(Messages) /\ Len(queue') <= QueueSize
        /\ QueuedValues' # {} <=> QueuedValues # {}
        /\ \A i, j \in QueuedValues' : i = j
    BY <2>1, TakeEffect DEF Messages
  <2> QED
    BY <2>1, <2>2 DEF MailboxInv, OneMessage, NothingForgotten, InHand
<1>2. CASE TakeValues
  <2>1. /\ TakeMessage("VALUES") /\ UNCHANGED <<latest, msgPending, dirty, retry, copy>>
        /\ thread = "idle" /\ thread' = "clear"
    BY <1>2 DEF TakeValues, TakeMessage
  <2>2. /\ queue' \in Seq(Messages) /\ Len(queue') <= QueueSize
        /\ QueuedValues # {} /\ QueuedValues' = {}
    BY <2>1, TakeEffect DEF Messages
  <2> QED
    BY <2>1, <2>2 DEF MailboxInv, OneMessage, NothingForgotten, InHand
<1>3. CASE ClearDirty
  BY <1>3 DEF ClearDirty, ThreadStep, MailboxInv, OneMessage, NothingForgotten, InHand,
              QueuedValues
<1>4. CASE CopyLatest
  BY <1>4 DEF CopyLatest, ThreadStep, boxVars, MailboxInv, OneMessage,
              NothingForgotten, InHand, QueuedValues
<1>5. CASE HandleValues
  BY <1>5 DEF HandleValues, ThreadStep, boxVars, MailboxInv, OneMessage,
              NothingForgotten, InHand, QueuedValues
<1>6. CASE ReleasePending
  BY <1>6 DEF ReleasePending, ThreadStep, MailboxInv, OneMessage, NothingForgotten,
              InHand, QueuedValues
<1>7. CASE CheckDirty
  <2>1. /\ thread = "check" /\ ~InHand /\ msgPending' = (msgPending \/ dirty)
        /\ thread' = IF dirty /\ ~msgPending THEN "put" ELSE "idle"
        /\ UNCHANGED <<latest, dirty, retry, queue, copy>>
    BY <1>7 DEF CheckDirty, InHand
  <2>2. CASE dirty /\ ~msgPending
    <3>1. thread' = "put" /\ msgPending' /\ InHand' /\ ~retry /\ QueuedValues = {}
      BY <2>1, <2>2 DEF InHand, MailboxInv, OneMessage
    <3>2. OneMessage' /\ NothingForgotten'
      BY <2>1, <3>1 DEF OneMessage, NothingForgotten, QueuedValues
    <3> QED
      BY <2>1, <2>2, <3>1, <3>2 DEF MailboxInv
  <2>3. CASE ~(dirty /\ ~msgPending)
    <3>1. thread' = "idle" /\ msgPending' = msgPending /\ ~InHand'
      BY <2>1, <2>3 DEF InHand, MailboxInv
    <3>2. NothingForgotten'
      BY <2>1, <2>3, <3>1 DEF NothingForgotten, MailboxInv
    <3> QED
      BY <2>1, <3>1, <3>2 DEF MailboxInv, OneMessage, QueuedValues
  <2> QED
    BY <2>2, <2>3
<1>8. CASE PutAgain
  <2>1. /\ thread = "put" /\ thread' = "idle" /\ Enqueue
        /\ UNCHANGED <<latest, msgPending, dirty, copy>>
    BY <1>8 DEF PutAgain, ThreadStep
  <2>2. msgPending /\ ~retry /\ QueuedValues = {} /\ ~InHand'
    BY <2>1 DEF MailboxInv, OneMessage, InHand
  <2>3. OneMessage'
    BY <2>1, <2>2, EnqueueEffect DEF OneMessage
  <2>4. NothingForgotten'
    BY <2>1, <2>2 DEF NothingForgotten
  <2> QED
    BY <2>1, <2>2, <2>3, <2>4, EnqueueEffect DEF MailboxInv
<1> QED
  BY <1>1, <1>2, <1>3, <1>4, <1>5, <1>6, <1>7, <1>8 DEF Thread

LEMMA MailboxInvStep == MailboxInv /\ [MailboxNext]_mailboxVars => MailboxInv'
<1> SUFFICES ASSUME MailboxInv, [MailboxNext]_mailboxVars PROVE MailboxInv'
  OBVIOUS
<1>1. ASSUME UNCHANGED <<boxVars, kbVars>> PROVE MailboxInv'
  BY <1>1 DEF boxVars, kbVars, MailboxInv, OneMessage, NothingForgotten, InHand,
              QueuedValues
<1>2. CASE SlaveMoves \/ LinkUp \/ LinkDown \/ Arrive \/ RxWork \/ UNCHANGED mailboxVars
  BY <1>1, <1>2 DEF SlaveMoves, LinkUp, LinkDown, Arrive, RxWork, mailboxVars
<1> QED
  BY <1>2, ValuesWorkStep, ResetWorkStep, RetryWorkStep, ThreadStepKeeps DEF MailboxNext, Work

(* One message at a time stands for the slave's new values, and            *)
(* slave_values_msg_pending says whether there is one.                     *)
LEMMA MessageIsUnique == MailboxSpec => []OneMessage
<1>1. MailboxInv => OneMessage
  BY DEF MailboxInv
<1> QED
  BY <1>1, MailboxInvInit, MailboxInvStep, PTL DEF MailboxSpec

(* Values the thread has not copied always have their message on the way   *)
(* (slave_values_dirty is read after slave_values_msg_pending is cleared). *)
LEMMA ValuesAreNotForgotten == MailboxSpec => []NothingForgotten
<1>1. MailboxInv => NothingForgotten
  BY DEF MailboxInv
<1> QED
  BY <1>1, MailboxInvInit, MailboxInvStep, PTL DEF MailboxSpec

(* There is one message at a time, and one whenever there is news.          *)
THEOREM NewsHasOneMessage == MailboxSpec => []NewsIsAnnounced
<1>1. OneMessage /\ NothingForgotten <=> NewsIsAnnounced
  BY DEF NewsIsAnnounced
<1> QED
  BY <1>1, MessageIsUnique, ValuesAreNotForgotten, PTL

-----------------------------------------------------------------------------
(* Versions only get older on the way from the slave to the thread. *)

Works == {"rx", "values", "disconnect"}

IsRx(q, i) == i \in DOMAIN q /\ q[i] = "rx"

(* A receive work that is queued, which it is once, has a packet to take.  *)
RxHasPacket ==
    /\ works \in Seq(Works)
    /\ \A i : IsRx(works, i) => inbox # -1
    /\ \A i, j : IsRx(works, i) /\ IsRx(works, j) => i = j

VersionInv ==
    /\ {slave, slot, latest, copy, keys} \subseteq Nat
    /\ keys <= copy /\ copy <= latest /\ latest <= slot /\ slot <= slave
    /\ inbox = -1 \/ (inbox \in Nat /\ slot <= inbox /\ inbox <= slave)
    /\ RxHasPacket

LEMMA SubmitRx ==
    ASSUME NEW q \in Seq(Works), NEW work \in Works
    PROVE  /\ Submit(q, work) \in Seq(Works)
           /\ \A i : IsRx(Submit(q, work), i)
                  => IsRx(q, i) \/ (work = "rx" /\ i = Len(q) + 1 /\ \A j : ~IsRx(q, j))
<1>1. CASE \E i \in DOMAIN q : q[i] = work
  BY <1>1 DEF Submit
<1>2. CASE ~\E i \in DOMAIN q : q[i] = work
  <2>1. Submit(q, work) = Append(q, work)
    BY <1>2 DEF Submit
  <2>2. /\ Append(q, work) \in Seq(Works) /\ Len(q) \in Nat
        /\ DOMAIN Append(q, work) = 1 .. Len(q) + 1 /\ DOMAIN q = 1 .. Len(q)
        /\ Append(q, work)[Len(q) + 1] = work
        /\ \A i \in 1 .. Len(q) : Append(q, work)[i] = q[i]
    OBVIOUS
  <2>3. ASSUME NEW i, IsRx(Append(q, work), i)
        PROVE  IsRx(q, i) \/ (work = "rx" /\ i = Len(q) + 1 /\ \A j : ~IsRx(q, j))
    <3>1. CASE i \in 1 .. Len(q)
      BY <2>2, <2>3, <3>1 DEF IsRx
    <3>2. CASE i = Len(q) + 1
      BY <1>2, <2>2, <2>3, <3>2 DEF IsRx
    <3> QED
      BY <2>2, <2>3, <3>1, <3>2 DEF IsRx
  <2> QED
    BY <2>1, <2>2, <2>3
<1> QED
  BY <1>1, <1>2

LEMMA TailRx ==
    ASSUME NEW q \in Seq(Works), q # <<>>
    PROVE  /\ Tail(q) \in Seq(Works)
           /\ \A i : IsRx(Tail(q), i) => i \in Nat \ {0} /\ IsRx(q, i + 1)
           /\ Head(q) = "rx" => IsRx(q, 1)
<1>1. /\ Tail(q) \in Seq(Works) /\ Len(Tail(q)) = Len(q) - 1
      /\ Len(q) \in Nat /\ Len(q) > 0 /\ Head(q) = q[1]
      /\ \A i \in 1 .. Len(q) - 1 : Tail(q)[i] = q[i + 1]
  OBVIOUS
<1>2. DOMAIN Tail(q) = 1 .. Len(q) - 1 /\ DOMAIN q = 1 .. Len(q)
  BY <1>1
<1> QED
  BY <1>1, <1>2 DEF IsRx

LEMMA VersionInit == MailboxInit => VersionInv
BY DEF MailboxInit, VersionInv, RxHasPacket, IsRx

(* The link: what arrives is the slave's newest. *)
LEMMA LinkKeepsVersions ==
    ASSUME VersionInv, SlaveMoves \/ LinkUp \/ LinkDown \/ Arrive PROVE VersionInv'
<1>1. UNCHANGED <<slot, latest, copy, keys>>
  BY DEF SlaveMoves, LinkUp, LinkDown, Arrive, boxVars, kbVars
<1>2. CASE SlaveMoves \/ LinkUp
  BY <1>1, <1>2 DEF SlaveMoves, LinkUp, VersionInv, RxHasPacket
<1>3. CASE LinkDown
  <2>1. works' = Submit(works, "disconnect") /\ UNCHANGED <<slave, inbox>>
    BY <1>3 DEF LinkDown
  <2>2. RxHasPacket'
    BY <2>1, SubmitRx DEF VersionInv, RxHasPacket, Works
  <2> QED
    BY <1>1, <2>1, <2>2 DEF VersionInv
<1>4. CASE Arrive
  <2>1. works' = Submit(works, "rx") /\ inbox' = slave /\ slave' = slave /\ inbox = -1
    BY <1>4 DEF Arrive
  <2>2. slave # -1 /\ \A i : ~IsRx(works, i)
    BY <2>1 DEF VersionInv, RxHasPacket
  <2>3. /\ works' \in Seq(Works)
        /\ \A i : IsRx(works', i) => i = Len(works) + 1
    BY <2>1, <2>2, SubmitRx DEF VersionInv, RxHasPacket, Works
  <2>4. RxHasPacket'
    BY <2>1, <2>2, <2>3 DEF RxHasPacket
  <2> QED
    BY <1>1, <2>1, <2>4 DEF VersionInv
<1> QED
  BY <1>2, <1>3, <1>4

(* The works: the slot takes the packet, the mailbox what the slot has.    *)
LEMMA WorksKeepVersions == ASSUME VersionInv, Work \/ RetryWork PROVE VersionInv'
<1>1. ASSUME works # <<>>, works' = Tail(works), inbox' = inbox PROVE RxHasPacket'
  BY <1>1, TailRx DEF VersionInv, RxHasPacket
<1>2. CASE RxWork
  <2>1. /\ works # <<>> /\ Head(works) = "rx" /\ inbox' = -1
        /\ works' = Submit(Tail(works), "values")
        /\ slot' = slot \/ slot' = inbox
        /\ UNCHANGED <<slave, latest, copy, keys>>
    BY <1>2 DEF RxWork, Runs, boxVars, kbVars
  <2>2. inbox # -1 /\ \A i : ~IsRx(Tail(works), i)
    <3>1. IsRx(works, 1) /\ \A i : IsRx(Tail(works), i) => i \in Nat \ {0} /\ IsRx(works, i + 1)
      BY <2>1, TailRx DEF VersionInv, RxHasPacket
    <3>2. \A i : IsRx(Tail(works), i) => i \in Nat \ {0} /\ i + 1 = 1
      BY <3>1 DEF VersionInv, RxHasPacket
    <3> QED
      BY <3>1, <3>2 DEF VersionInv, RxHasPacket
  <2>3. works' \in Seq(Works) /\ \A i : ~IsRx(works', i)
    <3>1. Tail(works) \in Seq(Works)
      BY <2>1, TailRx DEF VersionInv, RxHasPacket
    <3> QED
      BY <2>1, <2>2, <3>1, SubmitRx DEF Works
  <2> QED
    BY <2>1, <2>2, <2>3 DEF VersionInv, RxHasPacket
<1>3. CASE ValuesWork
  <2>1. /\ works # <<>> /\ works' = Tail(works) /\ latest' = slot
        /\ UNCHANGED <<slave, inbox, slot, copy, keys>>
    BY <1>3 DEF ValuesWork, Runs, kbVars
  <2> QED
    BY <1>1, <2>1 DEF VersionInv
<1>4. CASE DisconnectWork
  <2>1. /\ works # <<>> /\ works' = Tail(works)
        /\ UNCHANGED <<slave, inbox, slot, latest, copy, keys>>
    BY <1>4 DEF DisconnectWork, Runs, kbVars
  <2> QED
    BY <1>1, <2>1 DEF VersionInv
<1>5. CASE RetryWork
  BY <1>5 DEF RetryWork, linkVars, kbVars, VersionInv, RxHasPacket
<1> QED
  BY <1>2, <1>3, <1>4, <1>5 DEF Work

(* The thread: its copy is the newest it could have, its keys the copy.    *)
LEMMA ThreadKeepsVersions ==
    ASSUME VersionInv, Thread PROVE VersionInv' /\ (keys' >= keys \/ keys' = 0)
<1>1. UNCHANGED <<slave, slot, latest, inbox, works>>
  BY DEF Thread, TakeReset, TakeValues, TakeMessage, ThreadStep, ClearDirty, CopyLatest,
         HandleValues, ReleasePending, CheckDirty, PutAgain, linkVars, boxVars
<1>2. \/ keys' = 0 /\ copy' = copy
      \/ keys' = keys /\ copy' = latest
      \/ keys' = copy /\ copy' = copy
      \/ keys' = keys /\ copy' = copy
  BY DEF Thread, TakeReset, TakeValues, ClearDirty, CopyLatest,
         HandleValues, ReleasePending, CheckDirty, PutAgain
<1> QED
  BY <1>1, <1>2 DEF VersionInv, RxHasPacket

LEMMA VersionStep ==
    VersionInv /\ [MailboxNext]_mailboxVars => VersionInv' /\ [keys' >= keys \/ keys' = 0]_keys
<1> SUFFICES ASSUME VersionInv, [MailboxNext]_mailboxVars
             PROVE  VersionInv' /\ [keys' >= keys \/ keys' = 0]_keys
  OBVIOUS
<1>1. CASE Thread
  BY <1>1, ThreadKeepsVersions
<1>2. CASE MailboxNext /\ ~Thread
  <2>1. keys' = keys
    BY <1>2 DEF MailboxNext, SlaveMoves, LinkUp, LinkDown, Arrive, Work, RxWork, ValuesWork,
                DisconnectWork, RetryWork, kbVars
  <2> QED
    BY <1>2, <2>1, LinkKeepsVersions, WorksKeepVersions DEF MailboxNext
<1>3. CASE UNCHANGED mailboxVars
  BY <1>3 DEF mailboxVars, linkVars, boxVars, kbVars, VersionInv, RxHasPacket
<1> QED
  BY <1>1, <1>2, <1>3

(* The keys go forward or, on a reset, up: no older values of the slave     *)
(* overtake newer ones between the receive queue and the thread.           *)
THEOREM KeysGoForward == MailboxSpec => KeysNeverGoBack
<1> QED
  BY VersionInit, VersionStep, PTL DEF MailboxSpec, KeysNeverGoBack

-----------------------------------------------------------------------------
(* The settings: however the calls of kb_settings_apply overlap, fail to   *)
(* save or are cut short by a restart, once they are over every subscriber *)
(* has the settings, and the flash has them unless the last save failed.   *)
(*                                                                         *)
(* The invariant says of each copy that is not up to date which call will  *)
(* bring it up to date.  The reason is the order of the copies: a call     *)
(* writes kb_settings first, and every later copy of it is one it makes    *)
(* itself, of what is newest by then.  notify_snapshot alone is copied     *)
(* from the caller's settings again: it has what kb_settings has as long   *)
(* as those stay as they are while the mutex is held.                      *)

(* A chunk with part i is yet to be copied by call p. *)
Left(p, i) == \E chunk \in left[p] : i \in chunk

(* Call p holds the mutex and has not copied part i to notify_snapshot. *)
Snaps(p, i) == pc[p] = "settings" \/ (pc[p] = "snapshot" /\ Left(p, i))

(* notify_snapshot may be old in a part that is yet to be copied. *)
SnapshotCopied ==
    \A i \in Parts :
        notify_snapshot[i] # kb_settings[i] => overtaken \/ Snaps("kb_handler", i)

(* And what is copied there is what kb_settings got. *)
SourceKept ==
    \A i \in Parts :
        /\ ~overtaken
        /\ \/ pc["kb_handler"] = "snapshot"
           \/ pc["kb_handler"] = "settings" /\ ~Left("kb_handler", i)
        => caches[KbHandler][i] = kb_settings[i]

(* Call p still has to copy part i to save_img. *)
Copies(p, i) ==
    \/ pc[p] \in {"settings", "snapshot", "clear"}
    \/ pc[p] = "image" /\ \E chunk \in left[p] : i \in chunk

(* save_img may be old in a part where a call has yet to copy it. *)
ImageCopied ==
    \A p \in Appliers, i \in Parts :
        /\ \/ pc[p] \in {"save", "write"}
           \/ pc[p] = "image" /\ \A chunk \in left[p] : i \notin chunk
        /\ save_img[i] # kb_settings[i]
        => \E q \in Appliers : Copies(q, i)

Saves(p) == pc[p] \in {"settings", "snapshot", "clear", "image", "save"}

(* The record being written may be old where another call will write it. *)
DraftCopied ==
    \A p \in Appliers, i \in Parts :
        /\ pc[p] = "write" /\ \A chunk \in left[p] : i \notin chunk
        /\ draft[i] # kb_settings[i]
        => \E q \in Appliers : Saves(q)

OneWriter == \A p \in Appliers : pc[p] = "write" => writer = p

FlashSaved ==
    flash # kb_settings =>
        failed \/ \E q \in Appliers : Saves(q) \/ pc[q] = "write"

(* Call p still has to hand part i to subscriber s. *)
Hands(p, s, i) ==
    \/ pc[p] \in {"lock", "settings", "snapshot", "clear", "image", "save", "write"}
    \/ pc[p] = "notify" /\ \E callback \in calls[p] :
                              callback[1] = s /\ i \in callback[2]

CachesHanded ==
    \A s \in Subscribers, i \in Parts :
        caches[s][i] # notify_snapshot[i] => \E q \in Appliers : Hands(q, s, i)

SettingsInv ==
    /\ KbSettingsTypeOK
    /\ SnapshotCopied
    /\ SourceKept
    /\ ImageCopied
    /\ DraftCopied
    /\ OneWriter
    /\ FlashSaved
    /\ CachesHanded

-----------------------------------------------------------------------------
(* The chunks a thread copies are all the parts. *)
LEMMA ChunksCover ==
    ASSUME NEW p \in Appliers
    PROVE  Chunks(p) \subseteq SUBSET Parts /\ \A i \in Parts : \E chunk \in Chunks(p) : i \in chunk
BY DEF Chunks

(* A restart leaves every copy with what was in flash, or the defaults.    *)
LEMMA CrashEffect ==
    ASSUME KbSettingsTypeOK, Crash
    PROVE  /\ kb_settings' \in Settings
           /\ notify_snapshot' = kb_settings'
           /\ caches' = [s \in Subscribers |-> kb_settings']
           /\ flash' = kb_settings' \/ (flash' = NoRecord /\ failed')
           /\ pc' = [p \in Appliers |-> "idle"]
           /\ failed' \in BOOLEAN /\ overtaken' = FALSE
<1>1. Default \in Settings
  BY KbSettingsAssumption DEF Default, Settings, Values
<1>2. (IF flash = NoRecord THEN Default ELSE flash) \in Settings
  BY <1>1 DEF KbSettingsTypeOK, Records
<1> QED
  BY <1>2 DEF Crash, Boot

(* Every step keeps the types. *)
LEMMA SettingsType == KbSettingsTypeOK /\ [KbSettingsNext]_kbSettingsVars => KbSettingsTypeOK'
<1> SUFFICES ASSUME KbSettingsTypeOK, [KbSettingsNext]_kbSettingsVars PROVE KbSettingsTypeOK'
  OBVIOUS
<1> USE KbSettingsAssumption
<1>1. Default \in Settings
  BY DEF Default, Settings, Values
<1>2. ASSUME NEW p \in Appliers, Calls(p) PROVE applies' \in Values /\ pc' \in [Appliers -> Steps]
  BY <1>2 DEF KbSettingsTypeOK, Calls, Goes, Values, Steps
<1>3. CASE ConfiguratorApplies
  <2>1. "sysworkq" \in Appliers
    BY DEF Appliers
  <2>2. argument' \in Settings
    BY <1>2, <1>3, <2>1 DEF ConfiguratorApplies, Settings
  <2> QED
    BY <1>2, <1>3, <2>1, <2>2 DEF ConfiguratorApplies, Calls, KbSettingsTypeOK, image, Values
<1>4. CASE FnShortcutApplies
  <2>1. "kb_handler" \in Appliers
    BY DEF Appliers
  <2>2. caches' \in [Subscribers -> Settings]
    BY <1>2, <1>4, <2>1 DEF FnShortcutApplies, KbSettingsTypeOK, Settings
  <2> QED
    BY <1>2, <1>4, <2>1, <2>2 DEF FnShortcutApplies, Calls, KbSettingsTypeOK, image, Values
<1>5. ASSUME NEW p \in Appliers, CopySettings(p) \/ LockSettings(p) PROVE KbSettingsTypeOK'
  <2>1. CASE CopySettings(p)
    BY <2>1 DEF CopySettings, Goes, KbSettingsTypeOK, Steps, image
  <2>2. CASE LockSettings(p)
    BY <2>2, ChunksCover DEF LockSettings, Goes, KbSettingsTypeOK, Steps, image
  <2> QED
    BY <1>5, <2>1, <2>2
<1>14. ASSUME NEW p \in Appliers, CopyPart(p) PROVE KbSettingsTypeOK'
  <2>1. UNCHANGED <<save_img, flash, draft, writer, caches, calls, argument, failed,
                    overtaken, applies, crashes>>
    BY <1>14 DEF CopyPart, image
  <2>2. kb_settings' \in Settings /\ notify_snapshot' \in Settings
    BY <1>14, KbSettingsAssumption DEF CopyPart, KbSettingsTypeOK, Settings
  <2>3. /\ left' \in [Appliers -> SUBSET (SUBSET Parts)]
        /\ pc' \in [Appliers -> Steps]
    BY <1>14, ChunksCover DEF CopyPart, Goes, KbSettingsTypeOK, Steps
  <2> QED
    BY <2>1, <2>2, <2>3 DEF KbSettingsTypeOK
<1>6. ASSUME NEW p \in Appliers, ClearImage(p) PROVE KbSettingsTypeOK'
  BY <1>1, <1>6, ChunksCover DEF ClearImage, Goes, KbSettingsTypeOK, Steps
<1>7. ASSUME NEW p \in Appliers, CopyImage(p) PROVE KbSettingsTypeOK'
  <2>1. save_img' \in Settings
    BY <1>7 DEF CopyImage, KbSettingsTypeOK, Settings
  <2> QED
    BY <1>7, <2>1 DEF CopyImage, KbSettingsTypeOK, Steps
<1>8. ASSUME NEW p \in Appliers, StartSave(p) PROVE KbSettingsTypeOK'
  BY <1>8 DEF StartSave, Goes, KbSettingsTypeOK, Steps
<1>9. ASSUME NEW p \in Appliers, WritePart(p) PROVE KbSettingsTypeOK'
  <2>1. draft' \in Settings
    BY <1>9 DEF WritePart, KbSettingsTypeOK, Settings
  <2>2. left' \in [Appliers -> SUBSET (SUBSET Parts)]
    BY <1>9 DEF WritePart, KbSettingsTypeOK
  <2> QED
    BY <1>9, <2>1, <2>2 DEF WritePart, KbSettingsTypeOK
<1>10. ASSUME NEW p \in Appliers, EndSave(p) PROVE KbSettingsTypeOK'
  <2>1. /\ pc' \in [Appliers -> Steps]
        /\ left' \in [Appliers -> SUBSET (SUBSET Parts)]
    BY <1>10 DEF EndSave, Goes, KbSettingsTypeOK, Steps
  <2>2. calls' \in [Appliers -> SUBSET (Subscribers \X SUBSET Parts)]
    <3>1. Subscribers \X Chunks(p) \subseteq Subscribers \X SUBSET Parts
      BY ChunksCover
    <3> QED
      BY <1>10, <3>1 DEF EndSave, KbSettingsTypeOK
  <2>3. flash' \in Records /\ failed' \in BOOLEAN /\ overtaken' \in BOOLEAN
    BY <1>10 DEF EndSave, KbSettingsTypeOK, Records
  <2> QED
    BY <1>10, <2>1, <2>2, <2>3 DEF EndSave, KbSettingsTypeOK
<1>11. ASSUME NEW p \in Appliers, Notify(p) PROVE KbSettingsTypeOK'
  <2>1. caches' \in [Subscribers -> Settings]
    BY <1>11 DEF Notify, KbSettingsTypeOK, Settings
  <2>2. calls' \in [Appliers -> SUBSET (Subscribers \X SUBSET Parts)]
    BY <1>11 DEF Notify, KbSettingsTypeOK
  <2>3. pc' \in [Appliers -> Steps]
    BY <1>11 DEF Notify, KbSettingsTypeOK, Steps
  <2>4. /\ UNCHANGED <<kb_settings, notify_snapshot, save_img, flash, draft, writer,
                       left, argument, failed, applies, crashes>>
        /\ overtaken' \in BOOLEAN
    BY <1>11 DEF Notify, image, KbSettingsTypeOK
  <2> QED
    BY <2>1, <2>2, <2>3, <2>4 DEF KbSettingsTypeOK
<1>12. CASE Crash
  <2>1. /\ save_img' \in Settings /\ draft' \in Settings /\ argument' \in Settings
        /\ writer' \in Appliers \union {Nobody}
        /\ left' \in [Appliers -> SUBSET (SUBSET Parts)]
        /\ calls' \in [Appliers -> SUBSET (Subscribers \X SUBSET Parts)]
    BY <1>1, <1>12 DEF Crash, Boot
  <2>2. applies' \in 0 .. MaxApplies /\ crashes' \in 0 .. MaxCrashes
    BY <1>12 DEF Crash, KbSettingsTypeOK
  <2>3. pc' \in [Appliers -> Steps] /\ caches' \in [Subscribers -> Settings]
    BY <1>12, CrashEffect DEF Steps
  <2> QED
    BY <1>12, <2>1, <2>2, <2>3, CrashEffect DEF KbSettingsTypeOK, Records
<1>13. CASE UNCHANGED kbSettingsVars
  BY <1>13 DEF kbSettingsVars, image, KbSettingsTypeOK
<1> QED
  BY <1>3, <1>4, <1>5, <1>6, <1>7, <1>8, <1>9, <1>10, <1>11, <1>12, <1>13, <1>14
     DEF KbSettingsNext, Apply

-----------------------------------------------------------------------------
(* Each copy that is not up to date is one a call has yet to make. *)

LEMMA SettingsInit == KbSettingsInit => SettingsInv
<1> SUFFICES ASSUME KbSettingsInit PROVE SettingsInv
  OBVIOUS
<1>1. Default \in Settings
  BY KbSettingsAssumption DEF Default, Settings, Values
<1>2. KbSettingsTypeOK
  <2>1. /\ flash \in Records /\ writer \in Appliers \union {Nobody}
        /\ failed \in BOOLEAN /\ overtaken \in BOOLEAN
    BY <1>1 DEF KbSettingsInit, Records
  <2>2. /\ caches \in [Subscribers -> Settings] /\ pc \in [Appliers -> Steps]
        /\ left \in [Appliers -> SUBSET (SUBSET Parts)]
        /\ calls \in [Appliers -> SUBSET (Subscribers \X SUBSET Parts)]
    BY <1>1 DEF KbSettingsInit, Steps
  <2>3. applies \in 0 .. MaxApplies /\ crashes \in 0 .. MaxCrashes
    BY KbSettingsAssumption DEF KbSettingsInit
  <2> QED
    BY <1>1, <2>1, <2>2, <2>3 DEF KbSettingsInit, KbSettingsTypeOK
<1>3. \A p \in Appliers : pc[p] = "idle"
  BY DEF KbSettingsInit
<1>4. FlashSaved /\ CachesHanded
  BY DEF KbSettingsInit, FlashSaved, CachesHanded
<1> QED
  BY <1>2, <1>3, <1>4 DEF SettingsInv, SnapshotCopied, SourceKept, ImageCopied, DraftCopied,
                          OneWriter, KbSettingsInit, Appliers

(* A call of kb_settings_apply changes no copy before it holds the mutex,  *)
(* except that an FN shortcut changes its own.                             *)
LEMMA CallStep ==
    ASSUME SettingsInv, NEW p \in Appliers, Goes(p, "idle", "lock"),
           UNCHANGED <<kb_settings, notify_snapshot, image, left, calls, failed, overtaken>>,
           \/ UNCHANGED caches
           \/ /\ p = "kb_handler"
              /\ \E i \in Parts, v \in Values :
                    caches' = [caches EXCEPT ![KbHandler][i] = v]
    PROVE  /\ SnapshotCopied' /\ SourceKept'
           /\ ImageCopied' /\ DraftCopied' /\ OneWriter' /\ FlashSaved' /\ CachesHanded'
<1> USE DEF SettingsInv, KbSettingsTypeOK, Goes, image
<1>1. \A q \in Appliers : pc'[q] = pc[q] \/ (q = p /\ pc[q] = "idle" /\ pc'[q] = "lock")
  OBVIOUS
<1>2. \A q \in Appliers, i \in Parts : Copies(q, i) => Copies(q, i)'
  BY <1>1 DEF Copies
<1>3. \A q \in Appliers : Saves(q) => Saves(q)'
  BY <1>1 DEF Saves
<1>4. ImageCopied'
  BY <1>1, <1>2 DEF ImageCopied
<1>5. DraftCopied'
  BY <1>1, <1>3 DEF DraftCopied
<1>6. OneWriter' /\ FlashSaved'
  BY <1>1, <1>3 DEF OneWriter, FlashSaved
<1>7. \A s \in Subscribers, i \in Parts : Hands(p, s, i)'
  BY DEF Hands
<1>8. SnapshotCopied'
  BY <1>1 DEF SnapshotCopied, Snaps, Left, Appliers
<1>9. SourceKept'
  <2>1. CASE p = "kb_handler"
    BY <2>1 DEF SourceKept
  <2>2. CASE UNCHANGED caches
    BY <1>1, <2>2 DEF SourceKept, Left, Appliers
  <2> QED
    BY <2>1, <2>2
<1> QED
  BY <1>4, <1>5, <1>6, <1>7, <1>8, <1>9 DEF CachesHanded

(* The call that takes the settings has every copy to make. *)
LEMMA CopySettingsStep ==
    ASSUME SettingsInv, NEW p \in Appliers, CopySettings(p)
    PROVE  /\ SnapshotCopied' /\ SourceKept'
           /\ ImageCopied' /\ DraftCopied' /\ OneWriter' /\ FlashSaved' /\ CachesHanded'
<1>1. pc'[p] = "clear"
  BY DEF CopySettings, Goes, SettingsInv, KbSettingsTypeOK
<1>2. /\ \A i \in Parts : Copies(p, i)'
      /\ \A s \in Subscribers, i \in Parts : Hands(p, s, i)'
  BY <1>1 DEF Copies, Hands
<1>3. Saves(p)'
  BY <1>1 DEF Saves
<1>4. OneWriter'
  BY DEF CopySettings, Goes, SettingsInv, KbSettingsTypeOK, OneWriter, image
<1>5. ImageCopied' /\ CachesHanded'
  BY <1>2 DEF ImageCopied, CachesHanded
<1>6. DraftCopied' /\ FlashSaved'
  BY <1>3 DEF DraftCopied, FlashSaved
<1>7. SnapshotCopied'
  BY DEF CopySettings, SnapshotCopied
<1>8. SourceKept'
  BY DEF CopySettings, Goes, HoldsMutex, SettingsInv, KbSettingsTypeOK, SourceKept, Appliers
<1> QED
  BY <1>4, <1>5, <1>6, <1>7, <1>8

(* Locking the mutex changes nothing yet; every part is yet to be copied.  *)
LEMMA LockSettingsStep ==
    ASSUME SettingsInv, NEW p \in Appliers, LockSettings(p)
    PROVE  /\ SnapshotCopied' /\ SourceKept'
           /\ ImageCopied' /\ DraftCopied' /\ OneWriter' /\ FlashSaved' /\ CachesHanded'
<1>1. /\ p = "kb_handler" /\ pc'[p] = "settings" /\ left'[p] = Chunks(p)
      /\ UNCHANGED <<kb_settings, notify_snapshot, writer, caches>>
  BY DEF LockSettings, Goes, SettingsInv, KbSettingsTypeOK, image
<1>2. /\ \A i \in Parts : Copies(p, i)' /\ Snaps(p, i)' /\ Left(p, i)'
      /\ \A s \in Subscribers, i \in Parts : Hands(p, s, i)'
  BY <1>1, ChunksCover DEF Copies, Hands, Snaps, Left
<1>3. Saves(p)'
  BY <1>1 DEF Saves
<1>4. OneWriter'
  BY DEF LockSettings, Goes, SettingsInv, KbSettingsTypeOK, OneWriter, image
<1>5. ImageCopied' /\ CachesHanded' /\ SnapshotCopied'
  BY <1>1, <1>2 DEF ImageCopied, CachesHanded, SnapshotCopied
<1>6. DraftCopied' /\ FlashSaved'
  BY <1>3 DEF DraftCopied, FlashSaved
<1>7. SourceKept'
  BY <1>1, <1>2 DEF SourceKept
<1> QED
  BY <1>4, <1>5, <1>6, <1>7

(* The parts of both memcpys come from the same settings, unless overtaken. *)
LEMMA CopyPartStep ==
    ASSUME SettingsInv, NEW p \in Appliers, CopyPart(p)
    PROVE  /\ SnapshotCopied' /\ SourceKept'
           /\ ImageCopied' /\ DraftCopied' /\ OneWriter' /\ FlashSaved' /\ CachesHanded'
<1> USE DEF SettingsInv, KbSettingsTypeOK
<1>1. /\ p = "kb_handler" /\ pc[p] \in {"settings", "snapshot"}
      /\ UNCHANGED <<writer, caches, overtaken, calls>>
  BY DEF CopyPart, HoldsMutex, image
<1>2. PICK chunk \in left[p] :
         /\ IF pc[p] = "settings"
            THEN /\ kb_settings' = [i \in Parts |-> IF i \in chunk THEN caches[KbHandler][i]
                                                   ELSE kb_settings[i]]
                 /\ UNCHANGED notify_snapshot
            ELSE /\ notify_snapshot' = [i \in Parts |-> IF i \in chunk THEN caches[KbHandler][i]
                                                       ELSE notify_snapshot[i]]
                 /\ UNCHANGED kb_settings
         /\ IF left[p] # {chunk}
            THEN left' = [left EXCEPT ![p] = @ \ {chunk}] /\ UNCHANGED pc
            ELSE IF pc[p] = "settings"
            THEN Goes(p, "settings", "snapshot") /\ left' = [left EXCEPT ![p] = Chunks(p)]
            ELSE Goes(p, "snapshot", "clear") /\ left' = [left EXCEPT ![p] = {}]
  BY <1>1 DEF CopyPart
<1>3. /\ pc'[p] \in {"settings", "snapshot", "clear"}
      /\ \A q \in Appliers : pc'[q] = pc[q] \/ q = p
  BY <1>1, <1>2 DEF Goes
<1>4. /\ \A i \in Parts : Copies(p, i)'
      /\ \A s \in Subscribers, i \in Parts : Hands(p, s, i)'
      /\ Saves(p)'
  BY <1>3 DEF Copies, Hands, Saves
<1>5. OneWriter'
  BY <1>1, <1>3 DEF OneWriter
<1>6. ImageCopied' /\ CachesHanded' /\ DraftCopied' /\ FlashSaved'
  BY <1>4 DEF ImageCopied, CachesHanded, DraftCopied, FlashSaved
<1>7. CASE pc[p] = "settings"
  <2>1. /\ \A i \in Parts : i \in chunk => kb_settings'[i] = caches[KbHandler][i]
        /\ \A i \in Parts : i \notin chunk => kb_settings'[i] = kb_settings[i]
        /\ notify_snapshot' = notify_snapshot
    BY <1>2, <1>7
  <2>2. \/ pc'[p] = "settings" /\ left'[p] = left[p] \ {chunk}
        \/ pc'[p] = "snapshot" /\ left'[p] = Chunks(p) /\ left[p] = {chunk}
    BY <1>1, <1>2, <1>7 DEF Goes
  <2>3. \A i \in Parts : Snaps(p, i)'
    BY <2>2, ChunksCover DEF Snaps, Left
  <2>4. SnapshotCopied'
    BY <1>1, <2>3 DEF SnapshotCopied
  <2>5. ASSUME NEW i \in Parts, ~overtaken, i \notin chunk,
               pc'[p] = "snapshot" \/ ~Left(p, i)'
        PROVE  caches[KbHandler][i] = kb_settings'[i]
    <3>1. ~Left(p, i)
      BY <2>2, <2>5 DEF Left
    <3> QED
      BY <1>1, <1>7, <2>1, <2>5, <3>1 DEF SourceKept
  <2>6. SourceKept'
    BY <1>1, <2>1, <2>5 DEF SourceKept
  <2> QED
    BY <1>5, <1>6, <2>4, <2>6
<1>8. CASE pc[p] = "snapshot"
  <2>1. /\ \A i \in Parts : i \in chunk => notify_snapshot'[i] = caches[KbHandler][i]
        /\ \A i \in Parts : i \notin chunk => notify_snapshot'[i] = notify_snapshot[i]
        /\ kb_settings' = kb_settings
    BY <1>2, <1>8
  <2>2. \/ pc'[p] = "snapshot" /\ left'[p] = left[p] \ {chunk}
        \/ pc'[p] = "clear" /\ left[p] = {chunk}
    BY <1>1, <1>2, <1>8 DEF Goes
  <2>3. SourceKept'
    BY <1>1, <1>8, <2>1, <2>2 DEF SourceKept
  <2>4. ASSUME NEW i \in Parts, notify_snapshot'[i] # kb_settings[i], ~overtaken
        PROVE  Snaps(p, i)'
    <3>1. i \notin chunk /\ notify_snapshot[i] # kb_settings[i]
      BY <1>1, <1>8, <2>1, <2>4 DEF SourceKept
    <3>2. PICK other \in left[p] : i \in other
      BY <1>1, <1>8, <2>4, <3>1 DEF SnapshotCopied, Snaps, Left
    <3>3. pc'[p] = "snapshot" /\ other \in left'[p]
      BY <2>2, <3>1, <3>2
    <3> QED
      BY <3>2, <3>3 DEF Snaps, Left
  <2>5. SnapshotCopied'
    BY <1>1, <2>1, <2>4 DEF SnapshotCopied
  <2> QED
    BY <1>5, <1>6, <2>3, <2>5
<1> QED
  BY <1>1, <1>7, <1>8

(* A step of a call that does not hold the mutex changes none of its copies. *)
LEMMA SnapshotStays ==
    ASSUME SettingsInv,
           UNCHANGED <<kb_settings, notify_snapshot, caches, overtaken>>,
           \/ pc'["kb_handler"] = pc["kb_handler"] /\ left'["kb_handler"] = left["kb_handler"]
           \/ /\ pc["kb_handler"] \notin {"settings", "snapshot"}
              /\ pc'["kb_handler"] \notin {"settings", "snapshot"}
    PROVE  SnapshotCopied' /\ SourceKept'
BY DEF SettingsInv, SnapshotCopied, SourceKept, Snaps, Left

(* save_img is cleared by a call that then has every part to copy. *)
LEMMA ClearImageStep ==
    ASSUME SettingsInv, NEW p \in Appliers, ClearImage(p)
    PROVE  /\ SnapshotCopied' /\ SourceKept'
           /\ ImageCopied' /\ DraftCopied' /\ OneWriter' /\ FlashSaved' /\ CachesHanded'
<1> USE DEF SettingsInv, KbSettingsTypeOK, ClearImage, Goes
<1>1. pc'[p] = "image" /\ left'[p] = Chunks(p)
  OBVIOUS
<1>2. \A i \in Parts : Copies(p, i)'
  BY <1>1, ChunksCover DEF Copies
<1>3. \A q \in Appliers : (pc'[q] = pc[q] /\ left'[q] = left[q]) \/ q = p
  OBVIOUS
<1>4. ImageCopied'
  BY <1>2 DEF ImageCopied
<1>5. Saves(p)'
  BY <1>1 DEF Saves
<1>6. DraftCopied' /\ FlashSaved'
  BY <1>1, <1>3, <1>5 DEF DraftCopied, FlashSaved
<1>7. OneWriter'
  BY <1>1, <1>3 DEF OneWriter
<1>8. \A s \in Subscribers, i \in Parts : Hands(p, s, i)'
  BY <1>1 DEF Hands
<1>9. SnapshotCopied' /\ SourceKept'
  BY <1>3, SnapshotStays DEF Appliers
<1> QED
  BY <1>4, <1>6, <1>7, <1>8, <1>9 DEF CachesHanded

(* A part that is copied to save_img is up to date. *)
LEMMA CopyImageStep ==
    ASSUME SettingsInv, NEW p \in Appliers, CopyImage(p)
    PROVE  /\ SnapshotCopied' /\ SourceKept'
           /\ ImageCopied' /\ DraftCopied' /\ OneWriter' /\ FlashSaved' /\ CachesHanded'
<1> USE DEF SettingsInv, KbSettingsTypeOK
<1>1. PICK chunk \in left[p] :
         /\ save_img' = [i \in Parts |-> IF i \in chunk THEN kb_settings[i]
                                         ELSE save_img[i]]
         /\ left' = [left EXCEPT ![p] = @ \ {chunk}]
  BY DEF CopyImage
<1>2. /\ pc[p] = "image" /\ pc'[p] \in {"image", "save"}
      /\ pc'[p] = "image" <=> left'[p] # {}
      /\ left'[p] = left[p] \ {chunk}
  BY <1>1 DEF CopyImage
<1>3. \A q \in Appliers : (pc'[q] = pc[q] /\ left'[q] = left[q]) \/ q = p
  BY <1>1 DEF CopyImage
<1>4. UNCHANGED <<kb_settings, notify_snapshot, flash, draft, writer, caches,
                  calls, failed, overtaken>>
  BY DEF CopyImage
<1>5. \A q \in Appliers, i \in Parts : i \notin chunk /\ Copies(q, i) => Copies(q, i)'
  <2> SUFFICES ASSUME NEW q \in Appliers, NEW i \in Parts, i \notin chunk, Copies(q, i)
               PROVE  Copies(q, i)'
    OBVIOUS
  <2>1. CASE q # p
    BY <1>3, <2>1 DEF Copies
  <2>2. CASE q = p
    <3>1. PICK other \in left[p] : i \in other
      BY <1>2, <2>2 DEF Copies
    <3>2. other \in left'[p]
      BY <1>2, <3>1
    <3> QED
      BY <1>2, <2>2, <3>1, <3>2 DEF Copies
  <2> QED
    BY <2>1, <2>2
<1>6. ImageCopied'
  <2> SUFFICES ASSUME NEW q \in Appliers, NEW i \in Parts,
                      \/ pc'[q] \in {"save", "write"}
                      \/ pc'[q] = "image" /\ \A c \in left'[q] : i \notin c,
                      save_img'[i] # kb_settings'[i]
               PROVE  \E r \in Appliers : Copies(r, i)'
    BY DEF ImageCopied
  <2>1. i \notin chunk /\ save_img[i] # kb_settings[i]
    BY <1>1, <1>4
  <2>2. \/ pc[q] \in {"save", "write"}
        \/ pc[q] = "image" /\ \A c \in left[q] : i \notin c
    <3>1. CASE q # p
      BY <1>3, <3>1
    <3>2. CASE q = p
      <4>1. \A c \in left'[p] : i \notin c
        BY <1>2, <3>2
      <4> QED
        BY <1>2, <2>1, <3>2, <4>1
    <3> QED
      BY <3>1, <3>2
  <2>3. \E r \in Appliers : Copies(r, i)
    BY <2>1, <2>2 DEF ImageCopied
  <2> QED
    BY <1>5, <2>1, <2>3
<1>7. Saves(p)'
  BY <1>2 DEF Saves
<1>8. DraftCopied' /\ FlashSaved'
  BY <1>4, <1>7 DEF DraftCopied, FlashSaved
<1>9. OneWriter'
  BY <1>2, <1>3, <1>4 DEF OneWriter
<1>10. \A s \in Subscribers, i \in Parts : Hands(p, s, i)'
  BY <1>2 DEF Hands
<1>11. SnapshotCopied' /\ SourceKept'
  BY <1>2, <1>3, <1>4, SnapshotStays DEF Appliers
<1> QED
  BY <1>4, <1>6, <1>8, <1>9, <1>10, <1>11 DEF CachesHanded

(* Whoever starts to write finds every part of save_img copied, or a call  *)
(* that will copy it.                                                      *)
LEMMA StartSaveStep ==
    ASSUME SettingsInv, NEW p \in Appliers, StartSave(p)
    PROVE  /\ SnapshotCopied' /\ SourceKept'
           /\ ImageCopied' /\ DraftCopied' /\ OneWriter' /\ FlashSaved' /\ CachesHanded'
<1> USE DEF SettingsInv, KbSettingsTypeOK, StartSave, Goes
<1>1. /\ pc[p] = "save" /\ pc'[p] = "write"
      /\ left'[p] = {{i} : i \in Parts}
      /\ writer = Nobody /\ writer' = p
  OBVIOUS
<1>2. \A q \in Appliers : (pc'[q] = pc[q] /\ left'[q] = left[q]) \/ q = p
  OBVIOUS
<1>3. \A q \in Appliers : pc[q] # "write"
  BY <1>1 DEF OneWriter, Nobody, Appliers
<1>4. \A q \in Appliers, i \in Parts : Copies(q, i) => Copies(q, i)'
  BY <1>1, <1>2 DEF Copies
<1>5. ImageCopied'
  BY <1>1, <1>2, <1>4 DEF ImageCopied
<1>6. DraftCopied'
  <2>1. \A i \in Parts : \E chunk \in left'[p] : i \in chunk
    BY <1>1
  <2> QED
    BY <1>2, <1>3, <2>1 DEF DraftCopied
<1>7. OneWriter' /\ FlashSaved'
  BY <1>1, <1>2, <1>3 DEF OneWriter, FlashSaved
<1>8. \A s \in Subscribers, i \in Parts : Hands(p, s, i)'
  BY <1>1 DEF Hands
<1>9. SnapshotCopied' /\ SourceKept'
  BY <1>1, <1>2, SnapshotStays DEF Appliers
<1> QED
  BY <1>5, <1>6, <1>7, <1>8, <1>9 DEF CachesHanded

(* A part written from an old save_img is old only while another call will *)
(* save after this one.                                                    *)
LEMMA WritePartStep ==
    ASSUME SettingsInv, NEW p \in Appliers, WritePart(p)
    PROVE  /\ SnapshotCopied' /\ SourceKept'
           /\ ImageCopied' /\ DraftCopied' /\ OneWriter' /\ FlashSaved' /\ CachesHanded'
<1> USE DEF SettingsInv, KbSettingsTypeOK
<1>1. PICK chunk \in left[p] :
         /\ draft' = [i \in Parts |-> IF i \in chunk THEN save_img[i]
                                      ELSE draft[i]]
         /\ left' = [left EXCEPT ![p] = @ \ {chunk}]
  BY DEF WritePart
<1>2. /\ pc[p] = "write"
      /\ UNCHANGED <<kb_settings, notify_snapshot, save_img, flash, writer,
                     caches, pc, calls, failed, overtaken>>
  BY DEF WritePart
<1>3. \A q \in Appliers : left'[q] = left[q] \/ q = p
  BY <1>1
<1>4. \A q \in Appliers, i \in Parts : Copies(q, i) <=> Copies(q, i)'
  BY <1>2, <1>3 DEF Copies
<1>5. ImageCopied'
  BY <1>2, <1>3, <1>4 DEF ImageCopied
<1>6. DraftCopied'
  <2> SUFFICES ASSUME NEW q \in Appliers, NEW i \in Parts, pc[q] = "write",
                      \A c \in left'[q] : i \notin c, draft'[i] # kb_settings[i]
               PROVE  \E r \in Appliers : Saves(r)
    BY <1>2 DEF DraftCopied, Saves
  <2>1. q = p
    BY <1>2 DEF OneWriter
  <2>2. CASE i \in chunk
    <3>1. save_img[i] # kb_settings[i]
      BY <1>1, <2>2
    <3>2. \E r \in Appliers : Copies(r, i)
      BY <1>2, <3>1 DEF ImageCopied
    <3> QED
      BY <3>2 DEF Copies, Saves
  <2>3. CASE i \notin chunk
    <3>1. draft[i] # kb_settings[i]
      BY <1>1, <2>3
    <3>2. \A c \in left[p] : i \notin c
      BY <1>1, <2>1, <2>3
    <3> QED
      BY <1>2, <3>1, <3>2 DEF DraftCopied
  <2> QED
    BY <2>2, <2>3
<1>7. OneWriter' /\ FlashSaved'
  BY <1>2 DEF OneWriter, FlashSaved, Saves
<1>8. CachesHanded'
  BY <1>2 DEF CachesHanded, Hands
<1>9. SnapshotCopied' /\ SourceKept'
  BY <1>2, <1>3, SnapshotStays DEF Appliers
<1> QED
  BY <1>5, <1>6, <1>7, <1>8, <1>9

(* What ends up in flash is up to date, or another call will save.         *)
LEMMA EndSaveStep ==
    ASSUME SettingsInv, NEW p \in Appliers, EndSave(p)
    PROVE  /\ SnapshotCopied' /\ SourceKept'
           /\ ImageCopied' /\ DraftCopied' /\ OneWriter' /\ FlashSaved' /\ CachesHanded'
<1> USE DEF SettingsInv, KbSettingsTypeOK
<1>1. /\ pc[p] = "write" /\ pc'[p] = "notify" /\ left'[p] = {}
      /\ calls'[p] = Subscribers \X Chunks(p)
      /\ UNCHANGED <<kb_settings, notify_snapshot, save_img, draft, caches, overtaken>>
  BY DEF EndSave, Goes
<1>2. \A q \in Appliers : (pc'[q] = pc[q] /\ left'[q] = left[q]) \/ q = p
  BY DEF EndSave, Goes
<1>3. \A q \in Appliers : pc[q] = "write" => q = p
  BY <1>1 DEF OneWriter
<1>4. \A q \in Appliers, i \in Parts : Copies(q, i) => Copies(q, i)'
  BY <1>1, <1>2 DEF Copies
<1>5. ImageCopied'
  BY <1>1, <1>2, <1>4 DEF ImageCopied
<1>6. DraftCopied' /\ OneWriter'
  BY <1>1, <1>2, <1>3 DEF DraftCopied, OneWriter
<1>7. FlashSaved'
  <2>1. CASE left[p] = {} /\ flash' = draft
    <3> SUFFICES ASSUME draft # kb_settings PROVE \E q \in Appliers : Saves(q)'
      BY <1>1, <2>1 DEF FlashSaved
    <3>1. PICK i \in Parts : draft[i] # kb_settings[i]
      BY DEF Settings
    <3>2. PICK q \in Appliers : Saves(q)
      BY <1>1, <2>1, <3>1 DEF DraftCopied
    <3> QED
      BY <1>1, <1>2, <3>2 DEF Saves
  <2>2. CASE failed'
    BY <2>2 DEF FlashSaved
  <2> QED
    BY <2>1, <2>2 DEF EndSave
<1>8. \A s \in Subscribers, i \in Parts : Hands(p, s, i)'
  <2> SUFFICES ASSUME NEW s \in Subscribers, NEW i \in Parts PROVE Hands(p, s, i)'
    OBVIOUS
  <2>1. PICK chunk \in Chunks(p) : i \in chunk
    BY ChunksCover
  <2>2. <<s, chunk>> \in calls'[p]
    BY <1>1, <2>1
  <2> QED
    BY <1>1, <2>1, <2>2 DEF Hands
<1>9. SnapshotCopied' /\ SourceKept'
  BY <1>1, <1>2, SnapshotStays DEF Appliers
<1> QED
  BY <1>5, <1>6, <1>7, <1>8, <1>9 DEF CachesHanded

(* A subscriber that copies a chunk has it.                                *)
LEMMA NotifyStep ==
    ASSUME SettingsInv, NEW p \in Appliers, Notify(p)
    PROVE  /\ SnapshotCopied' /\ SourceKept'
           /\ ImageCopied' /\ DraftCopied' /\ OneWriter' /\ FlashSaved' /\ CachesHanded'
<1> USE DEF SettingsInv, KbSettingsTypeOK
<1>1. PICK callback \in calls[p] :
         /\ caches' = [caches EXCEPT ![callback[1]] =
               [i \in Parts |-> IF i \in callback[2] THEN notify_snapshot[i]
                                ELSE @[i]]]
         /\ calls' = [calls EXCEPT ![p] = @ \ {callback}]
         /\ overtaken' = (overtaken \/ (callback[1] = KbHandler /\ HoldsMutex))
  BY DEF Notify
<1>2. /\ pc[p] = "notify" /\ pc'[p] \in {"notify", "idle"}
      /\ pc'[p] = "notify" <=> calls'[p] # {}
      /\ UNCHANGED <<kb_settings, notify_snapshot, save_img, flash, draft,
                     writer, left, failed>>
  BY <1>1 DEF Notify, image
<1>3. \A q \in Appliers : (pc'[q] = pc[q] /\ calls'[q] = calls[q]) \/ q = p
  BY <1>1 DEF Notify
<1>4. \A q \in Appliers, i \in Parts : Copies(q, i) => Copies(q, i)'
  BY <1>2, <1>3 DEF Copies
<1>5. \A q \in Appliers : Saves(q) => Saves(q)'
  BY <1>2, <1>3 DEF Saves
<1>6. ImageCopied'
  BY <1>2, <1>3, <1>4 DEF ImageCopied
<1>7. DraftCopied' /\ OneWriter' /\ FlashSaved'
  BY <1>2, <1>3, <1>5 DEF DraftCopied, OneWriter, FlashSaved
<1>8. CachesHanded'
  <2> SUFFICES ASSUME NEW s \in Subscribers, NEW i \in Parts,
                      caches'[s][i] # notify_snapshot[i]
               PROVE  \E q \in Appliers : Hands(q, s, i)'
    BY <1>2 DEF CachesHanded
  <2>1. ~(callback[1] = s /\ i \in callback[2]) /\ caches[s][i] # notify_snapshot[i]
    BY <1>1 DEF Settings
  <2>2. PICK q \in Appliers : Hands(q, s, i)
    BY <2>1 DEF CachesHanded
  <2>3. CASE q # p
    BY <1>3, <2>2, <2>3 DEF Hands
  <2>4. CASE q = p
    <3>1. PICK other \in calls[p] : other[1] = s /\ i \in other[2]
      BY <1>2, <2>2, <2>4 DEF Hands
    <3>2. other \in calls'[p]
      BY <1>1, <2>1, <3>1
    <3> QED
      BY <1>2, <3>1, <3>2 DEF Hands
  <2> QED
    BY <2>3, <2>4
<1>9. \/ pc'["kb_handler"] = pc["kb_handler"]
      \/ /\ pc["kb_handler"] \notin {"settings", "snapshot"}
         /\ pc'["kb_handler"] \notin {"settings", "snapshot"}
  BY <1>2, <1>3 DEF Appliers
<1>10. SnapshotCopied'
  BY <1>1, <1>2, <1>9 DEF SnapshotCopied, Snaps, Left
<1>11. SourceKept'
  <2>1. CASE overtaken' \/ ~HoldsMutex
    BY <1>9, <2>1 DEF SourceKept, HoldsMutex
  <2>2. CASE ~overtaken' /\ HoldsMutex
    <3>1. ~overtaken /\ caches'[KbHandler] = caches[KbHandler]
      BY <1>1, <2>2, KbSettingsAssumption
    <3> QED
      BY <1>2, <1>9, <3>1 DEF SourceKept, Left
  <2> QED
    BY <2>1, <2>2
<1> QED
  BY <1>6, <1>7, <1>8, <1>10, <1>11

(* The invariant is inductive. *)
LEMMA SettingsStep == SettingsInv /\ [KbSettingsNext]_kbSettingsVars => SettingsInv'
<1> SUFFICES ASSUME SettingsInv, [KbSettingsNext]_kbSettingsVars PROVE SettingsInv'
  OBVIOUS
<1>1. KbSettingsTypeOK'
  BY SettingsType DEF SettingsInv
<1> SUFFICES /\ SnapshotCopied' /\ SourceKept'
             /\ ImageCopied' /\ DraftCopied' /\ OneWriter' /\ FlashSaved' /\ CachesHanded'
  BY <1>1 DEF SettingsInv
<1>2. CASE ConfiguratorApplies
  BY <1>2, CallStep DEF ConfiguratorApplies, Calls, Appliers
<1>3. CASE FnShortcutApplies
  <2>1. applies' \in Values
    BY <1>1 DEF KbSettingsTypeOK, Values
  <2> QED
    BY <1>3, <2>1, CallStep, KbSettingsAssumption DEF FnShortcutApplies, Calls, Appliers
<1>4. CASE \E p \in Appliers : Apply(p)
  BY <1>4, CopySettingsStep, LockSettingsStep, CopyPartStep, ClearImageStep, CopyImageStep, StartSaveStep,
     WritePartStep, EndSaveStep, NotifyStep DEF Apply
<1>5. CASE Crash
  <2>1. \A p \in Appliers : pc'[p] = "idle"
    BY <1>5, CrashEffect DEF SettingsInv
  <2>2. CachesHanded' /\ FlashSaved'
    BY <1>5, CrashEffect DEF SettingsInv, CachesHanded, FlashSaved
  <2>3. SnapshotCopied' /\ SourceKept'
    BY <1>5, <2>1, CrashEffect DEF SettingsInv, SnapshotCopied, SourceKept, Appliers
  <2> QED
    BY <1>5, <2>1, <2>2, <2>3, CrashEffect
       DEF SettingsInv, ImageCopied, DraftCopied, OneWriter
<1>6. CASE UNCHANGED kbSettingsVars
  <2>1. SnapshotCopied' /\ SourceKept'
    BY <1>6, SnapshotStays DEF kbSettingsVars
  <2> QED
    BY <1>6, <2>1 DEF kbSettingsVars, image, SettingsInv, ImageCopied, DraftCopied, OneWriter,
                      FlashSaved, CachesHanded, Copies, Saves, Hands
<1> QED
  BY <1>2, <1>3, <1>4, <1>5, <1>6 DEF KbSettingsNext

(* Every copy in memory and in flash holds a value in each part, also when a *)
(* save is cut short, and each call is at one of its steps.                 *)
THEOREM CopiesAreSettings == KbSettingsSpec => []KbSettingsTypeOK
<1>1. SettingsInv => KbSettingsTypeOK
  BY DEF SettingsInv
<1> QED
  BY <1>1, SettingsInit, SettingsStep, PTL DEF KbSettingsSpec

(* When no call is under way every subscriber has what all were last told, *)
(* the settings unless they changed while the kb_handler thread copied     *)
(* them, for any number of subscribers and parts, however the calls        *)
(* overlapped.                                                             *)
LEMMA SubscribersAgree == KbSettingsSpec => []CachesAgree
<1>1. SettingsInv => CachesAgree
  <2> SUFFICES ASSUME SettingsInv, Idle
               PROVE  /\ \A s \in Subscribers : caches[s] = notify_snapshot
                      /\ notify_snapshot = kb_settings \/ overtaken
    BY DEF CachesAgree
  <2>1. \A s \in Subscribers, i \in Parts : caches[s][i] = notify_snapshot[i]
    BY DEF SettingsInv, CachesHanded, Hands, Idle
  <2>2. overtaken \/ \A i \in Parts : notify_snapshot[i] = kb_settings[i]
    BY DEF SettingsInv, SnapshotCopied, Snaps, Idle, Appliers
  <2> QED
    BY <2>1, <2>2 DEF SettingsInv, KbSettingsTypeOK, Settings
<1> QED
  BY <1>1, SettingsInit, SettingsStep, PTL DEF KbSettingsSpec

(* The flash has the settings then, unless the last attempt to save failed. *)
LEMMA FlashEndsInSync == KbSettingsSpec => []FlashInSync
<1>1. SettingsInv => FlashInSync
  BY DEF SettingsInv, FlashSaved, FlashInSync, Saves, Idle
<1> QED
  BY <1>1, SettingsInit, SettingsStep, PTL DEF KbSettingsSpec

(* After overlapping calls the flash has the settings, and the subscribers *)
(* agree: on the settings, unless a callback of one call changed what the  *)
(* other was copying.                                                      *)
THEOREM AppliesEndInSync == KbSettingsSpec => []SettingsInSync
<1>1. CachesAgree /\ FlashInSync <=> SettingsInSync
  BY DEF SettingsInSync
<1> QED
  BY <1>1, SubscribersAgree, FlashEndsInSync, PTL
=============================================================================
