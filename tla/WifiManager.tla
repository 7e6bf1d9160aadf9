----------------------------- MODULE WifiManager -----------------------------
(***************************************************************************)
(* The multi-SSID WiFi manager, firmware/src/wifi_manager.cpp.  loop()     *)
(* calls check(), which asks the network HAL whether the radio is          *)
(* connected and moves on when it is not in time.  The radio (WiFi.h on    *)
(* the S3, esp_wifi on the P4, auto-reconnect off) tries the last SSID it  *)
(* was given until it joins or gives up, and reports what happened as      *)
(* events: a task of their own handles them, so isConnected() may be       *)
(* behind, and a join may be on its way when check() gives an attempt up.  *)
(*                                                                         *)
(* Clock values are abstracted to what check() asks of them: whether the   *)
(* wait of the current state, 15 s or the backoff, is over.                *)
(***************************************************************************)
EXTENDS Integers, SequencesExt

CONSTANTS
  Ssids,     \* the networks of the configurations
  Configs,   \* DeviceConfig.wifi[0..wifi_count - 1], as sequences
  MaxWifi,   \* DCC_MAX_WIFI
  MaxEvents, \* bound: events not handled yet; who posts one more waits
  NoSsid     \* the radio tries no network

Priorities == 0..255   \* uint8_t
Entry == [ssid : Ssids, priority : Priorities]

ASSUME WifiAssumption ==
  /\ Configs \subseteq Seq(Entry)
  /\ MaxWifi \in Nat \ {0}
  /\ MaxEvents \in Nat \ {0}
  /\ NoSsid \notin Ssids

VARIABLES
  wifiState,   \* _state
  networks,    \* _networks, indexed from 1 (_networks[i] is networks[i + 1])
  count,       \* _count
  tryIdx,      \* _tryIdx
  backoff,     \* _backoffMs, in seconds
  elapsed,     \* more than the current wait has passed since _lastAttemptMs
  joining,     \* the SSID the radio was given and has not given up
  associated,  \* ... and that it has joined
  events,      \* of the radio, not handled yet
  link,        \* hal::network::isConnected()
  available,   \* the networks that can be joined
  tried        \* history: the SSIDs tried since _tryIdx was last 0

config == <<networks, count>>
radio == <<joining, associated, events, link, available>>
wifiVars == <<wifiState, config, tryIdx, backoff, elapsed, radio, tried>>

MaxBackoff == 60   \* MAX_BACKOFF_MS

\* IP_EVENT_STA_GOT_IP and WIFI_EVENT_STA_DISCONNECTED
Events == {"gotIp", "lost"}
EventsOK == events \in Seq(Events)

TypeOK ==
  /\ wifiState \in {"DISCONNECTED", "CONNECTING", "CONNECTED", "FAILED"}
  /\ count \in 0..MaxWifi
  /\ tryIdx \in 0..MaxWifi
  /\ backoff \in 1..MaxBackoff
  /\ elapsed \in BOOLEAN
  /\ associated \in BOOLEAN
  /\ EventsOK
  /\ link \in BOOLEAN
  /\ available \subseteq Ssids

\* Slip: entries with a higher number first.
InsertedDescending(sorted, e) ==
  LET before == {j \in DOMAIN sorted : sorted[j].priority > e.priority}
  IN  InsertAt(sorted, Max({0} \cup before) + 1, e)

\* The inner loop of sortByPriority(): an entry moves before those whose number is higher.
Inserted(sorted, e) ==
  LET before == {j \in DOMAIN sorted : sorted[j].priority <= e.priority}
  IN  InsertAt(sorted, Max({0} \cup before) + 1, e)

\* sortByPriority(): after i rounds, the first i entries are sorted.
Rounds(entries) ==
  LET Sorted[i \in 0..Len(entries)] ==
        IF i = 0 THEN <<>> ELSE LET sorted == Sorted[i - 1] IN Inserted(sorted, entries[i])
  IN  Sorted
SortByPriority(entries) == Rounds(entries)[Len(entries)]

\* init(): at most DCC_MAX_WIFI entries, sorted; the first one is tried at once.
Init ==
  /\ \E cfg \in Configs :
       /\ count = IF Len(cfg) > MaxWifi THEN MaxWifi ELSE Len(cfg)
       /\ networks = SortByPriority(SubSeq(cfg, 1, count))
  /\ tryIdx = 0
  /\ backoff = 1
  /\ elapsed = FALSE
  /\ wifiState = IF count > 0 THEN "CONNECTING" ELSE "FAILED"
  /\ joining = IF count > 0 THEN networks[1].ssid ELSE NoSsid
  /\ associated = FALSE
  /\ events = <<>>
  /\ link = FALSE
  /\ available \in SUBSET Ssids
  /\ tried = {joining}

-----------------------------------------------------------------------------
(* check() *)

\* hal::network::disconnect(): the radio reports what it leaves, mostly also an attempt
\* that is cut short.
Disconnect ==
  /\ Len(events) < MaxEvents
  /\ \/ joining # NoSsid /\ events' = Append(events, "lost")
     \/ ~ associated /\ events' = events
  /\ joining' = NoSsid
  /\ associated' = FALSE
  /\ link' = FALSE

\* hal::network::connect() leaves the network of before and waits 300 ms; by then the
\* event loop has handled all that this and disconnect() posted.
Connect(ssid) ==
  /\ joining' = ssid
  /\ associated' = FALSE
  /\ events' = <<>>
  /\ link' = FALSE

\* tryConnect() with _tryIdx = i
TryConnect(i) ==
  /\ tryIdx' = i
  /\ wifiState' = "CONNECTING"
  /\ Connect(networks[i + 1].ssid)
  /\ elapsed' = FALSE

\* Slip: _tryIdx is not reset.
CheckLostKeepsIndex ==
  /\ wifiState = "CONNECTED"
  /\ ~ link
  /\ wifiState' = "DISCONNECTED"
  /\ backoff' = 1
  /\ elapsed' \in {elapsed, TRUE}
  /\ tried' = {}
  /\ UNCHANGED <<config, tryIdx, radio>>

\* The connection is lost.  _lastAttemptMs still is the time of the attempt that led
\* to it, so the backoff of 1 s is usually over already.
CheckLost ==
  /\ wifiState = "CONNECTED"
  /\ ~ link
  /\ wifiState' = "DISCONNECTED"
  /\ tryIdx' = 0
  /\ backoff' = 1
  /\ elapsed' \in {elapsed, TRUE}
  /\ tried' = {}
  /\ UNCHANGED <<config, radio>>

CheckConnected ==
  /\ wifiState = "CONNECTING"
  /\ link
  /\ wifiState' = "CONNECTED"
  /\ backoff' = 1
  /\ UNCHANGED <<config, tryIdx, elapsed, radio, tried>>

\* Slip: the last network is never moved on from.
CheckTimeoutAgain ==
  /\ wifiState = "CONNECTING"
  /\ ~ link
  /\ elapsed
  /\ TryConnect(tryIdx)
  /\ tried' = tried \cup {joining'}
  /\ UNCHANGED <<config, backoff, available>>

\* 15 s without a connection: disconnect(), then the next SSID or, after the last
\* one, the backoff.  The radio may have joined just now.
CheckTimeout ==
  /\ wifiState = "CONNECTING"
  /\ ~ link
  /\ elapsed
  /\ IF tryIdx + 1 < count
       THEN /\ TryConnect(tryIdx + 1)
            /\ tried' = tried \cup {joining'}
       ELSE /\ Disconnect
            /\ tryIdx' = 0
            /\ wifiState' = "DISCONNECTED"
            /\ elapsed' = FALSE
            /\ tried' = {}
  /\ UNCHANGED <<config, backoff, available>>

\* The backoff is over: it doubles, and the next round begins.
CheckRetry ==
  /\ wifiState \in {"DISCONNECTED", "FAILED"}
  /\ count > 0
  /\ elapsed
  /\ backoff' = IF backoff * 2 > MaxBackoff THEN MaxBackoff ELSE backoff * 2
  /\ TryConnect(tryIdx)
  /\ tried' = tried \cup {joining'}
  /\ UNCHANGED <<config, available>>

Check == CheckLost \/ CheckConnected \/ CheckTimeout \/ CheckRetry

-----------------------------------------------------------------------------
(* The radio and the clock *)

RadioJoins ==
  /\ ~ associated
  /\ joining \in available
  /\ Len(events) < MaxEvents
  /\ associated' = TRUE
  /\ events' = Append(events, "gotIp")
  /\ UNCHANGED <<wifiState, config, tryIdx, backoff, elapsed, joining, link,
                 available, tried>>

\* The network went away: it is lost, or the attempt is given up.
RadioGivesUp ==
  /\ joining # NoSsid
  /\ joining \notin available
  /\ Len(events) < MaxEvents
  /\ associated' = FALSE
  /\ joining' = NoSsid
  /\ events' = Append(events, "lost")
  /\ UNCHANGED <<wifiState, config, tryIdx, backoff, elapsed, link, available, tried>>

\* wifiEventHandler(), on the task of the event loop
WifiEventHandler ==
  /\ events # <<>>
  /\ link' = (Head(events) = "gotIp")
  /\ events' = Tail(events)
  /\ UNCHANGED <<wifiState, config, tryIdx, backoff, elapsed, joining, associated,
                 available, tried>>

NetworkAppears(n) ==
  /\ available' = available \cup {n}
  /\ UNCHANGED <<wifiState, config, tryIdx, backoff, elapsed, joining, associated,
                 events, link, tried>>

NetworkGoes(n) ==
  /\ available' = available \ {n}
  /\ UNCHANGED <<wifiState, config, tryIdx, backoff, elapsed, joining, associated,
                 events, link, tried>>

\* The wait ends, with or without a network in range.
TimePasses ==
  /\ elapsed' = TRUE
  /\ UNCHANGED <<wifiState, config, tryIdx, backoff, radio, tried>>

-----------------------------------------------------------------------------

Next ==
  \/ Check
  \/ RadioJoins
  \/ RadioGivesUp
  \/ WifiEventHandler
  \/ \E n \in Ssids : NetworkAppears(n) \/ NetworkGoes(n)
  \/ TimePasses

Spec == Init /\ [][Next]_wifiVars

\* loop() and the event loop run for ever, time passes, and a network that is in range
\* whenever it is tried is joined within the 15 s one of the times.
Fairness ==
  /\ WF_wifiVars(Check)
  /\ WF_wifiVars(WifiEventHandler)
  /\ WF_wifiVars(TimePasses)
  /\ \A n \in Ssids : SF_wifiVars(RadioJoins /\ joining = n)
  /\ SF_wifiVars(WifiEventHandler /\ associated)

FairSpec == Spec /\ Fairness

-----------------------------------------------------------------------------
(* Properties *)

\* "Tries SSIDs in priority order" (wifi_manager.cpp:3): a network is only tried when
\* every one with a lower number was tried before it in the same round.
TriedInOrder ==
  wifiState = "CONNECTING" =>
    \A i \in 1..count :
      networks[i].priority < networks[tryIdx + 1].priority => networks[i].ssid \in tried

\* What is proved for every configuration: _networks[_tryIdx] is an entry whenever the
\* state uses it, and the entries before it have been tried in this round.
WifiInv ==
  /\ TypeOK
  /\ wifiState \in {"CONNECTING", "CONNECTED"} => tryIdx < count
  /\ wifiState \in {"DISCONNECTED", "FAILED"} => tryIdx = 0
  /\ wifiState = "DISCONNECTED" => count > 0
  /\ wifiState = "CONNECTING" => \A i \in 1..(tryIdx + 1) : networks[i].ssid \in tried

\* Once networks neither come nor go, with a configured one in range, the device gets
\* online and stays there: no SSID ahead of it, no backoff and no late event of an
\* earlier attempt keeps it offline or takes the connection away for ever.
ComesOnline ==
  /\ \A n \in Ssids : <>[](n \in available) \/ <>[](n \notin available)
  /\ <>[](\E i \in 1..count : networks[i].ssid \in available)
  => <>[](wifiState = "CONNECTED" /\ link /\ associated)

=============================================================================
