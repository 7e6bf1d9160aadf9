----------------------------- MODULE DataService -----------------------------
(***************************************************************************)
(* The dashboard poller of the firmware, firmware/src/data_service.cpp.    *)
(*                                                                         *)
(* The network task loops over doFetch(), the pending command and a sleep  *)
(* cut into chunks of 200 ms.  The main loop runs setWifiConnected() and   *)
(* checkReady(), whose callback is onBridgeData() of main.cpp.  forcePoll()*)
(* is called by the main loop, after a confirmed command.                  *)
(***************************************************************************)
EXTENDS Http

CONSTANT Chunks   \* _intervalMs in chunks of 200 ms

ASSUME ChunksAssumption == Chunks \in Nat \ {0}

VARIABLES
  fetchState,      \* _state
  doc,             \* _doc: parsed without error / not yet handed to the callback
  dataReady,       \* _dataReady
  dataMutex,       \* holder of _dataMutex: "none", "net" or "main"
  forcePoll,       \* _forcePoll
  fetchPc,         \* where networkTask() is
  left,            \* chunks left of the current sleep
  readyPc,         \* where the main loop is
  online,          \* the network is up: hal::network::isConnected()
  owed             \* history: forcePoll() was called and no doFetch() has begun since

fetchVars  == <<fetchState, fetchPc, left>>
dsVars == <<fetchVars, doc, dataReady, dataMutex, forcePoll, readyPc, online, owed>>

TypeOK ==
  /\ fetchState \in {"IDLE", "FETCHING", "SUCCESS", "ERROR"}
  /\ doc \in [parsed : BOOLEAN, fresh : BOOLEAN]
  /\ dataReady \in BOOLEAN
  /\ dataMutex \in {"none", "net", "main"}
  /\ forcePoll \in BOOLEAN
  /\ fetchPc \in {"boot", "fetch", "http", "lock", "parse", "queue", "decide",
                  "shorten", "sleep", "wake", "break"}
  /\ left \in 0..Chunks
  /\ readyPc \in {"wifi", "ready", "callback", "unlock"}
  /\ online \in BOOLEAN
  /\ owed \in BOOLEAN

Init ==
  /\ fetchState = "IDLE"
  /\ doc = [parsed |-> FALSE, fresh |-> FALSE]
  /\ dataReady = FALSE
  /\ dataMutex = "none"
  /\ forcePoll = FALSE
  /\ fetchPc = "boot"
  /\ left = 0
  /\ readyPc = "wifi"
  /\ online \in BOOLEAN
  /\ owed = FALSE

-----------------------------------------------------------------------------
(* networkTask() *)

\* vTaskDelay(5000): let WiFi connect before the first fetch
FirstDelay ==
  /\ fetchPc = "boot"
  /\ fetchPc' = "fetch"
  /\ UNCHANGED <<fetchState, left, doc, dataReady, dataMutex, forcePoll,
                 readyPc, online, owed>>

\* doFetch() begins; without WiFi it is over at once.
FetchBegin ==
  /\ fetchPc = "fetch"
  /\ IF online
       THEN fetchState' = "FETCHING" /\ fetchPc' = "http"
       ELSE fetchState' = "ERROR" /\ fetchPc' = "queue"
  /\ owed' = FALSE
  /\ UNCHANGED <<left, doc, dataReady, dataMutex, forcePoll, readyPc,
                 online>>

\* httpGet() fails, or does not return 200 with a body.
HttpFails ==
  /\ fetchPc = "http"
  /\ \E resp \in HttpGet(online) : ~ Usable(resp)
  /\ fetchState' = "ERROR"
  /\ fetchPc' = "queue"
  /\ UNCHANGED <<left, doc, dataReady, dataMutex, forcePoll, readyPc, online, owed>>

HttpOk ==
  /\ fetchPc = "http"
  /\ \E resp \in HttpGet(online) : Usable(resp)
  /\ fetchPc' = "lock"
  /\ UNCHANGED <<fetchState, left, doc, dataReady, dataMutex, forcePoll, readyPc,
                 online, owed>>

\* Slip: the document is written without the mutex.
LockDocNoMutex ==
  /\ fetchPc = "lock"
  /\ doc' = [parsed |-> FALSE, fresh |-> FALSE]
  /\ fetchPc' = "parse"
  /\ UNCHANGED <<fetchState, left, dataReady, dataMutex, forcePoll,
                 readyPc, online, owed>>

\* xSemaphoreTake(_dataMutex, 50 ms), then _doc.clear()
LockDoc ==
  /\ fetchPc = "lock"
  /\ dataMutex = "none"
  /\ dataMutex' = "net"
  /\ doc' = [parsed |-> FALSE, fresh |-> FALSE]
  /\ fetchPc' = "parse"
  /\ UNCHANGED <<fetchState, left, dataReady, forcePoll, readyPc, online, owed>>

\* The mutex is not free within 50 ms, whoever has it: the body is dropped, _state stays.
LockDocTimeout ==
  /\ fetchPc = "lock"
  /\ dataMutex # "none"
  /\ fetchPc' = "queue"
  /\ UNCHANGED <<fetchState, left, doc, dataReady, dataMutex, forcePoll,
                 readyPc, online, owed>>

\* deserializeJson() fails: _doc keeps what it had built, _dataReady is not touched.
ParseError ==
  /\ fetchPc = "parse"
  /\ fetchState' = "ERROR"
  /\ dataMutex' = "none"
  /\ fetchPc' = "queue"
  /\ UNCHANGED <<left, doc, dataReady, forcePoll, readyPc, online, owed>>

ParseOk ==
  /\ fetchPc = "parse"
  /\ fetchState' = "SUCCESS"
  /\ doc' = [parsed |-> TRUE, fresh |-> TRUE]
  /\ dataReady' = TRUE
  /\ dataMutex' = "none"
  /\ fetchPc' = "queue"
  /\ UNCHANGED <<left, forcePoll, readyPc, online, owed>>

\* backgroundResync() and HACommand::processQueue(), which may block in a POST
ProcessQueue ==
  /\ fetchPc = "queue"
  /\ fetchPc' = "decide"
  /\ UNCHANGED <<fetchState, left, doc, dataReady, dataMutex, forcePoll,
                 readyPc, online, owed>>

\* `if (_forcePoll)`: a short sleep, otherwise the whole interval
DecideSleep ==
  /\ fetchPc = "decide"
  /\ IF forcePoll
       THEN fetchPc' = "shorten" /\ UNCHANGED left
       ELSE fetchPc' = "sleep" /\ left' = Chunks
  /\ UNCHANGED <<fetchState, doc, dataReady, dataMutex, forcePoll,
                 readyPc, online, owed>>

\* Slip: the flag is cleared and the whole interval is slept all the same.
ShortenSleepNot ==
  /\ fetchPc = "shorten"
  /\ forcePoll' = FALSE
  /\ left' = Chunks
  /\ fetchPc' = "sleep"
  /\ UNCHANGED <<fetchState, doc, dataReady, dataMutex, readyPc, online, owed>>

\* _forcePoll = false; sleepMs = 100
ShortenSleep ==
  /\ fetchPc = "shorten"
  /\ forcePoll' = FALSE
  /\ left' = 1
  /\ fetchPc' = "sleep"
  /\ UNCHANGED <<fetchState, doc, dataReady, dataMutex, readyPc, online, owed>>

\* One chunk, or the end of the sleep.
SleepChunk ==
  /\ fetchPc = "sleep"
  /\ IF left > 0
       THEN left' = left - 1 /\ fetchPc' = "wake"
       ELSE fetchPc' = "fetch" /\ UNCHANGED left
  /\ UNCHANGED <<fetchState, doc, dataReady, dataMutex, forcePoll,
                 readyPc, online, owed>>

\* processQueue() again, then `if (_forcePoll)`
WakeUp ==
  /\ fetchPc = "wake"
  /\ fetchPc' = IF forcePoll THEN "break" ELSE "sleep"
  /\ UNCHANGED <<fetchState, left, doc, dataReady, dataMutex, forcePoll,
                 readyPc, online, owed>>

\* _forcePoll = false; break
BreakSleep ==
  /\ fetchPc = "break"
  /\ forcePoll' = FALSE
  /\ fetchPc' = "fetch"
  /\ UNCHANGED <<fetchState, left, doc, dataReady, dataMutex, readyPc,
                 online, owed>>

-----------------------------------------------------------------------------
(* The main loop *)

\* Slip: the loop returns early without WiFi.
UpdateWifiAndReturn ==
  /\ readyPc = "wifi"
  /\ readyPc' = IF online THEN "ready" ELSE "wifi"
  /\ UNCHANGED <<fetchVars, doc, dataReady, dataMutex, forcePoll, online, owed>>

\* WifiManager::check() and setWifiConnected(), whose flags nothing here reads
UpdateWifi ==
  /\ readyPc = "wifi"
  /\ readyPc' = "ready"
  /\ UNCHANGED <<fetchVars, doc, dataReady, dataMutex, forcePoll, online, owed>>

\* checkReady() finds the mutex taken and comes back in the next loop.
CheckReadyMissed ==
  /\ readyPc = "ready"
  /\ dataMutex = "net"
  /\ readyPc' = "wifi"
  /\ UNCHANGED <<fetchVars, doc, dataReady, dataMutex, forcePoll, online, owed>>

CheckReady ==
  /\ readyPc = "ready"
  /\ dataMutex = "none"
  /\ dataMutex' = "main"
  /\ readyPc' = IF dataReady THEN "callback" ELSE "unlock"
  /\ UNCHANGED <<fetchVars, doc, dataReady, forcePoll, online, owed>>

\* Slip: _dataReady is not cleared.
DataCallbackKeepsFlag ==
  /\ readyPc = "callback"
  /\ doc' = [doc EXCEPT !.fresh = FALSE]
  /\ readyPc' = "unlock"
  /\ UNCHANGED <<fetchState, fetchPc, left, dataReady, dataMutex, forcePoll, online, owed>>

\* onBridgeData(_doc), the screens; then _dataReady = false
DataCallback ==
  /\ readyPc = "callback"
  /\ doc' = [doc EXCEPT !.fresh = FALSE]
  /\ dataReady' = FALSE
  /\ readyPc' = "unlock"
  /\ UNCHANGED <<fetchState, fetchPc, left, dataMutex, forcePoll, online, owed>>

CheckReadyUnlock ==
  /\ readyPc = "unlock"
  /\ dataMutex' = "none"
  /\ readyPc' = "wifi"
  /\ UNCHANGED <<fetchVars, doc, dataReady, forcePoll, online, owed>>

\* DataService::forcePoll(), from the result callback
ForcePoll ==
  /\ readyPc = "wifi"
  /\ forcePoll' = TRUE
  /\ owed' = TRUE
  /\ UNCHANGED <<fetchVars, doc, dataReady, dataMutex, readyPc, online>>

\* WiFi comes and goes.
NetworkChanges ==
  /\ online' = ~ online
  /\ UNCHANGED <<fetchVars, doc, dataReady, dataMutex, forcePoll, readyPc, owed>>

-----------------------------------------------------------------------------

NetworkTask ==
  \/ FirstDelay \/ FetchBegin \/ HttpFails \/ HttpOk
  \/ LockDoc \/ LockDocTimeout \/ ParseError \/ ParseOk
  \/ ProcessQueue \/ DecideSleep \/ ShortenSleep \/ SleepChunk \/ WakeUp \/ BreakSleep

MainLoop ==
  UpdateWifi \/ CheckReadyMissed \/ CheckReady \/ DataCallback \/ CheckReadyUnlock

Next == NetworkTask \/ MainLoop \/ ForcePoll \/ NetworkChanges

Spec == Init /\ [][Next]_dsVars

(***************************************************************************)
(* Both loops run for ever and httpGet() has a timeout.  The network task  *)
(* holds the mutex for one parse per sleep of at least 100 ms and the main *)
(* loop comes round every few milliseconds, so its tries cannot all fall   *)
(* within a parse: a loop that can begin, and a try that can succeed, while*)
(* the mutex is free again and again, one time does (strong fairness).     *)
(***************************************************************************)
Fairness ==
  /\ WF_dsVars(NetworkTask)
  /\ WF_dsVars(MainLoop)
  /\ SF_dsVars(UpdateWifi /\ dataMutex = "none")
  /\ SF_dsVars(CheckReady)

FairSpec == Spec /\ Fairness

-----------------------------------------------------------------------------
(* Properties *)

\* "_dataMutex guards _doc during write/read" (data_service.cpp:10): the callback never
\* reads the document while the network task rewrites it.
DocNotShared == readyPc = "callback" => fetchPc # "parse"

\* A document is handed to the callback once: what checkReady() finds is either new or
\* what a failed parse left.
NoDuplicateDelivery == readyPc = "callback" /\ doc.parsed => doc.fresh

\* No document that was parsed is forgotten: the flag stands for it until the callback.
FreshDocIsFlagged == doc.fresh => dataReady

\* data_service.h:37 "Request an immediate poll (next cycle)": a forcePoll() is never lost
\* between the two places that clear the flag.  When the flag is down again, at most one
\* chunk lies between the network task and its next fetch.
ForcedPollNotDelayed ==
  owed =>
    \/ forcePoll
    \/ fetchPc = "fetch"
    \/ fetchPc \in {"sleep", "wake"} /\ left <= 1

\* Data that is ready reaches the screens.
DataDelivered == dataReady ~> readyPc = "callback"

\* What makes the properties above inductive: the mutex is held exactly while the
\* document is parsed or checkReady() has it, and the flag only falls in the callback.
DataInv ==
  /\ TypeOK
  /\ dataMutex = "net"  <=> fetchPc = "parse"
  /\ dataMutex = "main" <=> readyPc \in {"callback", "unlock"}
  /\ readyPc = "callback" => dataReady
  /\ fetchPc = "parse" => ~ doc.parsed
  /\ dataReady /\ doc.parsed => doc.fresh
  /\ FreshDocIsFlagged
  /\ ForcedPollNotDelayed
=============================================================================
