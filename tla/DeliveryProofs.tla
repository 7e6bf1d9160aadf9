-------------------------- MODULE DeliveryProofs --------------------------
(* The safety of the dashboard poller for every poll interval, and of the screens that it *)
(* delivers to for every document. *)
EXTENDS DataService, Screens, TLAPS

\* The poller starts with no document, no flag and a free mutex.
LEMMA DataInit == Init => DataInv
<1> SUFFICES ASSUME Init PROVE DataInv
  OBVIOUS
<1>1. doc \in [parsed : BOOLEAN, fresh : BOOLEAN] /\ ~ doc.parsed /\ ~ doc.fresh
  BY DEF Init
<1>2. left \in 0..Chunks
  BY ChunksAssumption DEF Init
<1>3. TypeOK
  BY <1>1, <1>2, Zenon DEF Init, TypeOK
<1> QED
  BY <1>1, <1>3 DEF Init, DataInv, FreshDocIsFlagged, ForcedPollNotDelayed

\* A step of the network task keeps the mutex, the flag and the promise of an early
\* poll together.
LEMMA NetworkKeeps == DataInv /\ NetworkTask => DataInv'
<1> SUFFICES ASSUME DataInv, NetworkTask PROVE DataInv'
  OBVIOUS
<1> USE ChunksAssumption DEF DataInv, TypeOK, FreshDocIsFlagged, ForcedPollNotDelayed
<1>1. CASE FirstDelay
  BY <1>1 DEF FirstDelay
<1>2. CASE FetchBegin
  BY <1>2 DEF FetchBegin
<1>3. CASE HttpFails
  BY <1>3 DEF HttpFails
<1>4. CASE HttpOk
  BY <1>4 DEF HttpOk
<1>5. CASE LockDoc
  BY <1>5 DEF LockDoc
<1>6. CASE LockDocTimeout
  BY <1>6 DEF LockDocTimeout
<1>7. CASE ParseError
  BY <1>7 DEF ParseError
<1>8. CASE ParseOk
  BY <1>8 DEF ParseOk
<1>9. CASE ProcessQueue
  BY <1>9 DEF ProcessQueue
<1>10. CASE DecideSleep
  BY <1>10 DEF DecideSleep
<1>11. CASE ShortenSleep
  <2>1. left' \in 0..Chunks /\ left' <= 1 /\ ~ forcePoll'
    BY <1>11 DEF ShortenSleep
  <2>2. TypeOK'
    BY <1>11, <2>1 DEF ShortenSleep
  <2> QED
    BY <1>11, <2>1, <2>2 DEF ShortenSleep
<1>12. CASE SleepChunk
  BY <1>12 DEF SleepChunk
<1>13. CASE WakeUp
  BY <1>13 DEF WakeUp
<1>14. CASE BreakSleep
  BY <1>14 DEF BreakSleep
<1> QED
  BY <1>1, <1>2, <1>3, <1>4, <1>5, <1>6, <1>7, <1>8, <1>9, <1>10, <1>11, <1>12,
     <1>13, <1>14 DEF NetworkTask

\* So does a step of the main loop.
LEMMA MainKeeps == DataInv /\ MainLoop => DataInv'
<1> SUFFICES ASSUME DataInv, MainLoop PROVE DataInv'
  OBVIOUS
<1> USE DEF fetchVars, DataInv, TypeOK, FreshDocIsFlagged, ForcedPollNotDelayed
<1>1. CASE UpdateWifi
  BY <1>1 DEF UpdateWifi
<1>2. CASE CheckReadyMissed
  BY <1>2 DEF CheckReadyMissed
<1>3. CASE CheckReady
  BY <1>3 DEF CheckReady
<1>4. CASE DataCallback
  <2>1. /\ doc' \in [parsed : BOOLEAN, fresh : BOOLEAN]
        /\ doc'.parsed = doc.parsed /\ ~ doc'.fresh
    BY <1>4 DEF DataCallback
  <2>2. TypeOK'
    BY <1>4, <2>1, Zenon DEF DataCallback
  <2> QED
    BY <1>4, <2>1, <2>2 DEF DataCallback
<1>5. CASE CheckReadyUnlock
  BY <1>5 DEF CheckReadyUnlock
<1> QED
  BY <1>1, <1>2, <1>3, <1>4, <1>5 DEF MainLoop

\* And so does every step of the poller and of its environment.
LEMMA DataNext == DataInv /\ [Next]_dsVars => DataInv'
<1> SUFFICES ASSUME DataInv, [Next]_dsVars PROVE DataInv'
  OBVIOUS
<1> USE DEF fetchVars
<1>1. CASE NetworkTask
  BY <1>1, NetworkKeeps
<1>2. CASE MainLoop
  BY <1>2, MainKeeps
<1>3. CASE ForcePoll
  BY <1>3 DEF ForcePoll, DataInv, TypeOK, FreshDocIsFlagged, ForcedPollNotDelayed
<1>4. CASE NetworkChanges
  BY <1>4 DEF NetworkChanges, DataInv, TypeOK, FreshDocIsFlagged, ForcedPollNotDelayed
<1>5. CASE UNCHANGED dsVars
  BY <1>5 DEF dsVars, DataInv, TypeOK, FreshDocIsFlagged, ForcedPollNotDelayed
<1> QED
  BY <1>1, <1>2, <1>3, <1>4, <1>5 DEF Next

\* The inductive invariant holds in every behaviour of the poller.
LEMMA DataInvariance == Spec => []DataInv
BY DataInit, DataNext, PTL DEF Spec

\* Every variable keeps its type.
THEOREM DataTypeCorrect == Spec => []TypeOK
<1>1. DataInv => TypeOK
  BY DEF DataInv
<1> QED
  BY <1>1, DataInvariance, PTL

\* The screens never read the document while the network task writes it.
THEOREM DocExclusive == Spec => []DocNotShared
<1>1. DataInv => DocNotShared
  BY DEF DataInv, DocNotShared
<1> QED
  BY <1>1, DataInvariance, PTL

\* No document is shown twice as new data.
THEOREM DeliveredOnce == Spec => []NoDuplicateDelivery
<1>1. DataInv => NoDuplicateDelivery
  BY DEF DataInv, NoDuplicateDelivery
<1> QED
  BY <1>1, DataInvariance, PTL

\* No parsed document is forgotten before the callback has seen it.
THEOREM NothingForgotten == Spec => []FreshDocIsFlagged
<1>1. DataInv => FreshDocIsFlagged
  BY DEF DataInv
<1> QED
  BY <1>1, DataInvariance, PTL

\* A forced poll costs at most one chunk of sleep, whatever the interval and however
\* forcePoll() falls between the steps of networkTask().
THEOREM ForcedPollPrompt == Spec => []ForcedPollNotDelayed
<1>1. DataInv => ForcedPollNotDelayed
  BY DEF DataInv
<1> QED
  BY <1>1, DataInvariance, PTL

-----------------------------------------------------------------------------
(* The screens *)

\* The sources of the dashboard.
Blocks == {"google_calendar", "microsoft_calendar", "weather", "unfocused_tasks",
           "monday_tasks", "github", "beads", "claude"}

\* What the handlers make of _dayOffset, _activeTab and _viewMode.
Modes == [offset : 0..3, tab : {"all", "unfocused", "monday"}, view : {"hourly", "daily"}]

\* A screen in view whose list was not overtaken has the cards that are due, the screen that
\* is on its way too: it has been built and is not drawn again when it loads.
InViewShows ==
  \A screen \in InView \ overtaken :
    lastData /\ (screen = "weather" => shown.weather = data.weather) =>
      list[screen] = Due(screen, mode)

\* Before the first update no list is drawn, and a screen that comes into view is overtaken.
ScreensInv ==
  /\ DOMAIN data = Blocks \cup {"deferred"}
  /\ \A block \in Blocks : "status" \in DOMAIN data[block]
  /\ NothingOfOlder
  /\ lastData \in BOOLEAN
  /\ ~lastData => shown.weather.status = "missing" /\ InView \subseteq overtaken
  /\ DOMAIN list = Lists
  /\ mode \in Modes
  /\ InViewShows

-----------------------------------------------------------------------------

\* What a block says of a source does not depend on what it was before.
LEMMA BlockForgets ==
  ASSUME NEW answer \in Documents, NEW source, NEW old, NEW other, NEW empty, NEW none, NEW packed,
         "status" \in DOMAIN old, "status" \in DOMAIN other
  PROVE  LET new   == Block(old, answer, source, empty, packed)
             fresh == Block(other, answer, source, none, packed)
         IN  /\ "status" \in DOMAIN new
             /\ new.status = fresh.status
             /\ new.status # "missing" => new = fresh
BY DocumentsAssumption DEF Block

\* A document, parsed into whatever was there, says the same of every source.
LEMMA ParseForgets ==
  ASSUME NEW answer \in Documents, NEW day, NEW old, \A b \in Blocks : "status" \in DOMAIN old[b],
         NEW block \in Blocks
  PROVE  /\ "status" \in DOMAIN Parse(old, answer, day)[block]
         /\ Parse(old, answer, day)[block].status = Parse(NoDashboard, answer, day)[block].status
         /\ Parse(old, answer, day)[block].status # "missing" =>
              Parse(old, answer, day)[block] = Parse(NoDashboard, answer, day)[block]
<1>1. \A b \in Blocks : "status" \in DOMAIN NoDashboard[b]
  BY DEF NoDashboard, Blocks
<1>2. CASE block = "google_calendar"
  <2>1. ASSUME NEW was
        PROVE  Parse(was, answer, day)[block] =
                 Block(was.google_calendar, answer, "google_calendar", was.google_calendar.data,
                         PackCalendars(answer["google_calendar"].data))
    BY <1>2 DEF Parse
  <2> QED
    BY <1>1, <1>2, <2>1, BlockForgets DEF Blocks
<1>3. CASE block = "microsoft_calendar"
  <2>1. ASSUME NEW was
        PROVE  Parse(was, answer, day)[block] =
                 Block(was.microsoft_calendar, answer, "calendar_ms", <<>>,
                         PackEvents(answer["calendar_ms"].data))
    BY <1>3 DEF Parse
  <2> QED
    BY <1>1, <1>3, <2>1, BlockForgets DEF Blocks
<1>4. CASE block = "weather"
  <2>1. ASSUME NEW was
        PROVE  Parse(was, answer, day)[block] =
                 Block(was.weather, answer, "weather", was.weather.data,
                         PackWeather(answer["weather"].data))
    BY <1>4 DEF Parse
  <2> QED
    BY <1>1, <1>4, <2>1, BlockForgets DEF Blocks
<1>5. CASE block = "unfocused_tasks"
  <2>1. ASSUME NEW was
        PROVE  Parse(was, answer, day)[block] =
                 Block(was.unfocused_tasks, answer, "unfocused_tasks", <<>>,
                         PackUnfocused(answer["unfocused_tasks"].data))
    BY <1>5 DEF Parse
  <2> QED
    BY <1>1, <1>5, <2>1, BlockForgets DEF Blocks
<1>6. CASE block = "monday_tasks"
  <2>1. ASSUME NEW was
        PROVE  Parse(was, answer, day)[block] =
                 Block(was.monday_tasks, answer, "monday_tasks", <<>>,
                         PackTasks(answer["monday_tasks"].data))
    BY <1>6 DEF Parse
  <2> QED
    BY <1>1, <1>6, <2>1, BlockForgets DEF Blocks
<1>7. CASE block = "github"
  <2>1. ASSUME NEW was
        PROVE  Parse(was, answer, day)[block] =
                 Block(was.github, answer, "github", was.github.data,
                         PackRepos(answer["github"].data, day))
    BY <1>7 DEF Parse
  <2> QED
    BY <1>1, <1>7, <2>1, BlockForgets DEF Blocks
<1>8. CASE block = "beads"
  <2>1. ASSUME NEW was
        PROVE  Parse(was, answer, day)[block] =
                 Block(was.beads, answer, "citadel", was.beads.data,
                         PackCitadel(answer["citadel"].data))
    BY <1>8 DEF Parse
  <2> QED
    BY <1>1, <1>8, <2>1, BlockForgets DEF Blocks
<1>9. CASE block = "claude"
  <2>1. ASSUME NEW was
        PROVE  Parse(was, answer, day)[block] =
                 Block(was.claude, answer, "claude", was.claude.data,
                         PackClaude(answer["claude"].data))
    BY <1>9 DEF Parse
  <2> QED
    BY <1>1, <1>9, <2>1, BlockForgets DEF Blocks
<1> QED
  BY <1>2, <1>3, <1>4, <1>5, <1>6, <1>7, <1>8, <1>9 DEF Blocks

-----------------------------------------------------------------------------
\* What is due on a screen depends on its own mode only.
LEMMA DueOfMode ==
  ASSUME NEW screen \in Lists, NEW m, NEW n,
         screen = "calendar" => m.offset = n.offset,
         screen = "tasks" => m.tab = n.tab,
         screen = "weather" => m.view = n.view
  PROVE  Due(screen, m) = Due(screen, n)
BY DEF Due, Lists

\* And on the dashboard and the day.
LEMMA DueKept ==
  ASSUME NEW screen \in Lists, NEW m, mode' = m, data' = data,
         screen = "calendar" => today' = today
  PROVE  Due(screen, mode)' = Due(screen, m)
<1>1. CASE screen = "calendar"
  BY <1>1 DEF Due
<1>2. CASE screen = "tasks"
  BY <1>2 DEF Due
<1>3. CASE screen = "weather"
  BY <1>3 DEF Due
<1>4. CASE screen = "devops"
  BY <1>4 DEF Due
<1> QED
  BY <1>1, <1>2, <1>3, <1>4 DEF Lists

\* Nothing is shown before the first document.
LEMMA ScreensStart == ScreensInit => ScreensInv
<1> SUFFICES ASSUME ScreensInit PROVE ScreensInv
  OBVIOUS
<1> USE DEF ScreensInit
<1>1. DOMAIN data = Blocks \cup {"deferred"}
  BY DEF NoDashboard, Blocks
<1>2. \A block \in Blocks : data[block].status = "missing" /\ "status" \in DOMAIN data[block]
  BY DEF NoDashboard, Blocks
<1>3. NothingOfOlder
  <2>1. \A block \in Blocks : Parse(NoDashboard, last.doc, last.day)[block].status = "missing"
    BY <1>2 DEF Blocks, Parse, Block
  <2> QED
    BY <1>1, <1>2, <2>1 DEF NothingOfOlder
<1>4. InView = {}
  BY DEF InView, Lists
<1>5. InViewShows
  BY <1>4 DEF InViewShows
<1>6. shown.weather.status = "missing" /\ DOMAIN list = Lists
  BY DEF NoDashboard
<1>7. lastData \in BOOLEAN
  OBVIOUS
<1>8. mode \in Modes
  <2>1. 0 \in 0..3 /\ "all" \in {"all", "unfocused", "monday"} /\ "hourly" \in {"hourly", "daily"}
    OBVIOUS
  <2> HIDE DEF ScreensInit
  <2>2. mode = [offset |-> 0, tab |-> "all", view |-> "hourly"]
    BY DEF ScreensInit
  <2> QED
    BY <2>1, <2>2 DEF Modes
<1>9. ~lastData => shown.weather.status = "missing" /\ InView \subseteq overtaken
  BY <1>4, <1>6
<1> HIDE DEF ScreensInit
<1> QED
  BY <1>1, <1>2, <1>3, <1>5, <1>6, <1>7, <1>8, <1>9 DEF ScreensInv

\* The first facts of the invariant, when a step leaves the dashboard.
LEMMA DashboardKept ==
  ScreensInv /\ UNCHANGED <<data, last>> =>
    /\ (DOMAIN data = Blocks \cup {"deferred"})'
    /\ (\A block \in Blocks : "status" \in DOMAIN data[block])'
    /\ NothingOfOlder'
BY DEF ScreensInv, NothingOfOlder

\* A document that was parsed overtakes what is in view, until the screens are updated.
LEMMA ParseKeeps == ScreensInv /\ ParseData => ScreensInv'
<1> SUFFICES ASSUME ScreensInv, ParseData PROVE ScreensInv'
  OBVIOUS
<1>1. PICK answer \in Documents : /\ data' = Parse(data, answer, today)
                                /\ last' = [doc |-> answer, day |-> today]
  BY DEF ParseData
<1>2. DOMAIN data' = Blocks \cup {"deferred"}
  BY <1>1 DEF Parse, Blocks
<1>3. \A block \in Blocks : "status" \in DOMAIN data'[block]
  BY <1>1, ParseForgets DEF ScreensInv
<1>4. NothingOfOlder'
  BY <1>1, <1>2, ParseForgets DEF ScreensInv, NothingOfOlder
<1>5. InView' = InView /\ InView \subseteq overtaken'
  BY DEF ParseData, userVars, InView
<1>6. InViewShows'
  BY <1>5 DEF InViewShows
<1> QED
  BY <1>2, <1>3, <1>4, <1>5, <1>6 DEF ParseData, userVars, ScreensInv

\* An update draws the list of lv_scr_act(); of a screen on its way, only the forecast differs
\* from what was drawn before: it alone is made of what the update has cached.
LEMMA UpdateKeeps == ScreensInv /\ UpdateScreens => ScreensInv'
<1> SUFFICES ASSUME ScreensInv, UpdateScreens PROVE ScreensInv'
  OBVIOUS
<1> USE DEF UpdateScreens
<1>1. UNCHANGED <<data, last, mode, current, active, now>> /\ InView' = InView
  BY DEF InView
<1>2. DOMAIN list' = Lists
  BY DEF ScreensInv
<1>3. ASSUME NEW screen \in InView' \ overtaken' PROVE list'[screen] = Due(screen, mode)'
  <2>1. screen \in Lists /\ Due(screen, mode)' = Due(screen, mode)
    BY <1>1, DueKept DEF today, InView
  <2>2. CASE screen = active
    BY <1>1, <2>1, <2>2 DEF ScreensInv, InView
  <2>3. CASE screen # active
    <3>1. screen = current /\ screen # "weather" /\ screen \in InView \ overtaken
      BY <1>1, <1>3, <2>3 DEF InView
    <3>2. lastData
      BY <3>1 DEF ScreensInv
    <3>3. list'[screen] = list[screen]
      BY <2>1, <2>3 DEF ScreensInv
    <3> QED
      BY <2>1, <3>1, <3>2, <3>3 DEF ScreensInv, InViewShows
  <2> QED
    BY <2>2, <2>3
<1> QED
  BY <1>1, <1>2, <1>3, DashboardKept DEF ScreensInv, InViewShows

\* Time changes what is due in the calendar only, and that at midnight.
LEMMA TimeKeeps == ScreensInv /\ TimePasses => ScreensInv'
<1> SUFFICES ASSUME ScreensInv, TimePasses PROVE ScreensInv'
  OBVIOUS
<1> USE DEF TimePasses, userVars
<1>1. InView' = InView /\ overtaken \subseteq overtaken'
  BY DEF InView
<1>2. ASSUME NEW screen \in InView' \ overtaken' PROVE Due(screen, mode)' = Due(screen, mode)
  <2>1. screen = "calendar" => today' = today
    BY <1>1, <1>2 DEF today
  <2> QED
    BY <1>2, <2>1, DueKept DEF InView
<1>3. InViewShows'
  BY <1>1, <1>2 DEF ScreensInv, InViewShows
<1> QED
  BY <1>1, <1>3, DashboardKept DEF ScreensInv

\* A screen that is shown is drawn in its first mode; one that stays in view keeps its own.
LEMMA ShowKeeps == ASSUME NEW next, ScreensInv, Show(next) PROVE ScreensInv'
<1> USE DEF Show
<1>1. mode' = Reset(next) /\ mode' \in Modes
  <2>1. mode \in Modes
    BY DEF ScreensInv
  <2>2. Reset(next) \in Modes
    BY <2>1 DEF Reset, Modes
  <2> QED
    BY <2>2 DEF OnShow
<1>2. DOMAIN list' = Lists
  BY DEF OnShow, Redraw, ScreensInv
<1>3. InView' \subseteq InView \cup {next}
  BY DEF InView
<1>4. ~lastData' => InView' \subseteq overtaken'
  BY <1>3 DEF OnShow, ScreensInv, InView
<1>5. ASSUME NEW screen \in InView' \ overtaken', lastData',
             screen = "weather" => shown'.weather = data'.weather
      PROVE  list'[screen] = Due(screen, mode)'
  <2>1. screen \in Lists /\ Due(screen, mode)' = Due(screen, Reset(next))
    BY <1>1, DueKept DEF today, InView
  <2>2. CASE screen = next
    <3>3. CASE screen = "weather" /\ data.weather.status = "ok"
      BY <1>5, <2>1, <2>2, <3>3 DEF OnShow, Redraw, ScreensInv, Due, Reset
    <3>4. CASE ~(screen = "weather" /\ data.weather.status = "ok")
      BY <1>5, <2>1, <2>2, <3>4 DEF OnShow, Redraw, ScreensInv
    <3> QED
      BY <3>3, <3>4
  <2>3. CASE screen # next
    <3>1. screen \in InView \ overtaken /\ screen \in Lists
      BY <1>3, <1>5, <2>3 DEF OnShow, Redraw, InView
    <3>2. list'[screen] = list[screen]
      BY <2>3, <3>1 DEF OnShow, Redraw, ScreensInv
    <3>3. Due(screen, Reset(next)) = Due(screen, mode)
      <4>1. mode \in Modes
        BY DEF ScreensInv
      <4> QED
        BY <2>3, <3>1, <4>1, DueOfMode DEF Reset, Modes
    <3> QED
      BY <1>5, <2>1, <3>1, <3>2, <3>3 DEF ScreensInv, InViewShows
  <2> QED
    BY <2>2, <2>3
<1> QED
  BY <1>1, <1>2, <1>4, <1>5, DashboardKept DEF ScreensInv, InViewShows

\* A handler of the screen in view, which draws what is due or leaves what is.
LEMMA DrawKeeps ==
  ASSUME ScreensInv, NEW screen \in Lists, NEW m \in Modes,
         NEW ready, NEW cards, DrawAs(screen, m, ready, cards),
         \A other \in Lists \ {screen} : Due(other, m) = Due(other, mode),
         ready => lastData,
         ready /\ (screen = "weather" => shown.weather = data.weather) => cards = Due(screen, m),
         ~ready /\ lastData => Due(screen, m) = Due(screen, mode)
                                 \/ (screen = "weather" /\ shown.weather # data.weather)
  PROVE  ScreensInv'
<1> USE DEF DrawAs
<1>1. InView' = InView /\ mode' = m
  BY DEF InView
<1>2. DOMAIN list' = Lists
  BY DEF Redraw, ScreensInv
<1>3. ~lastData' => InView' \subseteq overtaken'
  BY <1>1 DEF ScreensInv
<1>4. ASSUME NEW seen \in InView' \ overtaken', lastData',
             seen = "weather" => shown'.weather = data'.weather
      PROVE  list'[seen] = Due(seen, mode)'
  <2>1. Due(seen, mode)' = Due(seen, m)
    BY <1>1, <1>4, DueKept DEF today, InView
  <2>2. seen \in Lists /\ seen \in InView
    BY <1>1, <1>4 DEF InView
  <2>3. CASE seen = screen /\ ready
    BY <1>1, <1>4, <2>1, <2>3 DEF Redraw, ScreensInv
  <2>4. CASE seen # screen \/ ~ready
    <3>1. seen \notin overtaken /\ list'[seen] = list[seen]
      BY <1>4, <2>2, <2>4 DEF Redraw, ScreensInv
    <3>2. Due(seen, m) = Due(seen, mode)
      BY <1>4, <2>2, <2>4
    <3> QED
      BY <1>1, <1>4, <2>1, <2>2, <3>1, <3>2 DEF ScreensInv, InViewShows
  <2> QED
    BY <2>3, <2>4
<1> QED
  BY <1>1, <1>2, <1>3, <1>4, DashboardKept DEF ScreensInv, InViewShows

\* The calendar is drawn for the day that is picked.
LEMMA PickDayKeeps == ScreensInv /\ PickDay => ScreensInv'
<1> SUFFICES ASSUME ScreensInv, PickDay PROVE ScreensInv'
  OBVIOUS
<1>1. PICK offset \in ({0, mode.offset - 1, mode.offset + 1} \cap 0..3) :
        LET m == [mode EXCEPT !.offset = offset]
        IN  DrawAs("calendar", m, lastData, Due("calendar", m))
  BY DEF PickDay
<1> DEFINE m == [mode EXCEPT !.offset = offset]
<1>2. mode \in Modes /\ m \in Modes
  BY DEF ScreensInv, Modes
<1>3. \A other \in Lists \ {"calendar"} : Due(other, m) = Due(other, mode)
  BY <1>2, DueOfMode DEF Modes
<1>4. "calendar" \in Lists /\ DrawAs("calendar", m, lastData, Due("calendar", m))
  BY <1>1 DEF Lists
<1> HIDE DEF m
<1> QED
  BY <1>2, <1>3, <1>4, DrawKeeps

\* The tasks are drawn for the tab that is set.
LEMMA SetTabKeeps == ScreensInv /\ SetTab => ScreensInv'
<1> SUFFICES ASSUME ScreensInv, SetTab PROVE ScreensInv'
  OBVIOUS
<1>1. PICK tab \in {"all", "unfocused", "monday"} :
        LET m == [mode EXCEPT !.tab = tab]
        IN  DrawAs("tasks", m, lastData, Due("tasks", m))
  BY DEF SetTab
<1> DEFINE m == [mode EXCEPT !.tab = tab]
<1>2. mode \in Modes /\ m \in Modes
  BY DEF ScreensInv, Modes
<1>3. \A other \in Lists \ {"tasks"} : Due(other, m) = Due(other, mode)
  BY <1>2, DueOfMode DEF Modes
<1>4. "tasks" \in Lists /\ DrawAs("tasks", m, lastData, Due("tasks", m))
  BY <1>1 DEF Lists
<1> HIDE DEF m
<1> QED
  BY <1>2, <1>3, <1>4, DrawKeeps

\* The forecast is drawn from the weather of the last update, or there is none to draw.
LEMMA SetViewKeeps == ScreensInv /\ SetView => ScreensInv'
<1> SUFFICES ASSUME ScreensInv, SetView PROVE ScreensInv'
  OBVIOUS
<1>1. PICK view \in {"hourly", "daily"} \ {mode.view} :
        DrawAs("weather", [mode EXCEPT !.view = view], shown.weather.status = "ok",
               Tiles(shown.weather, view))
  BY DEF SetView
<1> DEFINE m == [mode EXCEPT !.view = view]
<1>2. mode \in Modes /\ m \in Modes /\ m.view = view
  BY DEF ScreensInv, Modes
<1>3. \A other \in Lists \ {"weather"} : Due(other, m) = Due(other, mode)
  BY <1>2, DueOfMode DEF Modes
<1>4. shown.weather.status = "ok" => lastData
  BY DEF ScreensInv
<1>5. shown.weather = data.weather => Tiles(shown.weather, view) = Due("weather", m)
  BY <1>2 DEF Due
<1>6. shown.weather.status # "ok" /\ shown.weather = data.weather =>
        Due("weather", m) = Due("weather", mode)
  BY DEF Due, Tiles
<1>7. "weather" \in Lists
  BY DEF Lists
<1>8. DrawAs("weather", m, shown.weather.status = "ok", Tiles(shown.weather, view))
  BY <1>1
<1> HIDE DEF m
<1> QED
  BY <1>2, <1>3, <1>4, <1>5, <1>6, <1>7, <1>8, DrawKeeps

\* The rest changes neither a list nor what is due.
LEMMA RestKeeps ==
  ASSUME ScreensInv, UNCHANGED <<data, last, lastData, shown, list, mode, now, overtaken>>,
         InView' \subseteq InView
  PROVE  ScreensInv'
<1>1. \A screen \in Lists : Due(screen, mode)' = Due(screen, mode)
  BY DueKept DEF today
<1>2. InViewShows'
  BY <1>1 DEF ScreensInv, InViewShows, InView
<1> QED
  BY <1>2, DashboardKept DEF ScreensInv

\* Every step keeps the invariant: the callback's, the clock's and the user's.
LEMMA ScreensStep == ScreensInv /\ [ScreensNext]_screensVars => ScreensInv'
<1> SUFFICES ASSUME ScreensInv, [ScreensNext]_screensVars PROVE ScreensInv'
  OBVIOUS
<1>1. CASE UpdateDropped
  BY <1>1, RestKeeps DEF UpdateDropped, userVars, InView
<1>2. CASE ScreenLoads
  BY <1>2, RestKeeps DEF ScreenLoads, InView
<1>3. CASE ClosePopup
  BY <1>3, RestKeeps DEF ClosePopup, InView
<1>4. CASE \E card \in DOMAIN list["devops"] : TapRepo(card)
  BY <1>4, RestKeeps DEF TapRepo, InView
<1>5. CASE UNCHANGED screensVars
  BY <1>5, RestKeeps DEF screensVars, userVars, InView
<1>6. CASE \E screen \in tour : Show(screen)
  BY <1>6, ShowKeeps
<1> QED
  BY <1>1, <1>2, <1>3, <1>4, <1>5, <1>6, ParseKeeps, UpdateKeeps, TimeKeeps, PickDayKeeps,
     SetTabKeeps, SetViewKeeps DEF ScreensNext

\* The invariant holds in every state that the screens reach.
LEMMA ScreensInvariance == ScreensSpec => []ScreensInv
BY ScreensStart, ScreensStep, PTL DEF ScreensSpec

\* What a screen may show of a source is what the last document says of it: for all documents,
\* however few of the sources they have, in any order, although parse() clears no block.
THEOREM OlderIsGone == ScreensSpec => []NothingOfOlder
<1>1. ScreensInv => NothingOfOlder
  BY DEF ScreensInv
<1> QED
  BY <1>1, ScreensInvariance, PTL

\* The list of the screen in view is the one that its data, its mode and the day ask for, unless
\* it was overtaken: for all documents, limits and times, and on every way through the screens.
THEOREM ListsAreFresh == ScreensSpec => []ScreenShows
<1>1. ScreensInv => ScreenShows
  BY DEF ScreensInv, InViewShows, ScreenShows, InView
<1> QED
  BY <1>1, ScreensInvariance, PTL

\* A tap opens the popup of the repository on the card, although the handler finds it by its
\* index in the data of now: the list in view was built from that data, unless overtaken.
THEOREM TapsOpenTheirs == ScreensSpec => TapOpensRepo
<1>1. ASSUME ScreensInv, NEW card \in DOMAIN list["devops"], TapRepo(card),
             "devops" \notin overtaken
      PROVE  popup' = list["devops"][card]
  <2>1. list["devops"] = Due("devops", mode)
    BY <1>1 DEF ScreensInv, InViewShows, InView, TapRepo, Lists
  <2>2. Due("devops", mode) = RepoCards(data)
    BY DEF Due
  <2> QED
    BY <1>1, <2>1, <2>2 DEF TapRepo
<1>2. ScreensInv => [\A card \in DOMAIN list["devops"] :
        TapRepo(card) /\ "devops" \notin overtaken => popup' = list["devops"][card]]_screensVars
  BY <1>1
<1> QED
  BY <1>2, ScreensInvariance, PTL DEF TapOpensRepo
=============================================================================
