------------------------------- MODULE Screens -------------------------------
(***************************************************************************)
(* The other sources of the dashboard from the document of the bridge to   *)
(* the display: DashboardParser::parse() in firmware/src/dashboard_data.cpp*)
(* the data callback of platform/p4/main_p4.cpp, the screen manager, and   *)
(* the home, calendar, tasks, weather and devops screens under ui/.        *)
(*                                                                         *)
(* As in HAScreen, the callback parses without the lock of LVGL and needs  *)
(* it to update the screens; LVGL's handlers run between any two steps.    *)
(* update() writes the labels of every screen, but builds a list only on   *)
(* the screen in view: the others are built by their onShow().             *)
(***************************************************************************)
EXTENDS Integers, SequencesExt

CONSTANTS
  Documents,     \* the answers of the bridge: functions from some sources to their entries
  Null,          \* no data in an entry, no repository in the popup
  MaxEvents,     \* MAX_EVENTS
  MaxTasks,      \* MAX_TASKS
  MaxRepos,      \* MAX_REPOS
  MaxRuns,       \* MAX_CI_RUNS
  MaxHourly,     \* MAX_HOURLY
  MaxDaily,      \* MAX_DAILY
  MaxProjects,   \* MAX_BEADS_PROJECTS
  MaxMerged,     \* tasks that updateTasks() has space for
  TaskRows,      \* rows of the tasks card of the home screen
  ApptRows,      \* MAX_APPT_ROWS
  Moments,       \* times of the clock, in order: a day, 0 while it is not set, and a minute
  Tours          \* sets of screens between which the user may move

\* _build_source_entry(): an entry has data unless it is missing.
ASSUME DocumentsAssumption ==
  \A doc \in Documents : \A source \in DOMAIN doc :
    /\ doc[source].status \in {"ok", "stale", "missing"}
    /\ doc[source].data = Null <=> doc[source].status = "missing"

Lists == {"calendar", "tasks", "weather", "devops"}

Cut(n, s) == SubSeq(s, 1, IF Len(s) < n THEN Len(s) ELSE n)

uint8(n) == n % 256

-----------------------------------------------------------------------------
(* DashboardParser::parse() *)

\* Slip: a source that the document leaves out keeps its status too.
BlockKeepsStatus(old, doc, source, empty, packed) ==
  IF source \notin DOMAIN doc THEN old
  ELSE [status |-> doc[source].status,
        data   |-> IF doc[source].data = Null THEN empty ELSE packed]

\* A block is left as it is but for its status when the document leaves its source out;
\* without data it keeps what it has, or is emptied.  packed is what its data is cut to.
Block(old, doc, source, empty, packed) ==
  IF source \notin DOMAIN doc THEN [old EXCEPT !.status = "missing"]
  ELSE [status |-> doc[source].status,
        data   |-> IF doc[source].data = Null THEN empty ELSE packed]

PackCalendars(calendars) == Cut(MaxEvents, FlattenSeq(calendars))

PackEvents(events) == Cut(MaxEvents, events)

PackWeather(w) == [w EXCEPT !.hourly = Cut(MaxHourly, w.hourly), !.daily = Cut(MaxDaily, w.daily)]

\* parseTaskItems().  The tasks of Unfocused come with the count of the deferred ones.
PackTasks(tasks) == Cut(MaxTasks, tasks)

PackUnfocused(t) == PackTasks(t.tasks)

\* unfocused_deferred_count
Deferred(doc) ==
  IF "unfocused_tasks" \notin DOMAIN doc \/ doc["unfocused_tasks"].data = Null THEN 0
  ELSE uint8(doc["unfocused_tasks"].data.deferred)

\* daysSinceISO(): 255 is unknown, and all that is older.
Age(created, day) ==
  IF day = 0 \/ day - created > 255 THEN 255
  ELSE IF day < created THEN 0 ELSE day - created

OldestPR(prs, day) ==
  LET known == {Age(prs[i].created, day) : i \in DOMAIN prs} \ {255}
  IN  CHOOSE age \in known \cup {0} : \A a \in known : a <= age

Health(ci_status, oldest) ==
  LET ci == CASE ci_status = "failing" -> 2 [] ci_status = "pending" -> 1 [] OTHER -> 0
  IN  IF oldest > 7 THEN 2
      ELSE IF oldest > 3 /\ ci < 1 THEN 1 ELSE ci

PackRepo(repo, day) ==
  LET oldest == OldestPR(repo.prs, day)
  IN  [name       |-> repo.name,
       prs        |-> uint8(Len(repo.prs)),
       drafts     |-> uint8(Len(SelectSeq(repo.prs, LAMBDA pr : pr.draft))),
       issues     |-> uint8(repo.issues),
       ci_status  |-> repo.ci_status,
       health     |-> Health(repo.ci_status, oldest),
       ci_runs    |-> Cut(MaxRuns, repo.ci)]

PackRepos(repos, day) == Cut(MaxRepos, [i \in DOMAIN repos |-> PackRepo(repos[i], day)])

\* The projects that Citadel could not answer for are skipped.
PackCitadel(c) ==
  LET answered == SelectSeq(c.projects, LAMBDA p : ~p.error)
      Count(p) == [name |-> p.name, open |-> uint8(p.open), blocked |-> uint8(p.blocked)]
  IN  [open |-> uint8(c.open), blocked |-> uint8(c.blocked),
       projects |-> Cut(MaxProjects, [i \in DOMAIN answered |-> Count(answered[i])])]

\* Two short texts.
PackClaude(c) == [status |-> c.status, current_task |-> c.current_task]

Parse(old, doc, day) ==
  [google_calendar    |-> Block(old.google_calendar, doc, "google_calendar",
                                old.google_calendar.data,
                                PackCalendars(doc["google_calendar"].data)),
   microsoft_calendar |-> Block(old.microsoft_calendar, doc, "calendar_ms", <<>>,
                                PackEvents(doc["calendar_ms"].data)),
   weather            |-> Block(old.weather, doc, "weather", old.weather.data,
                                PackWeather(doc["weather"].data)),
   unfocused_tasks    |-> Block(old.unfocused_tasks, doc, "unfocused_tasks", <<>>,
                                PackUnfocused(doc["unfocused_tasks"].data)),
   monday_tasks       |-> Block(old.monday_tasks, doc, "monday_tasks", <<>>,
                                PackTasks(doc["monday_tasks"].data)),
   github             |-> Block(old.github, doc, "github", old.github.data,
                                PackRepos(doc["github"].data, day)),
   beads              |-> Block(old.beads, doc, "citadel", old.beads.data,
                                PackCitadel(doc["citadel"].data)),
   claude             |-> Block(old.claude, doc, "claude", old.claude.data,
                                PackClaude(doc["claude"].data)),
   deferred           |-> Deferred(doc)]

\* dashData before the first document.
NoDashboard ==
  LET Nothing(d) == [status |-> "missing", data |-> d]
  IN  [google_calendar |-> Nothing(<<>>), microsoft_calendar |-> Nothing(<<>>),
       weather         |-> Nothing([current |-> Null, hourly |-> <<>>, daily |-> <<>>]),
       unfocused_tasks |-> Nothing(<<>>), monday_tasks |-> Nothing(<<>>),
       github          |-> Nothing(<<>>),
       beads           |-> Nothing([open |-> 0, blocked |-> 0, projects |-> <<>>]),
       claude          |-> Nothing(Null), deferred |-> 0]

-----------------------------------------------------------------------------
(* What is drawn of a dashboard *)


\* The sort of updateAppt(), updateTasks() and rebuildTaskList(), by the key of
\* an element: not a stable one.
ExchangeSort(key, s) ==
  FoldLeft(LAMBDA t, i :
             FoldLeft(LAMBDA u, j : IF key[u[j]] < key[u[i]]
                                      THEN [u EXCEPT ![i] = u[j], ![j] = u[i]] ELSE u,
                      t, [k \in 1..(Len(s) - i) |-> i + k]),
           s, [i \in 1..Len(s) |-> i])

\* taskPrioRank(): only the tasks of Unfocused have a rank.
Rank(task) ==
  IF task.source # "unfocused" THEN 99
  ELSE CASE task.priority = "Critical" -> 0 [] task.priority = "High" -> 1
         [] task.priority = "Medium" -> 2   [] task.priority = "Low" -> 3
         [] OTHER -> 99

ByRank(tasks) == [task \in ToSet(tasks) |-> Rank(task)]

\* isoStartMinutes(): the start of an event without a time, -1, is that of the day.
StartMinutes(event) == IF event.start = -1 THEN 0 ELSE event.start

ByStart(events) == [event \in ToSet(events) |-> StartMinutes(event)]

\* isoEndMinutes() against nowMinutes(): an end without a time is never over.
Over(event, minute) == event.end >= 0 /\ event.end <= minute

DataIf(usable, block) == IF block.status \in usable THEN block.data ELSE <<>>

CalendarEvents(d) == <<DataIf({"ok", "stale"}, d.google_calendar),
                       DataIf({"ok", "stale"}, d.microsoft_calendar)>>

\* rebuildEventList()
EventCards(d, day) ==
  SelectSeq(FlattenSeq(CalendarEvents(d)), LAMBDA event : event.day = day)

\* rebuildTaskList().  No task that the bridge serves is completed: those would go last.
TaskCards(d, tab) ==
  LET unfocused == IF tab \in {"all", "unfocused"} THEN DataIf({"ok"}, d.unfocused_tasks) ELSE <<>>
      monday    == IF tab \in {"all", "monday"} THEN DataIf({"ok"}, d.monday_tasks) ELSE <<>>
  IN  ExchangeSort(ByRank(unfocused \o monday), unfocused \o monday)

\* rebuildForecast()
Tiles(weather, view) == IF weather.status = "ok" THEN weather.data[view] ELSE <<>>

\* rebuildRepoList()
RepoCards(d) == DataIf({"ok"}, d.github)

\* updateAppt(): what is left of today, with the count of what has no row.
Appointments(d, at) ==
  LET raw    == Cut(MaxEvents, FlattenSeq(CalendarEvents(d)))
      today  == SelectSeq(raw, LAMBDA event : event.day = at.day /\ ~Over(event, at.minute))
  IN  [rows |-> Cut(ApptRows, ExchangeSort(ByStart(today), today)),
       more |-> IF Len(today) > ApptRows THEN Len(today) - ApptRows ELSE 0]

\* The tasks that updateTasks() looks at, and the rows that it shows.
Merged(d) == Cut(MaxMerged, DataIf({"ok"}, d.unfocused_tasks) \o DataIf({"ok"}, d.monday_tasks))

TopTasks(d) == Cut(TaskRows, ExchangeSort(ByRank(Merged(d)), Merged(d)))

-----------------------------------------------------------------------------
(* The state *)

VARIABLES
  data,         \* dashData, to which every _lastData points
  last,         \* history: the document that was parsed last, and the day on which it was
  lastData,     \* are the _lastData set
  shown,        \* what update() last wrote to the labels of the screens and _cachedWeather
  home,         \* the rows of the home screen
  list,         \* the cards of _eventList, _taskList, _forecastRow and _repoList
  mode,         \* _dayOffset, _activeTab and _viewMode
  popup,        \* the repository that _ciPopup was opened for, or Null
  current,      \* ScreenManager's current
  active,       \* lv_scr_act()
  callbackPc,   \* onBridgeData(): "idle", or "update" once it has parsed
  now,          \* the moment that it is
  tour,         \* the screens between which the user moves
  overtaken     \* history: the screens in view that were not drawn from what is so now

userVars    == <<list, mode, popup, current, active>>
screensVars == <<data, last, lastData, shown, home, userVars, callbackPc, now, tour, overtaken>>

today == Moments[now].day

ScreensInit ==
  /\ data = NoDashboard
  /\ last = [doc |-> <<>>, day |-> 0]
  /\ lastData = FALSE
  /\ shown = NoDashboard
  /\ home = [appts |-> <<>>, more |-> 0, tasks |-> <<>>]
  /\ list = [screen \in Lists |-> <<>>]
  /\ mode = [offset |-> 0, tab |-> "all", view |-> "hourly"]
  /\ popup = Null
  /\ current = "home" /\ active = "home"
  /\ callbackPc = "idle"
  /\ now = 1
  /\ tour \in Tours
  /\ overtaken = {}

InView == {current, active} \cap Lists

\* The cards of a screen by what is known now.
Due(screen, m) ==
  CASE screen = "calendar" -> EventCards(data, today + m.offset)
    [] screen = "tasks"    -> TaskCards(data, m.tab)
    [] screen = "weather"  -> Tiles(data.weather, m.view)
    [] screen = "devops"   -> RepoCards(data)

Redraw(screen, cards) ==
  /\ list' = [list EXCEPT ![screen] = cards]
  /\ overtaken' = overtaken \ {screen}

-----------------------------------------------------------------------------
(* onBridgeData() *)

ParseData ==
  /\ callbackPc = "idle"
  /\ \E doc \in Documents :
       /\ data' = Parse(data, doc, today)
       /\ last' = [doc |-> doc, day |-> today]
  /\ callbackPc' = "update"
  /\ overtaken' = overtaken \cup InView
  /\ UNCHANGED <<lastData, shown, home, userVars, now, tour>>

\* ScreenManager::updateAll() and the update() of each screen.  A forecast that is about
\* to come into view was drawn from the weather of before.
UpdateScreens ==
  /\ callbackPc = "update"
  /\ callbackPc' = "idle"
  /\ lastData' = TRUE
  /\ shown' = data
  /\ home' = LET appts == Appointments(data, Moments[now])
             IN  [appts |-> appts.rows, more |-> appts.more, tasks |-> TopTasks(data)]
  /\ popup' = Null
  /\ IF active \in Lists
       THEN list' = [list EXCEPT ![active] = Due(active, mode)]
       ELSE list' = list
  /\ overtaken' = (overtaken \cup ({current} \cap {"weather"})) \ {active}
  /\ UNCHANGED <<data, last, mode, current, active, now, tour>>

\* hal::display::lock(100) fails.
UpdateDropped ==
  /\ callbackPc = "update"
  /\ callbackPc' = "idle"
  /\ UNCHANGED <<data, last, lastData, shown, home, userVars, now, tour, overtaken>>

\* The clock is set, or goes on.  Nothing is drawn at midnight.
TimePasses ==
  /\ now < Len(Moments)
  /\ now' = now + 1
  /\ overtaken' = IF Moments[now'].day # today THEN overtaken \cup (InView \cap {"calendar"})
                                               ELSE overtaken
  /\ UNCHANGED <<data, last, lastData, shown, home, userVars, callbackPc, tour>>

-----------------------------------------------------------------------------
(* The handlers of LVGL *)

\* What onShow() resets: Calendar starts at today, Tasks with all of them.
Reset(screen) ==
  CASE screen = "calendar" -> [mode EXCEPT !.offset = 0]
    [] screen = "tasks"    -> [mode EXCEPT !.tab = "all"]
    [] OTHER               -> mode

\* Slip: a list is only built when the screen has none.
OnShowIfEmpty(screen) ==
  /\ mode' = Reset(screen)
  /\ IF screen \in Lists /\ lastData /\ list[screen] = <<>>
       THEN Redraw(screen, Due(screen, Reset(screen)))
       ELSE UNCHANGED <<list, overtaken>>

\* onShow(): the forecast is that of _cachedWeather, if there is weather by now.
OnShow(screen) ==
  /\ mode' = Reset(screen)
  /\ IF screen \in Lists /\ lastData
       THEN Redraw(screen, IF screen = "weather" /\ data.weather.status = "ok"
                             THEN Tiles(shown.weather, mode.view)
                             ELSE Due(screen, Reset(screen)))
       ELSE /\ list' = list
            /\ overtaken' = overtaken \cup ({screen} \cap Lists)

\* ScreenManager::show(): the screen that is left, when it is another, closes its popup.
Show(screen) ==
  /\ screen \in tour
  /\ current' = screen
  /\ popup' = IF current = "devops" /\ screen # current THEN Null ELSE popup
  /\ OnShow(screen)
  /\ UNCHANGED <<data, last, lastData, shown, home, active, callbackPc, now, tour>>

\* The animation of lv_scr_load_anim() begins: the screen becomes lv_scr_act().
ScreenLoads ==
  /\ active # current
  /\ active' = current
  /\ UNCHANGED <<data, last, lastData, shown, home, list, mode, popup, current, callbackPc, now,
                 tour, overtaken>>

\* A handler that changes how its list is drawn, and draws it if there is something to draw.
DrawAs(screen, m, ready, cards) ==
  /\ active = screen
  /\ mode' = m
  /\ IF ready THEN Redraw(screen, cards) ELSE UNCHANGED <<list, overtaken>>
  /\ UNCHANGED <<data, last, lastData, shown, home, popup, current, active, callbackPc, now,
                 tour>>

\* onToday(), onPrev() and onNext()
PickDay ==
  \E offset \in ({0, mode.offset - 1, mode.offset + 1} \cap 0..3) :
    LET m == [mode EXCEPT !.offset = offset]
    IN  DrawAs("calendar", m, lastData, Due("calendar", m))

\* setActiveTab()
SetTab ==
  \E tab \in {"all", "unfocused", "monday"} :
    LET m == [mode EXCEPT !.tab = tab]
    IN  DrawAs("tasks", m, lastData, Due("tasks", m))

\* onToggleCb() and setViewMode(), which draw from _cachedWeather
SetView ==
  \E view \in {"hourly", "daily"} \ {mode.view} :
    DrawAs("weather", [mode EXCEPT !.view = view], shown.weather.status = "ok",
           Tiles(shown.weather, view))

\* repoCardClickCb(): the index of the card, in the data of now.
TapRepo(card) ==
  /\ active = "devops"
  /\ lastData /\ card \in DOMAIN RepoCards(data)
  /\ popup' = RepoCards(data)[card]
  /\ UNCHANGED <<data, last, lastData, shown, home, list, mode, current, active, callbackPc, now,
                 tour, overtaken>>

\* ciPopupCloseCb()
ClosePopup ==
  /\ popup # Null
  /\ popup' = Null
  /\ UNCHANGED <<data, last, lastData, shown, home, list, mode, current, active, callbackPc, now,
                 tour, overtaken>>

-----------------------------------------------------------------------------

ScreensNext ==
  \/ ParseData \/ UpdateScreens \/ UpdateDropped \/ TimePasses
  \/ ScreenLoads \/ PickDay \/ SetTab \/ SetView \/ ClosePopup
  \/ \E screen \in tour : Show(screen)
  \/ \E card \in DOMAIN list["devops"] : TapRepo(card)

ScreensSpec == ScreensInit /\ [][ScreensNext]_screensVars

-----------------------------------------------------------------------------
(* Properties *)

\* "Each source section fully overwrites its block when present": what a screen may show of
\* a source is what the last document says of it, whatever was parsed before, although
\* blocks are never cleared.  A block that keeps older data is one that no screen shows.
NothingOfOlder ==
  LET fresh == Parse(NoDashboard, last.doc, last.day)
  IN  \A block \in DOMAIN data \ {"deferred"} :
        /\ data[block].status = fresh[block].status
        /\ data[block].status # "missing" => data[block] = fresh[block]

\* The list of the screen in view is what the data, its mode and the day ask for, unless it
\* was overtaken: updates behind another screen, changes of the mode and data that came
\* between leaving a screen and its load are never left out.  The forecast is that of the
\* last update that got the lock.
ScreenShows ==
  \A screen \in Lists \ overtaken :
    active = screen /\ lastData /\ (screen = "weather" => shown.weather = data.weather) =>
      list[screen] = Due(screen, mode)

\* The popup is that of the repository whose card was tapped, although the handler looks its
\* index up in the data of now, unless the list was overtaken.
TapOpensRepo ==
  [][\A card \in DOMAIN list["devops"] :
       TapRepo(card) /\ "devops" \notin overtaken => popup' = list["devops"][card]]_screensVars

\* Rows are the first of a sequence: in order, and nothing that was left out goes before one.
AreFirst(rows, n, s, key) ==
  /\ Len(rows) = IF Len(s) < n THEN Len(s) ELSE n
  /\ ToSet(rows) \subseteq ToSet(s)
  /\ \A i \in DOMAIN rows : \A j \in 1..(i - 1) : key[rows[j]] <= key[rows[i]]
  /\ \A other \in ToSet(s) \ ToSet(rows) : \A i \in DOMAIN rows : key[rows[i]] <= key[other]

=============================================================================
