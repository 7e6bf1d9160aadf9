------------------------------- MODULE HAScreen -------------------------------
(***************************************************************************)
(* The Home Assistant screen from end to end: the adapter of the bridge    *)
(* with its cached registry, the dashboard, the data callback of the       *)
(* device, the screen manager and ui/screens/ha_screen.cpp.                *)
(*                                                                         *)
(* The device is the P4, where the callback parses without the lock of     *)
(* LVGL and updates the screens if it gets that lock within 100 ms; the S3 *)
(* does the two without a pause, and needs no lock.  LVGL's handlers run   *)
(* between any two steps.                                                  *)
(***************************************************************************)
EXTENDS HADashboard

CONSTANT House   \* what Home Assistant can answer at different times, see HADashboard

Houses == DOMAIN House

None == "none"

VARIABLES
  entry,        \* the source home_assistant as the bridge's next dashboard has it
  data,         \* dashData.home_assistant, to which _lastData points
  lastData,     \* is _lastData set
  list,         \* what _entityList was last built from
  groupByRoom,  \* _groupByRoom
  current,      \* ScreenManager's current
  active,       \* lv_scr_act()
  modal,        \* the entity that HAControlModal was opened for, or None
  callbackPc,   \* onBridgeData(): "idle", or "update" once it has parsed
  overtaken     \* history: since the list was drawn other data was parsed with it in view

uiVars     == <<list, groupByRoom, current, active, modal>>
vars == <<entry, data, lastData, uiVars, callbackPc, overtaken>>

\* A payload is known by the house it lists the states of and the one it has the registry of.
NoPayload == <<None, None>>

Payload == [of \in Houses \X (Houses \cup {None}) |->
              ParseStates(House[of[1]].states, IF of[2] = None THEN NoRegistry ELSE House[of[2]])]

HA == [of \in DOMAIN Payload \cup {NoPayload} |->
         IF of = NoPayload THEN EmptyHA ELSE ParseHA(Payload[of])]

CardsOf == [drawn \in {HA[of] : of \in DOMAIN HA} \X BOOLEAN |-> Cards(drawn[1], drawn[2])]

Message == [kind |-> "message", ha |-> EmptyHA, byRoom |-> FALSE]

Init ==
  /\ entry = [status |-> "missing", payload |-> NoPayload]
  /\ data = [status |-> "missing", ha |-> EmptyHA]
  /\ lastData = FALSE
  /\ list = [Message EXCEPT !.kind = None]
  /\ groupByRoom = TRUE
  /\ current = "home" /\ active = "home"
  /\ modal = None
  /\ callbackPc = "idle"
  /\ overtaken = FALSE

-----------------------------------------------------------------------------
(* Home Assistant and the bridge *)

\* _registry is that of the last poll since the bridge was started.
registry == entry.payload[2]

\* _fetch_registries(), and what poll() makes of it: within _registry_ttl, without the
\* label, or when the WebSocket fails, an old registry is better than none.
FetchRegistry(home) == {registry} \cup (IF House[home].label THEN {home} ELSE {})

\* poll() and parse() of the adapter, into the cache.  Anything may have changed at home.
AdapterPolls ==
  \E home \in Houses : \E fetched \in FetchRegistry(home) :
    /\ entry' = [status |-> "ok", payload |-> <<home, fetched>>]
    /\ UNCHANGED <<data, lastData, uiVars, callbackPc, overtaken>>

EntryExpires ==
  /\ entry.status = "ok"
  /\ entry' = [entry EXCEPT !.status = "stale"]
  /\ UNCHANGED <<data, lastData, uiVars, callbackPc, overtaken>>

BridgeRestarts ==
  /\ entry' = [status |-> "missing", payload |-> NoPayload]
  /\ UNCHANGED <<data, lastData, uiVars, callbackPc, overtaken>>

-----------------------------------------------------------------------------
(* onBridgeData() *)

\* DashboardParser::parse(): the arrays are filled anew, or left empty without data.
ParseData ==
  /\ callbackPc = "idle"
  /\ data' = [status |-> entry.status, ha |-> HA[entry.payload]]
  /\ callbackPc' = "update"
  /\ overtaken' = (overtaken \/ "ha" \in {current, active})
  /\ UNCHANGED <<entry, lastData, uiVars>>

\* rebuildEntityList(), or the message that stands for a source that is not ok.
Rebuild(byRoom) ==
  /\ list' = IF data.status = "ok" THEN [kind |-> "cards", ha |-> data.ha, byRoom |-> byRoom]
                                   ELSE Message
  /\ overtaken' = FALSE

\* ScreenManager::updateAll() and HAScreen::update(): only the active screen is drawn.
UpdateScreens ==
  /\ callbackPc = "update"
  /\ callbackPc' = "idle"
  /\ lastData' = TRUE
  /\ IF active = "ha" THEN Rebuild(groupByRoom)
                      ELSE UNCHANGED <<list, overtaken>>
  /\ UNCHANGED <<entry, data, groupByRoom, current, active, modal>>

\* hal::display::lock(100) fails.
UpdateDropped ==
  /\ callbackPc = "update"
  /\ callbackPc' = "idle"
  /\ UNCHANGED <<entry, data, lastData, uiVars, overtaken>>

-----------------------------------------------------------------------------
(* The handlers of LVGL.  The modal lies over the cards and the navigation bar. *)

\* Slip: the screen is only rebuilt when it has nothing to show yet.
ShowHAIfEmpty ==
  /\ modal = None
  /\ current' = "ha"
  /\ IF lastData /\ list.kind = None THEN Rebuild(groupByRoom)
                                       ELSE UNCHANGED <<list, overtaken>>
  /\ UNCHANGED <<entry, data, lastData, groupByRoom, active, modal, callbackPc>>

\* onNavClick(), ScreenManager::show() and HAScreen::onShow().
ShowHA ==
  /\ modal = None
  /\ current' = "ha"
  /\ IF lastData THEN Rebuild(groupByRoom) ELSE UNCHANGED <<list, overtaken>>
  /\ UNCHANGED <<entry, data, lastData, groupByRoom, active, modal, callbackPc>>

ShowOther ==
  /\ modal = None
  /\ current' = "home"
  /\ UNCHANGED <<entry, data, lastData, list, groupByRoom, active, modal, callbackPc, overtaken>>

\* The animation of lv_scr_load_anim() begins: the screen becomes lv_scr_act().
ScreenLoads ==
  /\ active # current
  /\ active' = current
  /\ UNCHANGED <<entry, data, lastData, list, groupByRoom, current, modal, callbackPc, overtaken>>

\* Slip: the label of the toggle changes, and the list only with the next data.
ToggleModeLater ==
  /\ active = "ha" /\ modal = None
  /\ groupByRoom' = ~groupByRoom
  /\ UNCHANGED <<entry, data, lastData, list, current, active, modal, callbackPc, overtaken>>

\* onToggleClick(): the list changes its mode if there is something to draw.
ToggleMode ==
  /\ active = "ha" /\ modal = None
  /\ groupByRoom' = ~groupByRoom
  /\ IF lastData /\ data.status = "ok" THEN Rebuild(groupByRoom')
                                       ELSE UNCHANGED <<list, overtaken>>
  /\ UNCHANGED <<entry, data, lastData, current, active, modal, callbackPc>>

CardsOn(l) == IF l.kind = "cards" THEN CardsOf[<<l.ha, l.byRoom>>] ELSE {}

\* onCardClick(): the index of the card, in the data of now.
TapCard(card) ==
  /\ active = "ha" /\ modal = None
  /\ card.tap # 0 /\ lastData
  /\ modal' = IF card.tap > Len(data.ha.entities) THEN modal ELSE data.ha.entities[card.tap]
  /\ UNCHANGED <<entry, data, lastData, list, groupByRoom, current, active, callbackPc, overtaken>>

CloseModal ==
  /\ modal # None
  /\ modal' = None
  /\ UNCHANGED <<entry, data, lastData, list, groupByRoom, current, active, callbackPc, overtaken>>

-----------------------------------------------------------------------------

Next ==
  \/ AdapterPolls \/ EntryExpires \/ BridgeRestarts
  \/ ParseData \/ UpdateScreens \/ UpdateDropped
  \/ ShowHA \/ ShowOther \/ ScreenLoads \/ ToggleMode \/ CloseModal
  \/ \E card \in CardsOn(list) : TapCard(card)

Spec == Init /\ [][Next]_vars

-----------------------------------------------------------------------------
(* Properties *)

HAs == {data.ha, list.ha}

\* "each device has >= 1 entity": the devices divide the entities before the standalone
\* ones among them, in order and without a gap, and the arrays are never left, whatever is
\* cut off when they are full.
GroupsPartition ==
  \A ha \in HAs :
    LET n == Len(ha.devices)
    IN  /\ Len(ha.entities) <= MaxEntities
        /\ ha.standalone_start - 1 <= Len(ha.entities)
        /\ \A i \in 1..n :
             /\ ha.devices[i].count > 0
             /\ ha.devices[i].start =
                  IF i = 1 THEN 1 ELSE ha.devices[i - 1].start + ha.devices[i - 1].count
        /\ ha.label_mode => ha.standalone_start =
             IF n = 0 THEN 1 ELSE ha.devices[n].start + ha.devices[n].count

\* In all three modes no entity is drawn twice, and every device whose room or section there
\* was space for, and every entity without a device, has its card.
OneCardEach ==
  LET cards == CardsOn(list)
      Drawn(g) == ~list.byRoom \/ g.area \in Rooms(list.ha) \cup {NoArea}
  IN  list.kind = "cards" =>
        /\ \A c \in cards, d \in cards : c # d => c.shown \cap d.shown = {}
        /\ list.ha.label_mode => \A g \in Groups(list.ha) :
             Drawn(g) => \E c \in cards : c.shown # {} /\ c.shown \subseteq RangeOf(g)
        /\ \A i \in Standalone(list.ha) : \E c \in cards : c.shown = {i}
        /\ ~list.ha.label_mode =>
             \A i \in 1..Len(list.ha.entities) : \E c \in cards : c.shown = {i}

\* The screen in view shows the data that was parsed last, in the mode of its toggle,
\* unless it was overtaken: what arrived behind another screen, while the screen showed
\* a message, or before the toggle, is never left out.
ScreenFresh ==
  active = "ha" /\ list.kind # None /\ data.status = "ok" /\ ~overtaken =>
    list = [kind |-> "cards", ha |-> data.ha, byRoom |-> groupByRoom]

\* "Tapping a device card opens" its modal: the entity that is opened is one that the card
\* shows, unless the screen was overtaken: the callback has just parsed, was refused the
\* lock, or came while the screen was about to load.
TapOpensShown ==
  [][\A card \in CardsOn(list) : TapCard(card) /\ ~overtaken =>
       modal' \in {list.ha.entities[i] : i \in card.shown}]_vars
=============================================================================
