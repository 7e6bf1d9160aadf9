------------------------------ MODULE HADashboard ------------------------------
(***************************************************************************)
(* The way of the Home Assistant entities to the cards of the display, as  *)
(* functions: bridge/adapters/home_assistant.py parses the states and the  *)
(* registries into a payload, firmware/src/dashboard_data.cpp packs it     *)
(* into fixed arrays, and ui/screens/ha_screen.cpp draws cards from them.  *)
(*                                                                         *)
(* A house is what Home Assistant would answer: the entities with a state, *)
(* in the order of /api/states, and the registries.  Devices are numbered  *)
(* in the order of their names; device 0 is none.  Indices are one-based.  *)
(***************************************************************************)
EXTENDS Integers, SequencesExt

CONSTANTS
  Domain,         \* the domain of each entity
  NoArea,         \* no area, or an empty area_name
  MaxFallback,    \* MAX_FALLBACK_ENTITIES
  MaxEntities,    \* MAX_HA_ENTITIES
  MaxPerDomain,   \* MAX_HA_PER_DOMAIN
  MaxRooms,       \* rooms that rebuildByRoom() has space for
  MaxSections     \* sections that rebuildDeviceGrouped() has space for

Entities == DOMAIN Domain

ASSUME DashboardAssumption ==
  \A max \in {MaxFallback, MaxEntities, MaxPerDomain, MaxRooms, MaxSections} :
    max \in Nat \ {0}

First(n, s) == SubSeq(s, 1, IF Len(s) < n THEN Len(s) ELSE n)

\* The different members of a sequence in the order in which they appear.
Distinct(s) ==
  LET firsts == SelectSeq([i \in 1..Len(s) |-> i], LAMBDA i : \A j \in 1..(i - 1) : s[j] # s[i])
  IN  [k \in 1..Len(firsts) |-> s[firsts[k]]]

-----------------------------------------------------------------------------
(* home_assistant.py *)

DISPLAY_DOMAINS == {"climate", "light", "switch", "lock", "cover", "person", "media_player",
                    "device_tracker"}

\* _resolve_area_name(): the area of the entity goes before that of its device.
AreaName(registry, device, entity) ==
  IF registry.override[entity] # NoArea THEN registry.override[entity]
  ELSE IF device # 0 THEN registry.area[device] ELSE NoArea

\* _parse_label_mode(): the area of a device is that of its first entity with a state.
LabelMode(states, registry) ==
  LET labelled == SelectSeq(states, LAMBDA e : e \in registry.labelled)
      Of(d)    == SelectSeq(labelled, LAMBDA e : registry.device[e] = d)
      Group(d) == [device |-> d, area |-> AreaName(registry, d, Of(d)[1]), entities |-> Of(d)]
      byName   == SelectSeq([d \in DOMAIN registry.area |-> d], LAMBDA d : Of(d) # <<>>)
  IN  [label_mode |-> TRUE,
       devices    |-> [i \in 1..Len(byName) |-> Group(byName[i])],
       standalone |-> Of(0)]

\* _parse_domain_mode(): the first entities of the domains that are displayed.
DomainMode(states) ==
  LET kept     == First(MaxFallback, SelectSeq(states, LAMBDA e : Domain[e] \in DISPLAY_DOMAINS))
      domains  == Distinct([i \in 1..Len(kept) |-> Domain[kept[i]]])
  IN  [label_mode |-> FALSE,
       domains    |-> [i \in 1..Len(domains) |->
                         SelectSeq(kept, LAMBDA e : Domain[e] = domains[i])]]

NoRegistry == [label |-> FALSE]

\* parse(): a registry in which nothing has the label is no better than none.
ParseStates(states, registry) ==
  IF registry.label /\ registry.labelled # {} THEN LabelMode(states, registry)
                                             ELSE DomainMode(states)

-----------------------------------------------------------------------------
(* DashboardParser::parse() *)

Priorities == <<"climate", "media_player", "light", "switch", "cover", "fan", "lock",
                "device_tracker", "sensor", "binary_sensor">>

domainPriority(d) ==
  IF Contains(Priorities, d) THEN SelectInSeq(Priorities, LAMBDA p : p = d) ELSE 11

\* The first domain of the highest priority among the entities of a device.
BestDomain(entities) ==
  LET Priority(i) == domainPriority(Domain[entities[i]])
      best == CHOOSE i \in 1..Len(entities) : \A j \in 1..Len(entities) :
                Priority(i) < Priority(j) \/ (Priority(i) = Priority(j) /\ i <= j)
  IN  Domain[entities[best]]

EmptyHA == [label_mode |-> FALSE, entities |-> <<>>, devices |-> <<>>, standalone_start |-> 1]

\* Slip: the space for entities is tested at every device, and not at every entity.
AddDeviceUnbounded(ha, group) ==
  IF Len(ha.entities) >= MaxEntities THEN ha
  ELSE [ha EXCEPT
          !.entities = ha.entities \o group.entities,
          !.devices  = Append(ha.devices,
                         [device |-> group.device, area |-> group.area,
                          domain |-> BestDomain(group.entities),
                          start |-> Len(ha.entities) + 1,
                          count |-> Len(First(MaxEntities - Len(ha.entities), group.entities))])]

\* A device takes the next entries of the array of entities, as many as there are left.
\* A device without entities would be appended as an empty group while there is space:
\* LabelMode only sends devices that have one, so it is not told apart from a full array.
AddDevice(ha, group) ==
  LET taken == First(MaxEntities - Len(ha.entities), group.entities)
  IN  IF taken = <<>> THEN ha
      ELSE [ha EXCEPT
              !.entities = ha.entities \o taken,
              !.devices  = Append(ha.devices,
                             [device |-> group.device, area |-> group.area,
                              domain |-> BestDomain(taken),
                              start |-> Len(ha.entities) + 1, count |-> Len(taken)])]

AddEntities(ha, entities) ==
  [ha EXCEPT !.entities = ha.entities \o First(MaxEntities - Len(ha.entities), entities)]

\* The arrays after each of the devices.
WithDevices(devices) ==
  LET HA[i \in 0..Len(devices)] ==
        IF i = 0 THEN [EmptyHA EXCEPT !.label_mode = TRUE]
        ELSE LET before == HA[i - 1] IN AddDevice(before, devices[i])
  IN  HA

\* The arrays after each of the domains.
WithDomains(domains) ==
  LET HA[i \in 0..Len(domains)] ==
        IF i = 0 THEN EmptyHA
        ELSE LET before == HA[i - 1] IN AddEntities(before, First(MaxPerDomain, domains[i]))
  IN  HA

ParseLabelMode(payload) ==
  LET ha == WithDevices(payload.devices)[Len(payload.devices)]
  IN  AddEntities([ha EXCEPT !.standalone_start = Len(ha.entities) + 1], payload.standalone)

ParseDomainMode(payload) ==
  LET ha == WithDomains(payload.domains)[Len(payload.domains)]
  IN  [ha EXCEPT !.standalone_start = Len(ha.entities) + 1]

ParseHA(payload) ==
  IF payload.label_mode THEN ParseLabelMode(payload) ELSE ParseDomainMode(payload)

-----------------------------------------------------------------------------
(* HAScreen: the cards.  A card has the renderer that draws it, the entities that it *)
(* shows and the one that a tap controls, as indices into the array; 0 is no tap.    *)

isControllable(domain) ==
  domain \notin {"sensor", "binary_sensor", "device_tracker", "person"}

sectionKey(domain) == IF domain = "binary_sensor" THEN "sensor" ELSE domain

\* The renderers of a single entity: addClimateCard(), addSensorRow(), addMediaCard() read
\* the extras of their domain, addLightSwitchRow() and addGenericRow() none.
EntityRenderer(domain) ==
  CASE domain = "climate"                     -> "climate"
    [] domain \in {"sensor", "binary_sensor"} -> "sensor"
    [] domain = "media_player"                -> "media"
    [] OTHER                                  -> "plain"

EntityCard(ha, section, i) ==
  [section |-> section, renderer |-> EntityRenderer(Domain[ha.entities[i]]),
   shown |-> {i}, tap |-> 0]

RangeOf(group) == group.start .. group.start + group.count - 1

\* addDeviceCardToGrid()
DeviceCard(ha, section, group) ==
  LET first  == Domain[ha.entities[group.start]]
      Card(renderer, shown, primary) ==
        [section |-> section, renderer |-> renderer, shown |-> shown,
         tap |-> IF isControllable(primary) THEN group.start ELSE 0]
  IN  IF group.domain = "device_tracker" THEN Card("person", RangeOf(group), group.domain)
      ELSE IF group.count = 1 THEN Card(EntityRenderer(first), {group.start}, first)
      ELSE IF group.domain = "climate" THEN Card("climate", {group.start}, group.domain)
      ELSE Card("multi", RangeOf(group), group.domain)

Groups(ha)     == {ha.devices[i] : i \in 1..Len(ha.devices)}
Standalone(ha) == ha.standalone_start .. Len(ha.entities)

\* The rooms that there is space for, in the order of their first devices.
Rooms(ha) ==
  LET areas == [i \in 1..Len(ha.devices) |-> ha.devices[i].area]
  IN  ToSet(First(MaxRooms, Distinct(SelectSeq(areas, LAMBDA a : a # NoArea))))

\* Slip: standalone entities are only drawn when a device without an area is.
RoomCardsOtherOnly(ha) ==
  {DeviceCard(ha, g.area, g) : g \in {h \in Groups(ha) : h.area \in Rooms(ha) \cup {NoArea}}}
  \cup IF \E g \in Groups(ha) : g.area = NoArea
         THEN {EntityCard(ha, NoArea, i) : i \in Standalone(ha)} ELSE {}

\* rebuildByRoom(): the section NoArea is the one with the title "Other".
RoomCards(ha) ==
  {DeviceCard(ha, g.area, g) : g \in {h \in Groups(ha) : h.area \in Rooms(ha) \cup {NoArea}}}
  \cup {EntityCard(ha, NoArea, i) : i \in Standalone(ha)}

Sections(ha) ==
  ToSet(First(MaxSections,
    Distinct([i \in 1..Len(ha.devices) |-> sectionKey(ha.devices[i].domain)])))

\* rebuildDeviceGrouped(): the standalone entities come last under a header of their own.
CategoryCards(ha) ==
  {DeviceCard(ha, sectionKey(g.domain), g) :
     g \in {h \in Groups(ha) : sectionKey(h.domain) \in Sections(ha)}}
  \cup {EntityCard(ha, "standalone", i) : i \in Standalone(ha)}

\* rebuildDomainGrouped(), which has space for more domains than a payload has.
DomainCards(ha) ==
  {EntityCard(ha, Domain[ha.entities[i]], i) : i \in 1..Len(ha.entities)}

\* rebuildEntityList()
Cards(ha, byRoom) ==
  IF ~ha.label_mode THEN DomainCards(ha) ELSE IF byRoom THEN RoomCards(ha) ELSE CategoryCards(ha)
=============================================================================
