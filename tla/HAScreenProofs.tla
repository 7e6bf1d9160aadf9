---------------------------- MODULE HAScreenProofs ----------------------------
(* The arrays of the dashboard and the screen that is drawn from them, for every house, *)
(* registry and limit.                                                                  *)
EXTENDS HAScreen, WellFoundedInduction, TLAPS

-----------------------------------------------------------------------------
(* What is in view *)

\* The screen is in view, or about to be, and was not overtaken: its cards are of the data
\* of now, and of the mode of the toggle unless the data were not ok.
InView == "ha" \in {current, active} /\ ~overtaken

FreshInv ==
  /\ list.kind \in {None, "message", "cards"}
  /\ list.kind # None => lastData
  /\ InView /\ list.kind = "cards" => list.ha = data.ha
  /\ InView /\ list.kind # None /\ data.status = "ok" =>
       list = [kind |-> "cards", ha |-> data.ha, byRoom |-> groupByRoom]

\* A rebuilt list is of the data of now.
LEMMA RebuildKeeps ==
  ASSUME lastData', data' = data, NEW byRoom, groupByRoom' = byRoom, Rebuild(byRoom)
  PROVE  FreshInv'
<1>1. CASE data.status = "ok"
  BY <1>1 DEF Rebuild, FreshInv, None
<1>2. CASE data.status # "ok"
  BY <1>2 DEF Rebuild, FreshInv, Message, None
<1> QED
  BY <1>1, <1>2

LEMMA FreshNext == FreshInv /\ [Next]_vars => FreshInv'
<1> SUFFICES ASSUME FreshInv, [Next]_vars PROVE FreshInv'
  OBVIOUS
<1>1. ASSUME UNCHANGED <<data, lastData, uiVars, overtaken>> PROVE FreshInv'
  BY <1>1 DEF FreshInv, InView, uiVars
<1>2. CASE AdapterPolls \/ EntryExpires \/ BridgeRestarts \/ UpdateDropped \/ UNCHANGED vars
  BY <1>1, <1>2 DEF AdapterPolls, EntryExpires, BridgeRestarts, UpdateDropped, vars
\* Data that arrive behind another screen need not be shown until it is left.
<1>3. CASE ParseData
  BY <1>3 DEF ParseData, FreshInv, InView, uiVars
<1>4. CASE UpdateScreens
  <2>1. CASE active = "ha"
    BY <1>4, <2>1, RebuildKeeps DEF UpdateScreens
  <2>2. CASE active # "ha"
    BY <1>4, <2>2 DEF UpdateScreens, FreshInv, InView
  <2> QED
    BY <2>1, <2>2
\* Without data there is nothing that the screen could have shown before.
<1>5. CASE ShowHA
  <2>1. CASE lastData
    <3>1. lastData' /\ data' = data /\ groupByRoom' = groupByRoom
      BY <1>5, <2>1 DEF ShowHA
    <3>2. Rebuild(groupByRoom)
      BY <1>5, <2>1 DEF ShowHA
    <3> QED
      BY <3>1, <3>2, RebuildKeeps
  <2>2. CASE ~lastData
    BY <1>5, <2>2 DEF ShowHA, FreshInv, InView, None
  <2> QED
    BY <2>1, <2>2
<1>6. CASE ShowOther \/ ScreenLoads \/ CloseModal
  BY <1>6 DEF ShowOther, ScreenLoads, CloseModal, FreshInv, InView
<1>7. CASE ToggleMode
  BY <1>7, RebuildKeeps DEF ToggleMode, FreshInv, InView
<1>8. ASSUME NEW card \in CardsOn(list), TapCard(card) PROVE FreshInv'
  BY <1>8 DEF TapCard, FreshInv, InView
<1> QED
  BY <1>2, <1>3, <1>4, <1>5, <1>6, <1>7, <1>8 DEF Next

\* The screen in view shows the data of now, in the mode of its toggle.
THEOREM ScreenIsFresh == Spec => []ScreenFresh
<1>1. Init => FreshInv
  BY DEF Init, FreshInv, InView, Message, None
<1>2. FreshInv => ScreenFresh
  BY DEF FreshInv, InView, ScreenFresh
<1> QED
  BY <1>1, <1>2, FreshNext, PTL DEF Spec

-----------------------------------------------------------------------------
(* The arrays *)

\* Induction over the natural numbers.
LEMMA Induction ==
  ASSUME NEW S, S \subseteq Nat, 0 \in S, \A n \in S : n + 1 \in S
  PROVE  S = Nat
<1> DEFINE T == Nat \ S
<1> SUFFICES ASSUME T # {} PROVE FALSE
  OBVIOUS
<1>1. IsWellFoundedOn(OpToRel(<, Nat), Nat)
  BY NatLessThanWellFounded
<1>2. PICK m \in T : \A y \in T : ~ (<<y, m>> \in OpToRel(<, Nat))
  BY <1>1, WFMin
<1>3. m \in Nat /\ m # 0
  OBVIOUS
<1>4. m - 1 \in Nat /\ m - 1 < m
  BY <1>3
<1>5. <<m - 1, m>> \in OpToRel(<, Nat)
  BY <1>3, <1>4 DEF OpToRel
<1>6. m - 1 \in S
  BY <1>2, <1>4, <1>5
<1>7. (m - 1) + 1 \in S
  BY <1>6
<1> QED
  BY <1>3, <1>7

LEMMA FirstOf ==
  ASSUME NEW n \in Nat, NEW s
  PROVE  /\ Len(First(n, s)) \in Nat /\ Len(First(n, s)) <= n
         /\ First(n, s) # <<>> => Len(First(n, s)) # 0
<1> DEFINE m == IF Len(s) < n THEN Len(s) ELSE n
<1>1. m \in Nat /\ m <= n /\ First(n, s) = SubSeq(s, 1, m)
  BY DEF First
<1> HIDE DEF m
<1>2. Len(SubSeq(s, 1, m)) = m
  BY <1>1
<1>3. m = 0 => SubSeq(s, 1, m) = <<>>
  <2>1. SubSeq(s, 1, 0) = <<>>
    OBVIOUS
  <2> QED
    BY <2>1
<1> QED
  BY <1>1, <1>2, <1>3

\* What parse() keeps to from device to device: each begins where the one before it ended,
\* has an entity of its own and stays within the entities there are.
Filled(ha) ==
  LET n == Len(ha.devices)
  IN  /\ Len(ha.entities) <= MaxEntities
      /\ \A i \in 1..n :
           /\ ha.devices[i].count \in Nat \ {0} /\ ha.devices[i].start \in Nat \ {0}
           /\ ha.devices[i].start + ha.devices[i].count - 1 <= Len(ha.entities)
           /\ ha.devices[i].start =
                IF i = 1 THEN 1 ELSE ha.devices[i - 1].start + ha.devices[i - 1].count
      /\ Len(ha.entities) + 1 = IF n = 0 THEN 1 ELSE ha.devices[n].start + ha.devices[n].count

HARecord(ha) ==
  ha = [label_mode |-> ha.label_mode, entities |-> ha.entities, devices |-> ha.devices,
        standalone_start |-> ha.standalone_start]

LEMMA DeviceFills ==
  ASSUME NEW ha, HARecord(ha), NEW group, Filled(ha)
  PROVE  /\ HARecord(AddDevice(ha, group)) /\ Filled(AddDevice(ha, group))
         /\ AddDevice(ha, group).label_mode = ha.label_mode
<1> DEFINE taken == First(MaxEntities - Len(ha.entities), group.entities)
           new   == [device |-> group.device, area |-> group.area, domain |-> BestDomain(taken),
                     start |-> Len(ha.entities) + 1, count |-> Len(taken)]
           more  == ha.entities \o taken
           devs  == Append(ha.devices, new)
           n     == Len(ha.devices)
<1>1. CASE taken = <<>>
  BY <1>1 DEF AddDevice
<1>2. CASE taken # <<>>
  <2>1. AddDevice(ha, group) = [ha EXCEPT !.entities = more, !.devices = devs]
    BY <1>2 DEF AddDevice
  <2>2. AddDevice(ha, group) = [label_mode |-> ha.label_mode, entities |-> more,
                                devices |-> devs, standalone_start |-> ha.standalone_start]
    <3> HIDE DEF more, devs
    <3> QED
      BY <2>1 DEF HARecord
  <2>3. MaxEntities - Len(ha.entities) \in Nat /\ Len(ha.entities) \in Nat /\ MaxEntities \in Nat
    BY DashboardAssumption DEF Filled
  <2>4. Len(taken) \in Nat /\ Len(taken) <= MaxEntities - Len(ha.entities) /\ Len(taken) # 0
    BY <1>2, <2>3, FirstOf
  <2>5. Len(more) = Len(ha.entities) + Len(taken)
    OBVIOUS
  <2>6. /\ Len(devs) = n + 1 /\ devs[n + 1] = new /\ n \in Nat
        /\ \A i \in 1..n : devs[i] = ha.devices[i]
    OBVIOUS
  <2>7. new.start = Len(ha.entities) + 1 /\ new.count = Len(taken)
    OBVIOUS
  <2> HIDE DEF taken, new, more, devs
  <2>8. \A i \in 1..n : /\ ha.devices[i].count \in Nat \ {0} /\ ha.devices[i].start \in Nat \ {0}
                        /\ ha.devices[i].start + ha.devices[i].count - 1 <= Len(ha.entities)
                        /\ ha.devices[i].start =
                             IF i = 1 THEN 1 ELSE ha.devices[i - 1].start + ha.devices[i - 1].count
    BY DEF Filled
  <2>9. Len(ha.entities) + 1 = IF n = 0 THEN 1 ELSE ha.devices[n].start + ha.devices[n].count
    BY DEF Filled
  <2>10. Len(more) <= MaxEntities
    BY <2>3, <2>4, <2>5
  <2>11. ASSUME NEW i \in 1..(n + 1)
         PROVE  /\ devs[i].count \in Nat \ {0} /\ devs[i].start \in Nat \ {0}
                /\ devs[i].start + devs[i].count - 1 <= Len(more)
                /\ devs[i].start = IF i = 1 THEN 1 ELSE devs[i - 1].start + devs[i - 1].count
    <3>1. CASE i \in 1..n
      <4>1. devs[i] = ha.devices[i]
        BY <2>6, <3>1
      <4>2. CASE i = 1
        BY <2>3, <2>4, <2>5, <2>8, <3>1, <4>1, <4>2
      <4>3. CASE i # 1
        <5>1. devs[i - 1] = ha.devices[i - 1]
          BY <2>6, <3>1, <4>3
        <5>2. /\ ha.devices[i].count \in Nat \ {0} /\ ha.devices[i].start \in Nat \ {0}
              /\ ha.devices[i].start + ha.devices[i].count - 1 <= Len(ha.entities)
              /\ ha.devices[i].start = ha.devices[i - 1].start + ha.devices[i - 1].count
          BY <2>8, <3>1, <4>3
        <5>3. Len(ha.entities) <= Len(more) /\ Len(more) \in Nat
          BY <2>3, <2>4, <2>5
        <5>4. ha.devices[i].start + ha.devices[i].count - 1 <= Len(more)
          <6>1. \A a, b, l, m \in Nat : a + b - 1 <= l /\ l <= m => a + b - 1 <= m
            OBVIOUS
          <6> QED
            BY <2>3, <5>2, <5>3, <6>1
        <5> QED
          BY <4>1, <4>3, <5>1, <5>2, <5>4
      <4> QED
        BY <4>2, <4>3
    <3>2. CASE i = n + 1
      <4>1. devs[i].start = Len(ha.entities) + 1 /\ devs[i].count = Len(taken)
        BY <2>6, <2>7, <3>2
      <4>2. devs[i].start = IF i = 1 THEN 1 ELSE devs[i - 1].start + devs[i - 1].count
        <5>1. CASE n = 0
          <6>1. i = 1
            BY <3>2, <5>1
          <6>2. devs[i].start = 1
            BY <2>9, <4>1, <5>1
          <6> QED
            BY <6>1, <6>2
        <5>2. CASE n # 0
          <6>1. i - 1 = n /\ i # 1 /\ n \in 1..n
            BY <2>6, <3>2, <5>2
          <6>2. devs[i - 1] = ha.devices[n]
            BY <2>6, <6>1
          <6> QED
            BY <2>9, <4>1, <5>2, <6>1, <6>2
        <5> QED
          BY <5>1, <5>2
      <4>3. devs[i].start + devs[i].count - 1 = Len(more)
        BY <2>3, <2>4, <2>5, <4>1
      <4> QED
        BY <2>3, <2>4, <2>5, <4>1, <4>2, <4>3
    <3> QED
      BY <2>6, <3>1, <3>2
  <2>12. Len(more) + 1 = devs[n + 1].start + devs[n + 1].count
    BY <2>3, <2>4, <2>5, <2>6, <2>7
  <2> DEFINE after == AddDevice(ha, group)
  <2>13. /\ after.label_mode = ha.label_mode /\ after.entities = more
         /\ after.devices = devs /\ after.standalone_start = ha.standalone_start
    BY <2>2
  <2>14. after = [label_mode |-> after.label_mode, entities |-> after.entities,
                  devices |-> after.devices, standalone_start |-> after.standalone_start]
    BY <2>2, <2>13
  <2> HIDE DEF after
  <2>15. HARecord(after)
    BY <2>14 DEF HARecord
  <2>16. Filled(after)
    <3>1. Len(after.devices) = n + 1 /\ n + 1 # 0 /\ Len(after.entities) = Len(more)
      BY <2>6, <2>13
    <3>2. Len(after.entities) <= MaxEntities
      BY <2>10, <3>1
    <3>3. ASSUME NEW i \in 1..(n + 1)
          PROVE  /\ after.devices[i].count \in Nat \ {0} /\ after.devices[i].start \in Nat \ {0}
                 /\ after.devices[i].start + after.devices[i].count - 1 <= Len(after.entities)
                 /\ after.devices[i].start =
                      IF i = 1 THEN 1 ELSE after.devices[i - 1].start + after.devices[i - 1].count
      BY <2>11, <2>13, <3>1
    <3>4. Len(after.entities) + 1 = after.devices[n + 1].start + after.devices[n + 1].count
      BY <2>12, <2>13, <3>1
    <3> HIDE DEF n
    <3> QED
      BY <3>1, <3>2, <3>3, <3>4 DEF Filled
  <2> QED
    BY <2>13, <2>15, <2>16 DEF after
<1> QED
  BY <1>1, <1>2

\* Entities that belong to no device come behind those that do.
LEMMA EntitiesFill ==
  ASSUME NEW ha, HARecord(ha), NEW entities, Len(ha.entities) <= MaxEntities
  PROVE  LET more == AddEntities(ha, entities)
         IN  /\ more = [label_mode |-> ha.label_mode, entities |-> more.entities,
                        devices |-> ha.devices, standalone_start |-> ha.standalone_start]
             /\ Len(ha.entities) <= Len(more.entities) /\ Len(more.entities) <= MaxEntities
<1> DEFINE taken == First(MaxEntities - Len(ha.entities), entities)
           all   == ha.entities \o taken
<1>1. Len(ha.entities) \in Nat /\ MaxEntities \in Nat /\ MaxEntities - Len(ha.entities) \in Nat
  BY DashboardAssumption
<1>2. Len(taken) \in Nat /\ Len(taken) <= MaxEntities - Len(ha.entities)
  BY <1>1, FirstOf
<1>3. Len(all) = Len(ha.entities) + Len(taken)
  OBVIOUS
<1>4. AddEntities(ha, entities) = [ha EXCEPT !.entities = all]
  BY DEF AddEntities
<1> HIDE DEF taken, all
<1>5. AddEntities(ha, entities) = [label_mode |-> ha.label_mode, entities |-> all,
                                   devices |-> ha.devices, standalone_start |-> ha.standalone_start]
  BY <1>4 DEF HARecord
<1> QED
  BY <1>1, <1>2, <1>3, <1>5

\* What the array is after i devices is defined for every i: a function that does what the
\* recursion says exists up to every length.
LEMMA WithDevicesIs ==
  ASSUME NEW devices
  PROVE  WithDevices(devices) =
           [i \in 0..Len(devices) |-> IF i = 0 THEN [EmptyHA EXCEPT !.label_mode = TRUE]
                                     ELSE AddDevice(WithDevices(devices)[i - 1], devices[i])]
<1> DEFINE base == [EmptyHA EXCEPT !.label_mode = TRUE]
           Rec(f, m) == f = [i \in 0..m |-> IF i = 0 THEN base ELSE AddDevice(f[i - 1], devices[i])]
           S == {m \in Nat : \E f : Rec(f, m)}
<1> HIDE DEF base
<1>1. 0 \in S
  <2>1. Rec([i \in 0..0 |-> base], 0)
    OBVIOUS
  <2> QED
    BY <2>1
<1>2. ASSUME NEW m \in S PROVE m + 1 \in S
  <2>1. PICK f : Rec(f, m)
    OBVIOUS
  <2> DEFINE g == [i \in 0..(m + 1) |-> IF i <= m THEN f[i] ELSE AddDevice(f[m], devices[m + 1])]
  <2>2. Rec(g, m + 1)
    <3> SUFFICES ASSUME NEW i \in 0..(m + 1)
                 PROVE  g[i] = IF i = 0 THEN base ELSE AddDevice(g[i - 1], devices[i])
      OBVIOUS
    <3>1. CASE i <= m
      <4>1. f[i] = IF i = 0 THEN base ELSE AddDevice(f[i - 1], devices[i])
        BY <2>1, <3>1
      <4>2. g[i] = f[i] /\ (i # 0 => g[i - 1] = f[i - 1])
        BY <3>1
      <4> QED
        BY <4>1, <4>2
    <3>2. CASE i = m + 1
      <4>1. g[i] = AddDevice(f[m], devices[m + 1]) /\ g[i - 1] = f[m] /\ i # 0
        BY <3>2
      <4> QED
        BY <3>2, <4>1
    <3> QED
      BY <3>1, <3>2
  <2> HIDE DEF g, Rec
  <2>3. m + 1 \in Nat /\ \E h : Rec(h, m + 1)
    BY <2>2
  <2> QED
    BY <2>3
<1>3. S = Nat
  <2> HIDE DEF S
  <2>1. S \subseteq Nat
    BY DEF S
  <2> QED
    BY <1>1, <1>2, <2>1, Induction
<1>4. \E f : Rec(f, Len(devices))
  BY <1>3
<1> QED
  BY <1>4 DEF WithDevices, base

LEMMA WithDomainsIs ==
  ASSUME NEW domains
  PROVE  WithDomains(domains) =
           [i \in 0..Len(domains) |->
              IF i = 0 THEN EmptyHA
              ELSE AddEntities(WithDomains(domains)[i - 1], First(MaxPerDomain, domains[i]))]
<1> DEFINE Step(ha, i) == AddEntities(ha, First(MaxPerDomain, domains[i]))
           Rec(f, m) == f = [i \in 0..m |-> IF i = 0 THEN EmptyHA ELSE Step(f[i - 1], i)]
           S == {m \in Nat : \E f : Rec(f, m)}
<1> HIDE DEF Step
<1>1. 0 \in S
  <2>1. Rec([i \in 0..0 |-> EmptyHA], 0)
    OBVIOUS
  <2> QED
    BY <2>1
<1>2. ASSUME NEW m \in S PROVE m + 1 \in S
  <2>1. PICK f : Rec(f, m)
    OBVIOUS
  <2> DEFINE g == [i \in 0..(m + 1) |-> IF i <= m THEN f[i] ELSE Step(f[m], m + 1)]
  <2>2. Rec(g, m + 1)
    <3> SUFFICES ASSUME NEW i \in 0..(m + 1)
                 PROVE  g[i] = IF i = 0 THEN EmptyHA ELSE Step(g[i - 1], i)
      OBVIOUS
    <3>1. CASE i <= m
      <4>1. f[i] = IF i = 0 THEN EmptyHA ELSE Step(f[i - 1], i)
        BY <2>1, <3>1
      <4>2. g[i] = f[i] /\ (i # 0 => g[i - 1] = f[i - 1])
        BY <3>1
      <4> QED
        BY <4>1, <4>2
    <3>2. CASE i = m + 1
      <4>1. g[i] = Step(f[m], m + 1) /\ g[i - 1] = f[m] /\ i # 0
        BY <3>2
      <4> QED
        BY <3>2, <4>1
    <3> QED
      BY <3>1, <3>2
  <2> HIDE DEF g, Rec
  <2>3. m + 1 \in Nat /\ \E h : Rec(h, m + 1)
    BY <2>2
  <2> QED
    BY <2>3
<1>3. S = Nat
  <2> HIDE DEF S
  <2>1. S \subseteq Nat
    BY DEF S
  <2> QED
    BY <1>1, <1>2, <2>1, Induction
<1>4. \E f : Rec(f, Len(domains))
  <2> HIDE DEF Rec
  <2>1. Len(domains) \in S
    BY <1>3
  <2> QED
    BY <2>1
<1>5. \E f : f = [i \in 0..Len(domains) |->
                    IF i = 0 THEN EmptyHA ELSE AddEntities(f[i - 1], First(MaxPerDomain, domains[i]))]
  BY <1>4 DEF Step
<1> HIDE DEF Rec, S
<1> QED
  BY <1>5 DEF WithDomains

\* The arrays that GroupsPartition asks for, with the starts of all devices within them.
Partitioned(ha) ==
  LET n == Len(ha.devices)
  IN  /\ Len(ha.entities) <= MaxEntities
      /\ ha.standalone_start \in Nat \ {0} /\ ha.standalone_start - 1 <= Len(ha.entities)
      /\ \A i \in 1..n :
           /\ ha.devices[i].count \in Nat \ {0} /\ ha.devices[i].start \in Nat \ {0}
           /\ ha.devices[i].start + ha.devices[i].count - 1 <= Len(ha.entities)
           /\ ha.devices[i].start =
                IF i = 1 THEN 1 ELSE ha.devices[i - 1].start + ha.devices[i - 1].count
      /\ ha.label_mode => ha.standalone_start =
           IF n = 0 THEN 1 ELSE ha.devices[n].start + ha.devices[n].count

LEMMA EmptyIsPartitioned ==
  /\ Partitioned(EmptyHA)
  /\ Filled([EmptyHA EXCEPT !.label_mode = TRUE]) /\ HARecord([EmptyHA EXCEPT !.label_mode = TRUE])
<1> DEFINE ha == [EmptyHA EXCEPT !.label_mode = TRUE]
<1>1. ha = [label_mode |-> TRUE, entities |-> <<>>, devices |-> <<>>, standalone_start |-> 1]
  <2>1. \A mode : [EmptyHA EXCEPT !.label_mode = mode]
                   = [label_mode |-> mode, entities |-> <<>>, devices |-> <<>>, standalone_start |-> 1]
    BY DEF EmptyHA
  <2> QED
    BY <2>1
<1>2. Len(<<>>) = 0 /\ 0 <= MaxEntities
  BY DashboardAssumption
<1> HIDE DEF ha
<1>3. HARecord(ha)
  BY <1>1 DEF HARecord
<1>4. Filled(ha)
  BY <1>1, <1>2 DEF Filled
<1>5. Partitioned(EmptyHA)
  BY <1>2 DEF Partitioned, EmptyHA
<1> QED
  BY <1>3, <1>4, <1>5 DEF ha

LEMMA DevicesFill ==
  ASSUME NEW devices
  PROVE  LET ha == WithDevices(devices)[Len(devices)]
         IN  Filled(ha) /\ HARecord(ha) /\ ha.label_mode = TRUE
<1> DEFINE Good(ha) == Filled(ha) /\ HARecord(ha) /\ ha.label_mode = TRUE
           After(i) == WithDevices(devices)[i]
           S == {m \in Nat : m <= Len(devices) => Good(After(m))}
<1>1. \A i \in 0..Len(devices) :
        After(i) = IF i = 0 THEN [EmptyHA EXCEPT !.label_mode = TRUE]
                            ELSE AddDevice(After(i - 1), devices[i])
  BY WithDevicesIs
<1>2. Good([EmptyHA EXCEPT !.label_mode = TRUE])
  BY EmptyIsPartitioned DEF EmptyHA
<1>3. \A ha, group : Good(ha) => Good(AddDevice(ha, group))
  BY DeviceFills
<1> HIDE DEF Good, After
<1>4. 0 \in S
  <2>1. 0 \in 0..Len(devices)
    OBVIOUS
  <2> QED
    BY <1>1, <1>2, <2>1
<1>5. ASSUME NEW m \in S PROVE m + 1 \in S
  <2> SUFFICES ASSUME m + 1 <= Len(devices) PROVE Good(After(m + 1))
    OBVIOUS
  <2>1. Good(After(m))
    OBVIOUS
  <2>2. After(m + 1) = AddDevice(After(m), devices[m + 1])
    <3>1. m + 1 \in 0..Len(devices) /\ m + 1 # 0 /\ (m + 1) - 1 = m
      OBVIOUS
    <3> QED
      BY <1>1, <3>1
  <2> QED
    BY <1>3, <2>1, <2>2
<1>6. S = Nat
  <2> HIDE DEF S
  <2>1. S \subseteq Nat
    BY DEF S
  <2> QED
    BY <1>4, <1>5, <2>1, Induction
<1>7. Good(After(Len(devices)))
  BY <1>6
<1> QED
  BY <1>7 DEF Good, After

LEMMA DomainsFill ==
  ASSUME NEW domains
  PROVE  LET ha == WithDomains(domains)[Len(domains)]
         IN  /\ HARecord(ha) /\ Len(ha.entities) <= MaxEntities
             /\ ha.devices = <<>> /\ ha.label_mode = FALSE
<1> DEFINE Good(ha) == /\ HARecord(ha) /\ Len(ha.entities) <= MaxEntities
                       /\ ha.devices = <<>> /\ ha.label_mode = FALSE
           After(i) == WithDomains(domains)[i]
           S == {m \in Nat : m <= Len(domains) => Good(After(m))}
<1>1. \A i \in 0..Len(domains) :
        After(i) = IF i = 0 THEN EmptyHA
                            ELSE AddEntities(After(i - 1), First(MaxPerDomain, domains[i]))
  BY WithDomainsIs
<1>2. Good(EmptyHA)
  BY DashboardAssumption DEF EmptyHA, HARecord
<1>3. ASSUME NEW ha, NEW entities, Good(ha) PROVE Good(AddEntities(ha, entities))
  <2> DEFINE more == AddEntities(ha, entities)
  <2>1. /\ more = [label_mode |-> ha.label_mode, entities |-> more.entities,
                   devices |-> ha.devices, standalone_start |-> ha.standalone_start]
        /\ Len(more.entities) <= MaxEntities
    BY <1>3, EntitiesFill
  <2> HIDE DEF more
  <2>2. more.label_mode = ha.label_mode /\ more.devices = ha.devices /\ HARecord(more)
    BY <2>1 DEF HARecord
  <2> QED
    BY <1>3, <2>1, <2>2 DEF more
<1> HIDE DEF Good, After
<1>4. 0 \in S
  <2>1. 0 \in 0..Len(domains)
    OBVIOUS
  <2> QED
    BY <1>1, <1>2, <2>1
<1>5. ASSUME NEW m \in S PROVE m + 1 \in S
  <2> SUFFICES ASSUME m + 1 <= Len(domains) PROVE Good(After(m + 1))
    OBVIOUS
  <2>1. Good(After(m))
    OBVIOUS
  <2>2. After(m + 1) = AddEntities(After(m), First(MaxPerDomain, domains[m + 1]))
    <3>1. m + 1 \in 0..Len(domains) /\ m + 1 # 0 /\ (m + 1) - 1 = m
      OBVIOUS
    <3> QED
      BY <1>1, <3>1
  <2> QED
    BY <1>3, <2>1, <2>2
<1>6. S = Nat
  <2> HIDE DEF S
  <2>1. S \subseteq Nat
    BY DEF S
  <2> QED
    BY <1>4, <1>5, <2>1, Induction
<1>7. Good(After(Len(domains)))
  BY <1>6
<1> QED
  BY <1>7 DEF Good, After

\* Whatever the bridge has sent, the arrays are divided among the devices and the rest.
LEMMA ParsedIsPartitioned ==
  ASSUME NEW payload
  PROVE  Partitioned(ParseHA(payload))
<1>1. CASE payload.label_mode
  <2> DEFINE filled == WithDevices(payload.devices)[Len(payload.devices)]
             start  == Len(filled.entities) + 1
             ha     == [filled EXCEPT !.standalone_start = start]
             more   == AddEntities(ha, payload.standalone)
  <2>1. Filled(filled) /\ HARecord(filled) /\ filled.label_mode = TRUE
    BY DevicesFill
  <2>2. ParseHA(payload) = more
    BY <1>1 DEF ParseHA, ParseLabelMode
  <2> HIDE DEF filled
  <2>3. ha = [label_mode |-> filled.label_mode, entities |-> filled.entities,
              devices |-> filled.devices, standalone_start |-> start]
    BY <2>1 DEF HARecord
  <2> HIDE DEF ha, start
  <2>4. /\ HARecord(ha) /\ ha.entities = filled.entities /\ ha.devices = filled.devices
        /\ ha.standalone_start = start /\ ha.label_mode = TRUE
    BY <2>1, <2>3 DEF HARecord
  <2>5. /\ more = [label_mode |-> ha.label_mode, entities |-> more.entities,
                   devices |-> ha.devices, standalone_start |-> ha.standalone_start]
        /\ Len(ha.entities) <= Len(more.entities) /\ Len(more.entities) <= MaxEntities
    <3>1. Len(ha.entities) <= MaxEntities
      BY <2>1, <2>4 DEF Filled
    <3> QED
      BY <2>4, <3>1, EntitiesFill
  <2> HIDE DEF more
  <2>6. /\ more.devices = filled.devices /\ more.standalone_start = start
        /\ Len(filled.entities) <= Len(more.entities)
    BY <2>4, <2>5
  <2>7. ASSUME NEW i \in 1..Len(filled.devices)
        PROVE  filled.devices[i].start + filled.devices[i].count - 1 <= Len(more.entities)
    <3>1. /\ filled.devices[i].count \in Nat /\ filled.devices[i].start \in Nat
          /\ filled.devices[i].start + filled.devices[i].count - 1 <= Len(filled.entities)
      BY <2>1 DEF Filled
    <3>2. \A a, b, l, m \in Nat : a + b - 1 <= l /\ l <= m => a + b - 1 <= m
      OBVIOUS
    <3>3. Len(filled.entities) \in Nat /\ Len(more.entities) \in Nat
      OBVIOUS
    <3> QED
      BY <2>6, <3>1, <3>2, <3>3
  <2>8. start \in Nat \ {0} /\ start - 1 <= Len(more.entities)
    BY <2>6 DEF start
  <2>9. start = IF Len(filled.devices) = 0 THEN 1
                ELSE filled.devices[Len(filled.devices)].start + filled.devices[Len(filled.devices)].count
    BY <2>1 DEF Filled, start
  <2>10. \A i \in 1..Len(filled.devices) :
           /\ filled.devices[i].count \in Nat \ {0} /\ filled.devices[i].start \in Nat \ {0}
           /\ filled.devices[i].start =
                IF i = 1 THEN 1 ELSE filled.devices[i - 1].start + filled.devices[i - 1].count
    BY <2>1 DEF Filled
  <2>11. Partitioned(more)
    BY <2>5, <2>6, <2>7, <2>8, <2>9, <2>10 DEF Partitioned
  <2> QED
    BY <2>2, <2>11
<1>2. CASE ~payload.label_mode
  <2> DEFINE filled == WithDomains(payload.domains)[Len(payload.domains)]
             start  == Len(filled.entities) + 1
             ha     == [filled EXCEPT !.standalone_start = start]
  <2>1. /\ HARecord(filled) /\ Len(filled.entities) <= MaxEntities
        /\ filled.devices = <<>> /\ filled.label_mode = FALSE
    BY DomainsFill
  <2>2. ParseHA(payload) = ha
    BY <1>2 DEF ParseHA, ParseDomainMode
  <2> HIDE DEF filled
  <2>3. ha = [label_mode |-> filled.label_mode, entities |-> filled.entities,
              devices |-> filled.devices, standalone_start |-> start]
    BY <2>1 DEF HARecord
  <2> HIDE DEF ha
  <2>4. /\ ha.label_mode = FALSE /\ ha.entities = filled.entities /\ ha.devices = <<>>
        /\ ha.standalone_start \in Nat \ {0} /\ ha.standalone_start - 1 = Len(filled.entities)
    BY <2>1, <2>3
  <2>5. Partitioned(ha)
    BY <2>1, <2>4 DEF Partitioned
  <2> QED
    BY <2>2, <2>5
<1> QED
  BY <1>1, <1>2

-----------------------------------------------------------------------------
(* The arrays on the device *)

Parsed == {HA[of] : of \in DOMAIN HA}

ArraysInv ==
  /\ entry.payload \in DOMAIN Payload \cup {NoPayload}
  /\ data.ha \in Parsed /\ list.ha \in Parsed
  /\ list.byRoom \in BOOLEAN /\ groupByRoom \in BOOLEAN

LEMMA ParsedIs ==
  /\ \A ha \in Parsed : Partitioned(ha)
  /\ EmptyHA \in Parsed
  /\ \A of \in DOMAIN Payload \cup {NoPayload} : HA[of] \in Parsed
BY ParsedIsPartitioned, EmptyIsPartitioned DEF Parsed, HA

LEMMA ArraysInit == Init => ArraysInv
<1> SUFFICES ASSUME Init PROVE ArraysInv
  OBVIOUS
<1>1. entry.payload = NoPayload /\ data.ha = EmptyHA /\ groupByRoom \in BOOLEAN
  BY DEF Init
<1>2. list.ha = EmptyHA /\ list.byRoom \in BOOLEAN
  BY DEF Init, Message
<1> QED
  BY <1>1, <1>2, ParsedIs DEF ArraysInv

LEMMA RebuildParsed ==
  ASSUME ArraysInv, NEW byRoom \in BOOLEAN, Rebuild(byRoom)
  PROVE  list'.ha \in Parsed /\ list'.byRoom \in BOOLEAN
<1>1. CASE data.status = "ok"
  BY <1>1 DEF Rebuild, ArraysInv
<1>2. CASE data.status # "ok"
  BY <1>2, ParsedIs DEF Rebuild, Message
<1> QED
  BY <1>1, <1>2

LEMMA ArraysNext == ArraysInv /\ [Next]_vars => ArraysInv'
<1> SUFFICES ASSUME ArraysInv, [Next]_vars PROVE ArraysInv'
  OBVIOUS
<1>0. Parsed' = Parsed
  BY DEF Parsed, HA
<1>1. CASE AdapterPolls
  <2>1. PICK home \in Houses : \E fetched \in FetchRegistry(home) :
          /\ entry' = [status |-> "ok", payload |-> <<home, fetched>>]
          /\ UNCHANGED <<data, lastData, uiVars, callbackPc, overtaken>>
    BY <1>1 DEF AdapterPolls
  <2>2. PICK fetched \in FetchRegistry(home) :
          /\ entry' = [status |-> "ok", payload |-> <<home, fetched>>]
          /\ UNCHANGED <<data, lastData, uiVars, callbackPc, overtaken>>
    BY <2>1
  <2>3. registry \in Houses \cup {None}
    <3>1. CASE entry.payload = NoPayload
      BY <3>1 DEF registry, NoPayload
    <3>2. CASE entry.payload \in Houses \X (Houses \cup {None})
      BY <3>2 DEF registry
    <3> QED
      BY <3>1, <3>2 DEF ArraysInv, Payload
  <2>4. fetched \in Houses \cup {None}
    BY <2>3 DEF FetchRegistry
  <2>5. entry'.payload \in DOMAIN Payload
    BY <2>2, <2>4 DEF Payload
  <2> QED
    BY <1>0, <2>2, <2>5 DEF ArraysInv, uiVars, Payload, NoPayload, None
<1>2. CASE EntryExpires
  BY <1>0, <1>2 DEF EntryExpires, ArraysInv, uiVars, Payload, NoPayload
<1>3. CASE BridgeRestarts
  BY <1>0, <1>3 DEF BridgeRestarts, ArraysInv, uiVars, Payload, NoPayload
<1>4. CASE ParseData
  BY <1>0, <1>4, ParsedIs DEF ParseData, ArraysInv, uiVars, Payload, NoPayload
<1>5. CASE UpdateScreens
  <2>1. UNCHANGED <<entry, data, groupByRoom>>
    BY <1>5 DEF UpdateScreens
  <2>2. Rebuild(groupByRoom) \/ list' = list
    BY <1>5 DEF UpdateScreens
  <2> QED
    BY <1>0, <2>1, <2>2, RebuildParsed DEF ArraysInv, Payload, NoPayload
<1>6. CASE ShowHA
  <2>1. UNCHANGED <<entry, data, groupByRoom>>
    BY <1>6 DEF ShowHA
  <2>2. Rebuild(groupByRoom) \/ list' = list
    BY <1>6 DEF ShowHA
  <2> QED
    BY <1>0, <2>1, <2>2, RebuildParsed DEF ArraysInv, Payload, NoPayload
<1>7. CASE ToggleMode
  <2>1. UNCHANGED <<entry, data>> /\ groupByRoom' \in BOOLEAN
    BY <1>7 DEF ToggleMode
  <2>2. Rebuild(groupByRoom') \/ list' = list
    BY <1>7 DEF ToggleMode
  <2> QED
    BY <1>0, <2>1, <2>2, RebuildParsed DEF ArraysInv, Payload, NoPayload
<1>8. ASSUME UNCHANGED <<entry, data, list, groupByRoom>> PROVE ArraysInv'
  BY <1>0, <1>8 DEF ArraysInv, Payload, NoPayload
<1>9. CASE UpdateDropped \/ ShowOther \/ ScreenLoads \/ CloseModal \/ UNCHANGED vars
  BY <1>8, <1>9 DEF UpdateDropped, ShowOther, ScreenLoads, CloseModal, vars, uiVars
<1>10. ASSUME NEW card \in CardsOn(list), TapCard(card) PROVE ArraysInv'
  BY <1>8, <1>10 DEF TapCard
<1> QED
  BY <1>1, <1>2, <1>3, <1>4, <1>5, <1>6, <1>7, <1>9, <1>10 DEF Next

LEMMA ScreenInvariance == Spec => [](FreshInv /\ ArraysInv)
<1>1. Init => FreshInv
  BY DEF Init, FreshInv, InView, Message, None
<1> QED
  BY <1>1, FreshNext, ArraysInit, ArraysNext, PTL DEF Spec

\* Whatever the houses hold and wherever the limits cut them off: the devices divide the
\* array without a gap, none is empty, and nothing reaches behind the entities.
THEOREM ArraysArePartitioned == Spec => []GroupsPartition
<1>1. ASSUME ArraysInv PROVE GroupsPartition
  <2>1. \A ha \in HAs : Partitioned(ha)
    BY <1>1, ParsedIs DEF ArraysInv, HAs
  <2> QED
    BY <2>1 DEF Partitioned, GroupsPartition
<1> QED
  BY <1>1, ScreenInvariance, PTL

-----------------------------------------------------------------------------
(* The cards *)

\* A card of a device shows all of its entities or the first one, and controls the first one.
LEMMA DeviceCardShows ==
  ASSUME NEW ha, Partitioned(ha), NEW g \in Groups(ha), NEW section
  PROVE  LET card == DeviceCard(ha, section, g)
         IN  /\ card.tap \in {g.start, 0}
             /\ g.start \in card.shown /\ card.shown \subseteq RangeOf(g)
             /\ RangeOf(g) \subseteq 1..Len(ha.entities)
<1> DEFINE card == DeviceCard(ha, section, g)
           first == Domain[ha.entities[g.start]]
           Card(renderer, shown, primary) ==
             [section |-> section, renderer |-> renderer, shown |-> shown,
              tap |-> IF isControllable(primary) THEN g.start ELSE 0]
<1>1. PICK i \in 1..Len(ha.devices) : g = ha.devices[i]
  BY DEF Groups
<1>2. /\ g.count \in Nat \ {0} /\ g.start \in Nat \ {0}
      /\ g.start + g.count - 1 <= Len(ha.entities)
  BY <1>1 DEF Partitioned
<1>3. g.start \in RangeOf(g) /\ RangeOf(g) \subseteq 1..Len(ha.entities)
  BY <1>2 DEF RangeOf
<1>4. card =
        IF g.domain = "device_tracker" THEN Card("person", RangeOf(g), g.domain)
        ELSE IF g.count = 1 THEN Card(EntityRenderer(first), {g.start}, first)
        ELSE IF g.domain = "climate" THEN Card("climate", {g.start}, g.domain)
        ELSE Card("multi", RangeOf(g), g.domain)
  BY DEF DeviceCard
<1>5. \A renderer, shown, primary :
        /\ Card(renderer, shown, primary).shown = shown
        /\ Card(renderer, shown, primary).tap \in {g.start, 0}
  OBVIOUS
<1> HIDE DEF Card, first, card
<1>6. \E renderer, primary : \/ card = Card(renderer, RangeOf(g), primary)
                              \/ card = Card(renderer, {g.start}, primary)
  <2>1. CASE g.domain = "device_tracker"
    BY <1>4, <2>1
  <2>2. CASE g.domain # "device_tracker" /\ g.count = 1
    BY <1>4, <2>2
  <2>3. CASE g.domain # "device_tracker" /\ g.count # 1 /\ g.domain = "climate"
    BY <1>4, <2>3
  <2>4. CASE g.domain # "device_tracker" /\ g.count # 1 /\ g.domain # "climate"
    BY <1>4, <2>4
  <2> QED
    BY <2>1, <2>2, <2>3, <2>4
<1>7. card.tap \in {g.start, 0} /\ (card.shown = RangeOf(g) \/ card.shown = {g.start})
  BY <1>5, <1>6
<1> QED
  BY <1>3, <1>7 DEF card

\* Only the card of a device can be tapped, and what it opens is the first of the entities
\* that it shows.
LEMMA TapIsShown ==
  ASSUME NEW ha, Partitioned(ha), NEW byRoom, NEW card \in Cards(ha, byRoom), card.tap # 0
  PROVE  card.tap \in card.shown /\ card.tap \in 1..Len(ha.entities)
<1>1. \A section, i : EntityCard(ha, section, i).tap = 0
  BY DEF EntityCard
<1>2. \E g \in Groups(ha) : \E section : card = DeviceCard(ha, section, g)
  <2>1. \/ \E g \in Groups(ha) : \E section : card = DeviceCard(ha, section, g)
        \/ \E section, i : card = EntityCard(ha, section, i)
    <3>1. CASE card \in RoomCards(ha)
      BY <3>1 DEF RoomCards
    <3>2. CASE card \in CategoryCards(ha)
      BY <3>2 DEF CategoryCards
    <3>3. CASE card \in DomainCards(ha)
      BY <3>3 DEF DomainCards
    <3> QED
      BY <3>1, <3>2, <3>3 DEF Cards
  <2> QED
    BY <1>1, <2>1
<1>3. PICK g \in Groups(ha) : \E section : card = DeviceCard(ha, section, g)
  BY <1>2
<1>4. PICK section : card = DeviceCard(ha, section, g)
  BY <1>3
<1> QED
  BY <1>4, DeviceCardShows

\* A tap opens an entity that its card shows, unless the screen was overtaken.
THEOREM TapIsOfCard == Spec => TapOpensShown
<1> DEFINE Opens(card) == TapCard(card) /\ ~overtaken =>
                            modal' \in {list.ha.entities[i] : i \in card.shown}
<1>1. FreshInv /\ ArraysInv => \A card \in CardsOn(list) : Opens(card)
  <2> SUFFICES ASSUME FreshInv, ArraysInv, NEW card \in CardsOn(list), TapCard(card), ~overtaken
               PROVE  modal' \in {list.ha.entities[i] : i \in card.shown}
    OBVIOUS
  <2>1. list.kind = "cards" /\ card \in CardsOf[<<list.ha, list.byRoom>>]
    BY DEF CardsOn
  <2>2. list.ha \in Parsed /\ list.byRoom \in BOOLEAN
    BY DEF ArraysInv
  <2>3. card \in Cards(list.ha, list.byRoom)
    BY <2>1, <2>2 DEF CardsOf, Parsed
  <2>4. card.tap \in card.shown /\ card.tap \in 1..Len(list.ha.entities)
    BY <2>2, <2>3, TapIsShown, ParsedIs DEF TapCard
  <2>5. list.ha = data.ha
    BY <2>1 DEF TapCard, FreshInv, InView
  <2>6. modal' = list.ha.entities[card.tap]
    BY <2>4, <2>5 DEF TapCard
  <2> QED
    BY <2>4, <2>6
<1>2. FreshInv /\ ArraysInv => [\A card \in CardsOn(list) : Opens(card)]_vars
  BY <1>1
<1> QED
  BY <1>2, ScreenInvariance, PTL DEF TapOpensShown

\* Devices that come later in the array have later entities, and all come before those that
\* belong to none.
LEMMA DevicesInOrder ==
  ASSUME NEW ha, Partitioned(ha)
  PROVE  /\ \A i \in 1..Len(ha.devices), j \in 1..Len(ha.devices) :
              i < j => ha.devices[i].start + ha.devices[i].count <= ha.devices[j].start
         /\ ha.label_mode => \A i \in 1..Len(ha.devices) :
              ha.devices[i].start + ha.devices[i].count <= ha.standalone_start
<1> DEFINE n == Len(ha.devices)
           start(i) == ha.devices[i].start
           end(i) == ha.devices[i].start + ha.devices[i].count
           Later(i, m) == i + m + 1 <= n => end(i) <= start(i + m + 1)
           S == {m \in Nat : \A i \in 1..n : Later(i, m)}
<1>1. ASSUME NEW i \in 1..n
      PROVE  /\ start(i) \in Nat /\ end(i) \in Nat /\ start(i) <= end(i)
             /\ i # 1 => start(i) = end(i - 1)
  <2>1. /\ ha.devices[i].count \in Nat /\ ha.devices[i].start \in Nat
        /\ i # 1 => ha.devices[i].start = ha.devices[i - 1].start + ha.devices[i - 1].count
    BY DEF Partitioned
  <2>2. \A a, b \in Nat : a + b \in Nat /\ a <= a + b
    OBVIOUS
  <2> QED
    BY <2>1, <2>2
<1>2. ha.label_mode => ha.standalone_start = IF n = 0 THEN 1 ELSE end(n)
  BY DEF Partitioned
<1>3. n \in Nat
  OBVIOUS
<1> HIDE DEF start, end, n
<1>4. 0 \in S
  <2> SUFFICES ASSUME NEW i \in 1..n, i + 0 + 1 <= n PROVE end(i) <= start(i + 0 + 1)
    OBVIOUS
  <2>1. i + 0 + 1 \in 1..n /\ i + 0 + 1 # 1 /\ (i + 0 + 1) - 1 = i
    BY <1>3
  <2>2. start(i + 0 + 1) = end(i) /\ end(i) \in Nat
    BY <1>1, <2>1
  <2> QED
    BY <2>2
<1>5. ASSUME NEW m \in S PROVE m + 1 \in S
  <2> SUFFICES ASSUME NEW i \in 1..n, i + (m + 1) + 1 <= n PROVE end(i) <= start(i + (m + 1) + 1)
    OBVIOUS
  <2>1. m \in Nat /\ i + m + 1 \in 1..n /\ i + (m + 1) + 1 \in 1..n /\ i + (m + 1) + 1 # 1
        /\ (i + (m + 1) + 1) - 1 = i + m + 1 /\ i + m + 1 <= n
    BY <1>3
  <2>2. end(i) <= start(i + m + 1)
    BY <2>1
  <2>3. start(i + (m + 1) + 1) = end(i + m + 1)
    BY <1>1, <2>1
  <2>4. /\ end(i) \in Nat /\ start(i + m + 1) \in Nat /\ end(i + m + 1) \in Nat
        /\ start(i + m + 1) <= end(i + m + 1)
    BY <1>1, <2>1
  <2> QED
    BY <2>2, <2>3, <2>4
<1>6. S = Nat
  <2> HIDE DEF S
  <2>1. S \subseteq Nat
    BY DEF S
  <2> QED
    BY <1>4, <1>5, <2>1, Induction
<1>7. ASSUME NEW i \in 1..n, NEW j \in 1..n, i < j PROVE end(i) <= start(j)
  <2>1. PICK m \in Nat : m = j - i - 1
    BY <1>3, <1>7
  <2>2. i + m + 1 = j /\ i + m + 1 <= n
    BY <1>3, <1>7, <2>1
  <2>3. Later(i, m)
    BY <1>6
  <2> QED
    BY <2>2, <2>3
<1>8. ASSUME ha.label_mode, NEW i \in 1..n PROVE end(i) <= ha.standalone_start
  <2>1. n \in 1..n /\ ha.standalone_start = end(n)
    BY <1>2, <1>3, <1>8
  <2>2. CASE i = n
    BY <1>1, <2>1, <2>2
  <2>3. CASE i < n
    BY <1>1, <1>7, <2>1, <2>3
  <2> QED
    BY <1>3, <2>2, <2>3
<1> QED
  BY <1>7, <1>8 DEF n, start, end

\* Two devices have no entity in common, nor has a device one that belongs to none.
LEMMA DevicesApart ==
  ASSUME NEW ha, Partitioned(ha), NEW g \in Groups(ha)
  PROVE  /\ \A h \in Groups(ha) : g # h => RangeOf(g) \cap RangeOf(h) = {}
         /\ ha.label_mode => RangeOf(g) \cap Standalone(ha) = {}
<1> DEFINE n == Len(ha.devices)
<1>1. PICK i \in 1..n : g = ha.devices[i]
  BY DEF Groups
<1>2. \A k \in 1..n : ha.devices[k].count \in Nat /\ ha.devices[k].start \in Nat
  BY DEF Partitioned
<1>3. \A a, b, c, d \in Nat : a + b <= c => (a .. a + b - 1) \cap (c .. d) = {}
  OBVIOUS
<1>4. ASSUME NEW k \in 1..n, NEW m \in 1..n, k < m
      PROVE  RangeOf(ha.devices[k]) \cap RangeOf(ha.devices[m]) = {}
  <2> DEFINE a == ha.devices[k].start  b == ha.devices[k].count
             c == ha.devices[m].start  d == ha.devices[m].count
  <2>1. a \in Nat /\ b \in Nat /\ c \in Nat /\ d \in Nat /\ a + b <= c
    BY <1>2, <1>4, DevicesInOrder
  <2>2. RangeOf(ha.devices[k]) = a .. a + b - 1 /\ RangeOf(ha.devices[m]) = c .. c + d - 1
    BY DEF RangeOf
  <2> HIDE DEF a, b, c, d
  <2> QED
    BY <2>1, <2>2
<1>5. ASSUME NEW h \in Groups(ha), g # h PROVE RangeOf(g) \cap RangeOf(h) = {}
  <2>1. PICK j \in 1..n : h = ha.devices[j]
    BY DEF Groups
  <2>2. i < j \/ j < i
    BY <1>1, <1>5, <2>1
  <2> QED
    BY <1>1, <1>4, <2>1, <2>2
<1>6. ASSUME ha.label_mode PROVE RangeOf(g) \cap Standalone(ha) = {}
  <2>1. /\ g.start \in Nat /\ g.count \in Nat /\ g.start + g.count <= ha.standalone_start
        /\ ha.standalone_start \in Nat /\ Len(ha.entities) \in Nat
    <3>1. g.start \in Nat /\ g.count \in Nat
      BY <1>1, <1>2
    <3>2. g.start + g.count <= ha.standalone_start
      BY <1>1, <1>6, DevicesInOrder
    <3>3. ha.standalone_start \in Nat /\ Len(ha.entities) \in Nat
      BY DEF Partitioned
    <3> QED
      BY <3>1, <3>2, <3>3
  <2> QED
    BY <1>3, <2>1 DEF RangeOf, Standalone
<1> QED
  BY <1>5, <1>6

\* With a label, the card of a device and that of an entity without one.
CardOf(ha, byRoom, g)    == DeviceCard(ha, IF byRoom THEN g.area ELSE sectionKey(g.domain), g)
EntryCard(ha, byRoom, i) == EntityCard(ha, IF byRoom THEN NoArea ELSE "standalone", i)

HasSpace(ha, byRoom, g) ==
  IF byRoom THEN g.area \in Rooms(ha) \cup {NoArea} ELSE sectionKey(g.domain) \in Sections(ha)

LEMMA LabelCards ==
  ASSUME NEW ha, ha.label_mode, NEW byRoom \in BOOLEAN
  PROVE  Cards(ha, byRoom) =
           {CardOf(ha, byRoom, g) : g \in {h \in Groups(ha) : HasSpace(ha, byRoom, h)}}
           \cup {EntryCard(ha, byRoom, i) : i \in Standalone(ha)}
<1>1. CASE byRoom
  <2>1. Cards(ha, byRoom) = RoomCards(ha)
    BY <1>1 DEF Cards
  <2>2. \A g : /\ CardOf(ha, byRoom, g) = DeviceCard(ha, g.area, g)
               /\ HasSpace(ha, byRoom, g) <=> g.area \in Rooms(ha) \cup {NoArea}
    BY <1>1 DEF CardOf, HasSpace
  <2>3. \A i : EntryCard(ha, byRoom, i) = EntityCard(ha, NoArea, i)
    BY <1>1 DEF EntryCard
  <2> QED
    BY <2>1, <2>2, <2>3 DEF RoomCards
<1>2. CASE ~byRoom
  <2>1. Cards(ha, byRoom) = CategoryCards(ha)
    BY <1>2 DEF Cards
  <2>2. \A g : /\ CardOf(ha, byRoom, g) = DeviceCard(ha, sectionKey(g.domain), g)
               /\ HasSpace(ha, byRoom, g) <=> sectionKey(g.domain) \in Sections(ha)
    BY <1>2 DEF CardOf, HasSpace
  <2>3. \A i : EntryCard(ha, byRoom, i) = EntityCard(ha, "standalone", i)
    BY <1>2 DEF EntryCard
  <2> QED
    BY <2>1, <2>2, <2>3 DEF CategoryCards
<1> QED
  BY <1>1, <1>2

\* No two cards show the same entity.
LEMMA CardsApart ==
  ASSUME NEW ha, Partitioned(ha), NEW byRoom \in BOOLEAN,
         NEW c \in Cards(ha, byRoom), NEW d \in Cards(ha, byRoom), c # d
  PROVE  c.shown \cap d.shown = {}
<1>1. \A section, i : EntityCard(ha, section, i).shown = {i}
  BY DEF EntityCard
<1>2. CASE ha.label_mode
  <2> DEFINE OfDevice(card, g) == g \in Groups(ha) /\ card = CardOf(ha, byRoom, g)
             OfEntry(card, i)  == i \in Standalone(ha) /\ card = EntryCard(ha, byRoom, i)
  <2>1. \A card \in Cards(ha, byRoom) : (\E g : OfDevice(card, g)) \/ (\E i : OfEntry(card, i))
    BY <1>2, LabelCards
  <2>2. \A card, g : OfDevice(card, g) => card.shown \subseteq RangeOf(g)
    BY DeviceCardShows DEF CardOf
  <2>3. \A card, i : OfEntry(card, i) => card.shown = {i}
    BY <1>1 DEF EntryCard
  <2>4. \A g \in Groups(ha) : RangeOf(g) \cap Standalone(ha) = {}
    BY <1>2, DevicesApart
  <2>5. \A g \in Groups(ha), h \in Groups(ha) : g # h => RangeOf(g) \cap RangeOf(h) = {}
    BY DevicesApart
  <2>6. ASSUME NEW g, NEW h, OfDevice(c, g), OfDevice(d, h) PROVE c.shown \cap d.shown = {}
    <3>1. g # h
      BY <2>6
    <3> QED
      BY <2>2, <2>5, <2>6, <3>1
  <2>7. ASSUME NEW i, NEW j, OfEntry(c, i), OfEntry(d, j) PROVE c.shown \cap d.shown = {}
    <3>1. i # j
      BY <2>7
    <3> QED
      BY <2>3, <2>7, <3>1
  <2>8. ASSUME NEW card, NEW other, NEW g, NEW i, OfDevice(card, g), OfEntry(other, i)
        PROVE  card.shown \cap other.shown = {}
    BY <2>2, <2>3, <2>4, <2>8
  <2> HIDE DEF OfDevice, OfEntry
  <2> QED
    BY <2>1, <2>6, <2>7, <2>8
<1>3. CASE ~ha.label_mode
  <2>1. Cards(ha, byRoom) = DomainCards(ha)
    BY <1>3 DEF Cards
  <2>2. PICK i : c = EntityCard(ha, Domain[ha.entities[i]], i)
    BY <2>1 DEF DomainCards
  <2>3. PICK j : d = EntityCard(ha, Domain[ha.entities[j]], j)
    BY <2>1 DEF DomainCards
  <2>4. c.shown = {i} /\ d.shown = {j} /\ i # j
    BY <1>1, <2>2, <2>3
  <2> QED
    BY <2>4
<1> QED
  BY <1>2, <1>3

\* If the categories all have space (the code has ten sections for them), every entity is
\* drawn on at most one card, and nothing is left out except rooms beyond their limit.
THEOREM EveryEntityHasItsCard ==
  ASSUME \A ha \in Parsed : \A g \in Groups(ha) : sectionKey(g.domain) \in Sections(ha)
  PROVE  Spec => []OneCardEach
<1>1. ASSUME ArraysInv PROVE OneCardEach
  <2> SUFFICES ASSUME list.kind = "cards" PROVE OneCardEach
    BY DEF OneCardEach
  <2> DEFINE ha == list.ha
             byRoom == list.byRoom
             cards == Cards(ha, byRoom)
             Drawn(g) == ~byRoom \/ g.area \in Rooms(ha) \cup {NoArea}
  <2>1. ha \in Parsed /\ byRoom \in BOOLEAN /\ Partitioned(ha)
    BY <1>1, ParsedIs DEF ArraysInv
  <2>2. CardsOn(list) = cards
    BY <2>1 DEF CardsOn, CardsOf, Parsed
  <2>3. \A section, i : EntityCard(ha, section, i).shown = {i}
    BY DEF EntityCard
  <2> HIDE DEF ha, byRoom, cards
  <2>4. \A c \in cards, d \in cards : c # d => c.shown \cap d.shown = {}
    BY <2>1, CardsApart DEF cards
  <2>5. ASSUME ha.label_mode, NEW g \in Groups(ha), Drawn(g)
        PROVE  \E c \in cards : c.shown # {} /\ c.shown \subseteq RangeOf(g)
    <3>1. HasSpace(ha, byRoom, g)
      BY <2>1, <2>5 DEF HasSpace
    <3>2. CardOf(ha, byRoom, g) \in cards
      BY <2>1, <2>5, <3>1, LabelCards DEF cards
    <3>3. CardOf(ha, byRoom, g).shown # {} /\ CardOf(ha, byRoom, g).shown \subseteq RangeOf(g)
      BY <2>1, DeviceCardShows DEF CardOf
    <3> QED
      BY <3>2, <3>3
  <2>6. ASSUME ~ha.label_mode, NEW i \in 1..Len(ha.entities) PROVE \E c \in cards : c.shown = {i}
    <3>1. EntityCard(ha, Domain[ha.entities[i]], i) \in cards
      BY <2>6 DEF cards, Cards, DomainCards
    <3> QED
      BY <2>3, <3>1
  <2>7. ASSUME NEW i \in Standalone(ha) PROVE \E c \in cards : c.shown = {i}
    <3>1. CASE ha.label_mode
      <4>1. EntryCard(ha, byRoom, i) \in cards
        BY <2>1, <3>1, LabelCards DEF cards
      <4> QED
        BY <2>3, <4>1 DEF EntryCard
    <3>2. CASE ~ha.label_mode
      <4>1. ha.standalone_start \in Nat \ {0}
        BY <2>1 DEF Partitioned
      <4>2. i \in 1..Len(ha.entities)
        BY <4>1 DEF Standalone
      <4> QED
        BY <2>6, <3>2, <4>2
    <3> QED
      BY <3>1, <3>2
  <2> QED
    BY <2>2, <2>4, <2>5, <2>6, <2>7 DEF OneCardEach, ha, byRoom
<1> QED
  BY <1>1, ScreenInvariance, PTL
=============================================================================
