-------------------------- MODULE WifiManagerProofs --------------------------
(* The index and the order of the WiFi manager, for every configuration and every *)
(* DCC_MAX_WIFI.                                                                   *)
EXTENDS WifiManager, SequenceTheorems, WellFoundedInduction, TLAPS

\* The count is capped, and the first SSID is tried at once.
LEMMA WifiInit == Init => WifiInv
<1> SUFFICES ASSUME Init PROVE WifiInv
  OBVIOUS
<1>1. PICK cfg \in Configs : count = IF Len(cfg) > MaxWifi THEN MaxWifi ELSE Len(cfg)
  BY DEF Init
<1>2. Len(cfg) \in Nat
  BY WifiAssumption
<1>3. count \in 0..MaxWifi
  BY <1>1, <1>2, WifiAssumption
<1>4. TypeOK
  <2>1. tryIdx \in 0..MaxWifi /\ backoff \in 1..MaxBackoff
    BY WifiAssumption DEF Init, MaxBackoff
  <2>2. wifiState \in {"CONNECTING", "FAILED"} /\ available \subseteq Ssids
    BY DEF Init
  <2>3. EventsOK
    BY DEF Init, EventsOK
  <2> QED
    BY <1>3, <2>1, <2>2, <2>3, Zenon DEF Init, TypeOK
<1>5. wifiState = "CONNECTING" => networks[1].ssid \in tried
  BY <1>3 DEF Init
<1> QED
  BY <1>3, <1>4, <1>5 DEF Init, WifiInv

\* The queue of the event loop, which the actions of check() and of the radio share.
LEMMA EventsNext == EventsOK /\ [Next]_wifiVars => EventsOK'
<1> SUFFICES ASSUME EventsOK, [Next]_wifiVars PROVE EventsOK'
  OBVIOUS
<1> USE DEF EventsOK, Events
<1>1. ASSUME events' \in {events, <<>>, Append(events, "lost"), Append(events, "gotIp")}
      PROVE EventsOK'
  <2>1. Append(events, "lost") \in Seq(Events) /\ Append(events, "gotIp") \in Seq(Events)
    OBVIOUS
  <2>2. <<>> \in Seq(Events)
    OBVIOUS
  <2> QED
    BY <1>1, <2>1, <2>2
<1>2. CASE Check
  <2>1. CASE CheckLost \/ CheckConnected
    BY <1>1, <2>1 DEF CheckLost, CheckConnected, radio
  <2>2. CASE CheckTimeout
    <3>1. CASE tryIdx + 1 < count
      BY <2>2, <3>1 DEF CheckTimeout, TryConnect, Connect
    <3>2. CASE ~ (tryIdx + 1 < count)
      BY <1>1, <2>2, <3>2 DEF CheckTimeout, Disconnect
    <3> QED
      BY <3>1, <3>2
  <2>3. CASE CheckRetry
    BY <2>3 DEF CheckRetry, TryConnect, Connect
  <2> QED
    BY <1>2, <2>1, <2>2, <2>3 DEF Check
<1>3. CASE RadioJoins \/ RadioGivesUp \/ TimePasses
  BY <1>1, <1>3 DEF RadioJoins, RadioGivesUp, TimePasses, radio
<1>4. CASE WifiEventHandler
  BY <1>4 DEF WifiEventHandler
<1>5. ASSUME NEW n \in Ssids, NetworkAppears(n) \/ NetworkGoes(n) PROVE EventsOK'
  BY <1>1, <1>5 DEF NetworkAppears, NetworkGoes
<1>6. CASE UNCHANGED wifiVars
  BY <1>1, <1>6 DEF wifiVars, radio
<1> QED
  BY <1>2, <1>3, <1>4, <1>5, <1>6 DEF Next

\* check() leaves the array only after its last entry, and then starts at the first.
LEMMA WifiNext == WifiInv /\ [Next]_wifiVars => WifiInv'
<1> SUFFICES ASSUME WifiInv, [Next]_wifiVars PROVE WifiInv'
  OBVIOUS
<1> USE WifiAssumption DEF WifiInv, TypeOK, MaxBackoff, config, radio
<1>0. EventsOK'
  BY EventsNext
<1>1. CASE CheckLost
  <2>1. elapsed' \in BOOLEAN
    BY <1>1, Zenon DEF CheckLost
  <2>2. /\ wifiState' = "DISCONNECTED" /\ tryIdx' = 0 /\ backoff' = 1
        /\ count' = count /\ associated' = associated
        /\ link' = link /\ available' = available
    BY <1>1 DEF CheckLost
  <2>3. 0 < count
    BY <1>1 DEF CheckLost
  <2>4. TypeOK'
    <3>1. tryIdx' \in 0..MaxWifi /\ backoff' \in 1..MaxBackoff
      BY <2>2
    <3> QED
      BY <1>0, <2>1, <2>2, <3>1, Zenon
  <2> QED
    BY <2>2, <2>3, <2>4
<1>2. CASE CheckConnected
  BY <1>0, <1>2 DEF CheckConnected
<1>3. CASE CheckTimeout
  <2>1. CASE tryIdx + 1 < count
    <3>1. /\ tryIdx' = tryIdx + 1 /\ wifiState' = "CONNECTING" /\ elapsed' = FALSE
          /\ joining' = networks[tryIdx' + 1].ssid /\ tried' = tried \cup {joining'}
          /\ associated' = FALSE /\ link' = FALSE
          /\ UNCHANGED <<config, backoff, available>>
      BY <1>3, <2>1 DEF CheckTimeout, TryConnect, Connect
    <3>2. \A i \in 1..(tryIdx + 1) : networks[i].ssid \in tried
      BY <1>3 DEF CheckTimeout
    <3>3. \A i \in 1..(tryIdx' + 1) : networks'[i].ssid \in tried'
      BY <3>1, <3>2
    <3>4. TypeOK'
      <4>1. tryIdx' \in 0..MaxWifi
        BY <2>1, <3>1
      <4> QED
        BY <1>0, <3>1, <4>1, Zenon
    <3> QED
      BY <2>1, <3>1, <3>3, <3>4
  <2>2. CASE ~ (tryIdx + 1 < count)
    <3>1. /\ tryIdx' = 0 /\ wifiState' = "DISCONNECTED" /\ elapsed' = FALSE
          /\ associated' = FALSE /\ link' = FALSE
          /\ UNCHANGED <<config, backoff, available>>
      BY <1>3, <2>2 DEF CheckTimeout, Disconnect
    <3>2. 0 < count
      BY <1>3 DEF CheckTimeout
    <3>3. TypeOK'
      <4>1. tryIdx' \in 0..MaxWifi
        BY <3>1
      <4> QED
        BY <1>0, <3>1, <4>1, Zenon
    <3> QED
      BY <3>1, <3>2, <3>3
  <2> QED
    BY <2>1, <2>2
<1>4. CASE CheckRetry
  <2>1. backoff' \in 1..MaxBackoff
    BY <1>4 DEF CheckRetry
  <2>2. /\ tryIdx = 0 /\ tryIdx' = 0 /\ wifiState' = "CONNECTING" /\ elapsed' = FALSE
        /\ joining' = networks[1].ssid /\ tried' = tried \cup {joining'}
        /\ associated' = FALSE /\ link' = FALSE
        /\ count > 0 /\ UNCHANGED <<config, available>>
    BY <1>4 DEF CheckRetry, TryConnect, Connect
  <2>3. \A i \in 1..(tryIdx' + 1) : networks'[i].ssid \in tried'
    BY <2>2
  <2> QED
    BY <1>0, <2>1, <2>2, <2>3
<1>5. CASE RadioJoins
  BY <1>0, <1>5 DEF RadioJoins
<1>6. CASE RadioGivesUp
  BY <1>0, <1>6 DEF RadioGivesUp
<1>10. CASE WifiEventHandler
  BY <1>0, <1>10 DEF WifiEventHandler
<1>7. ASSUME NEW n \in Ssids, NetworkAppears(n) \/ NetworkGoes(n) PROVE WifiInv'
  BY <1>0, <1>7 DEF NetworkAppears, NetworkGoes
<1>8. CASE TimePasses
  BY <1>0, <1>8 DEF TimePasses
<1>9. CASE UNCHANGED wifiVars
  BY <1>0, <1>9 DEF wifiVars
<1> QED
  BY <1>1, <1>2, <1>3, <1>4, <1>5, <1>6, <1>7, <1>8, <1>9, <1>10 DEF Next, Check

\* While a connection is attempted or up, _networks[_tryIdx] is one of the _count
\* entries, the backoff is within its limits, and no entry of the round was skipped.
THEOREM IndexSafe == Spec => []WifiInv
<1>1. Init => WifiInv
  BY WifiInit
<1>2. WifiInv /\ [Next]_wifiVars => WifiInv'
  BY WifiNext
<1> QED
  BY <1>1, <1>2, PTL DEF Spec

-----------------------------------------------------------------------------
(* The order *)

Ordered(entries) ==
  \A i \in 1..Len(entries), j \in 1..Len(entries) :
    i <= j => entries[i].priority <= entries[j].priority

LEMMA EntryPriority == ASSUME NEW x \in Entry PROVE x.priority \in Int
<1>1. x.priority \in Priorities
  BY DEF Entry
<1>2. \A i \in 0..255 : i \in Int
  OBVIOUS
<1> QED
  BY <1>1, <1>2 DEF Priorities

\* The last entry that need not move.
LEMMA LastBefore ==
  ASSUME NEW n \in Nat, NEW before, before \subseteq 1..n
  PROVE  LET last == Max({0} \cup before)
         IN  last \in {0} \cup before /\ \A j \in before : j <= last
<1> DEFINE all == {0} \cup before
           left == {n - j : j \in all}
<1>1. left \subseteq Nat /\ left # {} /\ all \subseteq 0..n
  OBVIOUS
<1>2. IsWellFoundedOn(OpToRel(<, Nat), Nat)
  BY NatLessThanWellFounded
<1>3. PICK m \in left : \A y \in left : ~ (<<y, m>> \in OpToRel(<, Nat))
  BY <1>1, <1>2, WFMin
<1>4. \A y \in Nat, z \in Nat : y < z => <<y, z>> \in OpToRel(<, Nat)
  BY DEF OpToRel
<1>5. PICK g \in all : m = n - g
  BY <1>3
<1>6. ASSUME NEW j \in all PROVE g >= j
  <2>1. n - j \in left /\ n - j \in Nat /\ n - g \in Nat /\ j \in 0..n /\ g \in 0..n
    BY <1>1
  <2>2. ~ (n - j < n - g)
    BY <1>3, <1>4, <1>5, <2>1
  <2> QED
    BY <2>1, <2>2
<1>7. Max(all) \in all /\ \A j \in all : Max(all) >= j
  BY <1>6 DEF Max
<1> DEFINE last == Max(all)
<1>8. last \in Nat /\ \A j \in before : j \in Nat /\ j \in all
  <2>1. last \in 0..n
    BY <1>1, <1>7
  <2>2. \A j \in before : j \in 0..n /\ j \in all
    BY <1>1
  <2>3. \A j \in 0..n : j \in Nat
    OBVIOUS
  <2> QED
    BY <2>1, <2>2, <2>3
<1>9. \A j \in before : last >= j
  BY <1>7, <1>8
<1> HIDE DEF last
<1>10. \A j \in before : j <= last
  BY <1>8, <1>9
<1> QED
  BY <1>7, <1>10 DEF last

\* An entry inserted behind the first ones moves the others by one.
LEMMA InsertAtIs ==
  ASSUME NEW s \in Seq(Entry), NEW last \in 0..Len(s), NEW e \in Entry
  PROVE  LET ins == InsertAt(s, last + 1, e)
         IN  /\ ins \in Seq(Entry) /\ Len(ins) = Len(s) + 1
             /\ \A i \in 1..last : ins[i] = s[i]
             /\ ins[last + 1] = e
             /\ \A i \in last + 2..Len(s) + 1 : ins[i] = s[i - 1]
<1> DEFINE n == Len(s)
           front == SubSeq(s, 1, last)
           back == SubSeq(s, last + 1, n)
           one == <<e>>
           start == front \o one
           new == start \o back
<1>1. n \in Nat /\ last \in Nat /\ last <= n /\ \A i \in 1..n : s[i] \in Entry
  OBVIOUS
<1>2. front \in Seq(Entry) /\ Len(front) = last /\ \A i \in 1..last : front[i] = s[i]
  <2>1. /\ front \in Seq(Entry)
        /\ Len(front) = IF 1 <= last THEN last - 1 + 1 ELSE 0
        /\ \A i \in 1..last - 1 + 1 : front[i] = s[1 + i - 1]
    BY <1>1, SubSeqProperties
  <2> QED
    BY <1>1, <2>1
<1>3. back \in Seq(Entry) /\ Len(back) = n - last /\ \A i \in 1..n - last : back[i] = s[last + i]
  <2>1. /\ back \in Seq(Entry)
        /\ Len(back) = IF last + 1 <= n THEN n - (last + 1) + 1 ELSE 0
        /\ \A i \in 1..n - (last + 1) + 1 : back[i] = s[last + 1 + i - 1]
    BY <1>1, SubSeqProperties
  <2> QED
    BY <1>1, <2>1
<1>4. one \in Seq(Entry) /\ Len(one) = 1 /\ one[1] = e
  OBVIOUS
<1> HIDE DEF n, front, back, one
<1>5. /\ start \in Seq(Entry) /\ Len(start) = last + 1
      /\ \A i \in 1..last + 1 : start[i] = IF i <= last THEN front[i] ELSE one[i - last]
  <2>1. /\ front \o one \in Seq(Entry) /\ Len(front \o one) = Len(front) + Len(one)
        /\ \A i \in 1..Len(front) + Len(one) :
             (front \o one)[i] = IF i <= Len(front) THEN front[i] ELSE one[i - Len(front)]
    BY <1>2, <1>4, ConcatProperties, Zenon
  <2>2. Len(front) = last /\ Len(one) = 1
    BY <1>2, <1>4
  <2> QED
    BY <2>1, <2>2, Zenon DEF start
<1> HIDE DEF start
<1>6. /\ new \in Seq(Entry) /\ Len(new) = last + 1 + (n - last)
      /\ \A i \in 1..last + 1 + (n - last) : new[i] = IF i <= last + 1 THEN start[i] ELSE back[i - (last + 1)]
  <2>1. /\ start \o back \in Seq(Entry) /\ Len(start \o back) = Len(start) + Len(back)
        /\ \A i \in 1..Len(start) + Len(back) :
             (start \o back)[i] = IF i <= Len(start) THEN start[i] ELSE back[i - Len(start)]
    BY <1>3, <1>5, ConcatProperties, Zenon
  <2>2. Len(start) = last + 1 /\ Len(back) = n - last
    BY <1>3, <1>5
  <2> QED
    BY <2>1, <2>2, Zenon DEF new
<1>7. InsertAt(s, last + 1, e) = new
  <2>1. (last + 1) - 1 = last
    BY <1>1
  <2>2. InsertAt(s, last + 1, e)
          = SubSeq(s, 1, (last + 1) - 1) \o <<e>> \o SubSeq(s, last + 1, Len(s))
    BY DEF InsertAt
  <2>3. n = Len(s)
    BY DEF n
  <2> QED
    BY <2>1, <2>2, <2>3, Zenon DEF new, start, front, back, one
<1> HIDE DEF new
<1>8. Len(new) = n + 1
  BY <1>1, <1>6
<1>9. ASSUME NEW i \in 1..last PROVE new[i] = s[i]
  BY <1>1, <1>2, <1>5, <1>6
<1>10. new[last + 1] = e
  <2>1. last + 1 \in 1..last + 1 /\ last + 1 \in 1..last + 1 + (n - last) /\ ~ (last + 1 <= last)
        /\ last + 1 - last = 1
    BY <1>1
  <2> QED
    BY <1>4, <1>5, <1>6, <2>1
<1>11. ASSUME NEW i \in last + 2..n + 1 PROVE new[i] = s[i - 1]
  <2>1. i \in 1..last + 1 + (n - last) /\ ~ (i <= last + 1) /\ i - (last + 1) \in 1..n - last
        /\ last + (i - (last + 1)) = i - 1
    BY <1>1
  <2> QED
    BY <1>3, <1>6, <2>1
<1> QED
  BY <1>6, <1>7, <1>8, <1>9, <1>10, <1>11, Zenon DEF n

\* Inserting an entry keeps the order and adds one.
LEMMA InsertedIsOrdered ==
  ASSUME NEW sorted \in Seq(Entry), Ordered(sorted), NEW e \in Entry
  PROVE  /\ Inserted(sorted, e) \in Seq(Entry) /\ Ordered(Inserted(sorted, e))
         /\ Len(Inserted(sorted, e)) = Len(sorted) + 1
<1> DEFINE n == Len(sorted)
           before == {j \in DOMAIN sorted : sorted[j].priority <= e.priority}
           last == Max({0} \cup before)
           new == Inserted(sorted, e)
<1>1. n \in Nat /\ DOMAIN sorted = 1..n /\ \A j \in 1..n : sorted[j] \in Entry
  OBVIOUS
<1>2. last \in {0} \cup before /\ \A j \in before : j <= last
  <2> HIDE DEF n
  <2>1. before \subseteq 1..n
    BY <1>1
  <2> HIDE DEF before
  <2> QED
    BY <1>1, <2>1, LastBefore
<1>3. last \in 0..n
  BY <1>1, <1>2
<1>4. new = InsertAt(sorted, last + 1, e)
  BY DEF Inserted
<1> HIDE DEF last, new
<1>5. ASSUME NEW j \in last + 1..n PROVE ~ (sorted[j].priority <= e.priority)
  <2>1. j \in 1..n /\ ~ (j <= last)
    BY <1>1, <1>3
  <2> QED
    BY <1>1, <1>2, <2>1
<1>6. \A x \in Entry : x.priority \in Int
  BY EntryPriority
<1>7. ASSUME NEW j \in 1..last PROVE sorted[j].priority <= e.priority
  <2>1. last \in 1..n /\ sorted[last].priority <= e.priority /\ j \in 1..n /\ j <= last
    BY <1>1, <1>2, <1>3
  <2>2. sorted[j].priority <= sorted[last].priority
    BY <2>1 DEF Ordered
  <2>3. sorted[j].priority \in Int /\ sorted[last].priority \in Int /\ e.priority \in Int
    BY <1>1, <1>6, <2>1
  <2> QED
    BY <2>1, <2>2, <2>3
<1> HIDE DEF before
<1>8. /\ new \in Seq(Entry) /\ Len(new) = n + 1
      /\ \A i \in 1..n + 1 : new[i] = IF i <= last THEN sorted[i]
                                      ELSE IF i = last + 1 THEN e ELSE sorted[i - 1]
  <2>1. last \in 0..Len(sorted)
    BY <1>3
  <2>2. LET ins == InsertAt(sorted, last + 1, e)
        IN  /\ ins \in Seq(Entry) /\ Len(ins) = n + 1
            /\ \A i \in 1..last : ins[i] = sorted[i]
            /\ ins[last + 1] = e
            /\ \A i \in last + 2..n + 1 : ins[i] = sorted[i - 1]
    BY <2>1, InsertAtIs
  <2> HIDE DEF n
  <2>3. /\ new \in Seq(Entry) /\ Len(new) = n + 1
        /\ \A i \in 1..last : new[i] = sorted[i]
        /\ new[last + 1] = e
        /\ \A i \in last + 2..n + 1 : new[i] = sorted[i - 1]
    BY <1>4, <2>2, Zenon
  <2> QED
    BY <1>1, <1>3, <2>3
<1> HIDE DEF new
<1>9. ASSUME NEW i \in 1..n + 1, NEW j \in 1..n + 1, i < j
      PROVE  new[i].priority <= new[j].priority
  <2>1. /\ \A k \in 1..n : sorted[k].priority \in Int
        /\ e.priority \in Int
    BY <1>1, <1>6
  <2>2. \A k \in 1..n, l \in 1..n : k <= l => sorted[k].priority <= sorted[l].priority
    BY DEF Ordered
  <2>3. CASE j <= last
    <3>1. i \in 1..n /\ j \in 1..n /\ i <= last /\ i <= j
      BY <1>1, <1>3, <1>9, <2>3
    <3> QED
      BY <1>8, <2>2, <2>3, <3>1
  <2>4. CASE j = last + 1
    <3>1. i \in 1..last /\ i <= last /\ ~ (j <= last)
      BY <1>3, <1>9, <2>4
    <3> QED
      BY <1>7, <1>8, <2>4, <3>1
  <2>5. CASE j > last + 1
    <3>1. j - 1 \in last + 1..n /\ j - 1 \in 1..n /\ ~ (j <= last) /\ j # last + 1
      BY <1>1, <1>3, <2>5
    <3>2. new[j] = sorted[j - 1] /\ e.priority <= sorted[j - 1].priority
      BY <1>5, <1>8, <2>1, <3>1
    <3>3. CASE i = last + 1
      BY <1>3, <1>8, <3>2, <3>3
    <3>4. CASE i <= last
      <4>1. i \in 1..n /\ i <= j - 1
        BY <1>1, <1>3, <2>5, <3>4
      <4> QED
        BY <1>8, <2>2, <3>1, <3>2, <3>4, <4>1
    <3>5. CASE i > last + 1
      <4>1. i - 1 \in 1..n /\ i - 1 <= j - 1 /\ ~ (i <= last) /\ i # last + 1
        BY <1>1, <1>3, <1>9, <3>5
      <4> QED
        BY <1>8, <2>2, <3>1, <3>2, <4>1
    <3> QED
      BY <1>3, <3>3, <3>4, <3>5
  <2> QED
    BY <1>3, <2>3, <2>4, <2>5
<1>10. Ordered(new)
  <2>1. \A i \in 1..n + 1 : new[i] \in Entry /\ new[i].priority <= new[i].priority
    BY <1>6, <1>8
  <2>2. \A i \in 1..n + 1, j \in 1..n + 1 : i <= j => i = j \/ i < j
    BY <1>1
  <2> QED
    BY <1>8, <1>9, <2>1, <2>2 DEF Ordered
<1> QED
  BY <1>8, <1>10 DEF new

LEMMA Induction ==
  ASSUME NEW S, S \subseteq Nat, 0 \in S, \A n \in S : n + 1 \in S
  PROVE  S = Nat
<1> DEFINE T == Nat \ S
<1> SUFFICES ASSUME T # {} PROVE FALSE
  OBVIOUS
<1>1. IsWellFoundedOn(OpToRel(<, Nat), Nat)
  BY NatLessThanWellFounded
<1>2. PICK m \in T : \A y \in T : ~ (<<y, m>> \in OpToRel(<, Nat))
  BY <1>1, WFMin
<1>3. m \in Nat /\ m # 0
  OBVIOUS
<1>4. m - 1 \in Nat /\ m - 1 < m
  BY <1>3
<1>5. <<m - 1, m>> \in OpToRel(<, Nat)
  BY <1>3, <1>4 DEF OpToRel
<1>6. m - 1 \in S
  BY <1>2, <1>4, <1>5
<1>7. (m - 1) + 1 \in S
  BY <1>6
<1> QED
  BY <1>3, <1>7

\* What is sorted after i rounds is defined for every i.
LEMMA RoundsIs ==
  ASSUME NEW entries \in Seq(Entry)
  PROVE  Rounds(entries) =
           [i \in 0..Len(entries) |->
              IF i = 0 THEN <<>> ELSE Inserted(Rounds(entries)[i - 1], entries[i])]
<1> DEFINE Rec(f, m) == f = [i \in 0..m |-> IF i = 0 THEN <<>> ELSE Inserted(f[i - 1], entries[i])]
           S == {m \in Nat : \E f : Rec(f, m)}
<1>1. 0 \in S
  <2>1. Rec([i \in 0..0 |-> <<>>], 0)
    OBVIOUS
  <2> QED
    BY <2>1
<1>2. ASSUME NEW m \in S PROVE m + 1 \in S
  <2>1. PICK f : Rec(f, m)
    OBVIOUS
  <2> DEFINE g == [i \in 0..(m + 1) |-> IF i <= m THEN f[i] ELSE Inserted(f[m], entries[m + 1])]
  <2>2. Rec(g, m + 1)
    <3> SUFFICES ASSUME NEW i \in 0..(m + 1)
                 PROVE  g[i] = IF i = 0 THEN <<>> ELSE Inserted(g[i - 1], entries[i])
      OBVIOUS
    <3>1. CASE i <= m
      <4>1. f[i] = IF i = 0 THEN <<>> ELSE Inserted(f[i - 1], entries[i])
        BY <2>1, <3>1
      <4>2. g[i] = f[i] /\ (i # 0 => g[i - 1] = f[i - 1])
        BY <3>1
      <4> QED
        BY <4>1, <4>2
    <3>2. CASE i = m + 1
      <4>1. g[i] = Inserted(f[m], entries[m + 1]) /\ g[i - 1] = f[m] /\ i # 0
        BY <3>2
      <4> QED
        BY <3>2, <4>1
    <3> QED
      BY <3>1, <3>2
  <2> HIDE DEF g, Rec
  <2>3. m + 1 \in Nat /\ \E h : Rec(h, m + 1)
    BY <2>2
  <2> QED
    BY <2>3
<1>3. S = Nat
  <2> HIDE DEF S
  <2>1. S \subseteq Nat
    BY DEF S
  <2> QED
    BY <1>1, <1>2, <2>1, Induction
<1>4. \E f : Rec(f, Len(entries))
  <2>1. Len(entries) \in Nat
    OBVIOUS
  <2> QED
    BY <1>3, <2>1
<1> QED
  BY <1>4 DEF Rounds

\* sortByPriority() keeps every place of the array in use and puts it in order.
LEMMA SortedIsOrdered ==
  ASSUME NEW entries \in Seq(Entry)
  PROVE  /\ Ordered(SortByPriority(entries))
         /\ Len(SortByPriority(entries)) = Len(entries)
         /\ SortByPriority(entries) \in Seq(Entry)
<1> DEFINE After(i) == Rounds(entries)[i]
           Good(sorted, m) == sorted \in Seq(Entry) /\ Ordered(sorted) /\ Len(sorted) = m
           S == {m \in Nat : m <= Len(entries) => Good(After(m), m)}
<1>1. \A i \in 0..Len(entries) :
        After(i) = IF i = 0 THEN <<>> ELSE Inserted(After(i - 1), entries[i])
  BY RoundsIs
<1>2. Good(<<>>, 0)
  BY DEF Ordered
<1>3. \A m \in Nat : \A sorted : \A e \in Entry :
        Good(sorted, m) => Good(Inserted(sorted, e), m + 1)
  BY InsertedIsOrdered
<1>4. Len(entries) \in Nat /\ \A i \in 1..Len(entries) : entries[i] \in Entry
  OBVIOUS
<1> HIDE DEF Good, After
<1>5. 0 \in S
  BY <1>1, <1>2, <1>4
<1>6. ASSUME NEW m \in S PROVE m + 1 \in S
  <2> SUFFICES ASSUME m + 1 <= Len(entries) PROVE Good(After(m + 1), m + 1)
    OBVIOUS
  <2>1. Good(After(m), m)
    BY <1>4
  <2>2. m + 1 \in 0..Len(entries) /\ m + 1 # 0 /\ (m + 1) - 1 = m /\ entries[m + 1] \in Entry
    BY <1>4
  <2>3. After(m + 1) = Inserted(After(m), entries[m + 1])
    BY <1>1, <2>2
  <2> QED
    BY <1>3, <2>1, <2>2, <2>3
<1>7. S = Nat
  <2> HIDE DEF S
  <2>1. S \subseteq Nat
    BY DEF S
  <2> QED
    BY <1>5, <1>6, <2>1, Induction
<1>8. Good(After(Len(entries)), Len(entries))
  BY <1>4, <1>7
<1> QED
  BY <1>8 DEF Good, After, SortByPriority

\* The array is in order from init() on: check() and the events leave it alone.
InOrder == networks \in Seq(Entry) /\ Ordered(networks) /\ Len(networks) = count

LEMMA OrderInit == Init => InOrder
<1> SUFFICES ASSUME Init PROVE InOrder
  OBVIOUS
<1>1. PICK cfg \in Configs : /\ count = IF Len(cfg) > MaxWifi THEN MaxWifi ELSE Len(cfg)
                             /\ networks = SortByPriority(SubSeq(cfg, 1, count))
  BY DEF Init
<1>2. cfg \in Seq(Entry) /\ MaxWifi \in Nat
  BY WifiAssumption
<1>3. Len(cfg) \in Nat /\ \A i \in 1..Len(cfg) : cfg[i] \in Entry
  BY <1>2
<1>4. count \in Nat /\ count <= Len(cfg)
  BY <1>1, <1>2, <1>3
<1> DEFINE first == SubSeq(cfg, 1, count)
<1>5. first \in Seq(Entry) /\ Len(first) = count
  BY <1>2, <1>3, <1>4, SubSeqProperties
<1> HIDE DEF first
<1>6. networks = SortByPriority(first)
  BY <1>1 DEF first
<1> QED
  BY <1>5, <1>6, SortedIsOrdered DEF InOrder

LEMMA OrderNext == InOrder /\ [Next]_wifiVars => InOrder'
<1> SUFFICES ASSUME InOrder, [Next]_wifiVars PROVE InOrder'
  OBVIOUS
<1>1. UNCHANGED config
  BY DEF Next, Check, CheckLost, CheckConnected, CheckTimeout, CheckRetry, RadioJoins,
         RadioGivesUp, WifiEventHandler, NetworkAppears, NetworkGoes, TimePasses, wifiVars
<1>2. networks' = networks /\ count' = count
  BY <1>1 DEF config
<1> QED
  BY <1>2 DEF InOrder, Ordered

\* An entry with a lower number than the one that is tried stands before it.
LEMMA OrderIsTried == WifiInv /\ InOrder => TriedInOrder
<1> SUFFICES ASSUME WifiInv, InOrder, wifiState = "CONNECTING", NEW i \in 1..count,
                    networks[i].priority < networks[tryIdx + 1].priority
             PROVE  networks[i].ssid \in tried
  BY Zenon DEF TriedInOrder
<1>1. count \in Nat /\ tryIdx \in Nat /\ tryIdx < count
  BY WifiAssumption DEF WifiInv, TypeOK
<1>2. tryIdx + 1 \in 1..Len(networks) /\ i \in 1..Len(networks)
  BY <1>1 DEF InOrder
<1>3. networks[i].priority \in Int /\ networks[tryIdx + 1].priority \in Int
  <2>1. \A k \in 1..Len(networks) : networks[k] \in Entry
    BY DEF InOrder
  <2> QED
    BY <1>2, <2>1, EntryPriority
<1>4. i < tryIdx + 1
  <2>1. SUFFICES ASSUME ~ (i < tryIdx + 1) PROVE FALSE
    OBVIOUS
  <2>2. networks[tryIdx + 1].priority <= networks[i].priority
    <3>1. tryIdx + 1 <= i
      BY <1>1, <2>1
    <3> QED
      BY <1>2, <3>1 DEF InOrder, Ordered
  <2> QED
    BY <1>3, <2>2
<1>5. i \in 1..(tryIdx + 1)
  BY <1>1, <1>4
<1> QED
  BY <1>5 DEF WifiInv

\* "Tries SSIDs in priority order": for every configuration that config.wifi may hold, in
\* whatever order it lists the networks, an SSID is only tried when every one with a lower
\* number was tried before it in the same round.
THEOREM TriedByPriority == Spec => []TriedInOrder
<1>1. Init => WifiInv /\ InOrder
  BY WifiInit, OrderInit
<1>2. WifiInv /\ InOrder /\ [Next]_wifiVars => (WifiInv /\ InOrder)'
  BY WifiNext, OrderNext
<1>3. WifiInv /\ InOrder => TriedInOrder
  BY OrderIsTried
<1> QED
  BY <1>1, <1>2, <1>3, PTL DEF Spec
=============================================================================
