-------------------------- MODULE DeviceConfigProofs --------------------------
(* The settings in flash, for every first contents, number of networks, value and     *)
(* number of saves, faults and starts, on both boards.                                *)
EXTENDS DeviceConfig, SequenceTheorems, TLAPS

\* The settings that the screen can change.
EditKeys == {Setting(name) : name \in {"bridge_url", "timezone", "brightness", "clock_24h", "poll_sec"}}

\* Those of which load() makes the same whatever the other keys are.
Plain == SettingKeys \ {Setting("home_ssid")}

Cfg == {cfg \in [Keys -> Nat] : cfg[WifiCount] <= MaxWifi}

\* What load() may return.
Whole(cfg) ==
  /\ cfg \in Cfg
  /\ \A k \in EntryKeys : k[2] >= cfg[WifiCount] => cfg[k] = 0
  /\ P4 => cfg[WifiCount] # 0 /\ cfg[Setting("dev_name")] # 0

\* The flash as it will be when the writes that are left are made.
Pending == {writes[i][1] : i \in DOMAIN writes}
Merged  == [k \in Keys |-> IF k \in Pending THEN intended[k] ELSE flash[k]]

DeviceType ==
  /\ flash \in Cfg /\ screen \in Cfg /\ Whole(intended)
  /\ writes \in Seq(Keys \X Nat)
  /\ \A i \in DOMAIN writes : writes[i][1] = WifiCount => writes[i][2] <= MaxWifi
  /\ edited \subseteq EditKeys
  /\ ~power => writes = <<>> /\ edited = {} /\ ~shown

\* A setting that was not edited is only written as it is, and the screen has it so too.
EditInv ==
  /\ \A i \in DOMAIN writes : writes[i][1] \in Plain =>
       writes[i][2] = IF writes[i][1] \in edited THEN screen[writes[i][1]]
                                                 ELSE Load(flash)[writes[i][1]]
  /\ shown => \A k \in Plain \ edited : screen[k] = Load(flash)[k]

\* Without a fault, the writes that are left lead to the configuration that is intended.
SurviveInv ==
  ~harmed =>
    /\ \A i \in DOMAIN writes : writes[i][2] = intended[writes[i][1]]
    /\ Load(Merged) = intended
    /\ shown => \A k \in Keys \ edited : screen[k] = intended[k]

DeviceInv == DeviceType /\ EditInv /\ SurviveInv

-----------------------------------------------------------------------------
(* Keys *)

LEMMA SettingKeysAre ==
  SettingKeys = {Setting(name) : name \in {"bridge_url", "timezone", "brightness", "clock_24h",
                                           "poll_sec", "dev_name", "dev_key", "home_ssid"}}
<1>1. DOMAIN Settings = 1..8
  BY DEF Settings
<1>2. \A i \in 1..8 : i \in {1, 2, 3, 4, 5, 6, 7, 8}
  OBVIOUS
<1>3. {Settings[i] : i \in 1..8} = {"bridge_url", "timezone", "brightness", "clock_24h",
                                    "poll_sec", "dev_name", "dev_key", "home_ssid"}
  BY <1>2 DEF Settings
<1> QED
  BY <1>1, <1>3 DEF SettingKeys

LEMMA EntryKeysAre == EntryKeys = {"wifi_s", "wifi_p", "wifi_r"} \X (0..MaxWifi - 1)
<1>1. ToSet(EntryNames) = {"wifi_s", "wifi_p", "wifi_r"}
  <2>1. DOMAIN EntryNames = {1, 2, 3}
    BY DEF EntryNames
  <2> QED
    BY <2>1 DEF ToSet, EntryNames
<1> QED
  BY <1>1 DEF EntryKeys

LEMMA KeysApart ==
  /\ SettingKeys \cap EntryKeys = {}
  /\ WifiCount \notin SettingKeys /\ WifiCount \notin EntryKeys
  /\ SettingKeys \subseteq Keys /\ EntryKeys \subseteq Keys /\ WifiCount \in Keys
  /\ EditKeys \subseteq Plain /\ Plain \subseteq SettingKeys
  /\ Setting("dev_name") \in Plain /\ Setting("dev_name") \notin EditKeys
  /\ Setting("home_ssid") \in SettingKeys /\ Setting("home_ssid") \notin Plain
BY SettingKeysAre, EntryKeysAre DEF Keys, WifiCount, Setting, EditKeys, Plain

LEMMA Joined ==
  ASSUME NEW S, NEW s \in Seq(S), NEW t \in Seq(S)
  PROVE  s \o t \in Seq(S) /\ ToSet(s \o t) = ToSet(s) \cup ToSet(t)
<1> DEFINE st == s \o t
<1>1. st \in Seq(S) /\ Len(st) = Len(s) + Len(t) /\ Len(s) \in Nat /\ Len(t) \in Nat
  OBVIOUS
<1>2. DOMAIN st = 1..Len(s) + Len(t) /\ DOMAIN s = 1..Len(s) /\ DOMAIN t = 1..Len(t)
  BY <1>1
<1>3. \A i \in 1..Len(s) : st[i] = s[i]
  OBVIOUS
<1>4. \A i \in 1..Len(t) : st[Len(s) + i] = t[i]
  OBVIOUS
<1>5. \A i \in 1..Len(s) + Len(t) : i \in 1..Len(s) \/ (i - Len(s) \in 1..Len(t) /\ i = Len(s) + (i - Len(s)))
  BY <1>1
<1>6. \A i \in 1..Len(t) : Len(s) + i \in 1..Len(s) + Len(t)
  BY <1>1
<1>7. \A i \in 1..Len(s) : i \in 1..Len(s) + Len(t)
  BY <1>1
<1> HIDE DEF st
<1>8. ASSUME NEW x \in ToSet(st) PROVE x \in ToSet(s) \cup ToSet(t)
  <2>1. PICK i \in 1..Len(s) + Len(t) : x = st[i]
    BY <1>2 DEF ToSet
  <2> QED
    BY <1>2, <1>3, <1>4, <1>5, <2>1 DEF ToSet
<1>9. ASSUME NEW x \in ToSet(s) \cup ToSet(t) PROVE x \in ToSet(st)
  <2>1. CASE x \in ToSet(s)
    BY <1>2, <1>3, <1>7, <2>1 DEF ToSet
  <2>2. CASE x \in ToSet(t)
    BY <1>2, <1>4, <1>6, <2>2 DEF ToSet
  <2> QED
    BY <2>1, <2>2
<1>10. ToSet(st) = ToSet(s) \cup ToSet(t)
  BY <1>8, <1>9
<1> QED
  BY <1>1, <1>10 DEF st

\* saveWifi() writes the count and the entries before it.
LEMMA WifiKeysAre ==
  ASSUME NEW count \in 0..MaxWifi
  PROVE  /\ WifiKeys(count) \in Seq(Keys)
         /\ ToSet(WifiKeys(count)) = {WifiCount} \cup {k \in EntryKeys : k[2] < count}
<1> DEFINE entries == [n \in 1..3 * count |-> <<EntryNames[1 + ((n - 1) % 3)], (n - 1) \div 3>>]
<1>0. MaxWifi \in Nat /\ count \in Nat /\ count <= MaxWifi
  BY DeviceConfigAssumption
<1>1. \A n \in 1..3 * count : (n - 1) % 3 \in 0..2 /\ (n - 1) \div 3 \in 0..count - 1
  BY <1>0
<1>2. \A j \in 0..2 : EntryNames[1 + j] \in {"wifi_s", "wifi_p", "wifi_r"}
  BY DEF EntryNames
<1>3. \A n \in 1..3 * count : entries[n] \in EntryKeys /\ entries[n][2] < count
  BY <1>0, <1>1, <1>2, EntryKeysAre
<1>4. ASSUME NEW k \in EntryKeys, k[2] < count
      PROVE  \E n \in 1..3 * count : entries[n] = k
  <2>1. PICK i \in 0..MaxWifi - 1 : k \in {<<"wifi_s", i>>, <<"wifi_p", i>>, <<"wifi_r", i>>}
    BY EntryKeysAre
  <2>2. i \in Nat /\ i < count
    BY <1>0, <1>4, <2>1
  <2>3. ASSUME NEW j \in 0..2
        PROVE  /\ 3 * i + j + 1 \in 1..3 * count
               /\ entries[3 * i + j + 1] = <<EntryNames[1 + j], i>>
    <3>1. 3 * i + j + 1 \in 1..3 * count
      BY <1>0, <2>2
    <3>2. ((3 * i + j + 1) - 1) % 3 = j /\ ((3 * i + j + 1) - 1) \div 3 = i
      BY <2>2
    <3> QED
      BY <3>1, <3>2
  <2> HIDE DEF entries
  <2>4. k \in {<<EntryNames[1 + j], i>> : j \in 0..2}
    <3>1. EntryNames[1 + 0] = "wifi_s" /\ EntryNames[1 + 1] = "wifi_p" /\ EntryNames[1 + 2] = "wifi_r"
      BY DEF EntryNames
    <3>2. 0 \in 0..2 /\ 1 \in 0..2 /\ 2 \in 0..2
      OBVIOUS
    <3> QED
      BY <2>1, <3>1, <3>2
  <2> QED
    BY <2>3, <2>4
<1>5. entries \in Seq(Keys) /\ Len(entries) = 3 * count
  BY <1>0, <1>3, KeysApart
<1>6. ToSet(entries) = {k \in EntryKeys : k[2] < count}
  <2>1. ToSet(entries) = {entries[n] : n \in 1..3 * count}
    BY DEF ToSet
  <2> HIDE DEF entries
  <2> QED
    BY <1>3, <1>4, <2>1
<1>7. WifiKeys(count) = <<WifiCount>> \o entries
  BY DEF WifiKeys
<1> HIDE DEF entries
<1>8. <<WifiCount>> \in Seq(Keys) /\ ToSet(<<WifiCount>>) = {WifiCount}
  BY KeysApart DEF ToSet
<1>9. /\ WifiKeys(count) \in Seq(Keys)
      /\ ToSet(WifiKeys(count)) = ToSet(<<WifiCount>>) \cup ToSet(entries)
  <2> DEFINE first == <<WifiCount>>
  <2>1. first \in Seq(Keys) /\ entries \in Seq(Keys) /\ WifiKeys(count) = first \o entries
    BY <1>5, <1>7, <1>8
  <2> HIDE DEF first
  <2>2. first \o entries \in Seq(Keys) /\ ToSet(first \o entries) = ToSet(first) \cup ToSet(entries)
    BY <2>1, Joined
  <2> QED
    BY <2>1, <2>2 DEF first
<1> QED
  BY <1>6, <1>8, <1>9

\* The home network is the first of the networks.
HomeKeys == {WifiCount} \cup {k \in EntryKeys : k[2] < 1} \cup {Setting("home_ssid")}

LEMMA ProvisionedAre ==
  ASSUME NEW store
  PROVE  /\ Provisioned(store) \in Seq(Keys)
         /\ ToSet(Provisioned(store)) =
              (IF P4 /\ store[WifiCount] = 0 THEN HomeKeys ELSE {})
              \cup (IF P4 /\ store[Setting("dev_name")] = 0 THEN {Setting("dev_name")} ELSE {})
<1> DEFINE home == Setting("home_ssid")  name == Setting("dev_name")
<1>1. home \in Keys /\ name \in Keys
  BY KeysApart
<1> HIDE DEF home, name
<1>2. \A k \in Keys : <<k>> \in Seq(Keys) /\ ToSet(<<k>>) = {k}
  BY DEF ToSet
<1>3. <<>> \in Seq(Keys) /\ ToSet(<<>>) = {}
  BY DEF ToSet
<1>4. 1 \in 0..MaxWifi
  BY DeviceConfigAssumption
<1>5. WifiKeys(1) \in Seq(Keys) /\ ToSet(WifiKeys(1)) = {WifiCount} \cup {k \in EntryKeys : k[2] < 1}
  BY <1>4, WifiKeysAre
<1>6. /\ WifiKeys(1) \o <<home>> \in Seq(Keys)
      /\ ToSet(WifiKeys(1) \o <<home>>) = ToSet(WifiKeys(1)) \cup ToSet(<<home>>)
  <2> DEFINE t == <<home>>
  <2>1. t \in Seq(Keys)
    BY <1>1, <1>2
  <2> HIDE DEF t
  <2>2. WifiKeys(1) \o t \in Seq(Keys) /\ ToSet(WifiKeys(1) \o t) = ToSet(WifiKeys(1)) \cup ToSet(t)
    BY <1>5, <2>1, Joined
  <2> QED
    BY <2>2 DEF t
<1>7. /\ HomeNetwork(store) \in Seq(Keys)
      /\ ToSet(HomeNetwork(store)) = IF P4 /\ store[WifiCount] = 0 THEN HomeKeys ELSE {}
  BY <1>1, <1>2, <1>3, <1>5, <1>6 DEF HomeNetwork, HomeKeys, home
<1>8. /\ DeviceName(store) \in Seq(Keys)
      /\ ToSet(DeviceName(store)) = IF P4 /\ store[name] = 0 THEN {name} ELSE {}
  BY <1>1, <1>2, <1>3 DEF DeviceName, name
<1>9. /\ Provisioned(store) \in Seq(Keys)
      /\ ToSet(Provisioned(store)) = ToSet(HomeNetwork(store)) \cup ToSet(DeviceName(store))
  BY <1>7, <1>8, Joined DEF Provisioned
<1> QED
  BY <1>7, <1>8, <1>9 DEF name

-----------------------------------------------------------------------------
(* What is loaded and written *)

LEMMA CfgFacts ==
  ASSUME NEW cfg \in Cfg
  PROVE  cfg \in [Keys -> Nat] /\ cfg[WifiCount] \in 0..MaxWifi
BY KeysApart, DeviceConfigAssumption DEF Cfg

\* A setting is loaded as it is stored, but for a missing name.
LEMMA LoadOfPlain ==
  ASSUME NEW store, NEW k \in Plain
  PROVE  Load(store)[k] = IF P4 /\ k = Setting("dev_name") /\ store[k] = 0 THEN 1 ELSE store[k]
<1>1. k \in Keys /\ k \notin HomeKeys /\ k \notin EntryKeys
  BY KeysApart DEF HomeKeys
<1>2. k # <<"wifi_r", 0>>
  BY SettingKeysAre, KeysApart DEF Setting
<1>3. k \in ToSet(Provisioned(store)) <=> P4 /\ k = Setting("dev_name") /\ store[k] = 0
  BY <1>1, ProvisionedAre
<1> QED
  BY <1>1, <1>2, <1>3 DEF Load, LoadWifi

LEMMA LoadIsWhole ==
  ASSUME NEW store \in Cfg
  PROVE  Whole(Load(store))
<1> DEFINE cfg == Load(store)
           given == ToSet(Provisioned(store))
           name == Setting("dev_name")
<1>1. store \in [Keys -> Nat] /\ store[WifiCount] \in 0..MaxWifi
  BY CfgFacts
<1>2. cfg \in [Keys -> Nat]
  BY <1>1 DEF Load, LoadWifi
<1>3. WifiCount \in Keys /\ name \in Keys /\ WifiCount # <<"wifi_r", 0>> /\ name # <<"wifi_r", 0>>
      /\ WifiCount \notin EntryKeys /\ name \notin EntryKeys /\ name \notin HomeKeys /\ WifiCount # name
      /\ WifiCount \in HomeKeys
  BY KeysApart DEF WifiCount, Setting, HomeKeys
<1>4. /\ WifiCount \in given <=> P4 /\ store[WifiCount] = 0
      /\ name \in given <=> P4 /\ store[name] = 0
      /\ \A k \in EntryKeys : k \in given <=> P4 /\ store[WifiCount] = 0 /\ k[2] < 1
  BY <1>3, ProvisionedAre, KeysApart DEF HomeKeys
<1>5. /\ cfg[WifiCount] = IF P4 /\ store[WifiCount] = 0 THEN 1 ELSE store[WifiCount]
      /\ cfg[name] = IF P4 /\ store[name] = 0 THEN 1 ELSE store[name]
  BY <1>3, <1>4 DEF Load, LoadWifi
<1>6. \A k \in EntryKeys : k \in Keys /\ k[2] \in Nat
  BY EntryKeysAre, KeysApart
<1>7. ASSUME NEW k \in EntryKeys, k[2] >= cfg[WifiCount] PROVE cfg[k] = 0
  <2>1. k \notin given
    BY <1>1, <1>4, <1>5, <1>6, <1>7
  <2>2. k[2] >= store[WifiCount]
    BY <1>1, <1>5, <1>6, <1>7
  <2> QED
    BY <1>6, <2>1, <2>2 DEF Load, LoadWifi
<1>8. cfg[WifiCount] <= MaxWifi
  BY <1>1, <1>5, DeviceConfigAssumption
<1>9. P4 => cfg[WifiCount] # 0 /\ cfg[name] # 0
  BY <1>5
<1> HIDE DEF cfg
<1>10. Whole(cfg)
  BY <1>2, <1>7, <1>8, <1>9 DEF Whole, Cfg
<1> QED
  BY <1>10 DEF cfg

\* A store that has a whole configuration is loaded as just that.
LEMMA LoadOfWhole ==
  ASSUME NEW store \in Cfg, NEW cfg, Whole(cfg),
         store[WifiCount] = cfg[WifiCount],
         \A k \in SettingKeys : store[k] = cfg[k],
         \A k \in EntryKeys : k[2] < cfg[WifiCount] => store[k] = cfg[k]
  PROVE  Load(store) = cfg
<1>1. cfg \in [Keys -> Nat] /\ cfg[WifiCount] \in Nat
  BY CfgFacts, KeysApart DEF Whole
<1>2. ToSet(Provisioned(store)) = {}
  BY ProvisionedAre, KeysApart DEF Whole
<1>3. Load(store) = [k \in Keys |-> LoadWifi(store)[k]]
  BY <1>2 DEF Load
<1>4. ASSUME NEW k \in Keys PROVE LoadWifi(store)[k] = cfg[k]
  <2>1. CASE k \in EntryKeys
    <3>1. k[2] \in Nat /\ k \in Keys
      BY <2>1, EntryKeysAre
    <3>2. CASE k[2] >= cfg[WifiCount]
      BY <2>1, <3>2 DEF LoadWifi, Whole
    <3>3. CASE k[2] < cfg[WifiCount]
      BY <1>1, <2>1, <3>1, <3>3 DEF LoadWifi
    <3> QED
      BY <1>1, <3>1, <3>2, <3>3
  <2>2. CASE k \notin EntryKeys
    BY <2>2 DEF LoadWifi, Keys
  <2> QED
    BY <2>1, <2>2
<1> QED
  BY <1>1, <1>3, <1>4

\* What load() has put in, once written, is loaded as it is.
LEMMA LoadTwice ==
  ASSUME NEW store \in Cfg
  PROVE  Load([k \in Keys |-> IF k \in ToSet(Provisioned(store)) THEN Load(store)[k] ELSE store[k]])
           = Load(store)
<1> DEFINE cfg == Load(store)
           given == ToSet(Provisioned(store))
           new == [k \in Keys |-> IF k \in given THEN cfg[k] ELSE store[k]]
<1>1. Whole(cfg) /\ cfg \in [Keys -> Nat] /\ cfg[WifiCount] \in 0..MaxWifi
  BY LoadIsWhole, CfgFacts DEF Whole
<1>2. store \in [Keys -> Nat] /\ store[WifiCount] \in 0..MaxWifi
  BY CfgFacts
<1>3. \A k \in Keys \ given : cfg[k] = IF k \in EntryKeys /\ k[2] >= store[WifiCount] THEN 0 ELSE store[k]
  BY DEF Load, LoadWifi
<1>4. new[WifiCount] = cfg[WifiCount]
  BY <1>3, KeysApart
<1>5. \A k \in SettingKeys : new[k] = cfg[k]
  BY <1>3, KeysApart
<1>6. ASSUME NEW k \in EntryKeys, k[2] < cfg[WifiCount] PROVE new[k] = cfg[k]
  <2>1. k \in Keys /\ k[2] \in Nat
    BY EntryKeysAre, KeysApart
  <2>2. CASE k \in given
    BY <2>1, <2>2
  <2>3. CASE k \notin given
    <3>1. cfg[WifiCount] = store[WifiCount]
      <4>1. CASE WifiCount \in given
        <5>1. P4 /\ store[WifiCount] = 0
          BY <4>1, ProvisionedAre, KeysApart DEF WifiCount, Setting
        <5>2. cfg[WifiCount] = 1
          BY <4>1, KeysApart DEF Load, WifiCount
        <5>3. k \in HomeKeys
          BY <1>6, <5>2 DEF HomeKeys
        <5> QED
          BY <2>3, <5>1, <5>3, ProvisionedAre
      <4>2. CASE WifiCount \notin given
        BY <1>3, <4>2, KeysApart
      <4> QED
        BY <4>1, <4>2
    <3>2. ~(k[2] >= store[WifiCount])
      BY <1>2, <1>6, <2>1, <3>1
    <3> QED
      BY <1>3, <2>1, <2>3, <3>2
  <2> QED
    BY <2>2, <2>3
<1>7. new \in Cfg
  BY <1>1, <1>2, <1>4 DEF Cfg
<1> HIDE DEF new, cfg
<1>8. Load(new) = cfg
  BY <1>1, <1>4, <1>5, <1>6, <1>7, LoadOfWhole
<1> QED
  BY <1>8 DEF new, cfg

LEMMA WritesAre ==
  ASSUME NEW cfg \in Cfg, NEW keys \in Seq(Keys)
  PROVE  /\ WritesOf(cfg, keys) \in Seq(Keys \X Nat)
         /\ \A i \in DOMAIN WritesOf(cfg, keys) :
              /\ WritesOf(cfg, keys)[i][1] \in Keys
              /\ WritesOf(cfg, keys)[i][2] = cfg[WritesOf(cfg, keys)[i][1]]
         /\ {WritesOf(cfg, keys)[i][1] : i \in DOMAIN WritesOf(cfg, keys)} = ToSet(keys)
<1>1. DOMAIN keys = 1..Len(keys) /\ Len(keys) \in Nat /\ \A i \in DOMAIN keys : keys[i] \in Keys
  OBVIOUS
<1>2. cfg \in [Keys -> Nat]
  BY CfgFacts
<1>3. WritesOf(cfg, keys) = [i \in DOMAIN keys |-> <<keys[i], cfg[keys[i]]>>]
  BY DEF WritesOf
<1>4. WritesOf(cfg, keys) \in Seq(Keys \X Nat)
  BY <1>1, <1>2, <1>3
<1>5. DOMAIN WritesOf(cfg, keys) = DOMAIN keys
      /\ \A i \in DOMAIN keys : WritesOf(cfg, keys)[i] = <<keys[i], cfg[keys[i]]>>
  BY <1>3
<1> QED
  BY <1>1, <1>4, <1>5 DEF ToSet

LEMMA SaveKeysAre ==
  ASSUME NEW count \in 0..MaxWifi
  PROVE  LET keys == WifiKeys(count) \o [i \in DOMAIN Settings |-> Setting(Settings[i])]
         IN  /\ keys \in Seq(Keys)
             /\ ToSet(keys) = {WifiCount} \cup {k \in EntryKeys : k[2] < count} \cup SettingKeys
<1> DEFINE settings == [i \in DOMAIN Settings |-> Setting(Settings[i])]
<1>1. DOMAIN Settings = 1..8
  BY DEF Settings
<1>2. \A i \in DOMAIN Settings : Setting(Settings[i]) \in Keys
  BY KeysApart DEF SettingKeys
<1>3. settings \in Seq(Keys) /\ DOMAIN settings = DOMAIN Settings
  BY <1>1, <1>2
<1>4. ToSet(settings) = SettingKeys
  BY <1>3 DEF ToSet, SettingKeys
<1> HIDE DEF settings
<1>5. WifiKeys(count) \o settings \in Seq(Keys)
      /\ ToSet(WifiKeys(count) \o settings) = ToSet(WifiKeys(count)) \cup ToSet(settings)
  BY <1>3, Joined, WifiKeysAre
<1> QED
  BY <1>4, <1>5, WifiKeysAre DEF settings

LEMMA SaveWritesAre ==
  ASSUME NEW cfg \in Cfg
  PROVE  /\ SaveWrites(cfg) \in Seq(Keys \X Nat)
         /\ \A i \in DOMAIN SaveWrites(cfg) :
              /\ SaveWrites(cfg)[i][1] \in Keys
              /\ SaveWrites(cfg)[i][2] = cfg[SaveWrites(cfg)[i][1]]
         /\ {SaveWrites(cfg)[i][1] : i \in DOMAIN SaveWrites(cfg)}
              = {WifiCount} \cup {k \in EntryKeys : k[2] < cfg[WifiCount]} \cup SettingKeys
<1> DEFINE keys == WifiKeys(cfg[WifiCount]) \o [i \in DOMAIN Settings |-> Setting(Settings[i])]
<1>1. keys \in Seq(Keys)
      /\ ToSet(keys) = {WifiCount} \cup {k \in EntryKeys : k[2] < cfg[WifiCount]} \cup SettingKeys
  BY SaveKeysAre, CfgFacts
<1>2. SaveWrites(cfg) = WritesOf(cfg, keys)
  BY DEF SaveWrites
<1> HIDE DEF keys
<1> QED
  BY <1>1, <1>2, WritesAre

LEMMA LoadWritesAre ==
  ASSUME NEW store \in Cfg
  PROVE  /\ LoadWrites(store) \in Seq(Keys \X Nat)
         /\ \A i \in DOMAIN LoadWrites(store) :
              /\ LoadWrites(store)[i][1] \in Keys
              /\ LoadWrites(store)[i][2] = Load(store)[LoadWrites(store)[i][1]]
         /\ {LoadWrites(store)[i][1] : i \in DOMAIN LoadWrites(store)} = ToSet(Provisioned(store))
<1>1. Load(store) \in Cfg
  BY LoadIsWhole DEF Whole
<1> QED
  BY <1>1, ProvisionedAre, WritesAre DEF LoadWrites

-----------------------------------------------------------------------------
(* The invariant *)

\* Nothing left to write: the flash is what it will be.
LEMMA NothingPending == flash \in Cfg /\ writes = <<>> => Pending = {} /\ Merged = flash
BY DEF Pending, Merged, Cfg

LEMMA DeviceInit == Init => DeviceInv
<1> SUFFICES ASSUME Init PROVE DeviceInv
  OBVIOUS
<1>1. flash \in Cfg
  BY DeviceConfigAssumption DEF Init, Cfg
<1>2. Empty \in Cfg
  BY KeysApart, DeviceConfigAssumption DEF Empty, Cfg
<1>3. DeviceType
  BY <1>1, <1>2, LoadIsWhole DEF Init, DeviceType
<1>4. EditInv
  BY DEF Init, EditInv
<1>5. SurviveInv
  BY <1>1, NothingPending DEF Init, SurviveInv
<1> QED
  BY <1>3, <1>4, <1>5 DEF DeviceInv

\* The writes of a load with no other writes before it, whatever else it is made for.
LEMMA LoadKeeps ==
  ASSUME DeviceInv, writes = <<>>, writes' = LoadWrites(flash),
         UNCHANGED <<flash, intended, harmed>>,
         screen' \in Cfg, edited' \subseteq EditKeys, power',
         shown' => \A k \in Plain \ edited' : screen'[k] = Load(flash)[k],
         shown' /\ ~harmed => \A k \in Keys \ edited' : screen'[k] = intended[k]
  PROVE  DeviceInv'
<1>1. flash \in Cfg /\ Whole(intended) /\ Load(flash) \in Cfg
  BY LoadIsWhole DEF DeviceInv, DeviceType, Whole
<1>2. /\ writes' \in Seq(Keys \X Nat)
      /\ \A i \in DOMAIN writes' : /\ writes'[i][1] \in Keys
                                   /\ writes'[i][2] = Load(flash)[writes'[i][1]]
      /\ Pending' = ToSet(Provisioned(flash))
  BY <1>1, LoadWritesAre DEF Pending
<1>3. DeviceType'
  <2>1. \A i \in DOMAIN writes' : writes'[i][1] = WifiCount => writes'[i][2] <= MaxWifi
    BY <1>1, <1>2 DEF Cfg
  <2>2. flash' \in Cfg /\ Whole(intended)'
    BY <1>1 DEF Whole, Cfg
  <2> QED
    BY <1>2, <2>1, <2>2 DEF DeviceType, Cfg
<1>4. EditInv'
  <2>1. \A k \in Plain : k \in ToSet(Provisioned(flash)) => k = Setting("dev_name")
    BY ProvisionedAre, KeysApart DEF HomeKeys
  <2>2. \A i \in DOMAIN writes' : writes'[i][1] \in Plain => writes'[i][1] \notin edited'
    BY <1>2, <2>1, KeysApart DEF Pending
  <2> QED
    BY <1>2, <2>2 DEF EditInv
<1>5. SurviveInv'
  <2> SUFFICES ASSUME ~harmed PROVE SurviveInv'
    BY DEF SurviveInv
  <2>1. Load(flash) = intended
    BY <1>1, NothingPending DEF DeviceInv, SurviveInv
  <2>2. Merged' = [k \in Keys |-> IF k \in ToSet(Provisioned(flash)) THEN Load(flash)[k] ELSE flash[k]]
    BY <1>2, <2>1 DEF Merged
  <2>3. Load(Merged') = intended
    BY <1>1, <2>1, <2>2, LoadTwice
  <2>4. Load(Merged)' = Load(Merged')
    BY DEF Load, LoadWifi, Provisioned, HomeNetwork, DeviceName
  <2> QED
    BY <1>2, <2>1, <2>3, <2>4 DEF SurviveInv
<1> QED
  BY <1>3, <1>4, <1>5 DEF DeviceInv

LEMMA StartKeeps == DeviceInv /\ Start => DeviceInv'
<1> SUFFICES ASSUME DeviceInv, Start PROVE DeviceInv'
  OBVIOUS
<1>1. writes = <<>> /\ edited = {} /\ ~shown /\ screen \in Cfg
  BY DEF DeviceInv, DeviceType, Start
<1> QED
  BY <1>1, LoadKeeps DEF Start

\* A step that neither writes nor edits.
LEMMA SameKeeps ==
  ASSUME DeviceInv, UNCHANGED <<flash, power, screen, writes, edited, intended, harmed>>,
         shown' => shown
  PROVE  DeviceInv'
<1>1. DeviceType'
  BY DEF DeviceInv, DeviceType, Whole, Cfg
<1>2. EditInv'
  BY DEF DeviceInv, EditInv
<1>3. Merged' = Merged
  BY DEF Merged, Pending
<1>4. SurviveInv'
  BY <1>3 DEF DeviceInv, SurviveInv
<1> QED
  BY <1>1, <1>2, <1>4 DEF DeviceInv

LEMMA ShowKeeps ==
  ASSUME DeviceInv, ShowSettings \/ \E diagnostics \in BOOLEAN : ShowOther(diagnostics)
  PROVE  DeviceInv'
<1>1. /\ writes = <<>> /\ power /\ flash \in Cfg /\ screen \in Cfg /\ edited \subseteq EditKeys
      /\ Whole(Load(flash)) /\ Load(flash) \in Cfg
  BY LoadIsWhole DEF DeviceInv, DeviceType, ShowSettings, ShowOther, UIFree, Whole
<1>2. ~harmed => Load(flash) = intended
  BY <1>1, NothingPending DEF DeviceInv, SurviveInv
<1>3. CASE ShowSettings
  <2>1. /\ writes' = LoadWrites(flash) /\ UNCHANGED <<flash, intended, harmed, power>>
        /\ screen' = Load(flash) /\ edited' = {}
    BY <1>3 DEF ShowSettings
  <2>2. ~harmed => \A k \in Keys : screen'[k] = intended[k]
    BY <1>2, <2>1
  <2> QED
    BY <1>1, <2>1, <2>2, LoadKeeps
<1>4. ASSUME ShowOther(TRUE) PROVE DeviceInv'
  BY <1>1, <1>4, LoadKeeps DEF ShowOther, histVars
<1>5. ASSUME ShowOther(FALSE) PROVE DeviceInv'
  <2>1. UNCHANGED <<flash, power, screen, writes, edited, intended, harmed>> /\ ~shown'
    BY <1>1, <1>5 DEF ShowOther, histVars
  <2> QED
    BY <2>1, SameKeeps
<1> QED
  BY <1>3, <1>4, <1>5

\* An erased flash or a lost power leaves nothing to write and no screen.
LEMMA OffKeeps == DeviceInv /\ (FlashErased \/ PowerLost) => DeviceInv'
<1> SUFFICES ASSUME DeviceInv, FlashErased \/ PowerLost PROVE DeviceInv'
  OBVIOUS
<1>1. Empty \in Cfg
  BY KeysApart, DeviceConfigAssumption DEF Empty, Cfg
<1>2. flash' \in Cfg /\ screen' \in Cfg /\ writes' = <<>> /\ edited' = {} /\ ~shown'
      /\ intended' = intended
  <2>1. flash \in Cfg /\ screen \in Cfg /\ (~power => writes = <<>> /\ edited = {} /\ ~shown)
    BY DEF DeviceInv, DeviceType
  <2>2. CASE FlashErased
    BY <1>1, <2>1, <2>2 DEF FlashErased, ramVars
  <2>3. CASE PowerLost
    BY <1>1, <2>1, <2>3 DEF PowerLost
  <2> QED
    BY <2>2, <2>3
<1>3. DeviceType'
  <2>1. Whole(intended)'
    BY <1>2 DEF DeviceInv, DeviceType, Whole, Cfg
  <2>2. flash' \in Cfg' /\ screen' \in Cfg'
    BY <1>2 DEF Cfg
  <2>3. writes' \in Seq(Keys \X Nat)
    BY <1>2
  <2> QED
    BY <1>2, <2>1, <2>2, <2>3 DEF DeviceType
<1>4. EditInv'
  BY <1>2 DEF EditInv
<1>5. SurviveInv'
  <2> SUFFICES ASSUME ~harmed' PROVE SurviveInv'
    BY DEF SurviveInv
  <2>1. ~harmed /\ writes = <<>> /\ UNCHANGED <<flash, writes, intended>>
    BY DEF FlashErased, PowerLost
  <2>2. Merged' = Merged
    BY <2>1 DEF Merged, Pending
  <2> QED
    BY <1>2, <2>1, <2>2 DEF DeviceInv, SurviveInv
<1> QED
  BY <1>3, <1>4, <1>5 DEF DeviceInv

\* The next write.
nextKey   == Head(writes)[1]
nextValue == Head(writes)[2]

LEMMA WriteIs ==
  ASSUME DeviceInv, writes # <<>>
  PROVE  /\ nextKey \in Keys /\ nextValue \in Nat /\ (nextKey = WifiCount => nextValue <= MaxWifi)
         /\ Tail(writes) \in Seq(Keys \X Nat)
         /\ 1 \in DOMAIN writes /\ writes[1] = Head(writes)
         /\ \A i \in DOMAIN Tail(writes) : i + 1 \in DOMAIN writes /\ Tail(writes)[i] = writes[i + 1]
         /\ \A i \in DOMAIN writes : i = 1 \/ (i - 1 \in DOMAIN Tail(writes) /\ Tail(writes)[i - 1] = writes[i])
<1>1. writes \in Seq(Keys \X Nat)
  BY DEF DeviceInv, DeviceType
<1>2. Len(writes) \in Nat \ {0} /\ DOMAIN writes = 1..Len(writes)
  <2>1. Len(writes) # 0
    BY <1>1, EmptySeq
  <2> QED
    BY <1>1, <2>1
<1>3. Head(writes) = writes[1] /\ writes[1] \in Keys \X Nat
  BY <1>1, <1>2
<1>4. Tail(writes) \in Seq(Keys \X Nat) /\ DOMAIN Tail(writes) = 1..Len(writes) - 1
      /\ \A i \in 1..Len(writes) - 1 : Tail(writes)[i] = writes[i + 1]
  BY <1>1, <1>2
<1>5. nextKey = WifiCount => nextValue <= MaxWifi
  BY <1>2, <1>3 DEF nextKey, nextValue, DeviceInv, DeviceType
<1>6. nextKey \in Keys /\ nextValue \in Nat
  BY <1>3 DEF nextKey, nextValue
<1> QED
  BY <1>2, <1>3, <1>4, <1>5, <1>6

\* What a write changes for the next load: a setting that was not edited stays as it is.
LEMMA WriteOfPlain ==
  ASSUME DeviceInv, writes # <<>>, NEW k \in Plain,
         flash' = [flash EXCEPT ![nextKey] = nextValue]
  PROVE  /\ k \notin edited => Load(flash')[k] = Load(flash)[k]
         /\ Load(flash')[k] # Load(flash)[k] => Load(flash')[k] = screen[k]
<1>1. nextKey \in Keys /\ nextValue \in Nat /\ k \in Keys /\ flash \in [Keys -> Nat]
  BY WriteIs, KeysApart, CfgFacts DEF DeviceInv, DeviceType
<1>2. flash'[k] = IF k = nextKey THEN nextValue ELSE flash[k]
  BY <1>1
<1>3. edited \subseteq EditKeys
  BY DEF DeviceInv, DeviceType
<1>4. k = nextKey => nextValue = IF k \in edited THEN screen[k] ELSE Load(flash)[k]
  <2>1. 1 \in DOMAIN writes /\ writes[1][1] = nextKey /\ writes[1][2] = nextValue
    BY WriteIs DEF nextKey, nextValue
  <2>2. writes[1][1] \in Plain =>
          writes[1][2] = IF writes[1][1] \in edited THEN screen[writes[1][1]]
                                                    ELSE Load(flash)[writes[1][1]]
    BY <2>1 DEF DeviceInv, EditInv
  <2> QED
    BY <2>1, <2>2
<1> HIDE DEF nextKey, nextValue
<1>5. CASE k # nextKey
  <2>1. Load(flash)[k] = IF P4 /\ k = Setting("dev_name") /\ flash[k] = 0 THEN 1 ELSE flash[k]
    BY LoadOfPlain
  <2>2. Load(flash')[k] = IF P4 /\ k = Setting("dev_name") /\ flash'[k] = 0 THEN 1 ELSE flash'[k]
    BY LoadOfPlain
  <2> QED
    BY <1>2, <1>5, <2>1, <2>2
<1>6. CASE k = nextKey /\ k \in edited
  <2>1. k # Setting("dev_name")
    BY <1>3, <1>6, KeysApart
  <2>2. Load(flash')[k] = flash'[k]
    BY <2>1, LoadOfPlain
  <2> QED
    BY <1>2, <1>4, <1>6, <2>2
<1>7. CASE k = nextKey /\ k \notin edited
  <2>1. Load(flash)[k] = IF P4 /\ k = Setting("dev_name") /\ flash[k] = 0 THEN 1 ELSE flash[k]
    BY LoadOfPlain
  <2>2. Load(flash')[k] = IF P4 /\ k = Setting("dev_name") /\ flash'[k] = 0 THEN 1 ELSE flash'[k]
    BY LoadOfPlain
  <2>3. flash'[k] = Load(flash)[k]
    BY <1>2, <1>4, <1>7
  <2> QED
    BY <2>1, <2>2, <2>3
<1> QED
  BY <1>5, <1>6, <1>7

LEMMA WriteKeeps == DeviceInv /\ WriteKey => DeviceInv'
<1> SUFFICES ASSUME DeviceInv, WriteKey PROVE DeviceInv'
  OBVIOUS
<1>1. /\ writes # <<>> /\ writes' = Tail(writes)
      /\ UNCHANGED <<power, screen, shown, edited, intended>>
  BY DEF WriteKey, ramVars
<1>2. \/ flash' = [flash EXCEPT ![nextKey] = nextValue] /\ harmed' = harmed
      \/ flash' = flash /\ harmed'
  BY DEF WriteKey, nextKey, nextValue
<1>3. flash' \in Cfg
  <2>1. flash \in Cfg
    BY DEF DeviceInv, DeviceType
  <2> QED
    <3>1. nextKey \in Keys /\ nextValue \in Nat /\ (nextKey = WifiCount => nextValue <= MaxWifi)
      BY <1>1, WriteIs
    <3> HIDE DEF nextKey, nextValue
    <3> QED
      BY <1>2, <2>1, <3>1, KeysApart DEF Cfg
<1>4. DeviceType'
  <2>1. writes' \in Seq(Keys \X Nat)
        /\ \A i \in DOMAIN writes' : writes'[i][1] = WifiCount => writes'[i][2] <= MaxWifi
    BY <1>1, WriteIs DEF DeviceInv, DeviceType
  <2>2. Whole(intended)' /\ screen' \in Cfg' /\ flash' \in Cfg'
    BY <1>1, <1>3 DEF DeviceInv, DeviceType, Whole, Cfg
  <2>3. edited' \subseteq EditKeys /\ power'
    BY <1>1 DEF DeviceInv, DeviceType
  <2> QED
    BY <2>1, <2>2, <2>3 DEF DeviceType
<1>5. \A k \in Plain : k \notin edited => Load(flash')[k] = Load(flash)[k]
  BY <1>1, <1>2, WriteOfPlain
<1>6. EditInv'
  <2>1. \A i \in DOMAIN writes' : i + 1 \in DOMAIN writes /\ writes'[i] = writes[i + 1]
    BY <1>1, WriteIs
  <2> QED
    BY <1>1, <1>5, <2>1 DEF DeviceInv, EditInv
<1>7. SurviveInv'
  <2> SUFFICES ASSUME ~harmed' PROVE SurviveInv'
    BY DEF SurviveInv
  <2>1. flash' = [flash EXCEPT ![nextKey] = nextValue] /\ ~harmed
    BY <1>2
  <2>2. nextValue = intended[nextKey]
    BY <1>1, <2>1, WriteIs DEF DeviceInv, SurviveInv, nextKey, nextValue
  <2>3. Pending = Pending' \cup {nextKey}
    <3>1. ASSUME NEW k \in Pending PROVE k \in Pending' \cup {nextKey}
      <4>1. PICK i \in DOMAIN writes : k = writes[i][1]
        BY DEF Pending
      <4> QED
        BY <1>1, <4>1, WriteIs DEF Pending, nextKey
    <3>2. ASSUME NEW k \in Pending' PROVE k \in Pending
      <4>1. PICK i \in DOMAIN Tail(writes) : k = Tail(writes)[i][1]
        BY <1>1 DEF Pending
      <4> QED
        BY <1>1, <4>1, WriteIs DEF Pending
    <3>3. nextKey \in Pending
      BY <1>1, WriteIs DEF Pending, nextKey
    <3> QED
      BY <3>1, <3>2, <3>3
  <2>4. flash \in [Keys -> Nat] /\ nextKey \in Keys
    BY <1>1, WriteIs, CfgFacts DEF DeviceInv, DeviceType
  <2> HIDE DEF nextKey, nextValue
  <2>5. Merged' = Merged
    BY <1>1, <2>1, <2>2, <2>3, <2>4 DEF Merged
  <2>6. \A i \in DOMAIN writes' : writes'[i][2] = intended[writes'[i][1]]
    BY <1>1, <2>1, WriteIs DEF DeviceInv, SurviveInv
  <2> QED
    BY <1>1, <2>1, <2>5, <2>6 DEF DeviceInv, SurviveInv
<1> QED
  BY <1>4, <1>6, <1>7 DEF DeviceInv

\* A save of a screen on which only the settings that were edited differ.
LEMMA SaveKeeps ==
  ASSUME DeviceInv, NEW cfg \in Cfg, SaveScreen(cfg),
         edited \subseteq edited', edited' \subseteq EditKeys,
         \A k \in Keys \ edited' : cfg[k] = screen[k]
  PROVE  DeviceInv'
<1>1. /\ shown /\ power /\ screen' = cfg /\ writes' = SaveWrites(cfg)
      /\ intended' = [k \in Keys |-> IF k \in edited' THEN cfg[k] ELSE intended[k]]
      /\ UNCHANGED <<flash, power, shown, harmed>>
  BY DEF SaveScreen, UIFree
<1>2. /\ writes' \in Seq(Keys \X Nat)
      /\ \A i \in DOMAIN writes' : /\ writes'[i][1] \in Keys
                                   /\ writes'[i][2] = cfg[writes'[i][1]]
      /\ Pending' = {WifiCount} \cup {k \in EntryKeys : k[2] < cfg[WifiCount]} \cup SettingKeys
  BY <1>1, SaveWritesAre DEF Pending
<1>3. cfg \in [Keys -> Nat] /\ flash \in [Keys -> Nat] /\ flash \in Cfg
  BY CfgFacts DEF DeviceInv, DeviceType
<1>4. Whole(intended')
  <2>1. Whole(intended) /\ intended \in [Keys -> Nat]
    BY CfgFacts DEF DeviceInv, DeviceType, Whole
  <2>2. intended' \in [Keys -> Nat]
    BY <1>1, <1>3, <2>1
  <2>3. \A k \in {WifiCount, Setting("dev_name")} \cup EntryKeys : intended'[k] = intended[k]
    BY <1>1, KeysApart
  <2> QED
    BY <2>1, <2>2, <2>3 DEF Whole, Cfg
<1>5. DeviceType'
  <2>1. \A i \in DOMAIN writes' : writes'[i][1] = WifiCount => writes'[i][2] <= MaxWifi
    BY <1>2 DEF Cfg
  <2>2. Whole(intended)' /\ screen' \in Cfg' /\ flash' \in Cfg'
    BY <1>1, <1>3, <1>4 DEF Whole, Cfg
  <2> QED
    BY <1>1, <1>2, <2>1, <2>2 DEF DeviceType
<1>6. EditInv'
  <2>1. \A k \in Plain \ edited' : cfg[k] = Load(flash)[k]
    BY <1>1, KeysApart DEF DeviceInv, EditInv
  <2>2. \A i \in DOMAIN writes' : writes'[i][1] \in Plain =>
          writes'[i][2] = IF writes'[i][1] \in edited' THEN screen'[writes'[i][1]]
                                                       ELSE Load(flash)[writes'[i][1]]
    BY <1>1, <1>2, <2>1
  <2> QED
    BY <1>1, <2>1, <2>2 DEF EditInv
<1>7. SurviveInv'
  <2> SUFFICES ASSUME ~harmed PROVE SurviveInv'
    BY <1>1 DEF SurviveInv
  <2>1. \A k \in Keys \ edited' : cfg[k] = intended[k]
    BY <1>1 DEF DeviceInv, SurviveInv
  <2>2. intended' = cfg
    BY <1>1, <1>3, <2>1
  <2>3. Merged' = [k \in Keys |-> IF k \in Pending' THEN cfg[k] ELSE flash[k]]
    BY <1>1, <2>2 DEF Merged
  <2>4. Merged' \in Cfg
    <3>1. Merged' \in [Keys -> Nat]
      BY <1>3, <2>3
    <3>2. Merged'[WifiCount] = cfg[WifiCount]
      BY <1>2, <2>3, KeysApart
    <3> QED
      BY <3>1, <3>2 DEF Cfg
  <2>5. /\ Merged'[WifiCount] = cfg[WifiCount]
        /\ \A k \in SettingKeys : Merged'[k] = cfg[k]
        /\ \A k \in EntryKeys : k[2] < cfg[WifiCount] => Merged'[k] = cfg[k]
    BY <1>2, <2>3, KeysApart
  <2>6. Load(Merged') = cfg
    BY <1>4, <2>2, <2>4, <2>5, LoadOfWhole
  <2>7. Load(Merged)' = Load(Merged')
    BY DEF Load, LoadWifi, Provisioned, HomeNetwork, DeviceName
  <2> QED
    BY <1>1, <1>2, <2>2, <2>6, <2>7 DEF SurviveInv
<1> QED
  BY <1>5, <1>6, <1>7 DEF DeviceInv

LEMMA EditKeeps ==
  ASSUME DeviceInv, NEW chosen \in Values,
         \/ \E name \in {"bridge_url", "timezone", "clock_24h", "poll_sec"} : SaveSetting(name, chosen)
         \/ BrightnessChanged(chosen)
  PROVE  DeviceInv'
<1>1. screen \in Cfg /\ screen \in [Keys -> Nat] /\ edited \subseteq EditKeys /\ chosen \in Nat
  BY CfgFacts, DeviceConfigAssumption DEF DeviceInv, DeviceType
<1>2. ASSUME NEW k \in EditKeys
      PROVE  /\ [screen EXCEPT ![k] = chosen] \in Cfg
             /\ \A other \in Keys : other # k => [screen EXCEPT ![k] = chosen][other] = screen[other]
  BY <1>1, KeysApart DEF Cfg
<1>3. ASSUME NEW name \in {"bridge_url", "timezone", "clock_24h", "poll_sec"}, SaveSetting(name, chosen)
      PROVE  DeviceInv'
  <2>1. Setting(name) \in EditKeys
    BY DEF EditKeys
  <2>2. SaveScreen([screen EXCEPT ![Setting(name)] = chosen]) /\ edited' = edited \cup {Setting(name)}
    BY <1>3 DEF SaveSetting
  <2> QED
    BY <1>1, <1>2, <2>1, <2>2, SaveKeeps
<1>4. CASE BrightnessChanged(chosen)
  <2> DEFINE k == Setting("brightness")
  <2>1. k \in EditKeys
    BY DEF EditKeys
  <2>2. /\ screen' = [screen EXCEPT ![k] = chosen] /\ edited' = edited \cup {k}
        /\ power /\ shown /\ writes = <<>>
        /\ UNCHANGED <<flash, power, shown, writes, intended, harmed>>
    BY <1>4 DEF BrightnessChanged, UIFree
  <2> HIDE DEF k
  <2>3. DeviceType'
    <3>1. screen' \in Cfg' /\ Whole(intended)' /\ flash' \in Cfg'
      BY <1>2, <2>1, <2>2 DEF DeviceInv, DeviceType, Whole, Cfg
    <3>2. edited' \subseteq EditKeys
      BY <1>1, <2>1, <2>2
    <3> QED
      BY <2>2, <3>1, <3>2 DEF DeviceInv, DeviceType
  <2>4. \A other \in Keys \ edited' : screen'[other] = screen[other] /\ other \notin edited
    BY <1>2, <2>1, <2>2
  <2>5. EditInv'
    BY <2>2, <2>4, KeysApart DEF DeviceInv, EditInv
  <2>6. Merged' = Merged
    BY <2>2 DEF Merged, Pending
  <2>7. SurviveInv'
    BY <2>2, <2>4, <2>6 DEF DeviceInv, SurviveInv
  <2> QED
    BY <2>3, <2>5, <2>7 DEF DeviceInv
<1> QED
  BY <1>3, <1>4

LEMMA ReleaseKeeps == DeviceInv /\ BrightnessRelease => DeviceInv'
<1> SUFFICES ASSUME DeviceInv, BrightnessRelease PROVE DeviceInv'
  OBVIOUS
<1>1. screen \in Cfg /\ edited \subseteq EditKeys /\ edited' = edited /\ SaveScreen(screen)
  BY DEF DeviceInv, DeviceType, BrightnessRelease
<1> QED
  BY <1>1, SaveKeeps

LEMMA DeviceNext == DeviceInv /\ [Next]_vars => DeviceInv'
<1> SUFFICES ASSUME DeviceInv, [Next]_vars PROVE DeviceInv'
  OBVIOUS
<1>1. CASE FlashErased \/ PowerLost
  BY <1>1, OffKeeps
<1>2. CASE Start
  BY <1>2, StartKeeps
<1>3. CASE WriteKey
  BY <1>3, WriteKeeps
<1>4. CASE ShowSettings \/ \E diagnostics \in BOOLEAN : ShowOther(diagnostics)
  BY <1>4, ShowKeeps
<1>5. ASSUME NEW chosen \in Values,
             \/ \E name \in {"bridge_url", "timezone", "clock_24h", "poll_sec"} : SaveSetting(name, chosen)
             \/ BrightnessChanged(chosen)
      PROVE  DeviceInv'
  BY <1>5, EditKeeps
<1>6. CASE BrightnessRelease
  BY <1>6, ReleaseKeeps
<1>7. CASE UNCHANGED vars
  BY <1>7, SameKeeps DEF vars, ramVars, histVars
<1> QED
  BY <1>1, <1>2, <1>3, <1>4, <1>5, <1>6, <1>7 DEF Next

LEMMA DeviceInvariance == Spec => []DeviceInv
BY DeviceInit, DeviceNext, PTL DEF Spec

-----------------------------------------------------------------------------
(* What is saved and what survives *)

\* Only a write changes what the next start sees while the power is on.
LEMMA OnlyWritesChange == power /\ [Next]_vars => flash' = flash \/ WriteKey
BY DEF Next, vars, FlashErased, Start, PowerLost, ShowSettings, ShowOther, SaveSetting,
       BrightnessChanged, BrightnessRelease, SaveScreen

\* Wherever a save is cut off and whatever fails, a start sees no setting changed but those
\* that were edited on the screen, and those as they were chosen.
THEOREM EditsOnly == Spec => OnlyEditsAreSaved
<1> DEFINE Saved == power =>
             LET was == Load(flash)  is == Load(flash')
             IN  \A k \in SettingKeys \ {Setting("home_ssid")} :
                   is[k] # was[k] => k \in edited /\ is[k] = screen[k]
<1>1. DeviceInv /\ [Next]_vars => Saved
  <2> SUFFICES ASSUME DeviceInv, [Next]_vars, power, NEW k \in Plain,
                      Load(flash')[k] # Load(flash)[k]
               PROVE  k \in edited /\ Load(flash')[k] = screen[k]
    BY DEF Plain
  <2>1. WriteKey /\ flash' # flash
    BY OnlyWritesChange
  <2>2. writes # <<>> /\ flash' = [flash EXCEPT ![nextKey] = nextValue]
    BY <2>1 DEF WriteKey, nextKey, nextValue
  <2> QED
    BY <2>2, WriteOfPlain
<1>2. DeviceInv /\ [Next]_vars => [Saved]_vars
  BY <1>1
<1> QED
  BY <1>2, DeviceInvariance, PTL DEF Spec, OnlyEditsAreSaved

\* Without a failure of the flash, a start finds the settings that were last saved and the
\* networks that the device has had since its first start.
THEOREM SavedSurvives == Spec => SettingsSurvive
<1>1. DeviceInv => (Start /\ ~harmed => running' = intended)
  <2> SUFFICES ASSUME DeviceInv, Start, ~harmed PROVE running' = intended
    OBVIOUS
  <2>1. writes = <<>> /\ flash \in Cfg
    BY DEF DeviceInv, DeviceType, Start
  <2>2. Load(flash) = intended
    BY <2>1, NothingPending DEF DeviceInv, SurviveInv
  <2> QED
    BY <2>2 DEF Start
<1>2. DeviceInv => [Start /\ ~harmed => running' = intended]_vars
  BY <1>1
<1> QED
  BY <1>2, DeviceInvariance, PTL DEF SettingsSurvive
=============================================================================
