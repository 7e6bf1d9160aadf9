----------------------------- MODULE DeviceConfig -----------------------------
(***************************************************************************)
(* The settings of the device: config_store.cpp and config_store_p4.cpp,   *)
(* the settings screen that edits them, and the start that applies them.   *)
(*                                                                         *)
(* A setting is one key in flash.  save() writes all keys, one after the   *)
(* other, and the power may go, or the write of a key fail, at each.  On   *)
(* the P4 a load writes as well: networks and a name that are missing.     *)
(*                                                                         *)
(* A value is a number: 0 for a key that is missing or empty, which load() *)
(* replaces by the default, others for what was provisioned or typed in.   *)
(***************************************************************************)
EXTENDS Naturals, SequencesExt

CONSTANTS
  P4,          \* TRUE on the P4, FALSE on the S3
  MaxWifi,     \* DCC_MAX_WIFI
  FirstFlash,  \* the contents of the flash that a device may first start with
  Values,      \* the values a user chooses for a setting
  MaxSaves,    \* bound: settings saved
  MaxFaults,   \* bound: failures of the flash
  MaxStarts    \* bound: starts of the device

\* A key is a name with the index of its network, 0 for a setting.
Settings == <<"bridge_url", "timezone", "brightness", "clock_24h", "poll_sec",
              "dev_name", "dev_key", "home_ssid">>
Setting(name) == <<name, 0>>
WifiCount     == <<"wifi_count", 0>>
EntryNames    == <<"wifi_s", "wifi_p", "wifi_r">>
SettingKeys   == {Setting(Settings[i]) : i \in DOMAIN Settings}
EntryKeys     == ToSet(EntryNames) \X (0..MaxWifi - 1)
Keys          == SettingKeys \cup EntryKeys \cup {WifiCount}

ASSUME DeviceConfigAssumption ==
  /\ P4 \in BOOLEAN
  /\ MaxWifi \in Nat \ {0}
  /\ FirstFlash \subseteq [Keys -> Nat]
  /\ \A flash \in FirstFlash : flash[WifiCount] <= MaxWifi
  /\ Values \subseteq Nat
  /\ MaxSaves \in Nat /\ MaxFaults \in Nat /\ MaxStarts \in Nat

VARIABLES
  flash,      \* the keys of the namespace dcc_cfg
  power,      \* the device is on
  running,    \* cfg of setup(), with which the other parts were started
  screen,     \* _cfg of the settings screen
  shown,      \* the settings screen is the one shown
  backlight,  \* what the backlight was last set to
  writes,     \* the writes that the store function on the UI thread has yet to make
  edited,     \* history: the settings changed on the screen since it was shown
  intended,   \* history: the configuration the user, or the first start, settled
  harmed,     \* history: a write has failed or was cut off
  faults,     \* history: writes that have failed, or all of the flash
  saves, starts

ramVars  == <<running, screen, shown, backlight>>
histVars == <<edited, intended, harmed, faults>>
vars == <<flash, power, ramVars, writes, histVars, saves, starts>>

-----------------------------------------------------------------------------
(* ConfigStore *)

\* loadWifi(): the entries behind the count are left empty.
LoadWifi(store) ==
  [k \in Keys |-> IF k \in EntryKeys /\ k[2] >= store[WifiCount] THEN 0 ELSE store[k]]

\* The keys that saveWifi() writes, network by network.
WifiKeys(count) ==
  <<WifiCount>> \o [n \in 1..3 * count |-> <<EntryNames[1 + ((n - 1) % 3)], (n - 1) \div 3>>]

\* What load() of the P4 puts in where the flash has nothing: the home network, without
\* any network, and the name of the device.
HomeNetwork(store) ==
  IF P4 /\ store[WifiCount] = 0 THEN WifiKeys(1) \o <<Setting("home_ssid")>> ELSE <<>>
DeviceName(store) ==
  IF P4 /\ store[Setting("dev_name")] = 0 THEN <<Setting("dev_name")>> ELSE <<>>
Provisioned(store) == HomeNetwork(store) \o DeviceName(store)

\* load(): what is put in is 1, but for the priority of the network.
Load(store) ==
  [k \in Keys |-> IF k \notin ToSet(Provisioned(store)) THEN LoadWifi(store)[k]
                  ELSE IF k = <<"wifi_r", 0>> THEN 0 ELSE 1]

WritesOf(cfg, keys) == [i \in DOMAIN keys |-> <<keys[i], cfg[keys[i]]>>]

\* What load() writes: on the P4, what it has put in.
LoadWrites(store) == WritesOf(Load(store), Provisioned(store))

\* Slip: the clock's format is not among the keys.
SaveWritesNo24h(cfg) ==
  WritesOf(cfg, WifiKeys(cfg[WifiCount])
             \o SelectSeq([i \in DOMAIN Settings |-> Setting(Settings[i])],
                          LAMBDA k : k # Setting("clock_24h")))

\* save(): the networks, then the settings.
SaveWrites(cfg) ==
  WritesOf(cfg, WifiKeys(cfg[WifiCount])
             \o [i \in DOMAIN Settings |-> Setting(Settings[i])])

\* The next key is written, or its write fails: the result is not looked at.
WriteKey ==
  /\ writes # <<>>
  /\ LET key == Head(writes)[1]  value == Head(writes)[2]
     IN  \/ flash' = [flash EXCEPT ![key] = value] /\ UNCHANGED <<harmed, faults>>
         \/ /\ faults < MaxFaults
            /\ faults' = faults + 1
            /\ harmed' = TRUE
            /\ UNCHANGED flash
  /\ writes' = Tail(writes)
  /\ UNCHANGED <<power, ramVars, edited, intended, saves, starts>>

-----------------------------------------------------------------------------
(* Start and power loss *)

Empty == [k \in Keys |-> 0]

Init ==
  /\ flash \in FirstFlash
  /\ power = FALSE
  /\ running = Empty /\ screen = Empty /\ shown = FALSE /\ backlight = 0
  /\ writes = <<>>
  /\ edited = {}
  /\ intended = Load(flash)
  /\ harmed = FALSE /\ faults = 0
  /\ saves = 0 /\ starts = 0

\* ConfigStore::init() on the P4, at a start: a partition without a free page, or of another
\* version, is erased.
FlashErased ==
  /\ P4
  /\ ~power
  /\ starts < MaxStarts
  /\ faults < MaxFaults
  /\ faults' = faults + 1
  /\ harmed' = TRUE
  /\ flash' = Empty
  /\ UNCHANGED <<power, ramVars, writes, edited, intended, saves, starts>>

\* setup(): the configuration is loaded once, and every part started with it.
Start ==
  /\ ~power
  /\ starts < MaxStarts
  /\ starts' = starts + 1
  /\ power' = TRUE
  /\ running' = Load(flash)
  /\ writes' = LoadWrites(flash)
  /\ backlight' = running'[Setting("brightness")]
  /\ UNCHANGED <<flash, screen, shown, edited, intended, harmed, faults, saves>>

PowerLost ==
  /\ power
  /\ power' = FALSE
  /\ harmed' = (harmed \/ writes # <<>>)
  /\ writes' = <<>>
  /\ running' = Empty /\ screen' = Empty /\ shown' = FALSE /\ backlight' = 0
  /\ edited' = {}
  /\ UNCHANGED <<flash, intended, faults, saves, starts>>

-----------------------------------------------------------------------------
(* The screens, on the UI thread, which a load or a save keeps busy *)

UIFree == power /\ writes = <<>>

\* Slip: the settings are not loaded when the screen is shown.
ShowSettingsUnloaded ==
  /\ UIFree
  /\ shown' = TRUE
  /\ edited' = {}
  /\ UNCHANGED <<flash, power, running, screen, backlight, writes, intended, harmed, faults,
                 saves, starts>>

\* onShow() of the settings screen: loadSettings()
ShowSettings ==
  /\ UIFree
  /\ shown' = TRUE
  /\ screen' = Load(flash)
  /\ writes' = LoadWrites(flash)
  /\ edited' = {}
  /\ UNCHANGED <<flash, power, running, backlight, intended, harmed, faults, saves, starts>>

\* Another screen is shown; the diagnostics screen loads the configuration to show it.
ShowOther(diagnostics) ==
  /\ UIFree
  /\ shown' = FALSE
  /\ writes' = IF diagnostics THEN LoadWrites(flash) ELSE <<>>
  /\ UNCHANGED <<flash, power, running, screen, backlight, histVars, saves, starts>>

\* save() of what the screen has after a change
SaveScreen(cfg) ==
  /\ UIFree
  /\ shown
  /\ saves < MaxSaves
  /\ saves' = saves + 1
  /\ screen' = cfg
  /\ writes' = SaveWrites(cfg)
  /\ intended' = [k \in Keys |-> IF k \in edited' THEN cfg[k] ELSE intended[k]]
  /\ UNCHANGED <<flash, power, running, shown, backlight, harmed, faults, starts>>

\* onSaveURL(), onSaveTZ(), on24hToggle() and onSavePoll(), of a text that is not empty
\* and a number that is in range
SaveSetting(name, value) ==
  /\ edited' = edited \cup {Setting(name)}
  /\ SaveScreen([screen EXCEPT ![Setting(name)] = value])

\* onBrightnessChanged(): the slider moves; nothing is saved yet.
BrightnessChanged(value) ==
  /\ UIFree
  /\ shown
  /\ screen' = [screen EXCEPT ![Setting("brightness")] = value]
  /\ backlight' = value
  /\ edited' = edited \cup {Setting("brightness")}
  /\ UNCHANGED <<flash, power, running, shown, writes, intended, harmed, faults, saves,
                 starts>>

\* onBrightnessRelease()
BrightnessRelease ==
  /\ UNCHANGED edited
  /\ SaveScreen(screen)

-----------------------------------------------------------------------------

Next ==
  \/ FlashErased
  \/ Start
  \/ WriteKey
  \/ PowerLost
  \/ ShowSettings
  \/ \E diagnostics \in BOOLEAN : ShowOther(diagnostics)
  \/ \E value \in Values :
       \/ \E name \in {"bridge_url", "timezone", "clock_24h", "poll_sec"} :
            SaveSetting(name, value)
       \/ BrightnessChanged(value)
  \/ BrightnessRelease

Spec == Init /\ [][Next]_vars

-----------------------------------------------------------------------------
(* Properties *)

\* A save writes every key, but at whatever key it is cut off, and whatever has failed
\* before it, the only settings that the next start sees changed are those the user has
\* changed on the screen, and they have the values he has chosen.
OnlyEditsAreSaved ==
  [][power =>
       LET was == Load(flash)  is == Load(flash')
       IN  \A k \in SettingKeys \ {Setting("home_ssid")} :
             is[k] # was[k] => k \in edited /\ is[k] = screen[k]]_vars

\* A device whose writes all went well starts with the settings that were last saved and
\* the networks it has had since its first start.
SettingsSurvive ==
  [][Start /\ ~harmed => running' = intended]_vars
=============================================================================
