-------------------------------- MODULE Clock --------------------------------
(***************************************************************************)
(* The clocks of the firmware: ntp_time.cpp, time_helpers.cpp, the clock   *)
(* of the home screen and that of the status bar.                          *)
(*                                                                         *)
(* All of them read the one TZ variable of the process.  The UI thread     *)
(* switches it to another zone and back for the strip of other zones; the  *)
(* network task reads it and sets it again every 24 hours.  An action is   *)
(* what a thread does between two accesses to TZ.                          *)
(*                                                                         *)
(* Minutes are numbered from the start of the behaviour, fewer of them     *)
(* than an hour has, so tm_min tells them apart.                           *)
(***************************************************************************)
EXTENDS Naturals, Sequences

CONSTANTS
  Configured,   \* DeviceConfig.timezone
  Strip,        \* the zones of the strip, <<TZ_ARIZONA, TZ_PACIFIC>>
  Midnight,     \* the minute at which a zone's day changes
  MaxMinutes,   \* bound: minutes that pass
  Blank         \* no text yet: "--:--", "---"

Zones == {Configured} \cup {Strip[i] : i \in DOMAIN Strip}

VARIABLES
  now,          \* the minute
  known,        \* the system clock is set: time() is past 1000000000
  tz,           \* TZ in the environment
  synced,       \* _synced
  due,          \* 24 h have passed since _lastSyncMs
  cachedTime,   \* _cachedTime, with _cachedMin and _cached24h
  cachedDate,   \* _cachedDate, with _cachedMday
  homeClock,    \* the texts of _lblClock, _lblDate and _lblOtherTz
  homeDate,
  strip,
  statusClock,  \* the texts of lblTime and lblDate
  statusDate,
  uiPc,         \* where the UI thread is in formatNow12h()
  savedTz,      \* its savedTz
  line,         \* the texts of the strip it has formatted
  netPc, netTz  \* the network task is in backgroundResync(), and its tz

worldVars == <<now, known, due>>
cacheVars == <<cachedTime, cachedDate>>
homeVars  == <<homeClock, homeDate, strip>>
statusVars == <<statusClock, statusDate>>
uiVars    == <<uiPc, savedTz, line>>
netVars   == <<netPc, netTz>>
vars == <<worldVars, tz, synced, cacheVars, homeVars, statusVars, uiVars, netVars>>

\* setup() has called NtpTime::init(cfg.timezone) before it starts the tasks.
Init ==
  /\ now = 0
  /\ known = FALSE
  /\ tz = Configured
  /\ synced = FALSE
  /\ due = FALSE
  /\ cachedTime = Blank /\ cachedDate = Blank
  /\ homeClock = Blank /\ homeDate = Blank /\ strip = <<>>
  /\ statusClock = Blank /\ statusDate = Blank
  /\ uiPc = "idle" /\ savedTz = Configured /\ line = <<>>
  /\ netPc = "idle" /\ netTz = Configured

-----------------------------------------------------------------------------
(* Formatting.  A text is known by the zone and the minute or day it shows. *)

\* localtime_r() takes the zone from the environment whenever it is called.
TimeText(h24) == [zone |-> tz, minute |-> now, h24 |-> h24]
DateText      == [zone |-> tz, day |-> now >= Midnight[tz]]

\* timeStr(): formatted anew only when the minute or the format has changed.
TimeStr(h24) ==
  IF /\ known
     /\ \/ cachedTime = Blank
        \/ cachedTime.minute # now
        \/ cachedTime.h24 # h24
    THEN TimeText(h24)
    ELSE cachedTime

\* dateStr(): formatted anew only when the day has changed.
DateStr ==
  IF known /\ (cachedDate = Blank \/ cachedDate.day # DateText.day)
    THEN DateText
    ELSE cachedDate

-----------------------------------------------------------------------------
(* The UI thread *)

\* The timer of the status bar.  Nothing sets its _clock24h.
StatusUpdate ==
  /\ uiPc = "idle"
  /\ cachedTime' = TimeStr(FALSE) /\ statusClock' = cachedTime'
  /\ cachedDate' = DateStr        /\ statusDate' = cachedDate'
  /\ UNCHANGED <<worldVars, tz, synced, homeVars, uiVars, netVars>>

\* The timer of the home screen, updateClock(): the clock and the date, then the strip
\* once the time is synced.
UpdateClock ==
  /\ uiPc = "idle"
  /\ cachedTime' = TimeStr(FALSE) /\ homeClock' = cachedTime'
  /\ cachedDate' = DateStr        /\ homeDate' = cachedDate'
  /\ uiPc' = IF synced THEN "save" ELSE "idle"
  /\ line' = <<>>
  /\ UNCHANGED <<worldVars, tz, synced, strip, statusVars, savedTz, netVars>>

StripZone == Strip[Len(line) + 1]

\* formatNow12h(): TZ is copied ...
SaveTz ==
  /\ uiPc = "save"
  /\ savedTz' = tz
  /\ uiPc' = "switch"
  /\ UNCHANGED <<worldVars, tz, synced, cacheVars, homeVars, statusVars, line, netVars>>

\* ... set to the zone of the strip ...
SwitchTz ==
  /\ uiPc = "switch"
  /\ tz' = StripZone
  /\ uiPc' = "format"
  /\ UNCHANGED <<worldVars, synced, cacheVars, homeVars, statusVars, savedTz, line,
                 netVars>>

\* ... the time is formatted ...
FormatNow ==
  /\ uiPc = "format"
  /\ line' = Append(line, TimeText(FALSE))
  /\ uiPc' = "restore"
  /\ UNCHANGED <<worldVars, tz, synced, cacheVars, homeVars, statusVars, savedTz,
                 netVars>>

\* ... and what was copied is put back.  After the last zone the label is set.
RestoreTz ==
  /\ uiPc = "restore"
  /\ tz' = savedTz
  /\ IF Len(line) < Len(Strip)
       THEN uiPc' = "save" /\ UNCHANGED strip
       ELSE uiPc' = "idle" /\ strip' = line
  /\ UNCHANGED <<worldVars, synced, cacheVars, homeClock, homeDate, statusVars, savedTz,
                 line, netVars>>

UIThread == StatusUpdate \/ UpdateClock \/ SaveTz \/ SwitchTz \/ FormatNow \/ RestoreTz

-----------------------------------------------------------------------------
(* The main loop and the network task *)

\* check(): the first valid time counts as the first sync.
Check ==
  /\ ~synced
  /\ known
  /\ synced' = TRUE
  /\ due' = FALSE
  /\ UNCHANGED <<now, known, tz, cacheVars, homeVars, statusVars, uiVars, netVars>>

\* backgroundResync(): getenv("TZ") ...
ResyncRead ==
  /\ netPc = "idle"
  /\ synced
  /\ due
  /\ netTz' = tz
  /\ netPc' = "set"
  /\ UNCHANGED <<worldVars, tz, synced, cacheVars, homeVars, statusVars, uiVars>>

\* ... and doConfigTzTime(): setenv() with a pointer into the environment, which holds
\* what it held or what another setenv() has put there since.
ResyncSet ==
  /\ netPc = "set"
  /\ tz' \in {netTz, tz}
  /\ due' = FALSE
  /\ netPc' = "idle"
  /\ UNCHANGED <<now, known, synced, cacheVars, homeVars, statusVars, uiVars, netTz>>

-----------------------------------------------------------------------------
(* Time *)

\* SNTP gets its first answer.
TimeArrives ==
  /\ ~known
  /\ known' = TRUE
  /\ UNCHANGED <<now, due, tz, synced, cacheVars, homeVars, statusVars, uiVars, netVars>>

MinutePasses ==
  /\ now < MaxMinutes
  /\ now' = now + 1
  /\ UNCHANGED <<known, due, tz, synced, cacheVars, homeVars, statusVars, uiVars, netVars>>

ResyncFallsDue ==
  /\ synced
  /\ due' = TRUE
  /\ UNCHANGED <<now, known, tz, synced, cacheVars, homeVars, statusVars, uiVars, netVars>>

-----------------------------------------------------------------------------

Next ==
  \/ UIThread
  \/ Check \/ ResyncRead \/ ResyncSet
  \/ TimeArrives \/ MinutePasses \/ ResyncFallsDue

Spec == Init /\ [][Next]_vars

-----------------------------------------------------------------------------
(* Properties *)

\* time_helpers.h: the strip is formatted "without disturbing the process-wide TZ setting
\* that NtpTime owns".  The clock and the date of the home screen are in the configured
\* zone, whatever the strip and the resync do between two updates.
ClockIsLocal ==
  /\ homeClock # Blank => homeClock.zone = Configured
  /\ homeDate # Blank => homeDate.zone = Configured
=============================================================================
