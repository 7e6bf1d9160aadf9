-------------------------- MODULE BridgeServerProofs --------------------------
(* What survives a restart of the bridge, what stays out of its configuration file, and *)
(* how long a silent session is shown, for all agents, strangers, TTLs and bounds.      *)
EXTENDS BridgeServer, Integers, TLAPS

-----------------------------------------------------------------------------
(* The configuration *)

LEMMA DefaultType == DEFAULT_CONFIG \in Config
BY ConfigAssumption DEF DEFAULT_CONFIG, Config, Keys

\* Reading a file gives a configuration, and a resolved key only if one is in the file.
LEMMA LoadType ==
  ASSUME NEW file \in ConfigFile
  PROVE  /\ Load(file) \in Config
         /\ (file.schema \in {"nested", "flat"} => file.config.api_key # "resolved")
              => Load(file).api_key # "resolved"
<1>1. CASE file \in [schema : {"nested", "flat"}, config : Config]
  <2>1. CASE file.schema = "nested"
    BY <1>1, <2>1 DEF Load
  <2>2. CASE file.schema = "flat"
    <3>1. Load(file) = Migrated(file.config)
      BY <2>2 DEF Load
    <3>2. file.config \in Config
      BY <1>1
    <3> QED
      BY <2>2, <3>1, <3>2 DEF Migrated, Config
  <2> QED
    BY <1>1, <2>1, <2>2
<1>2. CASE file \in [schema : {"missing", "torn"}]
  <2>1. Load(file) = DEFAULT_CONFIG
    BY <1>2 DEF Load
  <2>2. DEFAULT_CONFIG.api_key # "resolved"
    BY DEF DEFAULT_CONFIG
  <2> QED
    BY <2>1, <2>2, DefaultType
<1> QED
  BY <1>1, <1>2 DEF ConfigFile

LEMMA ResolvedType == ASSUME NEW config \in Config PROVE Resolved(config) \in Config
BY DEF Resolved, Config, Keys

\* The handlers' copy is the resolved one, the file gets the other: what a save that went
\* well has left is what the next start reads.
ConfigPart ==
  /\ ConfigTypeOK
  /\ data = Resolved(raw)
  /\ raw.api_key # "resolved"
  /\ SecretsStayOut
  /\ ~configHarmed => raw = Load(configFile)

LEMMA SaveKeeps ==
  ASSUME ConfigPart, raw' \in Config, raw'.api_key # "resolved", RefreshRuntime, Save
  PROVE  ConfigPart'
<1> USE DEF ConfigPart
<1>1. FileOf(raw') \in ConfigFile /\ TornFile \in ConfigFile
  BY DEF FileOf, TornFile, ConfigFile
<1>2. data' = Resolved(raw') /\ data' \in Config
  BY ResolvedType DEF RefreshRuntime
<1>3. CASE configFile' = FileOf(raw') /\ configHarmed' = FALSE
  <2>1. Load(FileOf(raw')) = raw'
    BY DEF Load, FileOf
  <2> QED
    BY <1>1, <1>2, <1>3, <2>1 DEF ConfigTypeOK, SecretsStayOut, FileOf
<1>4. CASE configFile' \in {configFile, TornFile} /\ configHarmed' = TRUE
  BY <1>1, <1>2, <1>4 DEF ConfigTypeOK, SecretsStayOut, TornFile
<1> QED
  BY <1>3, <1>4 DEF Save

LEMMA ConfigStart == ConfigInit => ConfigPart
<1> SUFFICES ASSUME ConfigInit PROVE ConfigPart
  OBVIOUS
<1>1. configFile \in ConfigFile /\ SecretsStayOut
  <2>0. 0 \in 0..MaxTtl
    BY ConfigAssumption
  <2>1. CASE configFile = NoFile
    BY <2>1 DEF NoFile, ConfigFile, SecretsStayOut
  <2>2. ASSUME NEW s \in {"nested", "flat"}, NEW key \in {"placeholder", "typed", ""},
               configFile = Deployed(s, key)
        PROVE  configFile \in ConfigFile /\ SecretsStayOut
    <3>0. (s = "nested") \in BOOLEAN
      OBVIOUS
    <3>2. configFile.schema = s /\ configFile.config.api_key = key
      BY <2>2 DEF Deployed, DEFAULT_CONFIG
    <3>3. configFile \in [schema : {"nested", "flat"}, config : Config]
      BY <2>0, <2>2, <3>0 DEF Deployed, DEFAULT_CONFIG, Config, Keys
    <3> QED
      BY <3>2, <3>3 DEF ConfigFile, SecretsStayOut
  <2>3. \/ configFile = NoFile
        \/ \E s \in {"nested", "flat"}, key \in {"placeholder", "typed", ""} :
             configFile = Deployed(s, key)
    BY DEF ConfigInit
  <2> QED
    BY <2>1, <2>2, <2>3
<1>2. raw \in Config /\ raw.api_key # "resolved"
  BY <1>1, LoadType DEF ConfigInit, SecretsStayOut
<1> QED
  BY <1>1, <1>2, ResolvedType DEF ConfigInit, ConfigPart, ConfigTypeOK

LEMMA ConfigStep ==
  ASSUME ConfigPart,
         (\E id \in Strangers : RecordUnregistered(id)) \/ UpdateConfig \/ ReloadConfig
           \/ UNCHANGED configVars
  PROVE  ConfigPart'
<1>1. ASSUME NEW id \in Strangers, RecordUnregistered(id) PROVE ConfigPart'
  <2>1. raw' \in Config /\ raw'.api_key # "resolved" /\ RefreshRuntime /\ Save
    BY <1>1 DEF RecordUnregistered, ConfigPart, ConfigTypeOK, Config
  <2> QED
    BY <2>1, SaveKeeps
<1>2. CASE UpdateConfig
  <2>1. PICK updated \in SUBSET {"ttl", "api_key"}, ttl \in 0..MaxTtl, key \in SentKeys :
          /\ raw' = [raw EXCEPT !.ttl = IF "ttl" \in updated THEN ttl ELSE raw.ttl,
                                !.api_key = IF "api_key" \in updated THEN key ELSE raw.api_key]
          /\ IF updated = {} THEN UNCHANGED <<data, configFile, configHarmed>>
                             ELSE RefreshRuntime /\ Save
    BY <1>2 DEF UpdateConfig
  <2>2. raw' \in Config /\ raw'.api_key # "resolved"
    BY <2>1 DEF ConfigPart, ConfigTypeOK, Config, SentKeys, Keys
  <2>3. CASE updated = {}
    <3>1. raw' = raw /\ UNCHANGED <<data, configFile, configHarmed>>
      BY <2>1, <2>3 DEF ConfigPart, ConfigTypeOK, Config
    <3> QED
      BY <3>1 DEF ConfigPart, ConfigTypeOK, SecretsStayOut
  <2>4. CASE updated # {}
    BY <2>1, <2>2, <2>4, SaveKeeps
  <2> QED
    BY <2>3, <2>4
<1>3. CASE ReloadConfig
  <2>1. /\ raw' = Load(configFile) /\ data' = Resolved(raw')
        /\ UNCHANGED <<configFile, configHarmed>>
    BY <1>3 DEF ReloadConfig, RefreshRuntime
  <2>2. raw' \in Config /\ raw'.api_key # "resolved"
    BY <2>1, LoadType DEF ConfigPart, ConfigTypeOK, SecretsStayOut
  <2>3. data' \in Config
    BY <2>1, <2>2, ResolvedType
  <2> QED
    BY <2>1, <2>2, <2>3 DEF ConfigPart, ConfigTypeOK, SecretsStayOut
<1>4. CASE UNCHANGED configVars
  BY <1>4 DEF configVars, ConfigPart, ConfigTypeOK, SecretsStayOut
<1> QED
  BY <1>1, <1>2, <1>3, <1>4

-----------------------------------------------------------------------------
(* The calendars *)

PushPart ==
  /\ calendar \in 0..MaxPushes
  /\ calendarFile \in 0..TornCalendar
  /\ pushHarmed \in BOOLEAN
  /\ ~pushHarmed => calendarFile = calendar

LEMMA PushStep ==
  ASSUME PushPart, IngestCalendar \/ Restart \/ UNCHANGED pushVars
  PROVE  PushPart'
<1> USE ServerAssumption DEF PushPart, TornCalendar
<1>1. CASE IngestCalendar
  <2>1. calendar' = calendar + 1 /\ calendar' \in 0..MaxPushes /\ SaveCalendar(calendar')
    BY <1>1 DEF IngestCalendar
  <2>2. CASE calendarFile' = calendar' /\ pushHarmed' = FALSE
    <3>1. calendarFile' \in 0..(MaxPushes + 1)
      BY <2>1, <2>2
    <3> QED
      BY <2>1, <2>2, <3>1
  <2>3. CASE calendarFile' \in {calendarFile, MaxPushes + 1} /\ pushHarmed' = TRUE
    BY <2>1, <2>3
  <2> QED
    BY <2>1, <2>2, <2>3 DEF SaveCalendar
<1>2. CASE Restart
  BY <1>2 DEF Restart, Restored
<1>3. CASE UNCHANGED pushVars
  BY <1>3 DEF pushVars
<1> QED
  BY <1>1, <1>2, <1>3

-----------------------------------------------------------------------------
(* The sessions *)

Entry == [made : BOOLEAN, age : 0..Cap, agents : SUBSET Agents]

\* An entry lists the registered sessions, none silent for longer than the TTL when it
\* was made.
ClaudePart ==
  /\ sessions \in [Scopes -> SUBSET Agents]
  /\ silent \in [Scopes -> [Agents -> 0..Cap]]
  /\ entries \in [Scopes -> Entry]
  /\ EntryMirrorsSessions
  /\ \A scope \in Scopes : ~entries[scope].made => entries[scope].agents = {}
  /\ \A scope \in Scopes : \A agent \in entries[scope].agents :
       silent[scope][agent] <= SessionTTL + entries[scope].age

LEMMA CapType == Cap \in Nat /\ 0 \in 0..Cap
BY ServerAssumption DEF Cap

LEMMA OlderType == ASSUME NEW age \in 0..Cap PROVE Older(age) \in 0..Cap
<1>1. age \in Int /\ 0 <= age /\ age <= Cap /\ Cap \in Int
  BY CapType
<1>2. CASE age < Cap
  BY <1>1, <1>2 DEF Older
<1>3. CASE ~ (age < Cap)
  BY <1>1, <1>3 DEF Older
<1> QED
  BY <1>2, <1>3

\* Time passes for an agent and for the entry alike.
LEMMA OlderKeeps ==
  ASSUME NEW x \in 0..Cap, NEW y \in 0..Cap, x <= SessionTTL + y
  PROVE  Older(x) <= SessionTTL + Older(y)
<1>1. x \in Int /\ y \in Int /\ x <= Cap /\ y <= Cap /\ Cap \in Int /\ SessionTTL \in Nat
  BY CapType, ServerAssumption
<1>2. CASE x < Cap /\ y < Cap
  BY <1>1, <1>2 DEF Older
<1>3. CASE x < Cap /\ ~(y < Cap)
  BY <1>1, <1>3 DEF Older
<1>4. CASE ~(x < Cap) /\ y < Cap
  BY <1>1, <1>4 DEF Older
<1>5. CASE ~(x < Cap) /\ ~(y < Cap)
  BY <1>1, <1>5 DEF Older
<1> QED
  BY <1>2, <1>3, <1>4, <1>5

\* A refresh makes an entry of age 0 with the sessions that are not silent for too long.
LEMMA RefreshKeeps ==
  ASSUME ClaudePart, silent' \in [Scopes -> [Agents -> 0..Cap]],
         NEW scope \in Scopes, NEW registered \in SUBSET Agents,
         \A s \in Scopes \ {scope} : silent'[s] = silent[s],
         RefreshClaudeCache(scope, registered, silent'[scope])
  PROVE  ClaudePart'
<1> DEFINE active == {a \in registered : silent'[scope][a] <= SessionTTL}
           made == [made |-> TRUE, age |-> 0, agents |-> active]
<1>1. /\ sessions' = [sessions EXCEPT ![scope] = active]
      /\ entries' = [entries EXCEPT ![scope] = made]
  BY DEF RefreshClaudeCache
<1>2. active \in SUBSET Agents /\ made \in Entry
  BY CapType DEF Entry
<1>3. /\ sessions' \in [Scopes -> SUBSET Agents]
      /\ entries' \in [Scopes -> Entry]
  BY <1>1, <1>2 DEF ClaudePart
<1>4. ASSUME NEW s \in Scopes
      PROVE  /\ entries'[s].agents = sessions'[s]
             /\ ~entries'[s].made => entries'[s].agents = {}
             /\ \A agent \in entries'[s].agents :
                  silent'[s][agent] <= SessionTTL + entries'[s].age
  <2>1. CASE s = scope
    <3>1. entries'[s] = made /\ sessions'[s] = active
      BY <1>1, <2>1 DEF ClaudePart
    <3>2. \A agent \in active : silent'[s][agent] <= SessionTTL + 0
      BY <2>1, ServerAssumption, CapType
    <3> QED
      BY <3>1, <3>2
  <2>2. CASE s # scope
    BY <1>1, <2>2 DEF ClaudePart, EntryMirrorsSessions
  <2> QED
    BY <2>1, <2>2
<1> QED
  BY <1>3, <1>4 DEF ClaudePart, EntryMirrorsSessions

LEMMA ScopeOf == \A hasHeader \in BOOLEAN : ResolveClaudeUser(hasHeader) \in Scopes
BY DEF ResolveClaudeUser, Scopes

LEMMA ClaudeStep ==
  ASSUME ClaudePart,
         \/ \E hasHeader \in BOOLEAN :
              \/ \E agent \in Agents : Heartbeat(agent, hasHeader)
              \/ \E agent \in Agents \cup {""} : Goodbye(agent, hasHeader)
         \/ Tick \/ Restart \/ UNCHANGED claudeVars
  PROVE  ClaudePart'
<1>1. ASSUME NEW hasHeader \in BOOLEAN, NEW agent \in Agents, Heartbeat(agent, hasHeader)
      PROVE  ClaudePart'
  <2> DEFINE scope == ResolveClaudeUser(hasHeader)
  <2>1. /\ silent' = [silent EXCEPT ![scope][agent] = 0]
        /\ RefreshClaudeCache(scope, sessions[scope] \cup {agent}, silent'[scope])
    BY <1>1 DEF Heartbeat
  <2>2. scope \in Scopes /\ sessions[scope] \cup {agent} \in SUBSET Agents
    BY ScopeOf DEF ClaudePart
  <2>3. /\ silent' \in [Scopes -> [Agents -> 0..Cap]]
        /\ \A s \in Scopes \ {scope} : silent'[s] = silent[s]
    BY <2>1, <2>2, CapType DEF ClaudePart
  <2> HIDE DEF scope
  <2> QED
    BY <2>1, <2>2, <2>3, RefreshKeeps
<1>2. ASSUME NEW hasHeader \in BOOLEAN, NEW agent \in Agents \cup {""}, Goodbye(agent, hasHeader)
      PROVE  ClaudePart'
  <2> DEFINE scope == ResolveClaudeUser(hasHeader)
  <2>1. /\ silent' = silent
        /\ RefreshClaudeCache(scope, sessions[scope] \ {agent}, silent'[scope])
    BY <1>2 DEF Goodbye
  <2>2. scope \in Scopes /\ sessions[scope] \ {agent} \in SUBSET Agents
    BY ScopeOf DEF ClaudePart
  <2>3. /\ silent' \in [Scopes -> [Agents -> 0..Cap]]
        /\ \A s \in Scopes \ {scope} : silent'[s] = silent[s]
    BY <2>1 DEF ClaudePart
  <2> HIDE DEF scope
  <2> QED
    BY <2>1, <2>2, <2>3, RefreshKeeps
<1>3. CASE Tick
  <2>1. \A age \in 0..Cap : Older(age) \in 0..Cap
    BY OlderType
  <2>2. /\ silent' = [s \in Scopes |-> [a \in Agents |-> Older(silent[s][a])]]
        /\ sessions' = sessions
    BY <1>3 DEF Tick
  <2>3. \A s \in Scopes : silent'[s] \in [Agents -> 0..Cap]
    <3> TAKE s \in Scopes
    <3>1. silent'[s] = [a \in Agents |-> Older(silent[s][a])]
      BY <2>2
    <3>2. \A a \in Agents : silent[s][a] \in 0..Cap
      BY DEF ClaudePart
    <3> QED
      BY <2>1, <3>1, <3>2
  <2>4. silent' \in [Scopes -> [Agents -> 0..Cap]]
    <3>1. silent' = [s \in Scopes |-> silent'[s]]
      BY <2>2
    <3> QED
      BY <2>3, <3>1
  <2>5. ASSUME NEW s \in Scopes
        PROVE  /\ entries'[s] \in Entry /\ entries'[s].agents = entries[s].agents
               /\ entries'[s].made = entries[s].made
               /\ entries[s].made => entries'[s].age = Older(entries[s].age)
    BY <1>3, <2>1 DEF Tick, ClaudePart, Entry
  <2>6. entries' \in [Scopes -> Entry]
    <3> DEFINE aged(s) == IF entries[s].made
                   THEN [entries[s] EXCEPT !.age = Older(entries[s].age)]
                   ELSE entries[s]
    <3>1. entries' = [s \in Scopes |-> aged(s)]
      BY <1>3 DEF Tick
    <3>2. \A s \in Scopes : aged(s) \in Entry
      BY <2>1 DEF ClaudePart, Entry
    <3> HIDE DEF aged
    <3> QED
      BY <3>1, <3>2
  <2>7. ASSUME NEW s \in Scopes, NEW a \in entries'[s].agents
        PROVE  silent'[s][a] <= SessionTTL + entries'[s].age
    <3>1. entries[s].made /\ a \in Agents /\ entries[s].age \in 0..Cap /\ silent[s][a] \in 0..Cap
      <4>1. a \in entries[s].agents /\ entries[s] \in Entry /\ silent[s] \in [Agents -> 0..Cap]
        BY <2>5 DEF ClaudePart
      <4>2. entries[s].made
        BY <2>5, <4>1 DEF ClaudePart
      <4> QED
        BY <4>1, <4>2 DEF Entry
    <3>2. silent'[s][a] = Older(silent[s][a]) /\ entries'[s].age = Older(entries[s].age)
      BY <2>2, <2>5, <3>1
    <3>3. silent[s][a] <= SessionTTL + entries[s].age
      BY <2>5 DEF ClaudePart
    <3> QED
      BY <3>1, <3>2, <3>3, OlderKeeps
  <2> QED
    BY <2>2, <2>4, <2>5, <2>6, <2>7 DEF ClaudePart, EntryMirrorsSessions
<1>4. CASE Restart
  <2>1. /\ sessions' = [s \in Scopes |-> {}] /\ entries' = NoEntries /\ silent' = silent
    BY <1>4 DEF Restart
  <2>2. NoEntries \in [Scopes -> Entry]
    BY CapType DEF NoEntries, Entry
  <2>3. \A s \in Scopes : entries'[s].agents = {} /\ sessions'[s] = {}
    BY <2>1 DEF NoEntries
  <2> QED
    BY <2>1, <2>2, <2>3 DEF ClaudePart, EntryMirrorsSessions
<1>5. CASE UNCHANGED claudeVars
  BY <1>5 DEF claudeVars, ClaudePart, EntryMirrorsSessions
<1> QED
  BY <1>1, <1>2, <1>3, <1>4, <1>5

-----------------------------------------------------------------------------
(* The bridge *)

DurableInv == ConfigPart /\ PushPart /\ ClaudePart /\ restarts \in 0..MaxRestarts

\* A bridge starts with what its file says and without calendars and sessions.
LEMMA DurableInit == Init => DurableInv
<1> SUFFICES ASSUME Init PROVE DurableInv
  OBVIOUS
<1>1. ConfigPart
  BY ConfigStart DEF Init
<1>2. PushPart /\ restarts \in 0..MaxRestarts
  <2>1. 0 \in 0..MaxPushes /\ 0 \in 0..(MaxPushes + 1) /\ 0 \in 0..MaxRestarts
    BY ServerAssumption
  <2> QED
    BY <2>1 DEF Init, PushPart, TornCalendar
<1>3. ClaudePart
  <2>1. NoEntries \in [Scopes -> Entry]
    BY CapType DEF NoEntries, Entry
  <2>2. silent \in [Scopes -> [Agents -> 0..Cap]] /\ sessions \in [Scopes -> SUBSET Agents]
    BY CapType DEF Init
  <2>3. \A s \in Scopes : entries[s].agents = {} /\ sessions[s] = {}
    BY DEF Init, NoEntries
  <2> QED
    BY <2>1, <2>2, <2>3 DEF Init, ClaudePart, EntryMirrorsSessions
<1> QED
  BY <1>1, <1>2, <1>3 DEF DurableInv

\* Each handler touches one of the three parts and leaves the others alone.
LEMMA DurableNext == DurableInv /\ [Next]_vars => DurableInv'
<1> SUFFICES ASSUME DurableInv, [Next]_vars PROVE DurableInv'
  OBVIOUS
<1> USE DEF DurableInv
<1>1. CASE IngestCalendar
  <2>1. UNCHANGED <<configVars, claudeVars, restarts>>
    BY <1>1 DEF IngestCalendar
  <2>2. ConfigPart' /\ ClaudePart'
    BY <2>1, ConfigStep, ClaudeStep
  <2>3. PushPart'
    BY <1>1, PushStep
  <2> QED
    BY <2>1, <2>2, <2>3
<1>2. ASSUME NEW hasHeader \in BOOLEAN,
             \/ \E agent \in Agents : Heartbeat(agent, hasHeader)
             \/ \E agent \in Agents \cup {""} : Goodbye(agent, hasHeader)
      PROVE  DurableInv'
  <2>1. UNCHANGED <<configVars, pushVars, restarts>>
    BY <1>2 DEF Heartbeat, Goodbye
  <2> QED
    BY <1>2, <2>1, ConfigStep, PushStep, ClaudeStep
<1>3. CASE (\E id \in Strangers : DashboardOfStranger(id)) \/ PutConfig
  <2>1. /\ (\E id \in Strangers : RecordUnregistered(id)) \/ UpdateConfig
        /\ UNCHANGED <<pushVars, claudeVars, restarts>>
    BY <1>3 DEF DashboardOfStranger, PutConfig
  <2> QED
    BY <2>1, ConfigStep, PushStep, ClaudeStep
<1>4. CASE Tick
  <2>1. UNCHANGED <<configVars, pushVars, restarts>>
    BY <1>4 DEF Tick
  <2> QED
    BY <1>4, <2>1, ConfigStep, PushStep, ClaudeStep
<1>5. CASE Restart
  <2>1. ReloadConfig /\ restarts' \in 0..MaxRestarts
    BY <1>5, ServerAssumption DEF Restart
  <2> QED
    BY <1>5, <2>1, ConfigStep, PushStep, ClaudeStep
<1>6. CASE UNCHANGED vars
  <2>1. UNCHANGED configVars /\ UNCHANGED pushVars /\ UNCHANGED claudeVars /\ restarts' = restarts
    BY <1>6 DEF vars
  <2> QED
    BY <2>1, ConfigStep, PushStep, ClaudeStep
<1> QED
  BY <1>1, <1>2, <1>3, <1>4, <1>5, <1>6 DEF Next

LEMMA DurableInvariance == Spec => []DurableInv
BY DurableInit, DurableNext, PTL DEF Spec

\* The invariant that the run checks: types, entries that mirror the registered sessions,
\* and the age of what they list.
THEOREM ServerInvariance == Spec => []ServerInv
<1>1. DurableInv => ServerInv
  BY Zenon DEF DurableInv, ConfigPart, PushPart, ClaudePart, Entry, ServerInv, TypeOK
<1> QED
  BY <1>1, DurableInvariance, PTL

\* Whatever was deployed, and whatever keys clients send: no update, record, failing write,
\* migration or restart puts a string that was taken from the environment into the file.
\* A key that is sent, or was deployed in the clear, is stored, and is outside of this.
THEOREM SecretsOut == Spec => []SecretsStayOut
<1>1. DurableInv => SecretsStayOut
  BY DEF DurableInv, ConfigPart
<1> QED
  BY <1>1, DurableInvariance, PTL

\* No agent is served as active that has been silent for more than three TTLs: one until
\* it would be pruned, two until the entry that nobody prunes expires.
THEOREM SilentBound == Spec => []SilentSessionBound
<1>1. ASSUME ServerInv, NEW keys \in {CacheKeysRegistered, CacheKeysUnregistered}
      PROVE  keys["claude"].scope \in Scopes
  <2>1. keys["claude"] = Of("claude", Bare)
    BY DEF CacheKeysRegistered, CacheKeysUnregistered, CacheKeysForUser, CacheKeysSharedOnly, PutBare,
       PushSources
  <2> QED
    BY <2>1 DEF Of, Scopes
<1>2. ASSUME ServerInv, NEW scope \in Scopes, ~SessionsExpired(scope),
             NEW agent \in entries[scope].agents
      PROVE  silent[scope][agent] <= 3 * SessionTTL
  <2>1. entries[scope] \in Entry /\ silent[scope] \in [Agents -> 0..Cap] /\ agent \in Agents
    BY <1>2, Zenon DEF ServerInv, TypeOK, Entry
  <2> DEFINE x == silent[scope][agent]
             y == entries[scope].age
  <2>2. x \in 0..Cap /\ y \in 0..Cap
    BY <2>1 DEF Entry
  <2>3. x <= SessionTTL + y /\ ~(y > 2 * SessionTTL)
    <3>1. \A a \in entries[scope].agents : silent[scope][a] <= SessionTTL + entries[scope].age
      BY <1>2, Zenon DEF ServerInv
    <3> QED
      BY <1>2, <3>1 DEF SessionsExpired
  <2> HIDE DEF x, y
  <2>4. x <= 3 * SessionTTL
    BY <2>2, <2>3, CapType, ServerAssumption
  <2> QED
    BY <2>4 DEF x
<1>3. ServerInv => SilentSessionBound
  BY <1>1, <1>2 DEF SilentSessionBound
<1> QED
  BY <1>3, ServerInvariance, PTL

\* A restart after a save that went well brings the calendar back.
THEOREM CalendarDurable == Spec => CalendarSurvives
<1>1. DurableInv /\ [Next]_vars => [Restart /\ ~pushHarmed => calendar' = calendar]_vars
  BY ServerAssumption DEF DurableInv, PushPart, Restart, Restored, TornCalendar
<1> QED
  BY <1>1, DurableInvariance, PTL DEF Spec, CalendarSurvives

\* A restart after a save that went well brings the configuration back.
THEOREM ConfigDurable == Spec => ConfigSurvives
<1>1. DurableInv /\ [Next]_vars => [Restart /\ ~configHarmed => raw' = raw /\ data' = data]_vars
  BY DEF DurableInv, ConfigPart, Restart, ReloadConfig, RefreshRuntime
<1> QED
  BY <1>1, DurableInvariance, PTL DEF Spec, ConfigSurvives
=============================================================================
