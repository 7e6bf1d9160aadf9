----------------------------- MODULE BridgeServer -----------------------------
(***************************************************************************)
(* What bridge/main.py keeps besides the adapters: the pushed calendars,   *)
(* in the cache and through push_store.py in files; the Claude sessions,   *)
(* in memory; the configuration; and GET /api/dashboard, which decides     *)
(* what of it a device is served.  The handlers do not await once they     *)
(* have their request, so each is one step; the process may stop between   *)
(* two of them.                                                            *)
(***************************************************************************)
EXTENDS BridgeConfig

CONSTANTS
  Agents,        \* names of Claude agents
  User,          \* the user_id of the registered device
  SessionTTL,    \* CLAUDE_SESSION_TTL, in ticks of the clock
  MaxPushes,     \* bound: calendars pushed
  MaxRestarts    \* bound: restarts of the bridge

Bare   == "claude"          \* the scope of a heartbeat without a known device
Scopes == {Bare, User}

ASSUME ServerAssumption ==
  /\ SessionTTL \in Nat \ {0}
  /\ MaxPushes \in Nat /\ MaxRestarts \in Nat
  /\ User # Bare

VARIABLES
  calendar,      \* the value in the cache entry of a pushed calendar, 0 for no entry
  calendarFile,  \* its file: the value in it, 0 for no file
  pushHarmed,    \* history: the last save has failed
  sessions,      \* _claude_sessions: the agents registered in each scope
  silent,        \* history: the time since the last heartbeat of an agent in a scope
  entries,       \* cache entries of the scopes, [made, age, agents]
  restarts       \* history: restarts so far

pushVars   == <<calendar, calendarFile, pushHarmed>>
claudeVars == <<sessions, silent, entries>>
vars == <<configVars, pushVars, claudeVars, restarts>>

\* Ages stop counting where no comparison can tell them apart any more.
Cap == 3 * SessionTTL + 1
TornCalendar == MaxPushes + 1

TypeOK ==
  /\ ConfigTypeOK
  /\ calendar \in 0..MaxPushes
  /\ calendarFile \in 0..TornCalendar
  /\ pushHarmed \in BOOLEAN
  /\ sessions \in [Scopes -> SUBSET Agents]
  /\ silent \in [Scopes -> [Agents -> 0..Cap]]
  /\ entries \in [Scopes -> [made : BOOLEAN, age : 0..Cap, agents : SUBSET Agents]]
  /\ restarts \in 0..MaxRestarts

NoEntries == [s \in Scopes |-> [made |-> FALSE, age |-> 0, agents |-> {}]]

Init ==
  /\ ConfigInit
  /\ calendar = 0
  /\ calendarFile = 0
  /\ pushHarmed = FALSE
  /\ sessions = [s \in Scopes |-> {}]
  /\ silent = [s \in Scopes |-> [a \in Agents |-> Cap]]
  /\ entries = NoEntries
  /\ restarts = 0

-----------------------------------------------------------------------------
(* Pushed calendars *)

\* PushStore.save(): like the configuration, the file is written in place, and a failure
\* is logged and forgotten.
SaveCalendar(value) ==
  \/ calendarFile' = value /\ pushHarmed' = FALSE
  \/ calendarFile' \in {calendarFile, TornCalendar} /\ pushHarmed' = TRUE

\* Slip: the file is only written when it does not exist yet.
IngestCalendarOnce ==
  /\ calendar < MaxPushes
  /\ calendar' = calendar + 1
  /\ IF calendarFile = 0 THEN SaveCalendar(calendar')
                         ELSE UNCHANGED <<calendarFile, pushHarmed>>
  /\ UNCHANGED <<configVars, claudeVars, restarts>>

\* ingest_ms_calendar(), ingest_google_calendar()
IngestCalendar ==
  /\ calendar < MaxPushes
  /\ calendar' = calendar + 1
  /\ SaveCalendar(calendar')
  /\ UNCHANGED <<configVars, claudeVars, restarts>>

\* push_store.load_all() into the cache: a file that does not parse is skipped.
Restored == IF calendarFile = TornCalendar THEN 0 ELSE calendarFile

-----------------------------------------------------------------------------
(* Claude sessions *)

\* Slip: a session that is pruned from the registry stays in the entry.
RefreshClaudeCacheUnpruned(scope, registered, quiet) ==
  LET active == {a \in registered : quiet[a] <= SessionTTL}
  IN  /\ sessions' = [sessions EXCEPT ![scope] = active]
      /\ entries' = [entries EXCEPT ![scope] =
                       [made |-> TRUE, age |-> 0, agents |-> registered]]

\* _refresh_claude_cache(): sessions silent for longer than the TTL are pruned, of this
\* scope only, and the entry of the scope is built anew.
RefreshClaudeCache(scope, registered, quiet) ==
  LET active == {a \in registered : quiet[a] <= SessionTTL}
  IN  /\ sessions' = [sessions EXCEPT ![scope] = active]
      /\ entries' = [entries EXCEPT ![scope] =
                       [made |-> TRUE, age |-> 0, agents |-> active]]

\* _resolve_claude_user(): without the header, or with that of the registered device
\* while the configuration has it.
ResolveClaudeUser(hasHeader) == IF hasHeader /\ data.devices THEN User ELSE Bare

Heartbeat(agent, hasHeader) ==
  LET scope == ResolveClaudeUser(hasHeader)
  IN  /\ silent' = [silent EXCEPT ![scope][agent] = 0]
      /\ RefreshClaudeCache(scope, sessions[scope] \cup {agent}, silent'[scope])
  /\ UNCHANGED <<configVars, pushVars, restarts>>

\* A goodbye without a name, or of an agent nobody knows, refreshes the entry all the same.
Goodbye(agent, hasHeader) ==
  LET scope == ResolveClaudeUser(hasHeader)
  IN  RefreshClaudeCache(scope, sessions[scope] \ {agent}, silent[scope])
  /\ UNCHANGED <<configVars, pushVars, silent, restarts>>

-----------------------------------------------------------------------------
(* The dashboard.  A cache key is a source with a scope, Bare for a shared one. *)

Of(source, scope) == [source |-> source, scope |-> scope]

PushSources   == {"calendar", "claude"}
UserSources   == IF data.users THEN {"weather", "claude"} ELSE {}
SharedSources == {"home_assistant"}

\* The entries of a dict of cache keys after those of the sources in S were put in under
\* their bare names, in the place of what was there.
PutBare(keys, S) ==
  [s \in DOMAIN keys \cup S |-> IF s \in S THEN Of(s, Bare) ELSE keys[s]]

CacheKeysForUser    == PutBare([s \in UserSources |-> Of(s, User)], SharedSources)
CacheKeysSharedOnly == [s \in SharedSources |-> Of(s, Bare)]

\* dashboard(): the cache key of every source that the registered device is served, and
\* of those for any other.
CacheKeysRegistered   == PutBare(CacheKeysForUser, PushSources)
CacheKeysUnregistered == PutBare(CacheKeysSharedOnly, PushSources)

\* is_expired of an entry of sessions, which is twice as long in the cache.
SessionsExpired(scope) == entries[scope].age > 2 * SessionTTL

\* A device that the configuration does not know asks for the dashboard.
DashboardOfStranger(id) ==
  /\ RecordUnregistered(id)
  /\ UNCHANGED <<pushVars, claudeVars, restarts>>

-----------------------------------------------------------------------------
(* REST updates, the clock, and the bridge's container *)

PutConfig ==
  /\ UpdateConfig
  /\ UNCHANGED <<pushVars, claudeVars, restarts>>

Older(age) == IF age < Cap THEN age + 1 ELSE Cap

Tick ==
  /\ silent' = [s \in Scopes |-> [a \in Agents |-> Older(silent[s][a])]]
  /\ entries' = [s \in Scopes |-> IF entries[s].made
                   THEN [entries[s] EXCEPT !.age = Older(entries[s].age)]
                   ELSE entries[s]]
  /\ UNCHANGED <<configVars, pushVars, sessions, restarts>>

\* The process stops, by its container or a crash, and starts: lifespan().
Restart ==
  /\ restarts < MaxRestarts
  /\ restarts' = restarts + 1
  /\ ReloadConfig
  /\ calendar' = Restored
  /\ sessions' = [s \in Scopes |-> {}]
  /\ entries' = NoEntries
  /\ UNCHANGED <<calendarFile, pushHarmed, silent>>

-----------------------------------------------------------------------------

Next ==
  \/ IngestCalendar
  \/ \E hasHeader \in BOOLEAN :
       \/ \E agent \in Agents : Heartbeat(agent, hasHeader)
       \/ \E agent \in Agents \cup {""} : Goodbye(agent, hasHeader)
  \/ \E id \in Strangers : DashboardOfStranger(id)
  \/ PutConfig
  \/ Tick
  \/ Restart

Spec == Init /\ [][Next]_vars

-----------------------------------------------------------------------------
(* Properties *)

\* "Restore push data from disk so it survives restarts": a restart right after a save
\* that went well brings back the calendar that was there; only a write that failed, or
\* was cut off, can lose it or bring back an older one.
CalendarSurvives ==
  [][Restart /\ ~pushHarmed => calendar' = calendar]_vars

\* The same for the configuration, with whatever was updated or recorded before the stop,
\* and for what the adapters see of it.
ConfigSurvives ==
  [][Restart /\ ~configHarmed => raw' = raw /\ data' = data]_vars

\* "_save() never writes resolved secrets back to disk": of the resolved copy and the one
\* with the placeholders, kept side by side, every update, record and write that fails
\* takes the latter, so no string from the environment is ever in the file, whatever was
\* deployed and sent.  A key that a client sends is stored as it is (UpdateConfig), so this
\* is not the claim at config.py:19 that no secret at all leaks into the file.
SecretsStayOut ==
  configFile.schema \in {"nested", "flat"} => configFile.config.api_key # "resolved"

\* "Session is stale if no heartbeat" for CLAUDE_SESSION_TTL: nothing prunes a session when
\* its scope is quiet, but what a device is served as ok never lists an agent that has been
\* silent for longer than the age of the entry allows.
SilentSessionBound ==
  \A keys \in {CacheKeysRegistered, CacheKeysUnregistered} :
    LET scope == keys["claude"].scope
    IN  ~SessionsExpired(scope) =>
          \A agent \in entries[scope].agents : silent[scope][agent] <= 3 * SessionTTL

\* A session that said goodbye, or was pruned, is gone from what is served as well.
EntryMirrorsSessions ==
  \A scope \in Scopes : entries[scope].agents = sessions[scope]

\* What makes SilentSessionBound inductive.
ServerInv ==
  /\ TypeOK
  /\ EntryMirrorsSessions
  /\ \A scope \in Scopes : ~entries[scope].made => entries[scope].agents = {}
  /\ \A scope \in Scopes : \A agent \in entries[scope].agents :
       silent[scope][agent] <= SessionTTL + entries[scope].age
=============================================================================
