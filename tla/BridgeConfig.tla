----------------------------- MODULE BridgeConfig -----------------------------
(***************************************************************************)
(* bridge/config.py: the configuration in memory, and bridge_config.json,  *)
(* which is written in place.  A key that the environment has is a         *)
(* placeholder in the file and in `raw', and is resolved in `data', which  *)
(* the handlers and adapters read; any other key is stored as it is sent   *)
(* or found.                                                               *)
(***************************************************************************)
EXTENDS Naturals

CONSTANTS
  Strangers,   \* chip ids of devices that are not registered
  MaxTtl       \* bound: values of a setting of section "bridge"

ASSUME ConfigAssumption == MaxTtl \in Nat

\* What home_assistant.api_key is, by where it comes from: a placeholder, a string that
\* was taken from the environment for one, any other key that a person has typed into the
\* file or a client, the mask that get_all() puts in the place of a key, or none.
Keys == {"placeholder", "resolved", "typed", "***", ""}

\* A string that arrives from outside the process: clients and files are never given one
\* that was resolved, so who sends the same characters has typed them.
SentKeys == Keys \ {"resolved"}

\* What the properties tell apart: a user with a registered device, the shared Home
\* Assistant key, one plain setting and the unregistered devices.
Config == [users : BOOLEAN, devices : BOOLEAN, api_key : Keys, ttl : 0..MaxTtl,
           unregistered : SUBSET Strangers]

DEFAULT_CONFIG == [users |-> FALSE, devices |-> FALSE, api_key |-> "", ttl |-> 0,
                   unregistered |-> {}]

\* The file: a configuration of the nested or of the legacy flat schema, no file, or
\* what a write that did not end has left.
ConfigFile == [schema : {"nested", "flat"}, config : Config]
              \cup [schema : {"missing", "torn"}]
NoFile   == [schema |-> "missing"]
TornFile == [schema |-> "torn"]
FileOf(config) == [schema |-> "nested", config |-> config]

VARIABLES
  raw,          \* BridgeConfig._raw
  data,         \* BridgeConfig._data
  configFile,   \* bridge_config.json
  configHarmed  \* history: the last save has failed, so the file is behind or torn

configVars == <<raw, data, configFile, configHarmed>>

ConfigTypeOK ==
  /\ raw \in Config /\ data \in Config
  /\ configFile \in ConfigFile
  /\ configHarmed \in BOOLEAN

\* _resolve_env_placeholders() in an environment that has the variable.
Resolved(config) ==
  [config EXCEPT !.api_key = IF config.api_key = "placeholder" THEN "resolved" ELSE config.api_key]

\* _refresh_runtime()
RefreshRuntime == data' = Resolved(raw')

\* _migrate_flat_to_nested(): users keep their sources, but no device is registered.
Migrated(config) == [config EXCEPT !.devices = FALSE, !.unregistered = {}]

\* _load(): a file that is missing or does not parse gives the defaults.
Load(file) ==
  CASE file.schema = "nested" -> file.config
    [] file.schema = "flat"   -> Migrated(file.config)
    [] OTHER                  -> DEFAULT_CONFIG

\* A file as it was deployed: of either schema, with a placeholder, with a key in the
\* clear, as files were written before there were placeholders, or without a key.
Deployed(schema, key) ==
  [schema |-> schema,
   config |-> [DEFAULT_CONFIG EXCEPT !.users = TRUE, !.devices = (schema = "nested"),
                                     !.api_key = key]]

ConfigInit ==
  /\ \/ configFile = NoFile
     \/ \E s \in {"nested", "flat"}, key \in {"placeholder", "typed", ""} :
          configFile = Deployed(s, key)
  /\ raw = Load(configFile)
  /\ data = Resolved(raw)
  /\ configHarmed = FALSE

-----------------------------------------------------------------------------

\* Slip: the resolved copy is written.
SaveResolved ==
  \/ configFile' = FileOf(data') /\ configHarmed' = FALSE
  \/ configFile' \in {configFile, TornFile} /\ configHarmed' = TRUE

\* _save(): write_text() truncates the file and writes it.  It can fail before it has
\* opened the file or in the middle; a stop in the middle has the same effect.
Save ==
  \/ configFile' = FileOf(raw') /\ configHarmed' = FALSE
  \/ configFile' \in {configFile, TornFile} /\ configHarmed' = TRUE

\* Slip: only the configuration in memory changes.
RecordUnregisteredUnsaved(id) ==
  /\ raw' = [raw EXCEPT !.unregistered = raw.unregistered \cup {id}]
  /\ RefreshRuntime
  /\ UNCHANGED <<configFile, configHarmed>>

\* record_unregistered_device(): at every request, also for a device recorded before.
RecordUnregistered(id) ==
  /\ raw' = [raw EXCEPT !.unregistered = raw.unregistered \cup {id}]
  /\ RefreshRuntime
  /\ Save

\* PUT /api/config, update(): what is allowed is applied, whatever is rejected beside it,
\* and saved if it is anything.  A value of shared_sources is the whole dict of a source,
\* and the key in it is stored whatever it is: what a GET has shown, a key in the clear, a
\* placeholder, or nothing.
UpdateConfig ==
  \E updated \in SUBSET {"ttl", "api_key"}, ttl \in 0..MaxTtl, key \in SentKeys :
    /\ raw' = [raw EXCEPT !.ttl = IF "ttl" \in updated THEN ttl ELSE raw.ttl,
                          !.api_key = IF "api_key" \in updated THEN key ELSE raw.api_key]
    /\ IF updated = {} THEN UNCHANGED <<data, configFile, configHarmed>>
                       ELSE RefreshRuntime /\ Save

\* BridgeConfig() of a new process.
ReloadConfig ==
  /\ raw' = Load(configFile)
  /\ RefreshRuntime
  /\ UNCHANGED <<configFile, configHarmed>>
=============================================================================
