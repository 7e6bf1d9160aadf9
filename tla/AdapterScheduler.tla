--------------------------- MODULE AdapterScheduler ---------------------------
(***************************************************************************)
(* The bridge's polling of one adapter, bridge/adapters/scheduler.py, into *)
(* the TTL cache, bridge/adapters/cache.py.                                *)
(*                                                                         *)
(* The adapter's own task loops over poll_once() and a sleep.  The command *)
(* endpoint of main.py starts further poll_once() tasks for the same       *)
(* adapter, its refreshers.  All of them run in one asyncio event loop: an *)
(* action is what happens between two awaits, and the state of the source  *)
(* is read when its HTTP answer is made, before the task resumes.          *)
(***************************************************************************)
EXTENDS Naturals

CONSTANTS
  Loop,         \* the task of _run_adapter()
  Refreshers,   \* the tasks of asyncio.ensure_future(scheduler.poll_once(...))
  MaxRetries,   \* AdapterConfig.max_retries
  MaxVersion,   \* bound: states the source goes through
  MaxRestarts   \* bound: restarts of the bridge

ASSUME SchedulerAssumption ==
  /\ Loop \notin Refreshers
  /\ MaxRetries \in Nat
  /\ MaxVersion \in Nat \ {0}
  /\ MaxRestarts \in Nat

Pollers == {Loop} \cup Refreshers

VARIABLES
  source,    \* the state of the source, as a version that only grows
  polls,     \* the frame of each poll_once(): where it is, attempt, what poll() got
  cache,     \* the CacheEntry of adapter.cache_key; version 0 is no entry
  status,    \* adapter.state.status
  restarts   \* history: restarts so far

schedVars == <<source, polls, cache, status, restarts>>

\* "idle" is asleep for the loop, not started or over for a refresher.
Poll == [pc : {"idle", "request", "response", "backoff"},
         attempt : 0..MaxRetries, got : 0..MaxVersion]

TypeOK ==
  /\ source \in 1..MaxVersion
  /\ polls \in [Pollers -> Poll]
  /\ cache \in [version : 0..MaxVersion, expired : BOOLEAN]
  /\ status \in {"idle", "ok", "error", "stale"}
  /\ restarts \in 0..MaxRestarts

NotPolling == [pc |-> "idle", attempt |-> 0, got |-> 0]
BackingOff(n) == [pc |-> "backoff", attempt |-> n, got |-> 0]
NoEntry    == [version |-> 0, expired |-> FALSE]

Init ==
  /\ source = 1
  /\ polls = [p \in Pollers |-> NotPolling]
  /\ cache = NoEntry
  /\ status = "idle"
  /\ restarts = 0

-----------------------------------------------------------------------------
(* poll_once() *)

PollBegins(p) ==
  /\ polls[p].pc = "idle"
  /\ polls' = [polls EXCEPT ![p].pc = "request"]
  /\ UNCHANGED <<source, cache, status, restarts>>

\* The source answers adapter.poll(); the answer is on its way to the task.
SourceAnswers(p) ==
  /\ polls[p].pc = "request"
  /\ polls' = [polls EXCEPT ![p].pc = "response", ![p].got = source]
  /\ UNCHANGED <<source, cache, status, restarts>>

\* What _run_adapter() makes of the status: stale if the entry has expired and the
\* poll did not end in an error.
CheckStaleness(p, st, entry) ==
  IF p = Loop /\ entry.version # 0 /\ entry.expired /\ st # "error" THEN "stale" ELSE st

\* Slip: the status is set before the data is parsed and stored, and parse() raises.
PollSucceedsNoEntry(p) ==
  /\ polls[p].pc = "response"
  /\ status' = "ok"
  /\ polls' = [polls EXCEPT ![p] = NotPolling]
  /\ UNCHANGED <<source, cache, restarts>>

\* parse() and cache.set(), up to the sleep of the loop or the end of the task.
PollSucceeds(p) ==
  /\ polls[p].pc = "response"
  /\ LET entry == [version |-> polls[p].got, expired |-> FALSE]
     IN  /\ cache' = entry
         /\ status' = CheckStaleness(p, "ok", entry)
  /\ polls' = [polls EXCEPT ![p] = NotPolling]
  /\ UNCHANGED <<source, restarts>>

\* Any exception, from poll() or parse(): another attempt after the backoff or, after
\* the last one, the error status.  The entry of an earlier poll is kept.
PollFails(p) ==
  /\ polls[p].pc \in {"request", "response"}
  /\ IF polls[p].attempt < MaxRetries
       THEN /\ polls' = [polls EXCEPT ![p] = BackingOff(polls[p].attempt + 1)]
            /\ UNCHANGED status
       ELSE /\ polls' = [polls EXCEPT ![p] = NotPolling]
            /\ status' = CheckStaleness(p, "error", cache)
  /\ UNCHANGED <<source, cache, restarts>>

BackoffEnds(p) ==
  /\ polls[p].pc = "backoff"
  /\ polls' = [polls EXCEPT ![p].pc = "request"]
  /\ UNCHANGED <<source, cache, status, restarts>>

-----------------------------------------------------------------------------
(* The source, the clock, and the bridge's container *)

SourceChanges ==
  /\ source < MaxVersion
  /\ source' = source + 1
  /\ UNCHANGED <<polls, cache, status, restarts>>

EntryExpires ==
  /\ cache.version # 0
  /\ cache' = [cache EXCEPT !.expired = TRUE]
  /\ UNCHANGED <<source, polls, status, restarts>>

\* The process ends and starts again: the cache and the adapters are new.
Restart ==
  /\ restarts < MaxRestarts
  /\ restarts' = restarts + 1
  /\ polls' = [p \in Pollers |-> NotPolling]
  /\ cache' = NoEntry
  /\ status' = "idle"
  /\ UNCHANGED source

-----------------------------------------------------------------------------

PollStep(p) ==
  SourceAnswers(p) \/ PollSucceeds(p) \/ PollFails(p) \/ BackoffEnds(p)

Next ==
  \/ \E p \in Pollers : PollBegins(p) \/ PollStep(p)
  \/ SourceChanges
  \/ EntryExpires
  \/ Restart

Spec == Init /\ [][Next]_schedVars

\* Requests have timeouts, so every poll goes on; the loop polls for ever; a source
\* that is polled again and again answers one of the times.  Nobody has to send
\* commands, change the source or restart the bridge.
Fairness ==
  /\ \A p \in Pollers : WF_schedVars(PollStep(p))
  /\ WF_schedVars(PollBegins(Loop))
  /\ SF_schedVars(SourceAnswers(Loop))
  /\ SF_schedVars(PollSucceeds(Loop))

-----------------------------------------------------------------------------
(* Properties *)

\* An adapter that is reported ok or stale has data that the dashboard can show, also
\* after a restart and with polls that end out of order.
OkHasData == status \in {"ok", "stale"} => cache.version # 0

\* A write never replaces newer data by older: the display does not go back.
CacheNeverRegresses ==
  [][cache'.version # 0 => cache'.version >= cache.version]_schedVars

\* What makes the properties above inductive: an answer is a state the source has been
\* in; and while only the loop polls, none older than the entry is on its way.
SchedInv ==
  /\ TypeOK
  /\ OkHasData
  /\ cache.version <= source
  /\ \A p \in Pollers : polls[p].got <= source
  /\ \A p \in Pollers : polls[p].pc = "response" => polls[p].got # 0
  /\ Refreshers = {} /\ polls[Loop].pc = "response" => polls[Loop].got >= cache.version
=============================================================================
