------------------------------- MODULE HABridge -------------------------------
(***************************************************************************)
(* POST /api/ha/command of bridge/main.py, composed with the polling of    *)
(* the Home Assistant adapter and with the device that sends the command   *)
(* and shows GET /api/dashboard.                                           *)
(*                                                                         *)
(* The state of Home Assistant is AdapterScheduler's `source': a service   *)
(* call moves it on, and so does everything else in the house.  Each       *)
(* command that is confirmed starts a refresher, so the refreshers are the *)
(* commands.  The device's network task sends one request at a time; the   *)
(* answer to a request that it has given up is lost.                       *)
(***************************************************************************)
EXTENDS AdapterScheduler

CONSTANT MaxReads   \* range(3): reads of a climate entity

ASSUME BridgeAssumption == MaxReads \in Nat \ {0}

Commands == Refreshers

VARIABLES
  cmds,    \* the frame of each ha_command()
  device,  \* the network task: the request it waits for and the answer to it
  shown    \* the version of the Home Assistant state on the display; 0 is none

bridgeVars == <<cmds, device, shown>>
vars == <<schedVars, bridgeVars>>

\* pc "done" is replied or dead; reply is the kind of reply; target is the version
\* that the call has made, 0 before; entity is the version last read, 0 is None.
Cmd == [pc : {"none", "call", "sleep", "request", "response", "done"},
        climate : BOOLEAN, reads : 0..MaxReads,
        target : 0..MaxVersion, entity : 0..MaxVersion,
        reply : {"none", "ok", "warning", "refused"}]

\* waits is "nothing", a command or "dashboard"; answer is the version in the dashboard
\* that has been built, 0 for none yet, NoData for a source without an entry.
NoData == MaxVersion + 1

BridgeTypeOK ==
  /\ cmds \in [Commands -> Cmd]
  /\ device \in [waits : {"nothing", "dashboard"} \cup Commands, answer : 0..NoData]
  /\ shown \in 0..MaxVersion

NoCommand == [pc |-> "none", climate |-> FALSE, reads |-> 0,
              target |-> 0, entity |-> 0, reply |-> "none"]
NoRequest == [waits |-> "nothing", answer |-> 0]

BridgeInit ==
  /\ Init
  /\ cmds = [c \in Commands |-> NoCommand]
  /\ device = NoRequest
  /\ shown = 0

-----------------------------------------------------------------------------
(* ha_command() *)

\* The request passes or fails the checks for the adapter, the fields and the service.
CommandArrives(c) ==
  /\ device.waits = "nothing" /\ cmds[c].pc = "none"
  /\ device' = [NoRequest EXCEPT !.waits = c]
  /\ \/ \E climate \in BOOLEAN :
          cmds' = [cmds EXCEPT ![c].pc = "call", ![c].climate = climate]
     \/ cmds' = [cmds EXCEPT ![c].pc = "done", ![c].reply = "refused"]
  /\ UNCHANGED <<schedVars, shown>>

\* Home Assistant carries out the service: a light at once, a radio thermostat any time
\* after the call was made (and maybe after the bridge has forgotten it).
HAServes(c) ==
  /\ cmds[c].target = 0
  /\ cmds[c].climate \/ cmds[c].pc = "call"
  /\ SourceChanges
  /\ cmds' = [cmds EXCEPT ![c].target = source']
  /\ UNCHANGED <<device, shown>>

Read(c) == [cmds EXCEPT ![c].pc = "request"]

\* Slip: call_service() is not awaited.
CallReturnsAtOnce(c) ==
  /\ cmds[c].pc = "call"
  /\ cmds' = IF cmds[c].climate THEN [cmds EXCEPT ![c].pc = "sleep"] ELSE Read(c)
  /\ UNCHANGED <<schedVars, device, shown>>

\* call_service() returns: a climate entity is read after a second, the others at once.
CallReturns(c) ==
  /\ cmds[c].pc = "call"
  /\ cmds[c].climate \/ cmds[c].target # 0
  /\ cmds' = IF cmds[c].climate THEN [cmds EXCEPT ![c].pc = "sleep"] ELSE Read(c)
  /\ UNCHANGED <<schedVars, device, shown>>

\* call_service() raises, whatever Home Assistant has made of the call: 502.
CallFails(c) ==
  /\ cmds[c].pc = "call"
  /\ cmds' = [cmds EXCEPT ![c].pc = "done", ![c].reply = "refused"]
  /\ UNCHANGED <<schedVars, device, shown>>

\* Home Assistant answers get_entity_state().
StateAnswered(c) ==
  /\ cmds[c].pc = "request"
  /\ cmds' = [cmds EXCEPT ![c].pc = "response", ![c].entity = source]
  /\ UNCHANGED <<schedVars, device, shown>>

\* The refresh is started and the reply sent, in this order and without an await.
Confirm(c) ==
  /\ cmds' = [cmds EXCEPT ![c].pc = "done", ![c].reads = 0, ![c].reply = "ok"]
  /\ PollBegins(c)
  /\ UNCHANGED <<device, shown>>

\* The state of a climate entity is read again, a second later, until it shows what was
\* commanded; a state from before the call can happen to show it.
StateReturns(c) ==
  /\ cmds[c].pc = "response"
  /\ \/ Confirm(c)
     \/ /\ cmds[c].climate /\ cmds[c].entity # cmds[c].target
        /\ cmds' = [cmds EXCEPT ![c].pc = "sleep", ![c].reads = cmds[c].reads + 1]
        /\ UNCHANGED <<schedVars, device, shown>>

SleepEnds(c) ==
  /\ cmds[c].pc = "sleep"
  /\ IF cmds[c].reads = MaxReads
       THEN Confirm(c)
       ELSE cmds' = Read(c) /\ UNCHANGED <<schedVars, device, shown>>

\* get_entity_state() raises: success without an entity, and without a refresh.
StateFails(c) ==
  /\ cmds[c].pc \in {"request", "response"}
  /\ cmds' = [cmds EXCEPT ![c].pc = "done", ![c].reply = "warning",
                          ![c].reads = 0, ![c].entity = 0]
  /\ UNCHANGED <<schedVars, device, shown>>

-----------------------------------------------------------------------------
(* The device, and GET /api/dashboard *)

\* postHACommand() has the reply, or gives up after 5 s; the loop of the task goes on.
DeviceCommandEnds ==
  /\ device.waits \in Commands
  /\ device' = NoRequest
  /\ UNCHANGED <<schedVars, cmds, shown>>

DeviceAsks ==
  /\ device.waits = "nothing"
  /\ device' = [NoRequest EXCEPT !.waits = "dashboard"]
  /\ UNCHANGED <<schedVars, cmds, shown>>

\* Slip: cache.get() instead of cache.get_entry(), which has no expired data.
DashboardHidesExpired ==
  /\ device.waits = "dashboard" /\ device.answer = 0
  /\ device' = [device EXCEPT !.answer =
                  IF cache.version = 0 \/ cache.expired THEN NoData ELSE cache.version]
  /\ UNCHANGED <<schedVars, cmds, shown>>

\* _build_source_entry(): expired data is served too, marked stale.
Dashboard ==
  /\ device.waits = "dashboard" /\ device.answer = 0
  /\ device' = [device EXCEPT !.answer = IF cache.version = 0 THEN NoData ELSE cache.version]
  /\ UNCHANGED <<schedVars, cmds, shown>>

\* The data of a source that is missing from the document stays on the display.
DeviceShows ==
  /\ device.waits = "dashboard" /\ device.answer # 0
  /\ shown' = IF device.answer = NoData THEN shown ELSE device.answer
  /\ device' = NoRequest
  /\ UNCHANGED <<schedVars, cmds>>

DeviceFails ==
  /\ device.waits = "dashboard"
  /\ device' = NoRequest
  /\ UNCHANGED <<schedVars, cmds, shown>>

\* The bridge stops and starts: its tasks are gone, and what they were to reply.
BridgeRestarts ==
  /\ Restart
  /\ cmds' = [c \in Commands |->
                IF cmds[c].pc = "none" THEN cmds[c] ELSE [cmds[c] EXCEPT !.pc = "done"]]
  /\ device' = NoRequest
  /\ UNCHANGED shown

-----------------------------------------------------------------------------

CommandStep(c) ==
  \/ CallReturns(c) \/ CallFails(c) \/ SleepEnds(c)
  \/ StateAnswered(c) \/ StateReturns(c) \/ StateFails(c)

PollingStep ==
  \/ PollBegins(Loop)
  \/ \E p \in Pollers : PollStep(p)
  \/ SourceChanges
  \/ EntryExpires

BridgeNext ==
  \/ \E c \in Commands : CommandArrives(c) \/ HAServes(c) \/ CommandStep(c)
  \/ PollingStep /\ UNCHANGED bridgeVars
  \/ DeviceCommandEnds \/ DeviceAsks \/ Dashboard \/ DeviceShows \/ DeviceFails
  \/ BridgeRestarts

BridgeSpec == BridgeInit /\ [][BridgeNext]_vars

\* The timeouts of httpx and of the device end every request; the device polls for ever,
\* and is answered one of the times.
BridgeFairness ==
  /\ Fairness
  /\ \A c \in Commands : WF_vars(CommandStep(c))
  /\ WF_vars(DeviceCommandEnds)
  /\ WF_vars(DeviceAsks)
  /\ SF_vars(Dashboard)
  /\ SF_vars(DeviceShows)

BridgeFairSpec == BridgeSpec /\ BridgeFairness

-----------------------------------------------------------------------------
(* Properties *)

\* The state that confirms a command to the device was read after the call had
\* been made: for a light, which obeys at once, it shows the effect of the command.
ConfirmsItsEffect ==
  \A c \in Commands :
    cmds[c].reply = "ok" /\ ~cmds[c].climate =>
      cmds[c].target # 0 /\ cmds[c].entity >= cmds[c].target

\* "Refresh scheduler cache so the next /api/dashboard poll sees fresh data": what the
\* refresh of a command finds is never older than what the reply has confirmed.
RefreshNotOlderThanReply ==
  \A c \in Commands :
    polls[c].pc = "response" => cmds[c].reply = "ok" /\ polls[c].got >= cmds[c].entity

\* What a command has confirmed reaches the display, or something newer does, whichever
\* polls, restarts and lost replies come in between.
ConfirmedIsShown ==
  \A c \in Commands, v \in 1..MaxVersion :
    (cmds[c].reply = "ok" /\ cmds[c].entity = v) ~> shown >= v

\* The display agrees with a house that has come to rest, whether or not the commands
\* that were sent to it were confirmed.
DisplayConverges ==
  \A v \in 1..MaxVersion : <>[](source = v) => <>[](shown = v)

\* What makes the two safety properties inductive: what has been read, and what a call
\* has made, are states that Home Assistant has been in, and a read follows its call.
BridgeInv ==
  /\ BridgeTypeOK /\ SchedInv
  /\ RefreshNotOlderThanReply
  /\ \A c \in Commands :
       /\ cmds[c].entity <= source /\ cmds[c].target <= source
       /\ polls[c].pc # "idle" => cmds[c].reply = "ok"
       /\ cmds[c].pc # "done" => cmds[c].reply = "none"
       /\ cmds[c].pc = "none" => cmds[c].reads = 0
       /\ cmds[c].pc \in {"request", "response"} => cmds[c].reads < MaxReads
       /\ ~cmds[c].climate => cmds[c].pc # "sleep" /\ cmds[c].reads = 0
       /\ ~cmds[c].climate /\ cmds[c].pc \in {"request", "response"} => cmds[c].target # 0
       /\ ~cmds[c].climate /\ (cmds[c].pc = "response" \/ cmds[c].reply = "ok")
            => cmds[c].target # 0 /\ cmds[c].entity >= cmds[c].target
=============================================================================
