---------------------------- MODULE HABridgeProofs ----------------------------
(* The cache of a polled source, for any number of tasks, retries and states; and what *)
(* a confirmed command means, for any number of commands, polls, retries and restarts.  *)
EXTENDS HABridge, TLAPS

-----------------------------------------------------------------------------
(* AdapterScheduler *)

\* The adapter starts without data and without a poll.
LEMMA SchedInit == Init => SchedInv
<1> SUFFICES ASSUME Init PROVE SchedInv
  OBVIOUS
<1>1. NotPolling \in Poll
  BY SchedulerAssumption DEF NotPolling, Poll
<1>2. TypeOK
  BY <1>1, SchedulerAssumption DEF Init, TypeOK, NoEntry
<1> QED
  BY <1>2, SchedulerAssumption DEF Init, SchedInv, OkHasData, NoEntry, NotPolling, Pollers

\* Every step keeps the answers on their way and the entry within what the source has
\* been, and the loop on its own keeps their order.
LEMMA SchedNext == SchedInv /\ [Next]_schedVars => SchedInv'
<1> SUFFICES ASSUME SchedInv, [Next]_schedVars PROVE SchedInv'
  OBVIOUS
<1> USE SchedulerAssumption DEF SchedInv, TypeOK, OkHasData, Poll, NotPolling, BackingOff, Pollers
<1>1. ASSUME NEW p \in Pollers, PollBegins(p) PROVE SchedInv'
  BY <1>1 DEF PollBegins
<1>2. ASSUME NEW p \in Pollers, SourceAnswers(p) PROVE SchedInv'
  BY <1>2 DEF SourceAnswers
<1>3. ASSUME NEW p \in Pollers, PollSucceeds(p) PROVE SchedInv'
  <2>1. /\ cache' = [version |-> polls[p].got, expired |-> FALSE] /\ status' = "ok"
        /\ polls[p].pc = "response" /\ polls' = [polls EXCEPT ![p] = NotPolling]
        /\ UNCHANGED <<source, restarts>>
    BY <1>3 DEF PollSucceeds, CheckStaleness
  <2>2. polls[p].got \in 0..MaxVersion /\ polls[p].got <= source
    OBVIOUS
  <2>3. TypeOK'
    BY <2>1, <2>2
  <2>4. polls[p].got # 0
    BY <2>1
  <2> QED
    BY <2>1, <2>2, <2>3, <2>4
<1>4. ASSUME NEW p \in Pollers, PollFails(p) PROVE SchedInv'
  <2>1. CASE polls[p].attempt < MaxRetries
    <3>1. polls[p].attempt + 1 \in 0..MaxRetries
      BY <2>1
    <3> QED
      BY <1>4, <2>1, <3>1 DEF PollFails
  <2>2. CASE ~ (polls[p].attempt < MaxRetries)
    <3>1. /\ polls' = [polls EXCEPT ![p] = NotPolling] /\ status' = "error"
          /\ UNCHANGED <<source, cache, restarts>>
      BY <1>4, <2>2 DEF PollFails, CheckStaleness
    <3> QED
      BY <3>1
  <2> QED
    BY <2>1, <2>2
<1>5. ASSUME NEW p \in Pollers, BackoffEnds(p) PROVE SchedInv'
  BY <1>5 DEF BackoffEnds
<1>6. CASE SourceChanges
  BY <1>6 DEF SourceChanges
<1>7. CASE EntryExpires
  BY <1>7 DEF EntryExpires
<1>8. CASE Restart
  BY <1>8 DEF Restart, NoEntry
<1>9. CASE UNCHANGED schedVars
  BY <1>9 DEF schedVars
<1> QED
  BY <1>1, <1>2, <1>3, <1>4, <1>5, <1>6, <1>7, <1>8, <1>9 DEF Next, PollStep

\* The inductive invariant holds in every behaviour of the scheduler.
LEMMA SchedInvariance == Spec => []SchedInv
BY SchedInit, SchedNext, PTL DEF Spec

\* An adapter reported ok has data to show, however many polls overlap.
THEOREM OkIsBacked == Spec => []OkHasData
<1>1. SchedInv => OkHasData
  BY DEF SchedInv
<1> QED
  BY <1>1, SchedInvariance, PTL

\* As long as only its own loop polls an adapter, its cache never goes back to an older
\* state of the source: only the refresh after a command can make it.
THEOREM LoopNeverRegresses ==
  ASSUME Refreshers = {}
  PROVE  Spec => CacheNeverRegresses
<1> DEFINE Ordered == cache'.version # 0 => cache'.version >= cache.version
<1>1. SchedInv /\ [Next]_schedVars => [Ordered]_schedVars
  <2> SUFFICES ASSUME SchedInv, Next PROVE Ordered
    BY DEF schedVars
  <2> USE SchedulerAssumption DEF SchedInv, TypeOK
  <2>1. ASSUME NEW p \in Pollers, PollSucceeds(p) PROVE Ordered
    <3>1. p = Loop
      BY DEF Pollers
    <3> QED
      BY <2>1, <3>1 DEF PollSucceeds
  <2>2. CASE UNCHANGED cache
    BY <2>2
  <2>3. CASE EntryExpires
    BY <2>3 DEF EntryExpires
  <2>4. CASE Restart
    BY <2>4 DEF Restart, NoEntry
  <2> QED
    BY <2>1, <2>2, <2>3, <2>4
    DEF Next, PollStep, PollBegins, SourceAnswers, PollFails, BackoffEnds, SourceChanges
<1> QED
  BY <1>1, SchedInvariance, PTL DEF Spec, CacheNeverRegresses

-----------------------------------------------------------------------------
(* HABridge *)

\* The parts of BridgeInv that speak of one command.
CmdInv(c) ==
  /\ cmds[c].entity <= source /\ cmds[c].target <= source
  /\ polls[c].pc # "idle" => cmds[c].reply = "ok"
  /\ cmds[c].pc # "done" => cmds[c].reply = "none"
  /\ cmds[c].pc = "none" => cmds[c].reads = 0
  /\ cmds[c].pc \in {"request", "response"} => cmds[c].reads < MaxReads
  /\ polls[c].pc = "response" => cmds[c].reply = "ok" /\ polls[c].got >= cmds[c].entity
  /\ ~cmds[c].climate => cmds[c].pc # "sleep" /\ cmds[c].reads = 0
  /\ ~cmds[c].climate /\ cmds[c].pc \in {"request", "response"} => cmds[c].target # 0
  /\ ~cmds[c].climate /\ (cmds[c].pc = "response" \/ cmds[c].reply = "ok")
       => cmds[c].target # 0 /\ cmds[c].entity >= cmds[c].target

IndInv == SchedInv /\ BridgeTypeOK /\ \A c \in Commands : CmdInv(c)

LEMMA IndInvIsBridgeInv == IndInv <=> BridgeInv
BY DEF IndInv, BridgeInv, CmdInv, RefreshNotOlderThanReply

LEMMA CommandsPoll == Commands \subseteq Pollers /\ Loop \notin Commands
BY SchedulerAssumption DEF Commands, Pollers

LEMMA IndInit == BridgeInit => IndInv
<1> SUFFICES ASSUME BridgeInit PROVE IndInv
  OBVIOUS
<1>1. SchedInv
  BY SchedInit DEF BridgeInit
<1>2. NoCommand \in Cmd
  BY SchedulerAssumption, BridgeAssumption DEF NoCommand, Cmd
<1>3. BridgeTypeOK
  <2>1. 0 \in 0..NoData /\ 0 \in 0..MaxVersion
    BY SchedulerAssumption DEF NoData
  <2> QED
    BY <1>2, <2>1 DEF BridgeInit, BridgeTypeOK, NoRequest
<1>4. ASSUME NEW c \in Commands PROVE CmdInv(c)
  <2>1. cmds[c] = NoCommand /\ polls[c] = NotPolling /\ source = 1
    BY CommandsPoll DEF BridgeInit, Init
  <2> QED
    BY <2>1 DEF NoCommand, NotPolling, CmdInv
<1> QED
  BY <1>1, <1>3, <1>4 DEF IndInv

-----------------------------------------------------------------------------
(* Steps that a command takes *)

\* What one command does is only seen by itself and by its refresher.
LEMMA CommandTypes ==
  ASSUME IndInv, NEW c \in Commands, NEW frame \in Cmd, cmds' = [cmds EXCEPT ![c] = frame],
         device' \in [waits : {"nothing", "dashboard"} \cup Commands, answer : 0..NoData],
         shown' = shown
  PROVE  BridgeTypeOK'
BY DEF IndInv, BridgeTypeOK

\* The others keep what they have read, while the source only moves on.
LEMMA OthersKeep ==
  ASSUME IndInv, NEW c \in Commands, cmds'[c] = cmds[c], polls'[c] = polls[c],
         source' \in {source, source + 1}
  PROVE  CmdInv(c)'
<1>1. /\ cmds[c].entity \in Nat /\ cmds[c].target \in Nat /\ source \in Nat
      /\ CmdInv(c)
  BY SchedulerAssumption DEF IndInv, BridgeTypeOK, Cmd, SchedInv, TypeOK
<1>2. cmds[c].entity <= source' /\ cmds[c].target <= source'
  BY <1>1 DEF CmdInv
<1> QED
  BY <1>1, <1>2, Zenon DEF CmdInv

\* The frame for the steps of one command: what is left to show of each.
LEMMA OneMoves ==
  ASSUME IndInv, [Next]_schedVars, NEW c \in Commands, NEW frame \in Cmd,
         cmds' = [cmds EXCEPT ![c] = frame], shown' = shown,
         device' \in [waits : {"nothing", "dashboard"} \cup Commands, answer : 0..NoData],
         source' \in {source, source + 1},
         \A d \in Commands \ {c} : polls'[d] = polls[d],
         CmdInv(c)'
  PROVE  IndInv'
<1>1. SchedInv'
  BY SchedNext DEF IndInv
<1>2. BridgeTypeOK'
  BY CommandTypes
<1>3. ASSUME NEW d \in Commands PROVE CmdInv(d)'
  <2>1. CASE d = c
    BY <2>1
  <2>2. CASE d # c
    <3>1. cmds'[d] = cmds[d]
      BY <2>2 DEF IndInv, BridgeTypeOK
    <3> QED
      BY <2>2, <3>1, OthersKeep
  <2> QED
    BY <2>1, <2>2
<1> QED
  BY <1>1, <1>2, <1>3 DEF IndInv

\* The numbers of a command, and how far its own poll is.
LEMMA CommandFacts ==
  ASSUME IndInv, NEW c \in Commands
  PROVE  /\ cmds[c] \in Cmd /\ CmdInv(c) /\ polls[c] \in Poll
         /\ cmds[c].entity \in 0..MaxVersion /\ cmds[c].target \in 0..MaxVersion
         /\ cmds[c].reads \in 0..MaxReads /\ cmds[c].climate \in BOOLEAN
         /\ source \in 1..MaxVersion
         /\ device \in [waits : {"nothing", "dashboard"} \cup Commands, answer : 0..NoData]
         /\ DOMAIN cmds = Commands
BY CommandsPoll DEF IndInv, BridgeTypeOK, Cmd, SchedInv, TypeOK

\* A step of one command that leaves the scheduler alone.
LEMMA QuietMoves ==
  ASSUME IndInv, NEW c \in Commands, NEW frame \in Cmd,
         cmds' = [cmds EXCEPT ![c] = frame], shown' = shown, UNCHANGED schedVars,
         device' \in [waits : {"nothing", "dashboard"} \cup Commands, answer : 0..NoData],
         CmdInv(c)'
  PROVE  IndInv'
BY OneMoves DEF schedVars

\* The request passes the checks or is refused.
LEMMA ArrivesKeeps ==
  ASSUME IndInv, NEW c \in Commands, CommandArrives(c)
  PROVE  IndInv'
<1> USE CommandFacts
<1>1. /\ cmds[c].pc = "none" /\ UNCHANGED schedVars /\ shown' = shown
      /\ device' = [NoRequest EXCEPT !.waits = c]
  BY DEF CommandArrives
<1>2. device' \in [waits : {"nothing", "dashboard"} \cup Commands, answer : 0..NoData]
  BY <1>1, SchedulerAssumption DEF NoRequest, NoData
<1>3. ASSUME NEW climate \in BOOLEAN,
             cmds' = [cmds EXCEPT ![c].pc = "call", ![c].climate = climate]
      PROVE  IndInv'
  <2> DEFINE frame == [cmds[c] EXCEPT !.pc = "call", !.climate = climate]
  <2>1. frame \in Cmd /\ cmds' = [cmds EXCEPT ![c] = frame]
    BY <1>3 DEF Cmd
  <2>2. CmdInv(c)'
    BY <1>1, <2>1 DEF CmdInv, schedVars
  <2> QED
    BY <1>1, <1>2, <2>1, <2>2, QuietMoves
<1>4. CASE cmds' = [cmds EXCEPT ![c].pc = "done", ![c].reply = "refused"]
  <2> DEFINE frame == [cmds[c] EXCEPT !.pc = "done", !.reply = "refused"]
  <2>1. frame \in Cmd /\ cmds' = [cmds EXCEPT ![c] = frame]
    BY <1>4 DEF Cmd
  <2>2. CmdInv(c)'
    BY <1>1, <2>1 DEF CmdInv, schedVars
  <2> QED
    BY <1>1, <1>2, <2>1, <2>2, QuietMoves
<1> QED
  BY <1>3, <1>4 DEF CommandArrives

\* Home Assistant obeys.
LEMMA ServesKeeps ==
  ASSUME IndInv, NEW c \in Commands, HAServes(c)
  PROVE  IndInv'
<1> USE CommandFacts
<1>1. /\ cmds[c].climate \/ cmds[c].pc = "call"
      /\ SourceChanges
      /\ cmds' = [cmds EXCEPT ![c].target = source'] /\ device' = device /\ shown' = shown
  BY DEF HAServes
<1>2. source' = source + 1 /\ source' \in 0..MaxVersion /\ polls' = polls
  BY SchedulerAssumption DEF HAServes, SourceChanges
<1> DEFINE frame == [cmds[c] EXCEPT !.target = source']
<1>3. frame \in Cmd /\ cmds' = [cmds EXCEPT ![c] = frame]
  BY <1>1, <1>2 DEF Cmd
<1>4. CmdInv(c)'
  <2>1. cmds'[c] = frame /\ polls'[c] = polls[c]
    BY <1>2, <1>3
  <2>2. CASE cmds[c].climate
    BY <1>2, <2>1, <2>2 DEF CmdInv
  <2>3. CASE ~cmds[c].climate /\ cmds[c].pc = "call"
    BY <1>2, <2>1, <2>3 DEF CmdInv
  <2> QED
    BY <1>1, <2>2, <2>3
<1>5. Next
  BY <1>1 DEF Next, HAServes
<1> QED
  BY <1>1, <1>2, <1>3, <1>4, <1>5, OneMoves

\* The steps between the call and its confirmation.
LEMMA WaitsKeep ==
  ASSUME IndInv, NEW c \in Commands, UNCHANGED schedVars, device' = device, shown' = shown,
         cmds[c].pc # "done",
         \/ CallReturns(c) \/ CallFails(c) \/ StateAnswered(c) \/ StateFails(c)
         \/ /\ cmds[c].climate /\ cmds[c].reads < MaxReads /\ cmds' = Read(c)
         \/ /\ cmds[c].climate /\ cmds[c].reads + 1 \in 0..MaxReads
            /\ cmds' = [cmds EXCEPT ![c].pc = "sleep", ![c].reads = cmds[c].reads + 1]
  PROVE  IndInv'
<1> USE CommandFacts
<1>1. CASE CallReturns(c) /\ cmds[c].climate
  <2> DEFINE frame == [cmds[c] EXCEPT !.pc = "sleep"]
  <2>1. frame \in Cmd /\ cmds' = [cmds EXCEPT ![c] = frame] /\ cmds[c].climate
    BY <1>1 DEF Cmd, CallReturns
  <2>2. cmds'[c] = frame /\ polls'[c] = polls[c] /\ source' = source
    BY <2>1 DEF schedVars
  <2>3. CmdInv(c)'
    BY <2>1, <2>2, BridgeAssumption DEF CmdInv
  <2> QED
    BY <2>1, <2>3, QuietMoves
<1>2. CASE CallReturns(c) /\ ~cmds[c].climate
  <2> DEFINE frame == [cmds[c] EXCEPT !.pc = "request"]
  <2>1. /\ frame \in Cmd /\ cmds' = [cmds EXCEPT ![c] = frame]
        /\ cmds[c].target # 0 /\ cmds[c].pc = "call" /\ ~cmds[c].climate
    BY <1>2 DEF Cmd, CallReturns, Read
  <2>2. cmds'[c] = frame /\ polls'[c] = polls[c] /\ source' = source
    BY <2>1 DEF schedVars
  <2>3. CmdInv(c) /\ cmds[c].reads = 0 /\ cmds[c].reply = "none" /\ 0 < MaxReads
    BY <2>1, BridgeAssumption DEF CmdInv
  <2>4. CmdInv(c)'
    BY <2>1, <2>2, <2>3 DEF CmdInv
  <2> QED
    BY <2>1, <2>4, QuietMoves
<1>3. CASE CallFails(c)
  <2> DEFINE frame == [cmds[c] EXCEPT !.pc = "done", !.reply = "refused"]
  <2>1. frame \in Cmd /\ cmds' = [cmds EXCEPT ![c] = frame] /\ cmds[c].pc = "call"
    BY <1>3 DEF Cmd, CallFails
  <2>2. cmds'[c] = frame /\ polls'[c] = polls[c] /\ source' = source
    BY <2>1 DEF schedVars
  <2>3. CmdInv(c)'
    BY <2>1, <2>2, BridgeAssumption DEF CmdInv
  <2> QED
    BY <2>1, <2>3, QuietMoves
<1>4. CASE StateAnswered(c)
  <2> DEFINE frame == [cmds[c] EXCEPT !.pc = "response", !.entity = source]
  <2>1. frame \in Cmd /\ cmds' = [cmds EXCEPT ![c] = frame] /\ cmds[c].pc = "request"
    <3>1. source \in 0..MaxVersion
      BY SchedulerAssumption
    <3> QED
      BY <1>4, <3>1 DEF Cmd, StateAnswered
  <2>2. cmds'[c] = frame /\ polls'[c] = polls[c] /\ source' = source
    BY <2>1 DEF schedVars
  <2>3. CmdInv(c)'
    BY <2>1, <2>2, BridgeAssumption DEF CmdInv
  <2> QED
    BY <2>1, <2>3, QuietMoves
<1>5. CASE StateFails(c)
  <2> DEFINE frame == [cmds[c] EXCEPT !.pc = "done", !.reply = "warning", !.reads = 0, !.entity = 0]
  <2>1. frame \in Cmd /\ cmds' = [cmds EXCEPT ![c] = frame] /\ cmds[c].pc \in {"request", "response"}
    BY <1>5 DEF Cmd, StateFails
  <2>2. cmds'[c] = frame /\ polls'[c] = polls[c] /\ source' = source
    BY <2>1 DEF schedVars
  <2>3. CmdInv(c)'
    BY <2>1, <2>2, BridgeAssumption DEF CmdInv
  <2> QED
    BY <2>1, <2>3, QuietMoves
<1>6. CASE cmds[c].climate /\ cmds[c].reads < MaxReads /\ cmds' = Read(c)
  <2> DEFINE frame == [cmds[c] EXCEPT !.pc = "request"]
  <2>1. /\ frame \in Cmd /\ cmds' = [cmds EXCEPT ![c] = frame] /\ cmds[c].climate
        /\ cmds[c].reads < MaxReads
    BY <1>6 DEF Cmd, Read
  <2>2. cmds'[c] = frame /\ polls'[c] = polls[c] /\ source' = source
    BY <2>1 DEF schedVars
  <2>3. CmdInv(c)'
    BY <2>1, <2>2, BridgeAssumption DEF CmdInv
  <2> QED
    BY <2>1, <2>3, QuietMoves
<1>7. CASE /\ cmds[c].climate /\ cmds[c].reads + 1 \in 0..MaxReads
               /\ cmds' = [cmds EXCEPT ![c].pc = "sleep", ![c].reads = cmds[c].reads + 1]
  <2> DEFINE frame == [cmds[c] EXCEPT !.pc = "sleep", !.reads = cmds[c].reads + 1]
  <2>1. frame \in Cmd /\ cmds' = [cmds EXCEPT ![c] = frame] /\ cmds[c].climate
    BY <1>7 DEF Cmd
  <2>2. cmds'[c] = frame /\ polls'[c] = polls[c] /\ source' = source
    BY <2>1 DEF schedVars
  <2>3. CmdInv(c)'
    BY <2>1, <2>2, BridgeAssumption DEF CmdInv
  <2> QED
    BY <2>1, <2>3, QuietMoves
<1> QED
  BY <1>1, <1>2, <1>3, <1>4, <1>5, <1>6, <1>7

\* The command is confirmed, and its refresher starts.
LEMMA ConfirmKeeps ==
  ASSUME IndInv, NEW c \in Commands, Confirm(c), cmds[c].climate \/ cmds[c].pc = "response"
  PROVE  IndInv'
<1> USE CommandFacts
<1> DEFINE frame == [cmds[c] EXCEPT !.pc = "done", !.reads = 0, !.reply = "ok"]
<1>1. /\ PollBegins(c) /\ device' = device /\ shown' = shown
      /\ frame \in Cmd /\ cmds' = [cmds EXCEPT ![c] = frame]
  <2>1. 0 \in 0..MaxReads
    BY BridgeAssumption
  <2> QED
    BY <2>1 DEF Confirm, Cmd
<1>2. /\ source' = source /\ polls'[c].pc = "request"
      /\ \A d \in Commands \ {c} : polls'[d] = polls[d]
  BY <1>1, CommandsPoll DEF PollBegins, IndInv, SchedInv, TypeOK
<1>3. CmdInv(c)'
  <2>1. cmds'[c] = frame
    BY <1>1
  <2>2. CASE cmds[c].climate
    BY <1>2, <2>1, <2>2 DEF CmdInv
  <2>3. CASE ~cmds[c].climate /\ cmds[c].pc = "response"
    BY <1>2, <2>1, <2>3 DEF CmdInv
  <2> QED
    BY <2>2, <2>3
<1>4. Next
  BY <1>1, CommandsPoll DEF Next
<1> QED
  BY <1>1, <1>2, <1>3, <1>4, OneMoves

LEMMA CommandStepKeeps ==
  ASSUME IndInv, NEW c \in Commands, CommandStep(c)
  PROVE  IndInv'
<1> USE CommandFacts
<1>1. CASE CallReturns(c) \/ CallFails(c) \/ StateAnswered(c) \/ StateFails(c)
  <2>1. /\ UNCHANGED schedVars /\ device' = device /\ shown' = shown
        /\ cmds[c].pc \in {"call", "request", "response"}
    BY <1>1 DEF CallReturns, CallFails, StateAnswered, StateFails
  <2> QED
    BY <1>1, <2>1, WaitsKeep
<1>2. CASE StateReturns(c)
  <2>1. CASE Confirm(c)
    BY <1>2, <2>1, ConfirmKeeps DEF StateReturns
  <2>2. CASE ~Confirm(c)
    <3>1. cmds[c].reads + 1 \in 0..MaxReads
      BY <1>2, BridgeAssumption DEF StateReturns, CmdInv
    <3>2. /\ cmds[c].climate /\ cmds[c].pc = "response"
          /\ cmds' = [cmds EXCEPT ![c].pc = "sleep", ![c].reads = cmds[c].reads + 1]
          /\ UNCHANGED schedVars /\ device' = device /\ shown' = shown
      BY <1>2, <2>2 DEF StateReturns
    <3> QED
      BY <3>1, <3>2, WaitsKeep
  <2> QED
    BY <2>1, <2>2
<1>3. CASE SleepEnds(c)
  <2>1. cmds[c].climate /\ cmds[c].pc = "sleep"
    BY <1>3 DEF SleepEnds, CmdInv
  <2>2. CASE cmds[c].reads = MaxReads
    BY <1>3, <2>1, <2>2, ConfirmKeeps DEF SleepEnds
  <2>3. CASE cmds[c].reads # MaxReads
    <3>1. cmds[c].reads < MaxReads
      BY <2>3, BridgeAssumption
    <3>2. cmds' = Read(c) /\ UNCHANGED schedVars /\ device' = device /\ shown' = shown
      BY <1>3, <2>3 DEF SleepEnds
    <3> QED
      BY <2>1, <3>1, <3>2, WaitsKeep
  <2> QED
    BY <2>2, <2>3
<1> QED
  BY <1>1, <1>2, <1>3 DEF CommandStep

-----------------------------------------------------------------------------
(* Steps of the polling, the device and the bridge *)

\* A poll only reads, the house only moves on: no command is contradicted.
LEMMA PollingKeeps ==
  ASSUME IndInv, PollingStep, UNCHANGED bridgeVars
  PROVE  IndInv'
<1>1. Next
  BY DEF PollingStep, Next, Pollers
<1>2. SchedInv'
  BY <1>1, SchedNext DEF IndInv
<1>3. BridgeTypeOK'
  BY DEF IndInv, BridgeTypeOK, bridgeVars
<1>4. ASSUME NEW c \in Commands PROVE CmdInv(c)'
  <2> USE CommandFacts, CommandsPoll
  <2>1. cmds' = cmds
    BY DEF bridgeVars
  <2>2. CASE SourceChanges \/ EntryExpires
    BY <2>1, <2>2, OthersKeep DEF SourceChanges, EntryExpires
  <2>3. CASE PollBegins(Loop)
    <3>1. polls'[c] = polls[c] /\ source' = source
      BY <2>3 DEF PollBegins, IndInv, SchedInv, TypeOK
    <3> QED
      BY <2>1, <3>1, OthersKeep
  <2>4. ASSUME NEW p \in Pollers, PollStep(p) PROVE CmdInv(c)'
    <3>1. polls \in [Pollers -> Poll] /\ source' = source
      BY <2>4 DEF IndInv, SchedInv, TypeOK, PollStep, SourceAnswers, PollSucceeds, PollFails, BackoffEnds
    <3>2. CASE p # c
      <4>1. polls'[c] = polls[c]
        BY <2>4, <3>1, <3>2 DEF PollStep, SourceAnswers, PollSucceeds, PollFails, BackoffEnds
      <4> QED
        BY <2>1, <3>1, <4>1, OthersKeep
    <3>3. CASE p = c
      <4>1. polls[c].pc # "idle"
        BY <2>4, <3>3 DEF PollStep, SourceAnswers, PollSucceeds, PollFails, BackoffEnds
      <4>2. CASE SourceAnswers(c)
        <5>1. polls'[c].pc = "response" /\ polls'[c].got = source
          BY <3>1, <4>2 DEF SourceAnswers, Poll
        <5> QED
          BY <2>1, <3>1, <4>1, <5>1 DEF CmdInv
      <4>3. CASE ~SourceAnswers(c)
        <5>1. polls'[c].pc # "response"
          BY <2>4, <3>1, <3>3, <4>3 DEF PollStep, PollSucceeds, PollFails, BackoffEnds,
             NotPolling, BackingOff, Poll
        <5> QED
          BY <2>1, <3>1, <4>1, <5>1 DEF CmdInv
      <4> QED
        BY <4>2, <4>3
    <3> QED
      BY <3>2, <3>3
  <2> QED
    BY <2>2, <2>3, <2>4 DEF PollingStep
<1> QED
  BY <1>2, <1>3, <1>4 DEF IndInv

\* The device only reads what the bridge has cached.
LEMMA DeviceKeeps ==
  ASSUME IndInv,
         DeviceCommandEnds \/ DeviceAsks \/ Dashboard \/ DeviceShows \/ DeviceFails
  PROVE  IndInv'
<1>1. cmds' = cmds /\ UNCHANGED schedVars
  BY DEF DeviceCommandEnds, DeviceAsks, Dashboard, DeviceShows, DeviceFails
<1>2. SchedInv'
  BY <1>1, SchedNext DEF IndInv
<1>3. /\ NoData \in Nat /\ 0..MaxVersion \subseteq 0..NoData /\ NoData \in 0..NoData
      /\ 0 \in 0..NoData /\ \A v \in 0..NoData : v # NoData => v \in 0..MaxVersion
  BY SchedulerAssumption DEF NoData
<1>4. /\ device \in [waits : {"nothing", "dashboard"} \cup Commands, answer : 0..NoData]
      /\ shown \in 0..MaxVersion /\ cache.version \in 0..MaxVersion
      /\ cmds \in [Commands -> Cmd]
  BY DEF IndInv, BridgeTypeOK, SchedInv, TypeOK
<1>5. NoRequest \in [waits : {"nothing", "dashboard"} \cup Commands, answer : 0..NoData]
  BY <1>3 DEF NoRequest
<1>6. BridgeTypeOK'
  <2>1. CASE DeviceCommandEnds \/ DeviceFails
    BY <1>1, <1>4, <1>5, <2>1 DEF DeviceCommandEnds, DeviceFails, BridgeTypeOK
  <2>2. CASE DeviceAsks
    BY <1>1, <1>3, <1>4, <2>2 DEF DeviceAsks, BridgeTypeOK, NoRequest
  <2>3. CASE Dashboard
    BY <1>1, <1>3, <1>4, <2>3 DEF Dashboard, BridgeTypeOK
  <2>4. CASE DeviceShows
    BY <1>1, <1>3, <1>4, <1>5, <2>4 DEF DeviceShows, BridgeTypeOK
  <2> QED
    BY <2>1, <2>2, <2>3, <2>4
<1>7. ASSUME NEW c \in Commands PROVE CmdInv(c)'
  BY <1>1, OthersKeep DEF schedVars
<1> QED
  BY <1>2, <1>6, <1>7 DEF IndInv

\* A restart ends the polls with the commands: neither outlives the other.
LEMMA RestartKeeps == IndInv /\ BridgeRestarts => IndInv'
<1> SUFFICES ASSUME IndInv, BridgeRestarts PROVE IndInv'
  OBVIOUS
<1>1. SchedInv'
  BY SchedNext DEF IndInv, BridgeRestarts, Next
<1>2. \A c \in Commands : /\ cmds[c].pc = "none" => cmds'[c] = cmds[c]
                          /\ cmds[c].pc # "none" => cmds'[c] = [cmds[c] EXCEPT !.pc = "done"]
  BY DEF BridgeRestarts
<1>3. ASSUME NEW c \in Commands PROVE cmds'[c] \in Cmd
  <2>1. cmds[c] \in Cmd
    BY CommandFacts
  <2>2. [cmds[c] EXCEPT !.pc = "done"] \in Cmd
    BY <2>1 DEF Cmd
  <2> QED
    BY <1>2, <2>1, <2>2
<1>4. BridgeTypeOK'
  <2>1. 0 \in 0..NoData
    BY SchedulerAssumption DEF NoData
  <2> QED
    BY <1>3, <2>1 DEF BridgeRestarts, IndInv, BridgeTypeOK, NoRequest
<1>5. ASSUME NEW c \in Commands PROVE CmdInv(c)'
  <2> USE CommandFacts, CommandsPoll
  <2>1. polls'[c] = NotPolling /\ source' = source
    BY DEF BridgeRestarts, Restart
  <2>2. CASE cmds[c].pc = "none"
    <3>1. cmds'[c] = cmds[c]
      BY <1>2, <2>2
    <3>2. polls'[c].pc = "idle"
      BY <2>1 DEF NotPolling
    <3>3. CmdInv(c)
      BY CommandFacts
    <3> QED
      BY <2>1, <3>1, <3>2, <3>3 DEF CmdInv
  <2>3. CASE cmds[c].pc # "none"
    <3>1. /\ cmds'[c].pc = "done" /\ cmds'[c].climate = cmds[c].climate
          /\ cmds'[c].entity = cmds[c].entity /\ cmds'[c].target = cmds[c].target
          /\ cmds'[c].reads = cmds[c].reads /\ cmds'[c].reply = cmds[c].reply
      BY <1>2, <2>3 DEF Cmd
    <3> QED
      BY <2>1, <3>1 DEF CmdInv, NotPolling
  <2> QED
    BY <2>2, <2>3
<1> QED
  BY <1>1, <1>4, <1>5 DEF IndInv

-----------------------------------------------------------------------------

LEMMA IndNext == IndInv /\ [BridgeNext]_vars => IndInv'
<1> SUFFICES ASSUME IndInv, [BridgeNext]_vars PROVE IndInv'
  OBVIOUS
<1>1. ASSUME NEW c \in Commands, CommandArrives(c) \/ HAServes(c) \/ CommandStep(c)
      PROVE  IndInv'
  BY <1>1, ArrivesKeeps, ServesKeeps, CommandStepKeeps
<1>2. CASE PollingStep /\ UNCHANGED bridgeVars
  BY <1>2, PollingKeeps
<1>3. CASE DeviceCommandEnds \/ DeviceAsks \/ Dashboard \/ DeviceShows \/ DeviceFails
  BY <1>3, DeviceKeeps
<1>4. CASE BridgeRestarts
  BY <1>4, RestartKeeps
<1>5. CASE UNCHANGED vars
  <2>1. UNCHANGED schedVars /\ cmds' = cmds /\ device' = device /\ shown' = shown
    BY <1>5 DEF vars, bridgeVars
  <2>2. SchedInv'
    BY <2>1, SchedNext DEF IndInv
  <2>3. BridgeTypeOK'
    BY <2>1 DEF IndInv, BridgeTypeOK
  <2>4. ASSUME NEW c \in Commands PROVE CmdInv(c)'
    BY <2>1, OthersKeep DEF schedVars
  <2> QED
    BY <2>2, <2>3, <2>4 DEF IndInv
<1> QED
  BY <1>1, <1>2, <1>3, <1>4, <1>5 DEF BridgeNext

\* Everything that BridgeInv says of the frames, the polls and the device stays true.
THEOREM BridgeInvariance == BridgeSpec => []BridgeInv
<1>1. BridgeSpec => []IndInv
  BY IndInit, IndNext, PTL DEF BridgeSpec
<1> QED
  BY <1>1, IndInvIsBridgeInv, PTL

\* A light's command that ha_command() confirms has had its effect, and the state in the
\* reply shows it.
THEOREM ConfirmationIsTrue == BridgeSpec => []ConfirmsItsEffect
<1>1. BridgeInv => ConfirmsItsEffect
  BY DEF BridgeInv, ConfirmsItsEffect
<1> QED
  BY <1>1, BridgeInvariance, PTL

\* The refresh of a confirmed command never finds an older state than the reply carried.
THEOREM RefreshIsFresh == BridgeSpec => []RefreshNotOlderThanReply
<1>1. BridgeInv => RefreshNotOlderThanReply
  BY DEF BridgeInv
<1> QED
  BY <1>1, BridgeInvariance, PTL
=============================================================================
