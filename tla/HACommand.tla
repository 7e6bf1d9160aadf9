------------------------------ MODULE HACommand ------------------------------
(***************************************************************************)
(* The command path of the firmware, firmware/src/ha_command.cpp.          *)
(*                                                                         *)
(* Three activities share its state:                                       *)
(*   - the UI thread calls send() from an LVGL event handler;              *)
(*   - the network task calls processQueue(), which blocks in the POST;    *)
(*   - the main loop calls checkResult(), which runs the result callback.  *)
(* On the ESP32-S3 LVGL is driven from loop(), so the UI thread and the    *)
(* main loop are one thread (OneUIThread = TRUE).  On the ESP32-P4 LVGL    *)
(* runs in a task of its own (OneUIThread = FALSE).                        *)
(*                                                                         *)
(* An action is what one activity does between two accesses that another   *)
(* activity can observe.  A variable of the code keeps its name.           *)
(***************************************************************************)
EXTENDS Http, Sequences

CONSTANTS
  Entities,      \* entity ids a command can name
  States,        \* entity states the bridge can confirm
  NoState,       \* the reply carries no state (newState[0] = '\0')
  NoCmd,         \* no command
  OneUIThread,   \* TRUE on the S3, FALSE on the P4
  MaxCommands    \* bound: commands accepted in a behaviour

ASSUME HACommandAssumption ==
  /\ OneUIThread \in BOOLEAN
  /\ MaxCommands \in Nat
  /\ NoState \notin States
  /\ NoCmd \notin [id : Nat, entity : Entities]

\* xQueueCreate(1, sizeof(HACmd))
QueueDepth == 1

\* struct HACmd.  The id numbers the accepted commands; it is not in the code.
Command == [id : Nat, entity : Entities]

\* struct HACmdResult, without the entity: it is the command's.
Reply == [success : BOOLEAN, newState : States \cup {NoState}]
Failed == [success |-> FALSE, newState |-> NoState]

VARIABLES
  cmdQueue,      \* _cmdQueue
  busy,          \* _busy
  resultReady,   \* _resultReady
  result,        \* _result, with the command it answers
  resultMutex,   \* holder of _resultMutex: "none", "net" or "main"
  uiPc, uiCmd,   \* where the UI thread is in send(), and its command
  netPc, netCmd, netReply,   \* the same of processQueue()
  mainPc,        \* where the main loop is in checkResult()
  accepted,      \* history: number of commands taken by the queue
  answered,      \* history: number of times the result callback ran
  lastAnswered   \* history: id of the command it last answered

uiVars   == <<uiPc, uiCmd>>
netVars  == <<netPc, netCmd, netReply>>
sharedVars == <<cmdQueue, busy, resultReady, result, resultMutex>>
histVars == <<accepted, answered, lastAnswered>>
cmdVars  == <<sharedVars, uiVars, netVars, mainPc, histVars>>

NoResult == [cmd |-> NoCmd, reply |-> Failed]

TypeOK ==
  /\ cmdQueue \in Seq(Command)
  /\ busy \in BOOLEAN
  /\ resultReady \in BOOLEAN
  /\ result \in [cmd : Command \cup {NoCmd}, reply : Reply]
  /\ resultMutex \in {"none", "net", "main"}
  /\ uiPc \in {"idle", "enqueue", "setBusy"}
  /\ uiCmd \in Command \cup {NoCmd}
  /\ netPc \in {"idle", "post", "store", "publish", "unlock"}
  /\ netCmd \in Command \cup {NoCmd}
  /\ netReply \in Reply
  /\ mainPc \in {"idle", "lock", "callback", "clearReady", "clearBusy", "unlock"}
  /\ accepted \in Nat
  /\ answered \in Nat
  /\ lastAnswered \in Nat

\* HACommand::init(), before the tasks start
Init ==
  /\ cmdQueue = <<>>
  /\ busy = FALSE
  /\ resultReady = FALSE
  /\ result = NoResult
  /\ resultMutex = "none"
  /\ uiPc = "idle" /\ uiCmd = NoCmd
  /\ netPc = "idle" /\ netCmd = NoCmd /\ netReply = Failed
  /\ mainPc = "idle"
  /\ accepted = 0
  /\ answered = 0
  /\ lastAnswered = 0

\* One thread cannot be inside an event handler and inside checkResult().
UIMayRun   == uiPc = "idle" /\ (OneUIThread => mainPc = "idle")
MainMayRun == mainPc = "idle" /\ (OneUIThread => uiPc = "idle")

-----------------------------------------------------------------------------
(* The UI thread: send() *)

\* Slip: the _busy test is forgotten.
SendCheckNoBusyTest(e) ==
  /\ UIMayRun
  /\ accepted < MaxCommands
  /\ uiPc' = "enqueue"
  /\ uiCmd' = [id |-> accepted + 1, entity |-> e]
  /\ UNCHANGED <<sharedVars, netVars, mainPc, histVars>>

\* send() tests _busy first and returns false when it is set, which changes
\* nothing; otherwise it builds the command.
SendCheck(e) ==
  /\ UIMayRun
  /\ accepted < MaxCommands
  /\ ~busy
  /\ uiPc' = "enqueue"
  /\ uiCmd' = [id |-> accepted + 1, entity |-> e]
  /\ UNCHANGED <<sharedVars, netVars, mainPc, histVars>>

\* xQueueSend(_cmdQueue, &cmd, 0): send() returns false when the queue is full.
SendEnqueue ==
  /\ uiPc = "enqueue"
  /\ IF Len(cmdQueue) < QueueDepth
       THEN /\ cmdQueue' = Append(cmdQueue, uiCmd)
            /\ accepted' = uiCmd.id
            /\ uiPc' = "setBusy"
       ELSE /\ uiPc' = "idle"
            /\ UNCHANGED <<cmdQueue, accepted>>
  /\ UNCHANGED <<busy, resultReady, result, resultMutex, uiCmd, netVars, mainPc,
                 answered, lastAnswered>>

\* _busy = true, only after the network task may already have the command.
SendSetBusy ==
  /\ uiPc = "setBusy"
  /\ busy' = TRUE
  /\ uiPc' = "idle"
  /\ UNCHANGED <<cmdQueue, resultReady, result, resultMutex, uiCmd, netVars,
                 mainPc, histVars>>

-----------------------------------------------------------------------------
(* The network task: processQueue() *)

NetReceive ==
  /\ netPc = "idle"
  /\ cmdQueue # <<>>
  /\ netCmd' = Head(cmdQueue)
  /\ cmdQueue' = Tail(cmdQueue)
  /\ netPc' = "post"
  /\ UNCHANGED <<busy, resultReady, result, resultMutex, uiVars, netReply, mainPc,
                 histVars>>

\* A body of 200 gives the flag and the state that are found in it; without one the
\* command has failed, whether or not the bridge has carried it out.
RepliesTo(resp) == IF Usable(resp) THEN Reply ELSE {Failed}

\* `if (!isConnected())`: Failed; otherwise the POST
NetPost(r) ==
  /\ netPc = "post"
  /\ \E connected \in BOOLEAN :
       \/ ~ connected /\ r = Failed
       \/ connected /\ \E resp \in HttpPost(connected) : r \in RepliesTo(resp)
  /\ netReply' = r
  /\ netPc' = "store"
  /\ UNCHANGED <<sharedVars, uiVars, netCmd, mainPc, histVars>>

\* xSemaphoreTake(_resultMutex, 50 ms) succeeds
NetLock ==
  /\ netPc = "store"
  /\ resultMutex = "none"
  /\ resultMutex' = "net"
  /\ netPc' = "publish"
  /\ UNCHANGED <<cmdQueue, busy, resultReady, result, uiVars, netCmd, netReply,
                 mainPc, histVars>>

\* ... or it is not free within 50 ms: the result is dropped.
NetLockTimeout ==
  /\ netPc = "store"
  /\ resultMutex # "none"
  /\ netPc' = "idle"
  /\ UNCHANGED <<sharedVars, uiVars, netCmd, netReply, mainPc, histVars>>

\* Slip: the result is stored and the flag is not raised.
NetPublishNoFlag ==
  /\ netPc = "publish"
  /\ result' = [cmd |-> netCmd, reply |-> netReply]
  /\ netPc' = "unlock"
  /\ UNCHANGED <<cmdQueue, busy, resultReady, resultMutex, uiVars, netCmd, netReply,
                 mainPc, histVars>>

NetPublish ==
  /\ netPc = "publish"
  /\ result' = [cmd |-> netCmd, reply |-> netReply]
  /\ resultReady' = TRUE
  /\ netPc' = "unlock"
  /\ UNCHANGED <<cmdQueue, busy, resultMutex, uiVars, netCmd, netReply, mainPc,
                 histVars>>

\* Slip: the mutex is not given back.
NetUnlockForgotten ==
  /\ netPc = "unlock"
  /\ netPc' = "idle"
  /\ UNCHANGED <<sharedVars, uiVars, netCmd, netReply, mainPc, histVars>>

NetUnlock ==
  /\ netPc = "unlock"
  /\ resultMutex' = "none"
  /\ netPc' = "idle"
  /\ UNCHANGED <<cmdQueue, busy, resultReady, result, uiVars, netCmd, netReply,
                 mainPc, histVars>>

-----------------------------------------------------------------------------
(* The main loop: checkResult() *)

\* `if (!_resultReady) return;` read without the mutex
CheckPeek ==
  /\ MainMayRun
  /\ resultReady
  /\ mainPc' = "lock"
  /\ UNCHANGED <<sharedVars, uiVars, netVars, histVars>>

\* xSemaphoreTake(_resultMutex, 0): when it fails the loop comes back later.
CheckLock ==
  /\ mainPc = "lock"
  /\ IF resultMutex = "none"
       THEN resultMutex' = "main" /\ mainPc' = "callback"
       ELSE mainPc' = "idle" /\ UNCHANGED resultMutex
  /\ UNCHANGED <<cmdQueue, busy, resultReady, result, uiVars, netVars, histVars>>

\* _callback(_result...) runs, under the mutex, if the flag is still set.
CheckCallback ==
  /\ mainPc = "callback"
  /\ IF resultReady
       THEN /\ answered' = answered + 1
            /\ lastAnswered' = result.cmd.id
            /\ mainPc' = "clearReady"
       ELSE /\ mainPc' = "unlock"
            /\ UNCHANGED <<answered, lastAnswered>>
  /\ UNCHANGED <<sharedVars, uiVars, netVars, accepted>>

\* Slip: _resultReady is left set, so the callback runs again.
CheckClearReadyForgotten ==
  /\ mainPc = "clearReady"
  /\ mainPc' = "clearBusy"
  /\ UNCHANGED <<sharedVars, uiVars, netVars, histVars>>

CheckClearReady ==
  /\ mainPc = "clearReady"
  /\ resultReady' = FALSE
  /\ mainPc' = "clearBusy"
  /\ UNCHANGED <<cmdQueue, busy, result, resultMutex, uiVars, netVars, histVars>>

\* Slip: _busy is left set.
CheckClearBusyForgotten ==
  /\ mainPc = "clearBusy"
  /\ mainPc' = "unlock"
  /\ UNCHANGED <<sharedVars, uiVars, netVars, histVars>>

CheckClearBusy ==
  /\ mainPc = "clearBusy"
  /\ busy' = FALSE
  /\ mainPc' = "unlock"
  /\ UNCHANGED <<cmdQueue, resultReady, result, resultMutex, uiVars, netVars,
                 histVars>>

CheckUnlock ==
  /\ mainPc = "unlock"
  /\ resultMutex' = "none"
  /\ mainPc' = "idle"
  /\ UNCHANGED <<cmdQueue, busy, resultReady, result, uiVars, netVars, histVars>>

-----------------------------------------------------------------------------

UISend == SendEnqueue \/ SendSetBusy

NetStep ==
  \/ NetReceive
  \/ \E r \in Reply : NetPost(r)
  \/ NetLock
  \/ NetLockTimeout
  \/ NetPublish
  \/ NetUnlock

MainStep ==
  \/ CheckPeek
  \/ CheckLock
  \/ CheckCallback
  \/ CheckClearReady
  \/ CheckClearBusy
  \/ CheckUnlock

Next ==
  \/ \E e \in Entities : SendCheck(e)
  \/ UISend
  \/ NetStep
  \/ MainStep

Spec == Init /\ [][Next]_cmdVars

-----------------------------------------------------------------------------
(* Where the command in flight is *)

Queued   == cmdQueue # <<>>
Posting  == netPc \in {"post", "store", "publish"}
Stored   == resultReady /\ mainPc # "clearReady"
InFlight == Queued \/ Posting \/ Stored

\* checkResult() has answered the command and is still resetting the flags.
Clearing == mainPc \in {"clearReady", "clearBusy"}

PendingCmd ==
  IF Queued THEN Head(cmdQueue)
  ELSE IF Posting THEN netCmd
  ELSE IF Stored THEN result.cmd
  ELSE NoCmd

\* ha_command.h:8 "Queue depth 1 -- only one command in flight at a time": a
\* command is in one place only, and none is when send() fills the queue, so
\* xQueueSend never finds it full although _busy is raised after it.
OneCommandInFlight ==
  /\ ~ (Queued /\ Posting)
  /\ ~ (Queued /\ Stored)
  /\ ~ (Posting /\ Stored)
  /\ uiPc = "enqueue" => ~ InFlight

\* The callback never runs twice for a command, and never for an older command
\* after a newer one, whatever is lost.
AnswersInOrder ==
  [][answered' # answered => result.cmd.id > lastAnswered /\ result.cmd.id <= accepted]_cmdVars

\* ha_command.h:21 "Returns false if another command is already in flight": when
\* send() can be called and would refuse, a command is on its way or just answered.
RefusedOnlyInFlight == busy /\ UIMayRun => InFlight \/ Clearing

\* Storing a result gives up after 50 ms without a word, and the callback of checkResult()
\* draws screens under the mutex; but on the S3 no result ever waits for one that is being
\* handed over, so the time-out never drops an answer and leaves _busy set.
NoResultDropped == netPc = "store" => resultMutex # "main"

\* The modal can send again: _busy never stays set.
BusyClears == busy ~> ~ busy

-----------------------------------------------------------------------------
(* The inductive invariant behind the properties above *)

\* The mutex is held exactly in the critical sections.
MutexInv ==
  /\ resultMutex = "net"  <=> netPc \in {"publish", "unlock"}
  /\ resultMutex = "main" <=> mainPc \in {"callback", "clearReady", "clearBusy", "unlock"}

\* Only checkResult() lowers the flag it has seen raised.
ReadyInv == mainPc \in {"lock", "callback", "clearReady"} => resultReady

\* A command in flight holds _busy, or will once its send() returns; and so does
\* one whose answer checkResult() is about to forget.
BusyInv ==
  /\ InFlight \/ Clearing => busy \/ uiPc = "setBusy"
  /\ Clearing => ~ InFlight
  /\ uiPc = "enqueue" => ~ busy /\ ~ Clearing

\* The commands and results on their way are those that were accepted.
IdInv ==
  /\ \A i \in 1..Len(cmdQueue) : cmdQueue[i].id = accepted
  /\ Posting => netCmd \in Command /\ netCmd.id = accepted
  /\ resultReady => result.cmd \in Command /\ result.cmd.id = accepted
  /\ uiPc = "enqueue" => uiCmd \in Command /\ uiCmd.id = accepted + 1
  /\ IF InFlight THEN lastAnswered < accepted ELSE lastAnswered <= accepted

\* On the S3 nothing is refused without a reason and nothing is lost.
OneThreadInv ==
  /\ uiPc = "idle" \/ mainPc = "idle"
  /\ busy => InFlight \/ Clearing
  /\ uiPc = "setBusy" => InFlight
  /\ mainPc = "unlock" => ~ InFlight
  /\ lastAnswered = answered
  /\ accepted = IF InFlight THEN answered + 1 ELSE answered

IInv ==
  /\ TypeOK
  /\ Len(cmdQueue) <= QueueDepth
  /\ MutexInv
  /\ ReadyInv
  /\ OneCommandInFlight
  /\ BusyInv
  /\ IdInv
  /\ OneUIThread => OneThreadInv

-----------------------------------------------------------------------------

\* The command path implements the service it promises.
Service == INSTANCE CommandService WITH pending <- PendingCmd

\* Each command is answered once and in order, and every one is answered.
ServiceSpec == Service!Spec
=============================================================================
