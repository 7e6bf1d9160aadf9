--------------------------- MODULE HAControlModal ---------------------------
(***************************************************************************)
(* The device control popup, firmware/src/ui/ha_control_modal.cpp, on top  *)
(* of the command path.  Its event handlers and LVGL timers run in the UI  *)
(* thread; onCommandResult() is the result callback main.cpp registers and *)
(* runs inside HACommand::checkResult().                                   *)
(*                                                                         *)
(* One action is one handler, except that a handler which sends a command  *)
(* ends in the steps of HACommand::send().  onCommandResult() is one step: *)
(* that is what the S3 does, where it cannot overlap a handler.            *)
(***************************************************************************)
EXTENDS HACommand, HAControls, Integers

CONSTANTS
  Domain,     \* the domain of each entity, as in its id
  Closed,     \* no modal is open
  MaxTarget   \* bound: distance of the target temperature from the first one

ASSUME ModalAssumption ==
  /\ Domain \in [Entities -> STRING]
  /\ Closed \notin Entities
  /\ MaxTarget \in Nat

VARIABLES
  modalEntity,   \* _entityId while _backdrop is set, else Closed
  currentState,  \* _currentState
  stateOwner,    \* history: the entity currentState was reported for
  target,        \* _targetTemp, which _lblTarget shows
  overlay,       \* the "Sending..." overlay is visible
  toast,         \* what _lblToast shows
  toastTimer,    \* _toastTimer, or NoTimer
  timers,        \* the one-shot toast timers LVGL still holds
  forcePoll      \* DataService's _forcePoll

modalVars == <<modalEntity, currentState, stateOwner, target, overlay, toast,
               toastTimer, timers, forcePoll>>
vars == <<cmdVars, modalVars>>

\* A timer is named by the answer that created it.
NoTimer == 0
TimerIds == 1..MaxCommands

ModalTypeOK ==
  /\ modalEntity \in Entities \cup {Closed}
  /\ currentState \in States
  /\ stateOwner \in Entities
  /\ target \in -MaxTarget..MaxTarget
  /\ overlay \in BOOLEAN
  /\ toast \in {"hidden", "updated", "error"}
  /\ toastTimer \in TimerIds \cup {NoTimer}
  /\ timers \subseteq TimerIds
  /\ forcePoll \in BOOLEAN

ModalInit ==
  /\ Init
  /\ modalEntity = Closed
  /\ currentState \in States
  /\ stateOwner \in Entities
  /\ target = 0
  /\ overlay = FALSE
  /\ toast = "hidden"
  /\ toastTimer = NoTimer
  /\ timers = {}
  /\ forcePoll = FALSE

IsOpen == modalEntity # Closed

-----------------------------------------------------------------------------

\* lv_timer_del(_toastTimer); _toastTimer = nullptr
DropToastTimer ==
  /\ timers' = timers \ {toastTimer}
  /\ toastTimer' = NoTimer

\* show() closes what is open and copies the tapped entity; the controls start
\* without overlay and toast.  The card's state is what the last poll reported.
Show(e, st) ==
  /\ UIMayRun
  /\ DropToastTimer
  /\ modalEntity' = e
  /\ currentState' = st
  /\ stateOwner' = e
  /\ target' = IF Domain[e] = "climate" THEN 0 ELSE target
  /\ overlay' = FALSE
  /\ toast' = "hidden"
  /\ UNCHANGED <<cmdVars, forcePoll>>

\* Slip: close() deletes the timer and keeps the pointer.
CloseKeepsPointer ==
  /\ UIMayRun
  /\ IsOpen
  /\ timers' = timers \ {toastTimer}
  /\ modalEntity' = Closed
  /\ overlay' = FALSE
  /\ toast' = "hidden"
  /\ UNCHANGED <<cmdVars, currentState, stateOwner, target, toastTimer, forcePoll>>

\* close(), from the backdrop or the X button.  The command in flight goes on.
Close ==
  /\ UIMayRun
  /\ IsOpen
  /\ DropToastTimer
  /\ modalEntity' = Closed
  /\ overlay' = FALSE
  /\ toast' = "hidden"
  /\ UNCHANGED <<cmdVars, currentState, stateOwner, target, forcePoll>>

\* Slip: the overlay is shown before isBusy() is asked.
SendCommandOverlayFirst ==
  /\ overlay' = TRUE
  /\ \/ busy /\ UNCHANGED cmdVars
     \/ SendCheck(modalEntity)

\* sendCommand(): nothing while a command is in flight; else the overlay, then
\* HACommand::send(), whose result is not looked at.
SendCommand ==
  \/ busy /\ UNCHANGED <<cmdVars, overlay>>
  \/ SendCheck(modalEntity) /\ overlay' = TRUE

\* The toggle, mode, media and cover buttons.
Click ==
  /\ UIMayRun
  /\ IsOpen
  /\ SendCommand
  /\ UNCHANGED <<modalEntity, currentState, stateOwner, target, toast, toastTimer,
                 timers, forcePoll>>

\* onTempUp() and onTempDown() move the target and its label, then send it.
ChangeTemp(d) ==
  /\ UIMayRun
  /\ IsOpen /\ Domain[modalEntity] = "climate"
  /\ target + d \in -MaxTarget..MaxTarget
  /\ target' = target + d
  /\ SendCommand
  /\ UNCHANGED <<modalEntity, currentState, stateOwner, toast, toastTimer, timers,
                 forcePoll>>

\* onToastTimer(): a repeat count of 1, so LVGL deletes the timer afterwards.
ToastFires(t) ==
  /\ UIMayRun
  /\ t \in timers
  /\ timers' = timers \ {t}
  /\ toast' = "hidden"
  /\ toastTimer' = NoTimer
  /\ UNCHANGED <<cmdVars, modalEntity, currentState, stateOwner, target, overlay,
                 forcePoll>>

\* The toast and its timer, whose pointer replaces that of an earlier toast.
ShowToast(text) ==
  /\ toast' = text
  /\ toastTimer' = answered + 1
  /\ timers' = timers \cup {answered + 1}

\* Slip: a failed command leaves the overlay up.
OnCommandResultNoHide(r) ==
  IF ~ IsOpen
    THEN UNCHANGED modalVars
    ELSE /\ IF r.success /\ r.newState # NoState
              THEN /\ currentState' = r.newState
                   /\ stateOwner' = result.cmd.entity
                   /\ overlay' = FALSE
                   /\ forcePoll' = TRUE
                   /\ ShowToast("updated")
              ELSE /\ ShowToast("error")
                   /\ UNCHANGED <<currentState, stateOwner, overlay, forcePoll>>
         /\ UNCHANGED <<modalEntity, target>>

\* Slip: the error toast gets no timer.
OnCommandResultErrorStays(r) ==
  IF ~ IsOpen
    THEN UNCHANGED modalVars
    ELSE /\ overlay' = FALSE
         /\ IF r.success /\ r.newState # NoState
              THEN /\ currentState' = r.newState
                   /\ stateOwner' = result.cmd.entity
                   /\ forcePoll' = TRUE
                   /\ ShowToast("updated")
              ELSE /\ toast' = "error"
                   /\ UNCHANGED <<currentState, stateOwner, forcePoll, toastTimer, timers>>
         /\ UNCHANGED <<modalEntity, target>>

\* onCommandResult(): the lambda of main.cpp drops the entity id of the result.
OnCommandResult(r) ==
  IF ~ IsOpen
    THEN UNCHANGED modalVars
    ELSE /\ overlay' = FALSE
         /\ IF r.success /\ r.newState # NoState
              THEN /\ currentState' = r.newState
                   /\ stateOwner' = result.cmd.entity
                   /\ forcePoll' = TRUE
                   /\ ShowToast("updated")
              ELSE /\ ShowToast("error")
                   /\ UNCHANGED <<currentState, stateOwner, forcePoll>>
         /\ UNCHANGED <<modalEntity, target>>

\* checkResult() reaches the callback.
ResultCallback == CheckCallback /\ OnCommandResult(result.reply)

\* networkTask() takes the request for an early poll.
NetTakesForcePoll ==
  /\ forcePoll
  /\ forcePoll' = FALSE
  /\ UNCHANGED <<cmdVars, modalEntity, currentState, stateOwner, target, overlay,
                 toast, toastTimer, timers>>

-----------------------------------------------------------------------------

\* checkResult() with the callback
ModalMainStep ==
  \/ ResultCallback
  \/ /\ CheckPeek \/ CheckLock \/ CheckClearReady \/ CheckClearBusy \/ CheckUnlock
     /\ UNCHANGED modalVars

ModalNext ==
  \/ \E e \in Entities, st \in States : Show(e, st)
  \/ Close
  \/ Click
  \/ \E d \in {-1, 1} : ChangeTemp(d)
  \/ \E t \in TimerIds : ToastFires(t)
  \/ UISend /\ UNCHANGED modalVars
  \/ NetStep /\ UNCHANGED modalVars
  \/ ModalMainStep
  \/ NetTakesForcePoll

ModalSpec == ModalInit /\ [][ModalNext]_vars

\* A call of send() that has started returns; the network task and the main loop run
\* for ever, and the POST has a timeout of 5 s; LVGL runs every timer.  Nobody has to
\* tap.
ModalFairness ==
  /\ WF_vars(UISend /\ UNCHANGED modalVars)
  /\ WF_vars(NetStep /\ UNCHANGED modalVars)
  /\ WF_vars(ModalMainStep)
  /\ WF_vars(\E t \in TimerIds : ToastFires(t))

ModalFairSpec == ModalSpec /\ ModalFairness

-----------------------------------------------------------------------------
(* Properties *)

\* "Sending..." is only ever shown over the controls of the entity whose command is
\* on its way, whatever modals were closed and opened meanwhile.
OverlayIsOwnCommand ==
  overlay =>
    \/ uiPc = "enqueue" /\ uiCmd.entity = modalEntity
    \/ InFlight /\ PendingCmd.entity = modalEntity

\* close() deletes _toastTimer: the pointer never outlives the timer, although a
\* second answer replaces it and the older timer resets it.
ToastTimerLives == toastTimer # NoTimer => toastTimer \in timers

\* A toast on the screen always has a timer that will take it away.
ToastIsTimed == toast # "hidden" => timers # {}

\* "5 second timeout -- prevents hung modals": the overlay goes away.
OverlayClears == overlay ~> ~ overlay

\* The device control design, State Refresh 1: "Modal immediately shows confirmed
\* state from bridge response", that is the state of the entity it is open for.
StateIsOfEntity == IsOpen => stateOwner = modalEntity
=============================================================================
