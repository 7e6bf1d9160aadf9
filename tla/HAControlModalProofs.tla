------------------------- MODULE HAControlModalProofs -------------------------
(***************************************************************************)
(* First the command path: IInv of module HACommand is inductive, for any  *)
(* number of entities, states and commands and for both thread layouts,    *)
(* and what follows.  Then the modal on the S3, for any entities, domains  *)
(* and states, which drives that path only through send(): the overlay     *)
(* belongs to the command in flight, and the toast to a timer that lives.  *)
(***************************************************************************)
EXTENDS HAControlModal, SequenceTheorems, TLAPS

-----------------------------------------------------------------------------
(* HACommand *)

\* The queue, empty or holding one command, after a receive.
LEMMA ReceiveOne ==
  ASSUME NEW S, NEW q \in Seq(S), q # <<>>, Len(q) <= 1
  PROVE  Len(q) = 1 /\ Head(q) \in S /\ Head(q) = q[1] /\ Tail(q) = <<>>
<1>1. Len(q) = 1
  <2>1. Len(q) \in Nat \ {0}
    BY EmptySeq, Zenon
  <2>. QED
    BY <2>1
<1>2. Head(q) \in S /\ Tail(q) \in Seq(S) /\ Len(Tail(q)) = 0
  BY <1>1, HeadTailProperties
<1>3. Head(q) = q[1]
  OBVIOUS
<1>4. Tail(q) = <<>>
  BY <1>2, EmptySeq
<1>. QED
  BY <1>1, <1>2, <1>3, <1>4

\* The initial states satisfy the inductive invariant.
LEMMA InitInv == Init => IInv
<1> SUFFICES ASSUME Init PROVE IInv
  OBVIOUS
<1>1. Failed \in Reply /\ NoResult \in [cmd : Command \cup {NoCmd}, reply : Reply]
  BY DEF NoResult, Reply, Failed
<1>2. TypeOK
  BY <1>1, EmptySeq DEF Init, TypeOK
<1>. QED
  BY <1>2 DEF Init, IInv, MutexInv, ReadyInv, OneCommandInFlight, BusyInv, IdInv, OneThreadInv,
              QueueDepth, Queued, Posting, Stored, InFlight, Clearing

\* Every step of the three activities preserves the inductive invariant.
LEMMA NextInv == IInv /\ [Next]_cmdVars => IInv'
<1> SUFFICES ASSUME IInv, [Next]_cmdVars PROVE IInv'
  OBVIOUS
<1> USE DEF IInv, MutexInv, ReadyInv, OneCommandInFlight, BusyInv, IdInv, OneThreadInv,
            QueueDepth, Queued, Posting, Stored, InFlight, Clearing,
            sharedVars, uiVars, netVars, histVars
\* send() starts only while no command is in flight, since one would hold _busy.
<1>1. ASSUME NEW e \in Entities, SendCheck(e) PROVE IInv'
  <2>1. TypeOK' /\ uiCmd' \in Command
    BY <1>1 DEF SendCheck, TypeOK, Command
  <2>. QED
    BY <1>1, <2>1 DEF SendCheck, TypeOK, Command, UIMayRun
\* The queue is empty, so the command is the only one in it.
<1>2. ASSUME SendEnqueue PROVE IInv'
  <2>1. cmdQueue = <<>> /\ uiCmd \in Command
    BY <1>2 DEF SendEnqueue
  <2>2. cmdQueue' = <<uiCmd>> /\ accepted' = uiCmd.id /\ uiPc' = "setBusy"
    BY <1>2, <2>1 DEF SendEnqueue
  <2>3. TypeOK'
    BY <1>2, <2>1, <2>2 DEF SendEnqueue, TypeOK, Command
  <2>. QED
    BY <1>2, <2>1, <2>2, <2>3 DEF SendEnqueue, TypeOK
<1>3. ASSUME NetReceive PROVE IInv'
  <2>1. /\ Len(cmdQueue) = 1 /\ Tail(cmdQueue) = <<>>
        /\ Head(cmdQueue) \in Command /\ Head(cmdQueue) = cmdQueue[1]
    BY <1>3, ReceiveOne DEF NetReceive, TypeOK
  <2>2. TypeOK'
    BY <1>3, <2>1 DEF NetReceive, TypeOK
  <2>. QED
    BY <1>3, <2>1, <2>2 DEF NetReceive, TypeOK
\* On the S3 checkResult() cannot have run since the command was queued.
<1>4. ASSUME SendSetBusy PROVE IInv'
  BY <1>4 DEF SendSetBusy, TypeOK
<1>5. ASSUME NEW r \in Reply, NetPost(r) PROVE IInv'
  BY <1>5 DEF NetPost, TypeOK
<1>6. ASSUME NetLock PROVE IInv'
  BY <1>6 DEF NetLock, TypeOK
\* On the S3 there is no result to store while the main loop is in checkResult().
<1>7. ASSUME NetLockTimeout PROVE IInv'
  BY <1>7 DEF NetLockTimeout, TypeOK
<1>8. ASSUME NetPublish PROVE IInv'
  BY <1>8 DEF NetPublish, TypeOK
<1>9. ASSUME NetUnlock PROVE IInv'
  BY <1>9 DEF NetUnlock, TypeOK
<1>10. ASSUME CheckPeek PROVE IInv'
  BY <1>10 DEF CheckPeek, TypeOK, MainMayRun
<1>11. ASSUME CheckLock PROVE IInv'
  BY <1>11 DEF CheckLock, TypeOK
\* The flag is still set: only the main loop lowers it.
<1>12. ASSUME CheckCallback PROVE IInv'
  BY <1>12 DEF CheckCallback, TypeOK
<1>13. ASSUME CheckClearReady PROVE IInv'
  BY <1>13 DEF CheckClearReady, TypeOK
<1>14. ASSUME CheckClearBusy PROVE IInv'
  BY <1>14 DEF CheckClearBusy, TypeOK
<1>15. ASSUME CheckUnlock PROVE IInv'
  BY <1>15 DEF CheckUnlock, TypeOK
<1>16. CASE UNCHANGED cmdVars
  BY <1>16 DEF cmdVars, TypeOK
<1>. QED
  BY <1>1, <1>2, <1>3, <1>4, <1>5, <1>6, <1>7, <1>8, <1>9, <1>10, <1>11, <1>12, <1>13, <1>14, <1>15, <1>16 DEF Next, UISend, NetStep, MainStep

-----------------------------------------------------------------------------

\* The inductive invariant holds in every reachable state.
LEMMA Invariance == Spec => []IInv
<1>1. Init => IInv
  BY InitInv
<1>2. IInv /\ [Next]_cmdVars => IInv'
  BY NextInv
<1>. QED
  BY <1>1, <1>2, PTL DEF Spec

\* Type correctness of the command path's variables and program counters.
THEOREM TypeCorrect == Spec => []TypeOK
<1>1. IInv => TypeOK
  BY DEF IInv
<1>. QED
  BY <1>1, Invariance, PTL

\* ha_command.h:8: only one command is in flight at a time, although _busy is
\* raised after the command is queued; on the S3 and on the P4.
THEOREM OneInFlight == Spec => []OneCommandInFlight
<1>1. IInv => OneCommandInFlight
  BY DEF IInv
<1>. QED
  BY <1>1, Invariance, PTL

\* The result callback runs at most once per command, in the order of the commands.
THEOREM InOrder == Spec => AnswersInOrder
<1>1. ASSUME IInv, [Next]_cmdVars, answered' # answered
      PROVE  result.cmd.id > lastAnswered /\ result.cmd.id <= accepted
  <2>1. CheckCallback /\ resultReady
    BY <1>1 DEF Next, UISend, NetStep, MainStep, cmdVars, histVars, SendCheck, SendEnqueue,
      SendSetBusy, NetReceive, NetPost, NetLock, NetLockTimeout, NetPublish, NetUnlock,
      CheckPeek, CheckLock, CheckCallback, CheckClearReady, CheckClearBusy, CheckUnlock
  <2>. QED
    BY <1>1, <2>1 DEF CheckCallback, IInv, IdInv, InFlight, Stored, TypeOK
<1>. QED
  BY <1>1, Invariance, PTL DEF Spec, AnswersInOrder

\* On the S3 the time-out of the result mutex drops no answer.
THEOREM NothingDropped == ASSUME OneUIThread PROVE Spec => []NoResultDropped
<1>1. IInv => NoResultDropped
  BY DEF IInv, MutexInv, ReadyInv, OneCommandInFlight, BusyInv, OneThreadInv, Posting, Stored,
         InFlight, Clearing, NoResultDropped
<1>. QED
  BY <1>1, Invariance, PTL

\* On the S3, send() refuses a command only while another one is in flight.
THEOREM RefusedWithReason == ASSUME OneUIThread PROVE Spec => []RefusedOnlyInFlight
<1>1. IInv => RefusedOnlyInFlight
  BY DEF IInv, OneThreadInv, RefusedOnlyInFlight
<1>. QED
  BY <1>1, Invariance, PTL

\* The initial states of the command path are initial states of the service.
LEMMA ServiceInit == Init => Service!Init
BY DEF Init, Service!Init, PendingCmd, Queued, Posting, Stored

\* On the S3 every step of the command path is a step of the service or none.
LEMMA ServiceStep ==
  ASSUME OneUIThread, IInv, [Next]_cmdVars
  PROVE  [Service!Next]_<<PendingCmd, answered>>
<1> USE DEF IInv, OneCommandInFlight, PendingCmd, Queued, Posting, Stored, InFlight,
            sharedVars, uiVars, netVars, histVars
<1>1. ASSUME NEW e \in Entities, SendCheck(e) PROVE UNCHANGED <<PendingCmd, answered>>
  BY <1>1 DEF SendCheck
<1>2. CASE SendEnqueue
  <2>1. cmdQueue = <<>> /\ PendingCmd = NoCmd
    BY <1>2 DEF SendEnqueue
  <2>2. PendingCmd' = uiCmd /\ UNCHANGED answered
    BY <1>2, <2>1 DEF SendEnqueue, QueueDepth
  <2>3. PICK e \in Entities : uiCmd = [id |-> answered + 1, entity |-> e]
    BY <1>2, <2>1 DEF SendEnqueue, IdInv, OneThreadInv, Command
  <2>. QED
    BY <2>1, <2>2, <2>3 DEF Service!Next, Service!Accept
<1>3. CASE SendSetBusy
  BY <1>3 DEF SendSetBusy
<1>4. CASE NetReceive
  <2>1. Tail(cmdQueue) = <<>>
    BY <1>4, ReceiveOne DEF NetReceive, TypeOK, QueueDepth
  <2>. QED
    BY <1>4, <2>1 DEF NetReceive
<1>5. ASSUME NEW r \in Reply, NetPost(r) PROVE UNCHANGED <<PendingCmd, answered>>
  BY <1>5 DEF NetPost
<1>6. CASE NetLock
  BY <1>6 DEF NetLock
<1>7. CASE NetLockTimeout
  BY <1>7 DEF NetLockTimeout, TypeOK, OneThreadInv, MutexInv, ReadyInv, BusyInv, Clearing
<1>8. CASE NetPublish
  BY <1>8 DEF NetPublish, MutexInv
<1>9. CASE NetUnlock
  BY <1>9 DEF NetUnlock
<1>10. CASE CheckPeek
  BY <1>10 DEF CheckPeek, MainMayRun
<1>11. CASE CheckLock
  BY <1>11 DEF CheckLock
<1>12. CASE CheckCallback
  <2>1. PendingCmd = result.cmd /\ PendingCmd # NoCmd
    BY <1>12, HACommandAssumption DEF CheckCallback, ReadyInv, IdInv, Command
  <2>2. answered' = answered + 1 /\ PendingCmd' = NoCmd
    BY <1>12 DEF CheckCallback, ReadyInv
  <2>. QED
    BY <2>1, <2>2 DEF Service!Next, Service!Answer
<1>13. CASE CheckClearReady
  BY <1>13 DEF CheckClearReady
<1>14. CASE CheckClearBusy
  BY <1>14 DEF CheckClearBusy
<1>15. CASE CheckUnlock
  BY <1>15 DEF CheckUnlock
<1>16. CASE UNCHANGED cmdVars
  BY <1>16 DEF cmdVars
<1>. QED
  BY <1>1, <1>2, <1>3, <1>4, <1>5, <1>6, <1>7, <1>8, <1>9, <1>10, <1>11, <1>12, <1>13, <1>14,
     <1>15, <1>16 DEF Next, UISend, NetStep, MainStep

\* On the S3 the command path implements the safety part of the service: every
\* accepted command is answered once, in order, and none is lost.
THEOREM ImplementsService == ASSUME OneUIThread PROVE Spec => Service!SafeSpec
<1>1. Init => Service!Init
  BY ServiceInit
<1>2. IInv /\ [Next]_cmdVars => [Service!Next]_<<PendingCmd, answered>>
  BY ServiceStep
<1>. QED
  BY <1>1, <1>2, Invariance, PTL DEF Spec, Service!SafeSpec, Service!serviceVars

-----------------------------------------------------------------------------
(* HAControlModal *)

\* What the modal promises, with what makes it inductive.
ModalInv ==
  /\ modalEntity \in Entities \cup {Closed}
  /\ overlay => IsOpen
  /\ OverlayIsOwnCommand
  /\ ToastTimerLives
  /\ ToastIsTimed

-----------------------------------------------------------------------------

LEMMA ModalInitInv == ModalInit => IInv /\ ModalInv
<1> SUFFICES ASSUME ModalInit PROVE IInv /\ ModalInv
  OBVIOUS
<1>1. IInv
  BY InitInv DEF ModalInit
<1>2. ModalInv
  BY DEF ModalInit, ModalInv, OverlayIsOwnCommand, ToastTimerLives, ToastIsTimed
<1>. QED
  BY <1>1, <1>2

\* A tap is a call of send() for the entity of the modal, or changes nothing of the
\* command path.
LEMMA TapSends ==
  ASSUME ModalInv, IsOpen, SendCommand
  PROVE  modalEntity \in Entities /\ [Next]_cmdVars
<1>1. modalEntity \in Entities
  BY DEF ModalInv, IsOpen
<1>. QED
  BY <1>1 DEF SendCommand, Next

\* Every step of the modal is a step of the command path, or leaves it alone.
LEMMA ModalStepOfCommand == ModalInv /\ [ModalNext]_vars => [Next]_cmdVars
<1> SUFFICES ASSUME ModalInv, [ModalNext]_vars PROVE [Next]_cmdVars
  OBVIOUS
<1>1. ASSUME NEW e \in Entities, NEW st \in States, Show(e, st) PROVE [Next]_cmdVars
  BY <1>1 DEF Show
<1>2. CASE Close
  BY <1>2 DEF Close
<1>3. CASE Click
  BY <1>3, TapSends DEF Click
<1>4. ASSUME NEW d \in {-1, 1}, ChangeTemp(d) PROVE [Next]_cmdVars
  BY <1>4, TapSends DEF ChangeTemp
<1>5. ASSUME NEW t \in TimerIds, ToastFires(t) PROVE [Next]_cmdVars
  BY <1>5 DEF ToastFires
<1>6. CASE UISend \/ NetStep
  BY <1>6 DEF Next
<1>7. CASE ModalMainStep
  BY <1>7 DEF ModalMainStep, ResultCallback, MainStep, Next
<1>8. CASE NetTakesForcePoll
  BY <1>8 DEF NetTakesForcePoll
<1>9. CASE UNCHANGED vars
  BY <1>9 DEF vars
<1>. QED
  BY <1>1, <1>2, <1>3, <1>4, <1>5, <1>6, <1>7, <1>8, <1>9 DEF ModalNext

-----------------------------------------------------------------------------

\* What is under way for the entity of the modal.
OnItsWay ==
  \/ uiPc = "enqueue" /\ uiCmd.entity = modalEntity
  \/ InFlight /\ PendingCmd.entity = modalEntity

\* The queue, the POST and the result slot hand the command on: until it is answered it is
\* under way for the same entity.
LEMMA CommandGoesOn ==
  ASSUME OneUIThread, IInv, OnItsWay, UNCHANGED modalEntity,
         \/ UISend \/ NetStep
         \/ CheckPeek \/ CheckLock \/ CheckClearReady \/ CheckClearBusy \/ CheckUnlock
  PROVE  OnItsWay'
<1> USE DEF IInv, OneCommandInFlight, OnItsWay, PendingCmd, Queued, Posting, Stored, InFlight,
            sharedVars, uiVars, netVars, histVars
<1>1. CASE SendEnqueue
  <2>1. cmdQueue = <<>> /\ uiCmd \in Command /\ uiCmd.entity = modalEntity
    BY <1>1 DEF SendEnqueue, IdInv
  <2>2. cmdQueue' = <<uiCmd>>
    BY <1>1, <2>1 DEF SendEnqueue, QueueDepth
  <2>. QED
    BY <1>1, <2>1, <2>2 DEF SendEnqueue
<1>2. CASE SendSetBusy
  BY <1>2 DEF SendSetBusy
<1>3. CASE NetReceive
  <2>1. Tail(cmdQueue) = <<>>
    BY <1>3, ReceiveOne DEF NetReceive, TypeOK, QueueDepth
  <2>. QED
    BY <1>3, <2>1 DEF NetReceive
<1>4. ASSUME NEW r \in Reply, NetPost(r) PROVE OnItsWay'
  BY <1>4 DEF NetPost
<1>5. CASE NetLock
  BY <1>5 DEF NetLock
<1>6. CASE NetLockTimeout
  BY <1>6 DEF NetLockTimeout, TypeOK, OneThreadInv, MutexInv, ReadyInv, BusyInv, Clearing
<1>7. CASE NetPublish
  BY <1>7 DEF NetPublish, MutexInv
<1>8. CASE NetUnlock
  BY <1>8 DEF NetUnlock
<1>9. CASE CheckPeek \/ CheckLock
  BY <1>9 DEF CheckPeek, CheckLock, MainMayRun
<1>10. CASE CheckClearReady
  BY <1>10 DEF CheckClearReady, BusyInv, Clearing, OneThreadInv
<1>11. CASE CheckClearBusy \/ CheckUnlock
  BY <1>11 DEF CheckClearBusy, CheckUnlock
<1>. QED
  BY <1>1, <1>2, <1>3, <1>4, <1>5, <1>6, <1>7, <1>8, <1>9, <1>10, <1>11 DEF UISend, NetStep

\* A tap sends nothing while a command is in flight, and its own command else.
LEMMA TapKeepsOverlay ==
  ASSUME OneUIThread, IInv, ModalInv, IsOpen, UIMayRun, SendCommand, UNCHANGED modalEntity
  PROVE  overlay' => IsOpen' /\ OverlayIsOwnCommand'
<1>1. CASE busy /\ UNCHANGED <<cmdVars, overlay>>
  BY <1>1 DEF ModalInv, OverlayIsOwnCommand, IsOpen, cmdVars, sharedVars, uiVars, netVars,
              InFlight, PendingCmd, Queued, Posting, Stored
<1>2. CASE SendCheck(modalEntity)
  BY <1>2 DEF SendCheck, OverlayIsOwnCommand, IsOpen
<1>. QED
  BY <1>1, <1>2 DEF SendCommand

\* Every handler, timer and answer preserves the promises of the modal.
LEMMA ModalNextInv ==
  ASSUME OneUIThread, IInv, ModalInv, [ModalNext]_vars
  PROVE  ModalInv'
<1> USE DEF ModalInv, ToastTimerLives, ToastIsTimed
\* show() and close() begin without overlay, toast and timer.
<1>1. ASSUME NEW e \in Entities, NEW st \in States, Show(e, st) PROVE ModalInv'
  BY <1>1 DEF Show, DropToastTimer, OverlayIsOwnCommand
<1>2. CASE Close
  BY <1>2 DEF Close, DropToastTimer, OverlayIsOwnCommand
<1>3. CASE Click
  BY <1>3, TapKeepsOverlay DEF Click, OverlayIsOwnCommand
<1>4. ASSUME NEW d \in {-1, 1}, ChangeTemp(d) PROVE ModalInv'
  BY <1>4, TapKeepsOverlay DEF ChangeTemp, OverlayIsOwnCommand
\* A timer that fires takes the toast with it, also when it is not the toast's own.
<1>5. ASSUME NEW t \in TimerIds, ToastFires(t) PROVE ModalInv'
  BY <1>5 DEF ToastFires, OverlayIsOwnCommand, cmdVars, sharedVars, uiVars, netVars, IsOpen,
              InFlight, PendingCmd, Queued, Posting, Stored
<1>6. ASSUME UNCHANGED modalVars,
             \/ UISend \/ NetStep
             \/ CheckPeek \/ CheckLock \/ CheckClearReady \/ CheckClearBusy \/ CheckUnlock
      PROVE  ModalInv'
  <2>1. overlay => OnItsWay'
    BY <1>6, CommandGoesOn DEF modalVars, OnItsWay, OverlayIsOwnCommand
  <2>. QED
    BY <1>6, <2>1 DEF modalVars, OnItsWay, OverlayIsOwnCommand, IsOpen
\* The answer takes the overlay away, or there was none.
<1>7. CASE ResultCallback
  <2>1. overlay' = FALSE /\ UNCHANGED modalEntity
    BY <1>7 DEF ResultCallback, OnCommandResult, modalVars
  <2>2. CASE UNCHANGED modalVars
    BY <2>1, <2>2 DEF modalVars, OverlayIsOwnCommand
  <2>3. ASSUME NEW text, ShowToast(text) PROVE ModalInv'
    BY <2>1, <2>3 DEF ShowToast, OverlayIsOwnCommand
  <2>. QED
    BY <1>7, <2>2, <2>3 DEF ResultCallback, OnCommandResult
<1>8. CASE NetTakesForcePoll
  BY <1>8 DEF NetTakesForcePoll, OverlayIsOwnCommand, cmdVars, sharedVars, uiVars, netVars, IsOpen,
              InFlight, PendingCmd, Queued, Posting, Stored
<1>9. CASE UNCHANGED vars
  BY <1>9 DEF vars, modalVars, OverlayIsOwnCommand, cmdVars, sharedVars, uiVars, netVars, IsOpen,
              InFlight, PendingCmd, Queued, Posting, Stored
<1>. QED
  BY <1>1, <1>2, <1>3, <1>4, <1>5, <1>6, <1>7, <1>8, <1>9 DEF ModalNext, ModalMainStep

\* The invariant of the command path holds under the modal, and with it the modal's own.
LEMMA ModalInvariance == ASSUME OneUIThread PROVE ModalSpec => [](IInv /\ ModalInv)
<1>1. IInv /\ ModalInv /\ [ModalNext]_vars => IInv'
  BY ModalStepOfCommand, NextInv
<1>2. IInv /\ ModalInv /\ [ModalNext]_vars => ModalInv'
  BY ModalNextInv
<1>. QED
  BY <1>1, <1>2, ModalInitInv, PTL DEF ModalSpec

-----------------------------------------------------------------------------

\* "Sending..." is only shown over the controls of the entity whose command is on its way,
\* whichever modals were closed and opened meanwhile.
THEOREM OverlayOwned == ASSUME OneUIThread PROVE ModalSpec => []OverlayIsOwnCommand
<1>1. ModalInv => OverlayIsOwnCommand
  BY DEF ModalInv
<1>. QED
  BY <1>1, ModalInvariance, PTL

\* The pointer to the toast's timer never outlives the timer, although a second answer
\* replaces it and the older timer resets it.
THEOREM ToastPointerLives == ASSUME OneUIThread PROVE ModalSpec => []ToastTimerLives
<1>1. ModalInv => ToastTimerLives
  BY DEF ModalInv
<1>. QED
  BY <1>1, ModalInvariance, PTL

\* No toast is left on the screen without a timer that will take it away.
THEOREM ToastSafe == ASSUME OneUIThread PROVE ModalSpec => []ToastIsTimed
<1>1. ModalInv => ToastIsTimed
  BY DEF ModalInv
<1>. QED
  BY <1>1, ModalInvariance, PTL

\* Under the modal, too, the command path implements the service.
THEOREM ModalImplementsService == ASSUME OneUIThread PROVE ModalSpec => Service!SafeSpec
<1>1. ModalInit => Service!Init
  BY ServiceInit DEF ModalInit
<1>2. IInv /\ ModalInv /\ [ModalNext]_vars => [Service!Next]_<<PendingCmd, answered>>
  BY ModalStepOfCommand, ServiceStep
<1>. QED
  BY <1>1, <1>2, ModalInvariance, PTL DEF ModalSpec, Service!SafeSpec, Service!serviceVars

\* The tables of the modal and of the bridge agree: whatever state the modal holds, each
\* control of a controllable domain sends a service that the bridge lets through.
THEOREM ControlsAllowed ==
  ASSUME NEW domain \in ControllableDomains, NEW state
  PROVE  Services(domain, state) \subseteq ALLOWED_SERVICES[domain]
BY DEF ControllableDomains, Services, ALLOWED_SERVICES, ToggleService, isOn,
       ClimateServices, MediaServices, CoverServices
===============================================================================
