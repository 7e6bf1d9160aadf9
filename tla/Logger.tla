-------------------------------- MODULE Logger --------------------------------
(***************************************************************************)
(* firmware/src/logger.cpp: logPrintf() called from both cores, into the   *)
(* ring (LogRing) and then onto the card (LogCard); the web server as its  *)
(* reader; and restarts, over which only the files are kept.               *)
(***************************************************************************)
EXTENDS LogRing, LogCard

CONSTANTS
  Cores,         \* the cores that log
  MaxWritten,    \* bound of written
  MaxSessions,   \* bound of session
  MaxClock       \* bound of clock

\* buf[256] fits twice into s_sdBuf.
ASSUME LoggerAssumption == \A n \in Lengths : n < SdBufSize

VARIABLES
  pending,   \* the message that a core has put into the ring, but not yet onto the card
  copied     \* history: the messages that were copied for the card, until a write fell short

vars == <<ringVars, cardVars, pending, copied>>

\* Before the device is started for the first time.
Init ==
  /\ RingInit /\ CardInit
  /\ pending = [c \in Cores |-> <<>>]
  /\ copied = <<>>

-----------------------------------------------------------------------------

\* logPrintf() up to the test of s_sdLogActive, which comes after the spinlock.
LogToRing(c, n) ==
  /\ session > 0
  /\ pending[c] = <<>>
  /\ written + n <= MaxWritten
  /\ RingPut(n)
  /\ pending' = IF active THEN [pending EXCEPT ![c] = Message(n)] ELSE pending
  /\ UNCHANGED <<cardVars, copied>>

\* The rest of it, once the core has the mutex.
LogToCard(c) ==
  /\ pending[c] # <<>>
  /\ SdCopy(pending[c])
  /\ copied' = IF short' THEN <<>> ELSE copied \o pending[c]
  /\ pending' = [pending EXCEPT ![c] = <<>>]
  /\ UNCHANGED ringVars

\* "If mutex timeout, silently skip SD copy"
LogToCardSkipped(c) ==
  /\ pending[c] # <<>>
  /\ pending' = [pending EXCEPT ![c] = <<>>]
  /\ UNCHANGED <<ringVars, cardVars, copied>>

PowerOn ==
  /\ session < MaxSessions
  /\ OpenLog \/ OpenLogFails
  /\ RingReset
  /\ pending' = [c \in Cores |-> <<>>]
  /\ copied' = <<>>

\* The device is off, or idle, for some time.
Wait ==
  /\ clock < MaxClock
  /\ TimePasses
  /\ UNCHANGED <<ringVars, pending, copied>>

Web == (StartWeb \/ Read) /\ session > 0 /\ UNCHANGED <<cardVars, pending, copied>>

Tick ==
  /\ FlushSD \/ RotateHourly
  /\ copied' = IF short' THEN <<>> ELSE copied
  /\ UNCHANGED <<ringVars, pending>>

Next ==
  \/ \E c \in Cores : \/ \E n \in Lengths : LogToRing(c, n)
                      \/ LogToCard(c) \/ LogToCardSkipped(c)
  \/ Web \/ Tick \/ PowerOn \/ Wait

Spec == Init /\ [][Next]_vars

-----------------------------------------------------------------------------

\* While no write has fallen short, the file and the buffer together hold every message
\* that a core had the mutex for, whole and in the order of the copies.
CardHoldsCopies == active /\ ~short => text \o sdBuf = copied
=============================================================================
