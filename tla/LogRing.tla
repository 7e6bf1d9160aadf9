------------------------------- MODULE LogRing -------------------------------
(***************************************************************************)
(* The ring buffer of firmware/src/logger.cpp and the reader of it that    *)
(* firmware/src/web_serial.cpp keeps.  Both cores write and the web server *)
(* reads under one spinlock, so each call is one step.                     *)
(*                                                                         *)
(* A character is known by its serial number: the n-th one that was        *)
(* written since the start is n.                                           *)
(***************************************************************************)
EXTENDS Integers, Sequences

CONSTANTS
  RingSize,   \* RING_SIZE
  Margin,     \* a reader as close as this to a whole round behind has been overtaken
  ReadMax,    \* what one answer to the browser can hold
  Lengths     \* the lengths of messages

ASSUME RingAssumption ==
  /\ RingSize \in Nat /\ Margin \in 1..(RingSize - 1) /\ ReadMax \in Nat \ {0}
  /\ Lengths \subseteq 1..(RingSize - 1)

VARIABLES
  ring,       \* s_ring
  head,       \* s_ringHead
  tail,       \* s_ringTail
  readPos,    \* s_webReadPos
  started,    \* s_started of web_serial.cpp
  written,    \* history: how many characters were written
  seen        \* history: the last character that a browser was sent

ringVars == <<ring, head, tail, readPos, started, written, seen>>

Empty == [i \in 0..(RingSize - 1) |-> 0]

RingInit ==
  /\ ring = Empty /\ head = 0 /\ tail = 0
  /\ readPos = 0 /\ started = FALSE
  /\ written = 0 /\ seen = 0

\* Logger::init()
RingReset ==
  /\ ring' = Empty /\ head' = 0 /\ tail' = 0
  /\ readPos' = 0 /\ started' = FALSE
  /\ written' = 0 /\ seen' = 0

Ahead(from, to) == (to - from + RingSize) % RingSize

\* The characters of a message of length n.
Message(n) == [k \in 1..n |-> written + k]

\* Slip: the tail stays where it is when the head runs into it.
RingPutOverTail(n) ==
  /\ ring' = [i \in DOMAIN ring |-> IF Ahead(head, i) < n THEN written + Ahead(head, i) + 1
                                                          ELSE ring[i]]
  /\ head' = (head + n) % RingSize
  /\ written' = written + n
  /\ UNCHANGED <<tail, readPos, started, seen>>

\* logPrintf(), into the ring: the head pushes the tail before it.
RingPut(n) ==
  /\ ring' = [i \in DOMAIN ring |-> IF Ahead(head, i) < n THEN written + Ahead(head, i) + 1
                                                          ELSE ring[i]]
  /\ head' = (head + n) % RingSize
  /\ tail' = IF Ahead(tail, head) + n < RingSize THEN tail ELSE (head' + 1) % RingSize
  /\ written' = written + n
  /\ UNCHANGED <<readPos, started, seen>>

\* WebSerial::init(), once there is WiFi: the reader begins at the head.
StartWeb ==
  /\ ~started
  /\ started' = TRUE
  /\ readPos' = head
  /\ seen' = written
  /\ UNCHANGED <<ring, head, tail, written>>

\* ringReadIncremental(): where it reads from, and what it returns.
ReadFrom == IF Ahead(readPos, head) > RingSize - Margin THEN tail ELSE readPos

Answer ==
  LET unread == Ahead(ReadFrom, head)
  IN  [k \in 1..(IF unread < ReadMax THEN unread ELSE ReadMax) |->
         ring[(ReadFrom + k - 1) % RingSize]]

\* Slip: the reader goes on from the head although the answer was full before.
ReadToHead ==
  /\ started
  /\ Answer # <<>>
  /\ readPos' = head
  /\ seen' = Answer[Len(Answer)]
  /\ UNCHANGED <<ring, head, tail, started, written>>

\* handleSerialData(), with the one position that there is for all browsers
Read ==
  /\ started
  /\ Answer # <<>>
  /\ readPos' = (ReadFrom + Len(Answer)) % RingSize
  /\ seen' = Answer[Len(Answer)]
  /\ UNCHANGED <<ring, head, tail, started, written>>

-----------------------------------------------------------------------------
(* Properties *)

Used == Ahead(tail, head)

\* The ring holds the latest characters in their order, from the tail to the head: as many
\* as were written, or all that it has space for.
RingHoldsLatest ==
  /\ Used = IF written < RingSize THEN written ELSE RingSize - 1
  /\ \A k \in 1..Used : ring[(tail + k - 1) % RingSize] = written - Used + k

\* "Read new data since readPos": a browser is sent text without a gap in it that was
\* written last, however far it was overtaken; and one that keeps within the margin is
\* sent everything once and in order.
ReaderInOrder ==
  started =>
    /\ \A k \in 1..Len(Answer) : /\ Answer[k] = Answer[1] + k - 1
                                 /\ Answer[k] > written - RingSize
    /\ written - seen <= RingSize - Margin =>
         /\ Len(Answer) = IF written - seen < ReadMax THEN written - seen ELSE ReadMax
         /\ Len(Answer) > 0 => Answer[1] = seen + 1
=============================================================================
