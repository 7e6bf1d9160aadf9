----------------------------- MODULE LoggerProofs -----------------------------
(* The log on the card, for any size of its buffer, any retention and any listing of *)
(* the directory: the file of the session outlives every rotation, and holds what was *)
(* copied for it.  The ring, for any size, margin and message: it holds the latest    *)
(* characters, and the reader gets them in order however far it was overtaken.        *)
EXTENDS Logger, SequenceTheorems, WellFoundedInduction, TLAPS

Text == Seq(Nat)
LogFile == [session : Nat, time : Nat \cup {Boot}]

CardTypeOK ==
  /\ sdBuf \in Text /\ text \in Text /\ copied \in Text
  /\ pending \in [Cores -> Text]
  /\ active \in BOOLEAN /\ fileOpen \in BOOLEAN /\ short \in BOOLEAN
  /\ session \in Nat /\ clock \in Nat /\ written \in Nat
  /\ files \subseteq LogFile

\* The file of the session was named last, so that none is newer; or it has no time.
SessionFile ==
  \E f \in files : f.session = session /\ (f.time = Boot \/ \A g \in Named : g.time <= f.time)

CardInv ==
  /\ CardTypeOK
  /\ Len(sdBuf) < SdBufSize
  /\ \A c \in Cores : Len(pending[c]) <= SdBufSize
  /\ \A f \in Named : f.time <= clock
  /\ active => fileOpen /\ SessionFile
  /\ CardHoldsCopies

LEMMA CardInvInit == Init => CardInv
<1> SUFFICES ASSUME Init PROVE CardInv
  OBVIOUS
<1>1. <<>> \in Text /\ Len(<<>>) = 0
  BY DEF Text
<1>2. CardTypeOK
  BY <1>1 DEF Init, RingInit, CardInit, CardTypeOK
<1> QED
  BY <1>1, <1>2, CardAssumption DEF Init, CardInit, CardInv, CardHoldsCopies, Named

-----------------------------------------------------------------------------
(* The buffer and the file *)

\* A write that does not fall short appends, and one that does is remembered.
LEMMA WriteAppends ==
  ASSUME CardInv, NEW chars \in Text, NEW rest \in Text, fileOpen, FlushInternal(chars, rest)
  PROVE  /\ text' \in Text /\ short' \in BOOLEAN /\ active' \in BOOLEAN /\ fileOpen' \in BOOLEAN
         /\ sdBuf' = rest
         /\ active' => active /\ fileOpen'
         /\ ~short' => ~short /\ text' = text \o chars
<1>1. /\ text \in Text /\ active \in BOOLEAN /\ fileOpen \in BOOLEAN /\ short \in BOOLEAN
      /\ text \o chars \in Text /\ <<>> \in Text
  BY ConcatProperties DEF CardInv, CardTypeOK, Text
<1>2. text \o <<>> = text
  BY <1>1, ConcatEmptySeq DEF Text
<1>3. active => fileOpen
  BY DEF CardInv
<1>4. CASE chars = <<>>
  BY <1>1, <1>2, <1>3, <1>4 DEF FlushInternal
<1>5. CASE chars # <<>>
  <2>1. sdBuf' = rest /\ Write(chars)
    BY <1>5 DEF FlushInternal
  <2>2. CASE /\ text' = IF short THEN <<>> ELSE text \o chars
             /\ UNCHANGED <<active, fileOpen, short>>
    <3>1. text' \in Text /\ (~short => text' = text \o chars)
      BY <1>1, <2>2
    <3>2. active' = active /\ fileOpen' = fileOpen /\ short' = short
      BY <2>2
    <3> QED
      BY <1>1, <2>1, <3>1, <3>2
  <2>3. CASE /\ text' = <<>> /\ short' = TRUE /\ active' \in {active, FALSE}
             /\ fileOpen' = active'
    <3>1. CASE active' = active
      BY <1>1, <2>1, <2>3, <3>1
    <3>2. CASE active' = FALSE
      BY <1>1, <2>1, <2>3, <3>2
    <3> QED
      BY <2>3, <3>1, <3>2
  <2> QED
    BY <2>1, <2>2, <2>3 DEF Write
<1> QED
  BY <1>4, <1>5

LEMMA Associative ==
  ASSUME NEW s \in Text, NEW t \in Text, NEW u \in Text
  PROVE  (s \o t) \o u = s \o (t \o u)
<1>1. s \in Seq(Nat) /\ t \in Seq(Nat) /\ u \in Seq(Nat)
  BY DEF Text
<1> QED
  BY <1>1, ConcatAssociative

\* A message that is cut where the buffer is full is whole again in the file.
LEMMA CutAndJoined ==
  ASSUME NEW t \in Text, NEW s \in Text, NEW n \in 0..Len(s)
  PROVE  /\ First(n, s) \in Text /\ SubSeq(s, n + 1, Len(s)) \in Text
         /\ Len(SubSeq(s, n + 1, Len(s))) = Len(s) - n
         /\ (t \o First(n, s)) \o SubSeq(s, n + 1, Len(s)) = t \o s
<1>1. Len(s) \in Nat /\ \A i \in 1..Len(s) : s[i] \in Nat
  BY LenProperties, ElementOfSeq DEF Text
<1>2. First(n, s) \in Text
  <2>1. 1 \in Int /\ n \in Int /\ \A i \in 1..n : s[i] \in Nat
    BY <1>1
  <2> QED
    BY <2>1, SubSeqProperties DEF First, Text
<1>3. /\ SubSeq(s, n + 1, Len(s)) \in Text
      /\ Len(SubSeq(s, n + 1, Len(s))) = Len(s) - n
  <2>1. /\ n + 1 \in Int /\ Len(s) \in Int /\ \A i \in (n + 1)..Len(s) : s[i] \in Nat
    BY <1>1
  <2>2. /\ SubSeq(s, n + 1, Len(s)) \in Seq(Nat)
        /\ Len(SubSeq(s, n + 1, Len(s))) =
             IF n + 1 <= Len(s) THEN Len(s) - (n + 1) + 1 ELSE 0
    BY <2>1, SubSeqProperties
  <2> QED
    BY <1>1, <2>2 DEF Text
<1>4. First(n, s) \o SubSeq(s, n + 1, Len(s)) = s
  <2>1. First(n, s) \o SubSeq(s, n + 1, Len(s)) = SubSeq(s, 1, Len(s))
    <3>1. s \in Seq(Nat) /\ 1 \in 1..(Len(s) + 1) /\ n \in (1 - 1)..Len(s) /\ Len(s) \in n..Len(s)
      BY <1>1 DEF Text
    <3> QED
      BY <3>1, ConcatAdjacentSubSeq DEF First
  <2> QED
    BY <2>1, SubSeqFull DEF Text
<1>5. (t \o First(n, s)) \o SubSeq(s, n + 1, Len(s)) = t \o (First(n, s) \o SubSeq(s, n + 1, Len(s)))
  BY <1>2, <1>3, Associative
<1> QED
  BY <1>2, <1>3, <1>4, <1>5

\* What does not touch the files leaves that of the session where it is.
LEMMA FilesKept ==
  ASSUME UNCHANGED <<files, session>>, SessionFile
  PROVE  SessionFile'
BY DEF SessionFile, Named

\* A core copies its message: it is in the file or in the buffer, whole.
LEMMA CopyKeeps ==
  ASSUME CardInv, NEW c \in Cores, LogToCard(c)
  PROVE  CardInv'
<1> DEFINE message == pending[c]
           all == sdBuf \o message
<1>1. /\ message \in Text /\ sdBuf \in Text /\ text \in Text /\ copied \in Text
      /\ all \in Text /\ Len(all) = Len(sdBuf) + Len(message)
      /\ Len(sdBuf) \in Nat /\ Len(message) \in Nat /\ Len(message) <= SdBufSize
      /\ Len(sdBuf) < SdBufSize /\ SdBufSize \in Nat \ {0}
  BY CardAssumption, ConcatProperties, LenProperties DEF CardInv, CardTypeOK, Text
<1>2. /\ SdCopy(message) /\ copied' = IF short' THEN <<>> ELSE copied \o message
      /\ pending' = [pending EXCEPT ![c] = <<>>]
      /\ UNCHANGED <<files, session, clock, written>>
  BY DEF LogToCard, SdCopy, ringVars
<1>3. copied' \in Text
  BY <1>1, <1>2, ConcatProperties DEF Text
<1>4. pending' \in [Cores -> Text] /\ \A d \in Cores : Len(pending'[d]) <= SdBufSize
  BY <1>1, <1>2 DEF CardInv, CardTypeOK, Text
<1>5. /\ sdBuf' \in Text /\ text' \in Text /\ Len(sdBuf') < SdBufSize
      /\ active' \in BOOLEAN /\ fileOpen' \in BOOLEAN /\ short' \in BOOLEAN
      /\ active' => active /\ fileOpen'
      /\ active' /\ ~short' => ~short /\ text' \o sdBuf' = text \o all
  <2>1. CASE Len(all) < SdBufSize
    BY <1>1, <1>2, <2>1 DEF SdCopy, CardInv, CardTypeOK
  <2>2. CASE ~(Len(all) < SdBufSize)
    <3> DEFINE rest == SubSeq(all, SdBufSize + 1, Len(all))
    <3>1. SdBufSize \in 0..Len(all)
      BY <1>1, <2>2
    <3>2. /\ First(SdBufSize, all) \in Text /\ rest \in Text /\ Len(rest) = Len(all) - SdBufSize
          /\ (text \o First(SdBufSize, all)) \o rest = text \o all
      BY <1>1, <3>1, CutAndJoined
    <3>3. FlushInternal(First(SdBufSize, all), rest)
      BY <1>2, <2>2 DEF SdCopy
    <3>4. CASE fileOpen
      <4>1. /\ text' \in Text /\ short' \in BOOLEAN /\ active' \in BOOLEAN
            /\ fileOpen' \in BOOLEAN /\ sdBuf' = rest
            /\ active' => active /\ fileOpen'
            /\ ~short' => ~short /\ text' = text \o First(SdBufSize, all)
        BY <3>2, <3>3, <3>4, WriteAppends
      <4>2. Len(sdBuf') < SdBufSize
        BY <1>1, <3>2, <4>1
      <4> QED
        BY <3>2, <4>1, <4>2
    <3>5. CASE ~fileOpen
      <4>1. ~active
        BY <3>5 DEF CardInv
      <4> QED
        BY <1>1, <3>2, <3>3, <3>5, <4>1 DEF FlushInternal, CardInv, CardTypeOK
    <3> QED
      BY <3>4, <3>5
  <2> QED
    BY <2>1, <2>2
<1>6. CardTypeOK'
  BY <1>2, <1>3, <1>4, <1>5 DEF CardInv, CardTypeOK
<1>7. CardHoldsCopies'
  <2> SUFFICES ASSUME active', ~short' PROVE text' \o sdBuf' = copied'
    BY DEF CardHoldsCopies
  <2>1. text \o sdBuf = copied
    BY <1>5 DEF CardInv, CardHoldsCopies
  <2>2. (text \o sdBuf) \o message = text \o all
    BY <1>1, Associative
  <2> QED
    BY <1>2, <1>5, <2>1, <2>2
<1>8. active' => SessionFile'
  BY <1>2, <1>5, FilesKept DEF CardInv
<1>9. \A f \in Named' : f.time <= clock'
  BY <1>2 DEF Named, CardInv
<1> QED
  BY <1>4, <1>5, <1>6, <1>7, <1>8, <1>9 DEF CardInv

\* The buffer is flushed.
LEMMA FlushKeeps ==
  ASSUME CardInv, FlushSD, copied' = IF short' THEN <<>> ELSE copied,
         UNCHANGED <<ringVars, pending>>
  PROVE  CardInv'
<1>1. /\ sdBuf \in Text /\ text \in Text /\ copied \in Text /\ <<>> \in Text /\ Len(<<>>) = 0
      /\ 0 < SdBufSize
  BY CardAssumption DEF CardInv, CardTypeOK, Text
<1>2. /\ active /\ fileOpen /\ FlushInternal(sdBuf, <<>>) /\ UNCHANGED <<files, session, clock>>
  BY DEF FlushSD, CardInv
<1>3. /\ text' \in Text /\ short' \in BOOLEAN /\ active' \in BOOLEAN /\ fileOpen' \in BOOLEAN
      /\ sdBuf' = <<>>
      /\ active' => active /\ fileOpen'
      /\ ~short' => ~short /\ text' = text \o sdBuf
  BY <1>1, <1>2, WriteAppends
<1>4. CardTypeOK'
  BY <1>1, <1>2, <1>3 DEF CardInv, CardTypeOK, ringVars
<1>5. CardHoldsCopies'
  <2>1. text' \o <<>> = text'
    BY <1>3, ConcatEmptySeq DEF Text
  <2> QED
    BY <1>2, <1>3, <2>1 DEF CardHoldsCopies, CardInv
<1>6. active' => SessionFile'
  BY <1>2, FilesKept DEF CardInv
<1> QED
  BY <1>1, <1>2, <1>3, <1>4, <1>5, <1>6 DEF CardInv, Named

-----------------------------------------------------------------------------
(* Rotation *)

\* Whichever files it gets to see: if that of the session is among them, it is the newest
\* of them, and so nothing is deleted or it is younger than the retention.
LEMMA RotationKeepsSession ==
  ASSUME CardInv, SessionFile, NEW listed \in Listings
  PROVE  /\ Spared(listed) \subseteq files
         /\ \E f \in Spared(listed) :
              f.session = session /\ (f.time = Boot \/ \A g \in Named : g.time <= f.time)
<1>1. PICK f \in files : f.session = session /\ (f.time = Boot \/ \A g \in Named : g.time <= f.time)
  BY DEF SessionFile
<1>2. Spared(listed) \subseteq files
  BY DEF Spared
<1>3. listed \subseteq Named
  BY DEF Listings
<1>4. f \in Spared(listed)
  <2>1. CASE f \notin listed
    BY <2>1 DEF Spared
  <2>2. CASE f \in listed
    <3> DEFINE times == {g.time : g \in listed}
    <3>1. \A g \in listed : g.time \in Nat /\ g.time <= f.time
      BY <1>1, <1>3, <2>2 DEF CardInv, CardTypeOK, LogFile, Named
    <3>2. Max(times) = f.time
      <4>1. f.time \in times /\ \A t \in times : t \in Nat /\ t <= f.time
        BY <2>2, <3>1
      <4>2. \A m \in times : (\A t \in times : m >= t) => m = f.time
        BY <4>1
      <4> QED
        BY <4>1, <4>2 DEF Max
    <3>3. clock \in Nat /\ Retention \in Nat /\ f.time \in Nat
      BY <2>2, <3>1, CardAssumption DEF CardInv, CardTypeOK
    <3> QED
      BY <3>2, <3>3 DEF Spared
  <2> QED
    BY <2>1, <2>2
<1> QED
  BY <1>1, <1>2, <1>4

LEMMA RotateKeeps ==
  ASSUME CardInv, RotateHourly, copied' = IF short' THEN <<>> ELSE copied,
         UNCHANGED <<ringVars, pending>>
  PROVE  CardInv'
<1>1. /\ active /\ UNCHANGED <<sdBuf, active, fileOpen, text, session, clock, short, written, pending>>
  BY DEF RotateHourly, ringVars
<1>2. PICK listed \in Listings : files' = Spared(listed)
  BY DEF RotateHourly
<1>3. /\ files' \subseteq files
      /\ \E f \in files' : f.session = session /\ (f.time = Boot \/ \A g \in Named : g.time <= f.time)
  BY <1>1, <1>2, RotationKeepsSession DEF CardInv
<1>4. Named' \subseteq Named
  BY <1>3 DEF Named
<1>5. SessionFile'
  BY <1>1, <1>3, <1>4 DEF SessionFile
<1>6. copied' \in Text
  BY DEF CardInv, CardTypeOK, Text
<1>7. CardTypeOK'
  BY <1>1, <1>3, <1>6 DEF CardInv, CardTypeOK
<1>8. CardHoldsCopies'
  BY <1>1 DEF CardInv, CardHoldsCopies
<1> QED
  BY <1>1, <1>4, <1>5, <1>7, <1>8 DEF CardInv

-----------------------------------------------------------------------------
(* The other steps *)

LEMMA PowerOnKeeps == CardInv /\ PowerOn => CardInv'
<1> SUFFICES ASSUME CardInv, PowerOn PROVE CardInv'
  OBVIOUS
<1>1. <<>> \in Text /\ Len(<<>>) = 0 /\ 0 < SdBufSize /\ <<>> \o <<>> = <<>>
  BY CardAssumption, ConcatEmptySeq DEF Text
<1>2. /\ sdBuf' = <<>> /\ text' = <<>> /\ short' = FALSE /\ clock' = clock /\ copied' = <<>>
      /\ session' = session + 1 /\ pending' = [c \in Cores |-> <<>>] /\ written' = 0
      /\ active' \in BOOLEAN /\ fileOpen' = active'
  BY DEF PowerOn, OpenLog, OpenLogFails, RingReset
<1>3. clock \in Nat /\ session' \in Nat /\ files \subseteq LogFile
  BY <1>2 DEF CardInv, CardTypeOK
<1>4. ASSUME files' \subseteq LogFile PROVE CardTypeOK'
  <2>1. pending' \in [Cores -> Text]
    BY <1>1, <1>2
  <2>2. short' \in BOOLEAN /\ fileOpen' \in BOOLEAN
    BY <1>2
  <2> QED
    BY <1>1, <1>2, <1>3, <1>4, <2>1, <2>2 DEF CardTypeOK
<1>5. Len(sdBuf') < SdBufSize /\ \A c \in Cores : Len(pending'[c]) <= SdBufSize
  BY <1>1, <1>2, CardAssumption
<1>6. CardHoldsCopies'
  BY <1>1, <1>2 DEF CardHoldsCopies
<1>7. ASSUME NEW time \in {clock, Boot}, NEW kept \in SUBSET files,
             files' = kept \cup {[session |-> session', time |-> time]}
      PROVE  CardInv'
  <2> DEFINE new == [session |-> session', time |-> time]
  <2>1. new \in LogFile
    BY <1>3 DEF LogFile
  <2>2. files' \subseteq LogFile
    BY <1>3, <1>7, <2>1
  <2>3. \A g \in Named' : g.time <= clock
    <3>1. \A g \in kept : g.time # Boot => g.time <= clock
      BY DEF Named, CardInv
    <3>2. new.time # Boot => new.time <= clock
      BY <1>3
    <3> QED
      BY <1>7, <3>1, <3>2 DEF Named
  <2>4. SessionFile'
    <3>1. new \in files' /\ new.session = session' /\ (new.time = Boot \/ new.time = clock)
      BY <1>7
    <3> QED
      BY <2>3, <3>1 DEF SessionFile
  <2> QED
    BY <1>2, <1>4, <1>5, <1>6, <2>2, <2>3, <2>4 DEF CardInv
<1>8. CASE OpenLog
  <2>1. ASSUME NEW listed \in Listings, NEW time \in {clock, Boot},
               files' = Spared(listed) \cup {[session |-> session', time |-> time]}
        PROVE  CardInv'
    <3>1. Spared(listed) \in SUBSET files
      BY DEF Spared
    <3> QED
      BY <1>7, <2>1, <3>1
  <2>2. CASE files' = files \cup {[session |-> session', time |-> Boot]}
    BY <1>7, <2>2
  <2> QED
    BY <1>8, <2>1, <2>2 DEF OpenLog
<1>9. CASE OpenLogFails
  <2>1. files' \subseteq files /\ ~active'
    BY <1>9 DEF OpenLogFails, Spared
  <2>2. CardTypeOK'
    BY <1>3, <1>4, <2>1
  <2>3. \A f \in Named' : f.time <= clock'
    BY <1>2, <2>1 DEF CardInv, Named
  <2> QED
    BY <1>5, <1>6, <2>1, <2>2, <2>3 DEF CardInv
<1> QED
  BY <1>8, <1>9 DEF PowerOn

\* A message goes into the ring, and waits for the mutex or is dropped.
LEMMA RingKeeps ==
  ASSUME CardInv, NEW c \in Cores,
         (\E n \in Lengths : LogToRing(c, n)) \/ LogToCardSkipped(c)
  PROVE  CardInv'
<1>1. UNCHANGED <<cardVars, copied>>
  BY DEF LogToRing, LogToCardSkipped
<1>2. /\ pending' \in [Cores -> Text] /\ \A d \in Cores : Len(pending'[d]) <= SdBufSize
      /\ written' \in Nat
  <2>1. ASSUME NEW n \in Lengths, LogToRing(c, n)
        PROVE  /\ pending' \in [Cores -> Text] /\ \A d \in Cores : Len(pending'[d]) <= SdBufSize
               /\ written' \in Nat
    <3>1. n \in Nat /\ n < SdBufSize /\ written \in Nat /\ SdBufSize \in Nat
      BY RingAssumption, LoggerAssumption, CardAssumption DEF CardInv, CardTypeOK
    <3>2. Message(n) \in Text /\ Len(Message(n)) = n
      BY <3>1 DEF Message, Text
    <3>3. written' = written + n
      BY <2>1 DEF LogToRing, RingPut
    <3> QED
      BY <2>1, <3>1, <3>2, <3>3 DEF LogToRing, CardInv, CardTypeOK
  <2>2. CASE LogToCardSkipped(c)
    <3>1. <<>> \in Text /\ Len(<<>>) = 0 /\ SdBufSize \in Nat
      BY CardAssumption DEF Text
    <3> QED
      BY <2>2, <3>1 DEF LogToCardSkipped, CardInv, CardTypeOK, ringVars
  <2> QED
    BY <2>1, <2>2
<1>3. CardTypeOK'
  BY <1>1, <1>2 DEF CardInv, CardTypeOK, cardVars
<1> QED
  BY <1>1, <1>2, <1>3, FilesKept DEF CardInv, CardHoldsCopies, Named, cardVars

LEMMA QuietKeeps ==
  ASSUME CardInv, Web \/ Wait \/ UNCHANGED vars
  PROVE  CardInv'
<1>1. /\ UNCHANGED <<sdBuf, active, fileOpen, text, files, session, short, pending, copied, written>>
      /\ clock' \in {clock, clock + 1}
  BY DEF Web, Wait, StartWeb, Read, TimePasses, vars, cardVars, ringVars
<1>2. CardTypeOK'
  BY <1>1 DEF CardInv, CardTypeOK
<1>3. \A f \in Named' : f.time <= clock'
  <2>1. \A f \in Named : f.time \in Nat /\ f.time <= clock /\ clock \in Nat
    BY DEF CardInv, CardTypeOK, LogFile, Named
  <2> QED
    BY <1>1, <2>1 DEF Named
<1> QED
  BY <1>1, <1>2, <1>3, FilesKept DEF CardInv, CardHoldsCopies

LEMMA CardInvNext == CardInv /\ [Next]_vars => CardInv'
<1> SUFFICES ASSUME CardInv, [Next]_vars PROVE CardInv'
  OBVIOUS
<1>1. ASSUME NEW c \in Cores,
             \/ \E n \in Lengths : LogToRing(c, n)
             \/ LogToCard(c) \/ LogToCardSkipped(c)
      PROVE  CardInv'
  BY <1>1, RingKeeps, CopyKeeps
<1>2. CASE Web \/ Wait \/ UNCHANGED vars
  BY <1>2, QuietKeeps
<1>3. CASE Tick
  BY <1>3, FlushKeeps, RotateKeeps DEF Tick
<1>4. CASE PowerOn
  BY <1>4, PowerOnKeeps
<1> QED
  BY <1>1, <1>2, <1>3, <1>4 DEF Next

LEMMA CardInvariance == Spec => []CardInv
BY CardInvInit, CardInvNext, PTL DEF Spec

\* The file that the log writes to stays in the directory, and the index stays within the
\* buffer, however long the session lasts and whatever the directory lists first.
THEOREM SessionFileKept == Spec => []SessionKept
<1>1. CardInv => SessionKept
  BY DEF CardInv, SessionKept, SessionFile
<1> QED
  BY <1>1, CardInvariance, PTL

\* While no write has fallen short, nothing that was copied is missing from the file, twice
\* in it or out of order.
THEOREM CardIsComplete == Spec => []CardHoldsCopies
<1>1. CardInv => CardHoldsCopies
  BY DEF CardInv
<1> QED
  BY <1>1, CardInvariance, PTL

-----------------------------------------------------------------------------
(* What the rotation deletes *)

\* Numbers that are bounded have a greatest.
LEMMA Greatest ==
  ASSUME NEW bound \in Nat, NEW S, S \subseteq 0..bound, S # {}
  PROVE  Max(S) \in S /\ \A x \in S : x <= Max(S)
<1> DEFINE below == {bound - x : x \in S}
<1>0. \A x \in S : bound - x \in Nat
  OBVIOUS
<1>1. below \subseteq Nat /\ below # {}
  <2>1. PICK x \in S : TRUE
    OBVIOUS
  <2>2. bound - x \in below
    BY <2>1
  <2>3. \A y \in below : y \in Nat
    BY <1>0
  <2> QED
    BY <2>2, <2>3
<1>2. IsWellFoundedOn(OpToRel(<, Nat), Nat)
  BY NatLessThanWellFounded
<1>3. PICK m \in below : \A y \in below : ~ (<<y, m>> \in OpToRel(<, Nat))
  BY <1>1, <1>2, WFMin
<1>4. \A y \in below : m <= y
  <2>1. \A y \in Nat, z \in Nat : y < z => <<y, z>> \in OpToRel(<, Nat)
    BY DEF OpToRel
  <2>2. \A y \in below : m \in Nat /\ y \in Nat /\ ~ (y < m)
    BY <1>1, <1>3, <2>1
  <2> QED
    BY <2>2
<1>5. PICK g \in S : m = bound - g
  BY <1>3
<1>6. \A x \in S : g >= x
  <2> SUFFICES ASSUME NEW x \in S PROVE g >= x
    OBVIOUS
  <2>1. m <= bound - x
    BY <1>4
  <2>2. x \in Nat /\ g \in Nat /\ bound - g <= bound - x
    BY <1>5, <2>1
  <2> QED
    BY <2>2
<1>7. \E n \in S : \A x \in S : n >= x
  BY <1>6
<1>8. Max(S) \in S /\ \A x \in S : Max(S) >= x
  BY <1>7 DEF Max
<1> QED
  BY <1>8

\* Whatever the listing holds: only what is older than the retention is deleted, and the
\* youngest file of the listing, which is not, stays.
LEMMA SparedEnough ==
  ASSUME CardInv, NEW listed \in Listings, NEW f \in Named, f \notin Spared(listed)
  PROVE  clock - f.time > Retention /\ \E g \in Named : g.time > f.time
<1> DEFINE times == {g.time : g \in listed}
<1>1. listed \subseteq Named /\ \A g \in Named : g.time \in 0..clock
  BY DEF Listings, Named, CardInv, CardTypeOK, LogFile
<1>2. clock \in Nat /\ Retention \in Nat /\ f.time \in 0..clock
  BY <1>1, CardAssumption DEF CardInv, CardTypeOK
<1>3. f \in listed /\ ~ (f.time >= clock - Retention) /\ ~ (clock - Max(times) >= Retention)
  BY DEF Spared, Named
<1>4. times \subseteq 0..clock /\ times # {}
  BY <1>1, <1>3
<1>5. PICK g \in listed : g.time = Max(times)
  BY <1>2, <1>4, Greatest
<1>6. g \in Named /\ g.time \in 0..clock
  BY <1>1
<1>7. clock - f.time > Retention /\ g.time > f.time
  BY <1>2, <1>3, <1>5, <1>6
<1> QED
  BY <1>6, <1>7

\* The rotation of every hour and that of the start delete no log that is younger than the
\* retention and never the newest one, for every directory and every part of it that fits
\* into the entries.
THEOREM RotationIsSafe == Spec => RotationSpares
<1> DEFINE Kept == \A f \in Named : f \notin files' =>
                     clock - f.time > Retention /\ \E g \in Named : g.time > f.time
<1>1. ASSUME CardInv, [Next]_vars PROVE [Kept]_cardVars
  <2>1. ASSUME NEW listed \in Listings, Spared(listed) \subseteq files' PROVE Kept
    BY <1>1, <2>1, SparedEnough
  <2>2. CASE files \subseteq files'
    BY <2>2 DEF Named
  <2>3. ASSUME NEW c \in Cores,
               \/ \E n \in Lengths : LogToRing(c, n)
               \/ LogToCard(c) \/ LogToCardSkipped(c)
        PROVE  files' = files
    BY <2>3 DEF LogToRing, LogToCard, LogToCardSkipped, SdCopy, cardVars
  <2>4. CASE Web \/ Wait \/ UNCHANGED vars
    BY <2>2, <2>4 DEF Web, Wait, TimePasses, vars, cardVars
  <2>5. CASE Tick
    BY <2>1, <2>2, <2>5 DEF Tick, FlushSD, RotateHourly
  <2>6. CASE PowerOn
    BY <2>1, <2>2, <2>6 DEF PowerOn, OpenLog, OpenLogFails
  <2> QED
    BY <1>1, <2>2, <2>3, <2>4, <2>5, <2>6 DEF Next
<1> QED
  BY <1>1, CardInvariance, PTL DEF Spec, RotationSpares

-----------------------------------------------------------------------------
(* The ring: its indexes *)

Index == 0..(RingSize - 1)

LEMMA RingSizes == RingSize \in Nat /\ RingSize > 1 /\ Margin \in 1..(RingSize - 1) /\ ReadMax \in Nat \ {0}
BY RingAssumption

\* One subtraction is all that the remainder ever takes.
LEMMA Wraps ==
  ASSUME NEW x \in 0..(2 * RingSize - 1)
  PROVE  x % RingSize = (IF x < RingSize THEN x ELSE x - RingSize) /\ x % RingSize \in Index
<1>1. RingSize \in Nat /\ RingSize > 0
  BY RingSizes
<1>2. CASE x < RingSize
  BY <1>1, <1>2 DEF Index
<1>3. CASE ~ (x < RingSize)
  <2>1. x \in RingSize..(2 * RingSize - 1)
    BY <1>1, <1>3
  <2>2. x % RingSize = x - RingSize
    BY <1>1, <2>1
  <2> QED
    BY <1>1, <1>3, <2>1, <2>2 DEF Index
<1> QED
  BY <1>2, <1>3

LEMMA AheadIs ==
  ASSUME NEW p \in Index, NEW q \in Index
  PROVE  Ahead(p, q) = (IF q >= p THEN q - p ELSE q - p + RingSize) /\ Ahead(p, q) \in Index
<1>1. PICK x \in 0..(2 * RingSize - 1) : x = q - p + RingSize
  BY RingSizes DEF Index
<1>2. x % RingSize = (IF x < RingSize THEN x ELSE x - RingSize) /\ x % RingSize \in Index
  BY Wraps
<1>3. Ahead(p, q) = x % RingSize
  BY <1>1 DEF Ahead
<1> QED
  BY <1>1, <1>2, <1>3, RingSizes DEF Index

\* Where an index is after n more characters.
LEMMA Further ==
  ASSUME NEW p \in Index, NEW n \in Index
  PROVE  /\ (p + n) % RingSize \in Index
         /\ (p + n) % RingSize = IF p + n < RingSize THEN p + n ELSE p + n - RingSize
<1>1. PICK x \in 0..(2 * RingSize - 1) : x = p + n
  BY RingSizes DEF Index
<1>2. x % RingSize = (IF x < RingSize THEN x ELSE x - RingSize) /\ x % RingSize \in Index
  BY Wraps
<1>3. (p + n) % RingSize = x % RingSize
  BY <1>1
<1>4. (IF x < RingSize THEN x ELSE x - RingSize)
        = IF p + n < RingSize THEN p + n ELSE p + n - RingSize
  BY <1>1, RingSizes DEF Index
<1> QED
  BY <1>2, <1>3, <1>4

-----------------------------------------------------------------------------
(* The ring: what its slots hold *)

RingTypeOK ==
  /\ ring \in [Index -> Nat] /\ written \in Nat
  /\ head \in Index /\ tail \in Index /\ readPos \in Index
  /\ seen \in Nat /\ started \in BOOLEAN

\* A slot behind the head holds the character that is as far behind the latest one.
Slots ==
  \A i \in Index : i # head /\ Ahead(i, head) <= written => ring[i] = written - Ahead(i, head) + 1

TailBehind == Used = IF written < RingSize THEN written ELSE RingSize - 1

\* A reader that was not overtaken by a whole round stands behind the last character it saw.
ReaderBehind ==
  started => /\ seen <= written
             /\ written - seen < RingSize => Ahead(readPos, head) = written - seen

RingInv == RingTypeOK /\ Slots /\ TailBehind /\ ReaderBehind

\* How far the slots are behind once the head has moved on.
LEMMA HeadMoves ==
  ASSUME NEW h \in Index, NEW n \in Index, n > 0, NEW i \in Index,
         NEW new \in Index, new = IF h + n < RingSize THEN h + n ELSE h + n - RingSize
  PROVE  /\ Ahead(h, i) \in Nat /\ Ahead(i, h) \in Nat /\ Ahead(i, new) \in Nat
         /\ Ahead(h, i) < n => Ahead(i, new) = n - Ahead(h, i)
         /\ i # new /\ ~ (Ahead(h, i) < n) => i # h /\ Ahead(i, new) = Ahead(i, h) + n
         /\ Ahead(i, h) + n < RingSize => Ahead(i, new) = Ahead(i, h) + n
<1>1. /\ Ahead(h, i) = (IF i >= h THEN i - h ELSE i - h + RingSize)
      /\ Ahead(i, h) = (IF h >= i THEN h - i ELSE h - i + RingSize)
      /\ Ahead(i, new) = (IF new >= i THEN new - i ELSE new - i + RingSize)
  BY AheadIs
<1>2. /\ RingSize \in Nat /\ h \in Nat /\ i \in Nat /\ n \in Nat /\ new \in Nat
      /\ h < RingSize /\ i < RingSize /\ n < RingSize /\ new < RingSize
  BY RingSizes DEF Index
<1>3. Ahead(h, i) \in Nat /\ Ahead(i, h) \in Nat /\ Ahead(i, new) \in Nat
  BY <1>1, <1>2
<1>4. Ahead(h, i) < n => Ahead(i, new) = n - Ahead(h, i)
  BY <1>1, <1>2
<1>5. i # new /\ ~ (Ahead(h, i) < n) => i # h /\ Ahead(i, new) = Ahead(i, h) + n
  BY <1>1, <1>2
<1>6. Ahead(i, h) + n < RingSize => Ahead(i, new) = Ahead(i, h) + n
  BY <1>1, <1>2
<1> QED
  BY <1>3, <1>4, <1>5, <1>6

\* Nothing was written: the ring of the start, and of every restart.
LEMMA EmptyRing ==
  /\ 0 \in Index /\ Ahead(0, 0) = 0 /\ Empty \in [Index -> Nat]
  /\ \A i \in Index : i # 0 => ~ (Ahead(i, 0) <= 0)
<1>1. 0 \in Index
  BY RingSizes DEF Index
<1>2. Ahead(0, 0) = IF 0 >= 0 THEN 0 - 0 ELSE 0 - 0 + RingSize
  BY <1>1, AheadIs
<1>3. ASSUME NEW i \in Index, i # 0 PROVE ~ (Ahead(i, 0) <= 0)
  <2>1. Ahead(i, 0) = IF 0 >= i THEN 0 - i ELSE 0 - i + RingSize
    BY <1>1, AheadIs
  <2> QED
    BY <1>3, <2>1, RingSizes DEF Index
<1>4. Empty \in [Index -> Nat]
  BY DEF Empty, Index
<1> QED
  BY <1>1, <1>2, <1>3, <1>4

LEMMA RingInitInv == RingInit => RingInv
<1> SUFFICES ASSUME RingInit PROVE RingInv
  OBVIOUS
<1>1. RingTypeOK /\ Slots /\ ReaderBehind
  BY EmptyRing DEF RingInit, RingTypeOK, Slots, ReaderBehind
<1>2. TailBehind
  BY EmptyRing, RingSizes DEF RingInit, TailBehind, Used
<1> QED
  BY <1>1, <1>2 DEF RingInv

LEMMA ResetKeeps == RingReset => RingInv'
<1> SUFFICES ASSUME RingReset PROVE RingInv'
  OBVIOUS
<1>1. ring' = Empty /\ head' = 0 /\ tail' = 0 /\ readPos' = 0 /\ started' = FALSE
  BY DEF RingReset
<1>2. written' = 0 /\ seen' = 0
  BY DEF RingReset
<1>3. RingTypeOK' /\ ReaderBehind'
  BY <1>1, <1>2, EmptyRing DEF RingTypeOK, ReaderBehind, Index
<1>4. Slots'
  <2> SUFFICES ASSUME NEW i \in Index, i # head', Ahead(i, head') <= written' PROVE FALSE
    BY DEF Slots, Index, Ahead
  <2> QED
    BY <1>1, <1>2, EmptyRing
<1>5. TailBehind'
  <2>1. Ahead(tail', head') = 0
    BY <1>1, EmptyRing
  <2> QED
    BY <1>2, <2>1, RingSizes DEF TailBehind, Used, Ahead
<1> QED
  BY <1>3, <1>4, <1>5 DEF RingInv

\* A message that is shorter than the ring takes the slots from the head on, and the tail
\* gives way as far as it must.
LEMMA PutKeeps ==
  ASSUME RingInv, NEW n \in Lengths, RingPut(n)
  PROVE  RingInv'
<1>1. /\ RingSize \in Nat /\ RingSize > 1 /\ n \in Index /\ n \in Nat /\ n > 0
      /\ head \in Index /\ tail \in Index /\ readPos \in Index /\ written \in Nat /\ seen \in Nat
  BY RingSizes, RingAssumption DEF Index, RingInv, RingTypeOK
<1>2. /\ head' \in Index
      /\ head' = IF head + n < RingSize THEN head + n ELSE head + n - RingSize
  BY <1>1, Further DEF RingPut
<1>3. written' = written + n /\ UNCHANGED <<readPos, started, seen>>
  BY DEF RingPut
<1>4. ring' = [i \in Index |-> IF Ahead(head, i) < n THEN written + Ahead(head, i) + 1 ELSE ring[i]]
  <2>1. DOMAIN ring = Index
    BY DEF RingInv, RingTypeOK
  <2> QED
    BY <2>1 DEF RingPut
<1>5. tail' = IF Ahead(tail, head) + n < RingSize THEN tail ELSE (head' + 1) % RingSize
  BY DEF RingPut
<1>6. (head' + 1) % RingSize \in Index /\ Ahead((head' + 1) % RingSize, head') = RingSize - 1
  <2> DEFINE next == (head' + 1) % RingSize
  <2>1. 1 \in Index
    BY <1>1 DEF Index
  <2>2. next \in Index /\ next = IF head' + 1 < RingSize THEN head' + 1 ELSE head' + 1 - RingSize
    BY <1>2, <2>1, Further
  <2> HIDE DEF next
  <2>3. Ahead(next, head') = IF head' >= next THEN head' - next ELSE head' - next + RingSize
    BY <1>2, <2>2, AheadIs
  <2>4. Ahead(next, head') = RingSize - 1
    BY <1>1, <1>2, <2>2, <2>3 DEF Index
  <2> QED
    BY <2>2, <2>4 DEF next
<1>7. \A p \in Index : Ahead(p, head) + n < RingSize => Ahead(p, head') = Ahead(p, head) + n
  BY <1>1, <1>2, HeadMoves
<1>8. RingTypeOK'
  <2>1. ring' \in [Index -> Nat]
    <3>1. \A i \in Index : Ahead(head, i) \in Nat /\ ring[i] \in Nat
      BY <1>1, <1>2, HeadMoves DEF RingInv, RingTypeOK
    <3> QED
      BY <1>1, <1>4, <3>1
  <2>2. written' \in Nat /\ tail' \in Index
    BY <1>1, <1>3, <1>5, <1>6
  <2>3. readPos' \in Index /\ seen' \in Nat /\ started' \in BOOLEAN
    BY <1>3 DEF RingInv, RingTypeOK
  <2> QED
    BY <1>2, <2>1, <2>2, <2>3 DEF RingTypeOK, Index
<1>9. Slots'
  <2> SUFFICES ASSUME NEW i \in Index, i # head', Ahead(i, head') <= written'
               PROVE  ring'[i] = written' - Ahead(i, head') + 1
    BY DEF Slots, Index, Ahead
  <2>1. /\ Ahead(head, i) \in Nat /\ Ahead(i, head) \in Nat /\ Ahead(i, head') \in Nat
        /\ Ahead(head, i) < n => Ahead(i, head') = n - Ahead(head, i)
        /\ ~ (Ahead(head, i) < n) => i # head /\ Ahead(i, head') = Ahead(i, head) + n
    BY <1>1, <1>2, HeadMoves
  <2>2. CASE Ahead(head, i) < n
    <3>1. ring'[i] = written + Ahead(head, i) + 1
      BY <1>4, <2>2
    <3> QED
      BY <1>1, <1>3, <2>1, <2>2, <3>1
  <2>3. CASE ~ (Ahead(head, i) < n)
    <3>1. ring'[i] = ring[i]
      BY <1>4, <2>3
    <3>2. Ahead(i, head) <= written
      BY <1>1, <1>3, <2>1, <2>3
    <3>3. ring[i] = written - Ahead(i, head) + 1
      BY <2>1, <2>3, <3>2 DEF RingInv, Slots
    <3> QED
      BY <1>1, <1>3, <2>1, <2>3, <3>1, <3>3
  <2> QED
    BY <2>2, <2>3
<1>10. TailBehind'
  <2>1. Ahead(tail, head) = IF written < RingSize THEN written ELSE RingSize - 1
    BY DEF RingInv, TailBehind, Used
  <2>2. CASE Ahead(tail, head) + n < RingSize
    <3>1. Ahead(tail', head') = Ahead(tail, head) + n
      BY <1>1, <1>5, <1>7, <2>2
    <3> QED
      BY <1>1, <1>3, <2>1, <2>2, <3>1 DEF TailBehind, Used, Ahead
  <2>3. CASE ~ (Ahead(tail, head) + n < RingSize)
    <3>1. Ahead(tail', head') = RingSize - 1
      BY <1>5, <1>6, <2>3
    <3>2. ~ (written' < RingSize)
      BY <1>1, <1>3, <2>1, <2>3
    <3> QED
      BY <3>1, <3>2 DEF TailBehind, Used, Ahead
  <2> QED
    BY <2>2, <2>3
<1>11. ReaderBehind'
  <2> SUFFICES ASSUME started
               PROVE  /\ seen <= written'
                      /\ written' - seen < RingSize => Ahead(readPos, head') = written' - seen
    BY <1>3 DEF ReaderBehind, Ahead
  <2>1. seen <= written /\ (written - seen < RingSize => Ahead(readPos, head) = written - seen)
    BY DEF RingInv, ReaderBehind
  <2>2. seen <= written'
    BY <1>1, <1>3, <2>1
  <2>3. ASSUME written' - seen < RingSize PROVE Ahead(readPos, head') = written' - seen
    <3>1. Ahead(readPos, head) = written - seen /\ Ahead(readPos, head) + n < RingSize
      BY <1>1, <1>3, <2>1, <2>3
    <3>2. Ahead(readPos, head') = Ahead(readPos, head) + n
      BY <1>1, <1>7, <3>1
    <3> QED
      BY <1>1, <1>3, <3>1, <3>2
  <2> QED
    BY <2>2, <2>3
<1> QED
  BY <1>8, <1>9, <1>10, <1>11 DEF RingInv

\* From an index that is not further behind than was written, the slots up to the head hold
\* the latest characters in order.
LEMMA LatestFrom ==
  ASSUME RingInv, NEW p \in Index, Ahead(p, head) <= written,
         NEW k \in 1..Ahead(p, head)
  PROVE  ring[(p + k - 1) % RingSize] = written - Ahead(p, head) + k
<1>1. RingSize \in Nat /\ RingSize > 1 /\ head \in Index /\ written \in Nat
  BY RingSizes DEF RingInv, RingTypeOK
<1>2. Ahead(p, head) = (IF head >= p THEN head - p ELSE head - p + RingSize) /\ Ahead(p, head) \in Index
  BY <1>1, AheadIs
<1>3. k - 1 \in Index /\ k \in Nat
  BY <1>1, <1>2 DEF Index
<1> DEFINE i == (p + (k - 1)) % RingSize
<1>4. i \in Index /\ i = IF p + (k - 1) < RingSize THEN p + (k - 1) ELSE p + (k - 1) - RingSize
  BY <1>3, Further
<1>5. i # head /\ Ahead(i, head) = Ahead(p, head) - k + 1
  <2> HIDE DEF i
  <2>1. Ahead(i, head) = IF head >= i THEN head - i ELSE head - i + RingSize
    BY <1>1, <1>4, AheadIs
  <2> QED
    BY <1>1, <1>2, <1>3, <1>4, <2>1 DEF Index
<1>6. Ahead(i, head) <= written
  <2> HIDE DEF i
  <2> QED
    BY <1>1, <1>2, <1>3, <1>5 DEF Index
<1>7. ring[i] = written - Ahead(i, head) + 1
  BY <1>4, <1>5, <1>6 DEF RingInv, Slots
<1>8. p + k - 1 = p + (k - 1)
  BY <1>1, <1>3 DEF Index
<1>9. ring[(p + k - 1) % RingSize] = ring[i]
  BY <1>8
<1> HIDE DEF i
<1> QED
  BY <1>1, <1>2, <1>3, <1>5, <1>7, <1>9 DEF Index

-----------------------------------------------------------------------------
(* The reader *)

\* What one answer holds: the latest characters from where it reads, in order, and all of
\* what the reader did not see when it has kept within the margin.
LEMMA AnswerIs ==
  ASSUME RingInv, started
  PROVE  /\ ReadFrom \in Index /\ Ahead(ReadFrom, head) \in Nat /\ Ahead(ReadFrom, head) < RingSize
         /\ Ahead(ReadFrom, head) <= written
         /\ Len(Answer) \in Nat
         /\ Len(Answer) = IF Ahead(ReadFrom, head) < ReadMax THEN Ahead(ReadFrom, head) ELSE ReadMax
         /\ \A k \in 1..Len(Answer) : Answer[k] = written - Ahead(ReadFrom, head) + k
         /\ written - seen <= RingSize - Margin => Ahead(ReadFrom, head) = written - seen
<1>1. /\ RingSize \in Nat /\ RingSize > 1 /\ Margin \in 1..(RingSize - 1) /\ ReadMax \in Nat
      /\ head \in Index /\ tail \in Index /\ readPos \in Index /\ written \in Nat /\ seen \in Nat
  BY RingSizes DEF RingInv, RingTypeOK
<1>2. seen <= written /\ (written - seen < RingSize => Ahead(readPos, head) = written - seen)
  BY DEF RingInv, ReaderBehind
<1>3. Ahead(tail, head) = IF written < RingSize THEN written ELSE RingSize - 1
  BY DEF RingInv, TailBehind, Used
<1>4. Ahead(readPos, head) \in Nat /\ Ahead(readPos, head) < RingSize
  BY <1>1, AheadIs DEF Index
<1> DEFINE unread == Ahead(ReadFrom, head)
<1>5. /\ ReadFrom \in Index /\ unread \in Nat /\ unread < RingSize /\ unread <= written
      /\ written - seen <= RingSize - Margin => unread = written - seen
  <2>1. CASE Ahead(readPos, head) > RingSize - Margin
    <3>1. ReadFrom = tail /\ unread = Ahead(tail, head)
      BY <2>1 DEF ReadFrom
    <3> QED
      BY <1>1, <1>2, <1>3, <2>1, <3>1
  <2>2. CASE ~ (Ahead(readPos, head) > RingSize - Margin)
    <3>1. ReadFrom = readPos /\ unread = Ahead(readPos, head)
      BY <2>2 DEF ReadFrom
    <3> QED
      BY <1>1, <1>2, <1>4, <2>2, <3>1
  <2> QED
    BY <2>1, <2>2
<1> DEFINE n == IF unread < ReadMax THEN unread ELSE ReadMax
<1>6. Answer = [k \in 1..n |-> ring[(ReadFrom + k - 1) % RingSize]]
  BY DEF Answer
<1>7. n \in Nat /\ n <= unread
  BY <1>1, <1>5
<1>8. Len(Answer) = n
  <2> HIDE DEF n
  <2> QED
    BY <1>6, <1>7
<1>9. ASSUME NEW k \in 1..n PROVE Answer[k] = written - unread + k
  <2>1. k \in 1..Ahead(ReadFrom, head)
    BY <1>5, <1>7
  <2>2. ring[(ReadFrom + k - 1) % RingSize] = written - Ahead(ReadFrom, head) + k
    BY <1>5, <2>1, LatestFrom
  <2> QED
    BY <1>6, <2>2
<1> QED
  BY <1>5, <1>7, <1>8, <1>9

LEMMA ReadKeeps ==
  ASSUME RingInv, Read
  PROVE  RingInv'
<1> DEFINE unread == Ahead(ReadFrom, head)
           n == Len(Answer)
<1>1. /\ RingSize \in Nat /\ RingSize > 1 /\ ReadMax \in Nat /\ head \in Index /\ written \in Nat
  BY RingSizes DEF RingInv, RingTypeOK
<1>2. /\ started /\ Answer # <<>> /\ readPos' = (ReadFrom + n) % RingSize /\ seen' = Answer[n]
      /\ UNCHANGED <<ring, head, tail, started, written>>
  BY DEF Read
<1>3. /\ ReadFrom \in Index /\ unread \in Nat /\ unread < RingSize /\ unread <= written
      /\ n \in Nat /\ n = (IF unread < ReadMax THEN unread ELSE ReadMax)
      /\ \A k \in 1..n : Answer[k] = written - unread + k
  BY <1>2, AnswerIs
<1>4. n > 0 /\ n <= unread
  <2>1. n # 0
    <3> DEFINE long == IF unread < ReadMax THEN unread ELSE ReadMax
    <3>1. Answer = [k \in 1..long |-> ring[(ReadFrom + k - 1) % RingSize]]
      BY DEF Answer
    <3>2. Answer \in Seq(Nat)
      <4>1. long = n
        BY <1>3
      <4> HIDE DEF long, n, unread
      <4>2. \A k \in 1..n : Answer[k] \in Nat
        BY <1>1, <1>3
      <4>3. Answer = [k \in 1..n |-> Answer[k]]
        BY <3>1, <4>1
      <4>4. [k \in 1..n |-> Answer[k]] \in Seq(Nat)
        BY <1>3, <4>2
      <4> QED
        BY <4>3, <4>4
    <3>3. Len(Answer) \in Nat \ {0}
      BY <1>2, <3>2, EmptySeq
    <3> QED
      BY <3>3
  <2> QED
    BY <1>1, <1>3, <2>1
<1>5. seen' = written - unread + n
  BY <1>2, <1>3, <1>4
<1>6. n \in Index
  BY <1>1, <1>3, <1>4 DEF Index
<1>7. /\ readPos' \in Index
      /\ readPos' = IF ReadFrom + n < RingSize THEN ReadFrom + n ELSE ReadFrom + n - RingSize
  BY <1>2, <1>3, <1>6, Further
<1>8. Ahead(readPos', head) = unread - n
  <2> HIDE DEF n
  <2>1. unread = IF head >= ReadFrom THEN head - ReadFrom ELSE head - ReadFrom + RingSize
    BY <1>1, <1>3, AheadIs
  <2>2. Ahead(readPos', head) = IF head >= readPos' THEN head - readPos' ELSE head - readPos' + RingSize
    BY <1>1, <1>7, AheadIs
  <2> HIDE DEF unread
  <2> QED
    BY <1>1, <1>3, <1>4, <1>6, <1>7, <2>1, <2>2 DEF Index
<1> HIDE DEF n, unread
<1>9. seen' \in Nat /\ seen' <= written /\ written - seen' = unread - n
  BY <1>1, <1>3, <1>4, <1>5
<1>10. RingTypeOK'
  BY <1>2, <1>7, <1>9 DEF RingInv, RingTypeOK, Index
<1>11. Slots' /\ TailBehind'
  BY <1>2 DEF RingInv, Slots, TailBehind, Used, Ahead, Index
<1>12. ReaderBehind'
  BY <1>2, <1>8, <1>9 DEF ReaderBehind, Ahead
<1> QED
  BY <1>10, <1>11, <1>12 DEF RingInv

LEMMA StartKeeps ==
  ASSUME RingInv, StartWeb
  PROVE  RingInv'
<1>1. /\ head \in Index /\ written \in Nat /\ UNCHANGED <<ring, head, tail, written>>
      /\ started' = TRUE /\ readPos' = head /\ seen' = written
  BY DEF RingInv, RingTypeOK, StartWeb
<1>2. Ahead(head, head) = 0
  BY <1>1, AheadIs, RingSizes DEF Index
<1>3. RingTypeOK'
  BY <1>1 DEF RingInv, RingTypeOK, Index
<1>4. Slots' /\ TailBehind'
  BY <1>1 DEF RingInv, Slots, TailBehind, Used, Ahead, Index
<1>5. ReaderBehind'
  BY <1>1, <1>2 DEF ReaderBehind, Ahead
<1> QED
  BY <1>3, <1>4, <1>5 DEF RingInv

LEMMA RingInvNext == RingInv /\ [Next]_vars => RingInv'
<1> SUFFICES ASSUME RingInv, [Next]_vars PROVE RingInv'
  OBVIOUS
<1>1. ASSUME UNCHANGED ringVars PROVE RingInv'
  BY <1>1 DEF ringVars, RingInv, RingTypeOK, Slots, TailBehind, Used, ReaderBehind, Ahead, Index
<1>2. ASSUME NEW c \in Cores, NEW n \in Lengths, LogToRing(c, n) PROVE RingInv'
  BY <1>2, PutKeeps DEF LogToRing
<1>3. ASSUME NEW c \in Cores, LogToCard(c) \/ LogToCardSkipped(c) PROVE UNCHANGED ringVars
  BY <1>3 DEF LogToCard, LogToCardSkipped
<1>4. CASE Web
  BY <1>4, StartKeeps, ReadKeeps DEF Web
<1>5. CASE Tick \/ Wait \/ UNCHANGED vars
  BY <1>1, <1>5 DEF Tick, Wait, vars
<1>6. CASE PowerOn
  BY <1>6, ResetKeeps DEF PowerOn
<1> QED
  BY <1>1, <1>2, <1>3, <1>4, <1>5, <1>6 DEF Next

LEMMA RingInvariance == Spec => []RingInv
<1>1. Init => RingInv
  BY RingInitInv DEF Init
<1> QED
  BY <1>1, RingInvNext, PTL DEF Spec

\* Whatever was written, the ring holds the latest characters in their order, as many as it
\* has space for.
THEOREM RingIsLatest == Spec => []RingHoldsLatest
<1>1. ASSUME RingInv PROVE RingHoldsLatest
  <2>1. RingSize \in Nat /\ RingSize > 1 /\ written \in Nat /\ tail \in Index /\ head \in Index
    BY <1>1, RingSizes DEF RingInv, RingTypeOK
  <2>2. Ahead(tail, head) = (IF written < RingSize THEN written ELSE RingSize - 1)
    BY <1>1 DEF RingInv, TailBehind, Used
  <2>3. Ahead(tail, head) <= written
    BY <2>1, <2>2
  <2>4. \A k \in 1..Ahead(tail, head) :
          ring[(tail + k - 1) % RingSize] = written - Ahead(tail, head) + k
    BY <1>1, <2>1, <2>3, LatestFrom
  <2> QED
    BY <2>2, <2>4 DEF RingHoldsLatest, Used
<1> QED
  BY <1>1, RingInvariance, PTL

\* A browser is sent the latest text without a gap in it; and everything once and in order
\* as long as it keeps within the margin.
THEOREM ReaderGetsAll == Spec => []ReaderInOrder
<1>1. ASSUME RingInv PROVE ReaderInOrder
  <2> SUFFICES ASSUME started
      PROVE /\ \A k \in 1..Len(Answer) : /\ Answer[k] = Answer[1] + k - 1
                                         /\ Answer[k] > written - RingSize
            /\ written - seen <= RingSize - Margin =>
                 /\ Len(Answer) = IF written - seen < ReadMax THEN written - seen ELSE ReadMax
                 /\ Len(Answer) > 0 => Answer[1] = seen + 1
    BY DEF ReaderInOrder
  <2> DEFINE unread == Ahead(ReadFrom, head)
             n == Len(Answer)
  <2>1. /\ RingSize \in Nat /\ RingSize > 1 /\ written \in Nat /\ seen \in Nat
    BY <1>1, RingSizes DEF RingInv, RingTypeOK
  <2>2. /\ unread \in Nat /\ unread < RingSize /\ unread <= written
        /\ n \in Nat /\ n = (IF unread < ReadMax THEN unread ELSE ReadMax)
        /\ \A k \in 1..n : Answer[k] = written - unread + k
        /\ written - seen <= RingSize - Margin => unread = written - seen
    BY <1>1, AnswerIs
  <2> HIDE DEF unread, n
  <2>3. ASSUME NEW k \in 1..n PROVE Answer[k] = Answer[1] + k - 1 /\ Answer[k] > written - RingSize
    <3>1. 1 \in 1..n
      BY <2>2
    <3>2. Answer[k] = written - unread + k /\ Answer[1] = written - unread + 1
      BY <2>2, <3>1
    <3> QED
      BY <2>1, <2>2, <3>2
  <2>4. ASSUME written - seen <= RingSize - Margin
        PROVE  /\ n = IF written - seen < ReadMax THEN written - seen ELSE ReadMax
               /\ n > 0 => Answer[1] = seen + 1
    <3>1. unread = written - seen
      BY <2>2, <2>4
    <3>2. n > 0 => Answer[1] = written - unread + 1
      BY <2>2
    <3> QED
      BY <2>1, <2>2, <3>1, <3>2
  <2> QED
    BY <2>3, <2>4 DEF n
<1> QED
  BY <1>1, RingInvariance, PTL
=============================================================================
