------------------------------- MODULE LogCard -------------------------------
(***************************************************************************)
(* The log on the SD card, firmware/src/logger.cpp on the S3: a buffer in  *)
(* front of the file of the session, and the rotation of the files of      *)
(* earlier sessions.  Files are known by their session; the time in their  *)
(* name is in units of which the retention is a few.                       *)
(***************************************************************************)
EXTENDS Integers, SequencesExt, FiniteSetsExt

CONSTANTS
  SdBufSize,    \* SD_BUF_SIZE
  Retention,    \* RETENTION_HOURS
  MaxEntries,   \* entries of s_rotEntries
  Boot          \* stands for the time in serial_boot_<seconds>.log, which is none

ASSUME CardAssumption ==
  /\ SdBufSize \in Nat \ {0} /\ Retention \in Nat \ {0} /\ MaxEntries \in Nat \ {0}

VARIABLES
  sdBuf,     \* s_sdBuf up to s_sdBufPos
  active,    \* s_sdLogActive
  fileOpen,  \* s_logFile is open
  text,      \* what was written to the file of the session, until a write fell short
  files,     \* the files in LOG_DIR
  session,   \* how often the device was started
  clock,     \* the time of day
  short      \* history: a write has fallen short in this session

cardVars == <<sdBuf, active, fileOpen, text, files, session, clock, short>>

CardInit ==
  /\ sdBuf = <<>> /\ text = <<>>
  /\ active = FALSE /\ fileOpen = FALSE
  /\ files = {}
  /\ session = 0
  /\ clock = 0
  /\ short = FALSE

First(n, s) == SubSeq(s, 1, n)

\* The writes that sdFlushInternal() makes: a short one is made again in a file opened
\* anew, whose result nobody looks at, or ends the log when the file does not open.
Write(chars) ==
  \/ /\ text' = IF short THEN <<>> ELSE text \o chars
     /\ UNCHANGED <<active, fileOpen, short>>
  \/ /\ text' = <<>>
     /\ short' = TRUE
     /\ active' \in {active, FALSE}
     /\ fileOpen' = active'

\* sdFlushInternal(): the buffer is empty afterwards, whatever became of the write.
FlushInternal(chars, rest) ==
  /\ sdBuf' = rest
  /\ IF fileOpen /\ chars # <<>> THEN Write(chars) ELSE UNCHANGED <<text, active, fileOpen, short>>

\* Slip: what does not fit before the flush is forgotten.
SdCopyCut(chars) ==
  LET all == sdBuf \o chars
  IN  /\ IF Len(all) < SdBufSize
           THEN sdBuf' = all /\ UNCHANGED <<text, active, fileOpen, short>>
           ELSE FlushInternal(First(SdBufSize, all), <<>>)
      /\ UNCHANGED <<files, session, clock>>

\* logPrintf() with the mutex: the buffer is flushed each time that it is full.  A message
\* is shorter than the buffer.
SdCopy(chars) ==
  LET all == sdBuf \o chars
  IN  /\ IF Len(all) < SdBufSize
           THEN sdBuf' = all /\ UNCHANGED <<text, active, fileOpen, short>>
           ELSE FlushInternal(First(SdBufSize, all), SubSeq(all, SdBufSize + 1, Len(all)))
      /\ UNCHANGED <<files, session, clock>>

\* flushSD(), every 5 s and before the files are listed or sent
FlushSD ==
  /\ active /\ sdBuf # <<>>
  /\ FlushInternal(sdBuf, <<>>)
  /\ UNCHANGED <<files, session, clock>>

-----------------------------------------------------------------------------
(* Rotation *)

Named == {f \in files : f.time # Boot}

\* Slip: no grace for a device that was off for long.
SparedNoGrace(listed) == {f \in files : f \notin listed \/ f.time >= clock - Retention}

\* sdRotate(): which files are left when these are the ones that fit into s_rotEntries.
Spared(listed) ==
  IF listed = {} \/ clock - Max({f.time : f \in listed}) >= Retention
    THEN files
    ELSE {f \in files : f \notin listed \/ f.time >= clock - Retention}

\* The directory lists its files in an order of its own.
Listings ==
  {s \in SUBSET Named :
     Cardinality(s) = IF Cardinality(Named) < MaxEntries THEN Cardinality(Named) ELSE MaxEntries}

\* The rotation of every hour.
RotateHourly ==
  /\ active
  /\ \E listed \in Listings : files' = Spared(listed)
  /\ UNCHANGED <<sdBuf, active, fileOpen, text, session, clock, short>>

\* initSDLog(): rotation and a new file, named for the time if it is known.  Without a sync
\* since the start the file is Boot's all the same when a soft reset has left the clock
\* running; without a clock the year is 1970, and no file is old.
OpenLog ==
  /\ session' = session + 1
  /\ sdBuf' = <<>> /\ text' = <<>> /\ short' = FALSE
  /\ UNCHANGED clock
  /\ \/ \E listed \in Listings, time \in {clock, Boot} :
          files' = Spared(listed) \cup {[session |-> session', time |-> time]}
     \/ files' = files \cup {[session |-> session', time |-> Boot]}
  /\ active' = TRUE /\ fileOpen' = TRUE

\* The card is missing, or the file cannot be opened after the rotation.
OpenLogFails ==
  /\ session' = session + 1
  /\ sdBuf' = <<>> /\ text' = <<>> /\ short' = FALSE
  /\ UNCHANGED clock
  /\ \/ UNCHANGED files
     \/ \E listed \in Listings : files' = Spared(listed)
  /\ active' = FALSE /\ fileOpen' = FALSE

TimePasses ==
  /\ clock' = clock + 1
  /\ UNCHANGED <<sdBuf, active, fileOpen, text, files, session, short>>

-----------------------------------------------------------------------------
(* Properties *)

\* s_sdBufPos is an index into s_sdBuf whenever the mutex is free, and the log is only
\* active with its file open and in place: no rotation takes it away under the session,
\* however long that lasts and whichever files the rotation gets to see.
SessionKept ==
  /\ Len(sdBuf) < SdBufSize
  /\ active => fileOpen /\ \E f \in files : f.session = session

\* "Normal mode: delete logs older than RETENTION_HOURS", "Grace mode: if newest log is
\* older than RETENTION_HOURS, keep everything": no rotation deletes a log that is younger,
\* nor the newest one however old it is.
RotationSpares ==
  [][\A f \in Named : f \notin files' =>
       clock - f.time > Retention /\ \E g \in Named : g.time > f.time]_cardVars
=============================================================================
