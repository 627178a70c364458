------------------------------ MODULE EventLog ------------------------------
(***************************************************************************)
(* The event log of an environment: append and read of events.rs.  A       *)
(* record is a number of bytes of which the last is the newline; a byte is *)
(* known by its record and its place there.                                *)
(*                                                                         *)
(* Whoever appends holds the environment's lock exclusively, so there is   *)
(* one writer at a time; doctor reads without any lock.                    *)
(***************************************************************************)
EXTENDS Integers, Sequences, FiniteSets

CONSTANTS MaxRecords,  \* bound on the records of a behaviour
          MaxRecord,   \* MAX_EVENT_BYTES
          Window       \* size of the buffer of truncate_torn_tail

ASSUME EventLogAssumption ==
  MaxRecords \in Nat \ {0} /\ MaxRecord \in Nat \ {0, 1} /\ Window \in Nat \ {0}

VARIABLES
  file,      \* the bytes of the log
  synced,    \* how many of them have reached the disk for certain
  records,   \* the length of each record anyone began to append
  acked,     \* records whose append succeeded
  pc, end,   \* the writer's next step, and the end of its window
  written,   \* how much of its record it wrote
  offset,    \* how much of the log the reader read
  line,      \* the bytes it read since the last newline
  events,    \* the records it parsed; Mixed is one put together of two
  report,    \* its result
  known,     \* records that were acknowledged when it began
  cut        \* the log was truncated since then

log    == <<file, synced, records, acked>>
writer == <<pc, end, written>>
reader == <<offset, line, events, report, known, cut>>
vars   == <<log, writer, reader>>

Mixed == 0
Byte  == [record : 1..MaxRecords, place : 1..MaxRecord, newline : BOOLEAN]

TypeOK ==
  /\ file \in Seq(Byte) /\ synced \in 0..Len(file)
  /\ records \in Seq(2..(MaxRecord + 1)) /\ Len(records) <= MaxRecords
  /\ acked \subseteq DOMAIN records
  /\ pc \in {"idle", "open", "tail", "write", "sync"}
  /\ end \in 0..Len(file) /\ written \in 0..MaxRecord
  /\ offset \in Nat /\ line \in Seq(Byte) /\ Len(line) <= MaxRecord + 1
  /\ events \in Seq({Mixed} \cup DOMAIN records)
  /\ report \in {"idle", "reading", "valid", "truncated", "invalid"}
  /\ known \subseteq acked /\ cut \in BOOLEAN

Init ==
  /\ file = <<>> /\ synced = 0 /\ records = <<>> /\ acked = {}
  /\ pc = "idle" /\ end = 0 /\ written = 0
  /\ offset = 0 /\ line = <<>> /\ events = <<>> /\ report = "idle"
  /\ known = {} /\ cut = FALSE

-----------------------------------------------------------------------------
Record   == Len(records)
ByteOf(r, i) == [record |-> r, place |-> i, newline |-> i = records[r]]
Whole(r) == [i \in 1..records[r] |-> ByteOf(r, i)]
Newlines == {i \in DOMAIN file : file[i].newline}

Stop == pc' = "idle" /\ end' = 0 /\ written' = 0

TooLong(n) == n > MaxRecord

\* An encoded record that is too long is refused before the log is opened.
BeginAppend ==
  /\ pc = "idle" /\ Len(records) < MaxRecords
  /\ \E n \in 2..(MaxRecord + 1) :
       /\ records' = Append(records, n)
       /\ pc' = IF TooLong(n) THEN "idle" ELSE "open"
  /\ UNCHANGED <<file, synced, acked, end, written, reader>>

\* truncate_torn_tail: nothing to do for an empty log or a terminated one
Open ==
  /\ pc = "open"
  /\ IF file = <<>> \/ Len(file) \in Newlines
     THEN pc' = "write" /\ UNCHANGED end
     ELSE pc' = "tail" /\ end' = Len(file)
  /\ UNCHANGED <<log, written, reader>>

SetLen(n) ==
  /\ file' = SubSeq(file, 1, n)
  /\ cut' = TRUE
  /\ pc' = "write" /\ end' = 0
  /\ UNCHANGED <<synced, records, acked, written, offset, line, events, report, known>>

\* Mutant: the log is searched no further than the first window.
SearchedOnce(start) == TRUE

Searched(start) == start = 0

\* One window of the backward search for the last newline.
TruncateTail ==
  /\ pc = "tail"
  /\ LET start == IF end > Window THEN end - Window ELSE 0
         found == {i \in Newlines : start < i /\ i <= end}
     IN IF found # {}
        THEN \E i \in found : (\A j \in found : j <= i) /\ SetLen(i)
        ELSE IF Searched(start) THEN SetLen(0)
        ELSE end' = start /\ UNCHANGED <<log, pc, written, reader>>

\* write_all: the system writes as much at a time as it likes.
WriteAll ==
  /\ pc = "write"
  /\ \E n \in (written + 1)..records[Record] :
       /\ file' = file \o [i \in 1..(n - written) |-> ByteOf(Record, written + i)]
       /\ written' = n
       /\ pc' = IF n = records[Record] THEN "sync" ELSE "write"
  /\ UNCHANGED <<synced, records, acked, end, reader>>

SyncData ==
  /\ pc = "sync"
  /\ synced' = Len(file)
  /\ acked' = acked \cup {Record}
  /\ Stop
  /\ UNCHANGED <<file, records, reader>>

\* The writer dies or has an error: the log stays as it is.
Fail ==
  /\ pc # "idle"
  /\ Stop
  /\ UNCHANGED <<log, reader>>

\* The machine stops: what was not synced is lost from some byte on.
PowerLoss ==
  /\ \E n \in synced..Len(file) : file' = SubSeq(file, 1, n)
  /\ Stop
  /\ offset' = 0 /\ line' = <<>> /\ events' = <<>> /\ report' = "idle"
  /\ known' = {} /\ cut' = FALSE
  /\ UNCHANGED <<synced, records, acked>>

-----------------------------------------------------------------------------

FromTheStart == offset' = 0

Read ==
  /\ report # "reading"
  /\ FromTheStart /\ line' = <<>> /\ events' = <<>> /\ report' = "reading"
  /\ known' = acked /\ cut' = FALSE
  /\ UNCHANGED <<log, writer>>

IsRecord(s) == \E r \in DOMAIN records : s = Whole(r)

\* A terminated line is parsed.  A line put together of two records may happen
\* to be an event.
Parse(s) ==
  /\ line' = <<>>
  /\ \/ IsRecord(s) /\ events' = Append(events, s[1].record) /\ UNCHANGED report
     \/ ~IsRecord(s) /\ Len(s) \in 2..(MaxRecord + 1) /\ events' = Append(events, Mixed) /\ UNCHANGED report
     \/ ~IsRecord(s) /\ report' = "invalid" /\ UNCHANGED events

\* Mutant: a torn record is corruption.
EndOfLogStrict == report' = IF line = <<>> THEN "valid" ELSE "invalid"

EndOfLog ==
  report' = CASE line = <<>>              -> "valid"
              [] Len(line) > MaxRecord    -> "invalid"
              [] Len(line) \in 1..MaxRecord -> "truncated"

\* read_until, one byte at a time, up to the limit of a line.
ReadUntil ==
  /\ report = "reading"
  /\ IF offset < Len(file)
     THEN LET s == Append(line, file[offset + 1])
          IN /\ offset' = offset + 1
             /\ IF Len(s) > MaxRecord + 1 THEN report' = "invalid" /\ UNCHANGED <<line, events>>
                ELSE IF file[offset + 1].newline THEN Parse(s)
                ELSE line' = s /\ UNCHANGED <<events, report>>
     ELSE EndOfLog /\ UNCHANGED <<offset, line, events>>
  /\ UNCHANGED <<log, writer, known, cut>>

Next ==
  \/ BeginAppend \/ Open \/ TruncateTail \/ WriteAll \/ SyncData \/ Fail \/ PowerLoss
  \/ Read \/ ReadUntil

Spec == Init /\ [][Next]_vars

-----------------------------------------------------------------------------
\* However appends and machines stop, every terminated line of the log is one
\* whole record, and what follows the last of them is the beginning of one.  So
\* no reader ever takes two records for one, and no append follows a torn one.
LinesAreRecords ==
  /\ \A i \in DOMAIN file :
       \/ file[i].place = 1 /\ (i = 1 \/ file[i - 1].newline)
       \/ i > 1 /\ file[i].record = file[i - 1].record /\ file[i].place = file[i - 1].place + 1
  /\ \A i \in DOMAIN file : file[i].newline <=> file[i].place = records[file[i].record]

\* An event whose append succeeded stays in the log, after those before it,
\* through torn tails, their removal and the loss of power.
AcknowledgedStay ==
  \A r \in acked : \E i \in Newlines :
    /\ file[i].record = r
    /\ \A j \in 1..i : file[j].record <= r

\* The events in the log: those of its terminated lines.  A log with a line that
\* is no whole record keeps nothing a reader could trust.
Kept == IF LinesAreRecords THEN {file[i].record : i \in Newlines} ELSE {}

Promise == INSTANCE DurableLog WITH Events <- 1..MaxRecords, kept <- Kept

\* Byte by byte, with torn writes, their repair by the next append and the loss of
\* power, the log is a sequence of whole events that loses only the latest, and
\* none that was acknowledged (append, truncate_torn_tail).
ImplementsLog == Promise!Spec

\* A reader that no truncation overtook reports the records of the log, the
\* first of them in order, and never calls the log invalid.
ReportsAreTrue ==
  ~cut /\ report # "idle" =>
    /\ report # "invalid"
    /\ \A k \in DOMAIN events :
         /\ events[k] # Mixed
         /\ Cardinality({i \in Newlines : file[i].record <= events[k]}) = k

\* Whatever the writers do meanwhile, a reader that ends has reported every event
\* that was acknowledged before it began, or has called the log invalid after them.
NothingKnownIsMissed ==
  report \in {"valid", "truncated", "invalid"} =>
    \A r \in known : \E k \in DOMAIN events : events[k] = r

\* What doctor reads while commands append, die and are repaired is the log: true
\* unless a truncation overtook the reading, and complete as far as it goes.
ReadersAreRight == ReportsAreTrue /\ NothingKnownIsMissed
=============================================================================
