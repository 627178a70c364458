--------------------------- MODULE AlgorithmProofs ---------------------------
(***************************************************************************)
(* The safety of the event log and of its readers, for records and windows *)
(* of any size and any number of appends, deaths and power losses; then    *)
(* what the functions without state promise, for any input.                *)
(*                                                                         *)
(* A reader's steps leave the log alone: what it has read comes after what *)
(* the log is.  The functions are proved about one by one, each from what  *)
(* its parts return.                                                       *)
(***************************************************************************)
EXTENDS MCAlgorithms, SequenceTheorems, FiniteSetTheorems, WellFoundedInduction, TLAPS

Starts(i)    == file[i].place = 1 /\ (i = 1 \/ file[i - 1].newline)
Continues(i) == /\ i > 1 /\ ~file[i - 1].newline
                /\ file[i].record = file[i - 1].record
                /\ file[i].place = file[i - 1].place + 1

\* The log is a sequence of records in order, of which only the last may be torn.
Shape ==
  /\ \A i \in DOMAIN file :
       /\ Starts(i) \/ Continues(i)
       /\ file[i].record \in DOMAIN records
       /\ file[i].newline <=> file[i].place = records[file[i].record]
  /\ \A i, j \in DOMAIN file : i <= j => file[i].record <= file[j].record

\* The end of the log is where the writer left it.
Terminated == file = <<>> \/ file[Len(file)].newline

Writer ==
  /\ pc # "idle" => records # <<>> /\ records[Record] <= MaxRecord /\ Record \notin acked
  /\ pc \in {"open", "tail"} \/ (pc = "write" /\ written = 0) =>
       \A i \in DOMAIN file : file[i].record < Record
  /\ pc \in {"idle", "open", "tail"} => written = 0
  /\ pc = "tail" =>
       /\ end >= 1
       /\ \A i \in DOMAIN file : i > end => ~file[i].newline
  /\ pc = "write" /\ written = 0 => Terminated
  /\ pc = "write" /\ written > 0 =>
       file # <<>> /\ file[Len(file)] = ByteOf(Record, written) /\ written < records[Record]
  /\ pc = "sync" => file # <<>> /\ file[Len(file)] = ByteOf(Record, records[Record])

\* What is acknowledged is terminated within what is synced.
Durable ==
  /\ synced = 0 \/ file[synced].newline
  /\ \A r \in acked : \E i \in 1..synced : file[i].newline /\ file[i].record = r

LogType ==
  /\ file \in Seq(Byte) /\ synced \in 0..Len(file)
  /\ records \in Seq(2..(MaxRecord + 1)) /\ Len(records) <= MaxRecords
  /\ acked \subseteq DOMAIN records
WriterType ==
  /\ pc \in {"idle", "open", "tail", "write", "sync"}
  /\ end \in 0..Len(file) /\ written \in 0..MaxRecord
ReaderType ==
  /\ offset \in Nat /\ line \in Seq(Byte) /\ Len(line) <= MaxRecord + 1
  /\ events \in Seq({Mixed} \cup DOMAIN records)
  /\ report \in {"idle", "reading", "valid", "truncated", "invalid"}
  /\ known \subseteq acked /\ cut \in BOOLEAN

IInv == LogType /\ WriterType /\ ReaderType /\ Shape /\ Writer /\ Durable

-----------------------------------------------------------------------------
(* What cutting and growing does to a sequence.                            *)

LEMMA CutFacts ==
  ASSUME NEW S, NEW s \in Seq(S), NEW n \in 0..Len(s)
  PROVE  /\ SubSeq(s, 1, n) \in Seq(S)
         /\ Len(SubSeq(s, 1, n)) = n
         /\ DOMAIN SubSeq(s, 1, n) = 1..n
         /\ \A i \in 1..n : SubSeq(s, 1, n)[i] = s[i]
OBVIOUS

LEMMA GrowFacts ==
  ASSUME NEW S, NEW s \in Seq(S), NEW n \in Nat, NEW t \in [1..n -> S]
  PROVE  /\ t \in Seq(S) /\ Len(t) = n
         /\ s \o t \in Seq(S)
         /\ Len(s \o t) = Len(s) + n
         /\ DOMAIN (s \o t) = 1..(Len(s) + n)
         /\ \A i \in 1..Len(s) : (s \o t)[i] = s[i]
         /\ \A i \in 1..n : (s \o t)[Len(s) + i] = t[i]
<1>1. t \in Seq(S) /\ Len(t) = n BY SMT
<1> QED BY <1>1

\* The length of a record is one.
LEMMA LengthFacts == ASSUME LogType, NEW r \in DOMAIN records PROVE records[r] \in 2..(MaxRecord + 1)
<1> DEFINE S == 2..(MaxRecord + 1)
<1>1. records \in Seq(S) /\ r \in 1..Len(records) BY DEF LogType
<1> HIDE DEF S
<1>2. records[r] \in S BY <1>1, ElementOfSeq
<1> QED BY <1>2 DEF S

\* A byte of a record that is not too long is a byte.
LEMMA ByteFacts ==
  ASSUME LogType, NEW r \in DOMAIN records, records[r] <= MaxRecord, NEW i \in 1..records[r]
  PROVE  /\ ByteOf(r, i) \in Byte
         /\ ByteOf(r, i).record = r /\ ByteOf(r, i).place = i
         /\ ByteOf(r, i).newline <=> i = records[r]
<1>1. r \in 1..MaxRecords /\ i \in 1..MaxRecord
  BY EventLogAssumption DEF LogType
<1>2. (i = records[r]) \in BOOLEAN OBVIOUS
<1>3. ByteOf(r, i) \in Byte BY <1>1, <1>2 DEF ByteOf, Byte
<1> QED BY <1>3 DEF ByteOf

-----------------------------------------------------------------------------
LEMMA InitInv == Init => IInv
<1> SUFFICES ASSUME Init PROVE IInv OBVIOUS
<1>1. /\ \A S : <<>> \in Seq(S)
      /\ Len(<<>>) = 0 /\ DOMAIN <<>> = {}
  OBVIOUS
<1>2. LogType BY <1>1, EventLogAssumption DEF Init, LogType
<1>3. WriterType BY <1>1, EventLogAssumption DEF Init, WriterType
<1>4. ReaderType
  <2>1. line \in Seq(Byte) /\ Len(line) = 0 /\ events \in Seq({Mixed} \cup DOMAIN records) BY <1>1 DEF Init
  <2>2. cut \in BOOLEAN BY DEF Init
  <2>3. Len(line) <= MaxRecord + 1 BY <2>1, EventLogAssumption
  <2> QED BY <2>1, <2>2, <2>3 DEF Init, ReaderType
<1>5. Shape /\ Writer /\ Durable BY <1>1 DEF Init, Shape, Writer, Durable
<1> QED BY <1>2, <1>3, <1>4, <1>5 DEF IInv

-----------------------------------------------------------------------------
(* The steps that leave the bytes of the log alone.                        *)

\* What is true of the log stays so while its bytes and records stay.
LEMMA LogKept ==
  ASSUME Shape, UNCHANGED <<file, records>>
  PROVE  Shape'
BY DEF Shape, Starts, Continues

LEMMA BeginAppendStep == IInv /\ BeginAppend => IInv'
<1> SUFFICES ASSUME IInv, BeginAppend PROVE IInv' OBVIOUS
<1>1. PICK n \in 2..(MaxRecord + 1) :
        records' = Append(records, n) /\ pc' = IF TooLong(n) THEN "idle" ELSE "open"
  BY DEF BeginAppend
<1>2. /\ pc = "idle" /\ Len(records) < MaxRecords
      /\ UNCHANGED <<file, synced, acked, end, written, offset, line, events, report, known, cut>>
  BY DEF BeginAppend, reader
<1>3. LogType /\ WriterType /\ ReaderType /\ Shape /\ Writer /\ Durable BY DEF IInv
<1>4. /\ records' \in Seq(2..(MaxRecord + 1)) /\ Len(records') = Len(records) + 1
      /\ DOMAIN records \subseteq DOMAIN records' /\ Len(records) + 1 \in DOMAIN records'
      /\ records'[Len(records) + 1] = n
      /\ \A r \in DOMAIN records : records'[r] = records[r] /\ r <= Len(records)
  BY <1>1, <1>3 DEF LogType
<1>5. LogType' BY <1>2, <1>3, <1>4, EventLogAssumption DEF LogType
<1>6. WriterType' BY <1>1, <1>2, <1>3 DEF WriterType
<1>7. events \in Seq({Mixed} \cup DOMAIN records') BY <1>3, <1>4 DEF ReaderType
<1>8. ReaderType' BY <1>2, <1>3, <1>7 DEF ReaderType
<1>9. Shape' BY <1>2, <1>3, <1>4 DEF Shape, Starts, Continues
<1>10. Writer'
  <2>1. written = 0 /\ pc' \in {"idle", "open"} BY <1>1, <1>2, <1>3 DEF Writer
  <2>2. pc' # "idle" => records' # <<>> /\ records'[Len(records')] <= MaxRecord
    BY <1>1, <1>4, EventLogAssumption DEF TooLong
  <2>3. Len(records') \notin acked BY <1>3, <1>4 DEF LogType
  <2>4. \A i \in DOMAIN file : file[i].record < Len(records')
    BY <1>3, <1>4 DEF Shape, LogType
  <2> QED BY <1>2, <2>1, <2>2, <2>3, <2>4 DEF Writer, Record
<1>11. Durable' BY <1>2, <1>3 DEF Durable
<1> QED BY <1>5, <1>6, <1>8, <1>9, <1>10, <1>11 DEF IInv

LEMMA OpenStep == IInv /\ Open => IInv'
<1> SUFFICES ASSUME IInv, Open PROVE IInv' OBVIOUS
<1>1. LogType /\ WriterType /\ ReaderType /\ Shape /\ Writer /\ Durable BY DEF IInv
<1>2. /\ pc = "open"
      /\ UNCHANGED <<file, synced, records, acked, written, offset, line, events, report, known, cut>>
  BY DEF Open, log, reader
<1>3. LogType' /\ ReaderType' /\ Durable' BY <1>1, <1>2 DEF LogType, ReaderType, Durable
<1>4. Shape' BY <1>1, <1>2, LogKept
<1>5. CASE file = <<>> \/ Len(file) \in Newlines
  <2>1. pc' = "write" /\ end' = end BY <1>5 DEF Open
  <2>2. Terminated BY <1>5 DEF Newlines, Terminated
  <2>3. WriterType' BY <1>1, <1>2, <2>1 DEF WriterType
  <2>4. Writer' BY <1>1, <1>2, <2>1, <2>2 DEF Writer, Terminated, Record
  <2> QED BY <1>3, <1>4, <2>3, <2>4 DEF IInv
<1>6. CASE ~(file = <<>> \/ Len(file) \in Newlines)
  <2>1. pc' = "tail" /\ end' = Len(file) BY <1>6 DEF Open
  <2>2. Len(file) >= 1 /\ \A i \in DOMAIN file : i <= Len(file) BY <1>1, <1>6 DEF LogType
  <2>3. WriterType' BY <1>1, <1>2, <2>1, <2>2 DEF WriterType
  <2>4. Writer' BY <1>1, <1>2, <2>1, <2>2 DEF Writer, Record
  <2> QED BY <1>3, <1>4, <2>3, <2>4 DEF IInv
<1> QED BY <1>5, <1>6

LEMMA SyncDataStep == IInv /\ SyncData => IInv'
<1> SUFFICES ASSUME IInv, SyncData PROVE IInv' OBVIOUS
<1>1. LogType /\ WriterType /\ ReaderType /\ Shape /\ Writer /\ Durable BY DEF IInv
<1>2. /\ pc = "sync" /\ pc' = "idle" /\ end' = 0 /\ written' = 0
      /\ synced' = Len(file) /\ acked' = acked \cup {Record}
      /\ UNCHANGED <<file, records, offset, line, events, report, known, cut>>
  BY DEF SyncData, Stop, reader
<1>3. Len(file) \in Nat /\ Len(records) \in DOMAIN records /\ Len(file) \in DOMAIN file
  BY <1>1, <1>2 DEF LogType, Writer
<1>4. LogType' BY <1>1, <1>2, <1>3 DEF LogType, Record
<1>5. WriterType' BY <1>2, <1>3, EventLogAssumption DEF WriterType
<1>6. ReaderType' BY <1>1, <1>2 DEF ReaderType
<1>7. Shape' BY <1>1, <1>2, LogKept
<1>8. Writer' BY <1>2 DEF Writer
<1>9. /\ file[Len(file)].newline /\ file[Len(file)].record = Record
  <2>1. Record \in DOMAIN records /\ records[Record] \in 1..records[Record] /\ records[Record] <= MaxRecord
    <3>1. records[Len(records)] \in 2..(MaxRecord + 1) BY <1>1, <1>3, LengthFacts
    <3>2. records[Record] <= MaxRecord BY <1>1, <1>2 DEF Writer
    <3> QED BY <1>3, <3>1, <3>2, EventLogAssumption DEF Record
  <2> QED BY <1>1, <1>2, <2>1, ByteFacts DEF Writer
<1>10. Durable'
  <2>1. synced \in 0..Len(file) BY <1>1 DEF LogType
  <2>2. \A r \in acked : \E i \in 1..Len(file) : file[i].newline /\ file[i].record = r
    BY <1>1, <2>1 DEF Durable
  <2>3. \E i \in 1..Len(file) : file[i].newline /\ file[i].record = Record
    BY <1>1, <1>3, <1>9 DEF LogType
  <2> QED BY <1>2, <1>9, <2>2, <2>3 DEF Durable
<1> QED BY <1>4, <1>5, <1>6, <1>7, <1>8, <1>10 DEF IInv

LEMMA FailStep == IInv /\ Fail => IInv'
<1> SUFFICES ASSUME IInv, Fail PROVE IInv' OBVIOUS
<1>1. LogType /\ WriterType /\ ReaderType /\ Shape /\ Writer /\ Durable BY DEF IInv
<1>2. /\ pc' = "idle" /\ end' = 0 /\ written' = 0
      /\ UNCHANGED <<file, synced, records, acked, offset, line, events, report, known, cut>>
  BY DEF Fail, Stop, log, reader
<1>3. LogType' /\ ReaderType' /\ Durable' BY <1>1, <1>2 DEF LogType, ReaderType, Durable
<1>4. WriterType' BY <1>1, <1>2, EventLogAssumption DEF WriterType, LogType
<1>5. Shape' /\ Writer' BY <1>1, <1>2, LogKept DEF Writer
<1> QED BY <1>3, <1>4, <1>5 DEF IInv

-----------------------------------------------------------------------------
(* The steps that cut the log or add to it.                                *)

\* A log cut at any place after what is synced is one.
LEMMA CutKeeps ==
  ASSUME IInv, NEW n \in synced..Len(file), file' = SubSeq(file, 1, n),
         UNCHANGED <<synced, records, acked>>
  PROVE  LogType' /\ Shape' /\ Durable'
<1>1. LogType /\ Shape /\ Durable BY DEF IInv
<1>2. n \in 0..Len(file) /\ synced <= n BY <1>1 DEF LogType
<1>3. /\ file' \in Seq(Byte) /\ Len(file') = n /\ DOMAIN file' = 1..n
      /\ \A i \in 1..n : file'[i] = file[i] /\ i \in DOMAIN file
  BY <1>1, <1>2, CutFacts DEF LogType
<1>4. LogType' BY <1>1, <1>2, <1>3 DEF LogType
<1>5. Shape'
  <2>1. ASSUME NEW i \in DOMAIN file' PROVE (Starts(i) \/ Continues(i))'
    <3>1. i \in 1..n /\ i \in DOMAIN file /\ file'[i] = file[i] /\ (i > 1 => file'[i - 1] = file[i - 1])
      BY <1>2, <1>3
    <3> QED BY <1>1, <3>1 DEF Shape, Starts, Continues
  <2> QED BY <1>1, <1>3, <2>1 DEF Shape
<1>6. Durable'
  <2>1. \A i \in 1..synced : i \in 1..n BY <1>1, <1>2 DEF LogType
  <2>2. synced = 0 \/ synced \in 1..synced BY <1>1 DEF LogType
  <2> QED BY <1>1, <1>3, <2>1, <2>2 DEF Durable
<1> QED BY <1>4, <1>5, <1>6

LEMMA PowerLossStep == IInv /\ PowerLoss => IInv'
<1> SUFFICES ASSUME IInv, PowerLoss PROVE IInv' OBVIOUS
<1>1. PICK n \in synced..Len(file) : file' = SubSeq(file, 1, n) BY DEF PowerLoss
<1>2. /\ pc' = "idle" /\ end' = 0 /\ written' = 0
      /\ offset' = 0 /\ line' = <<>> /\ events' = <<>> /\ report' = "idle"
      /\ known' = {} /\ cut' = FALSE
      /\ UNCHANGED <<synced, records, acked>>
  BY DEF PowerLoss, Stop
<1>3. LogType' /\ Shape' /\ Durable' BY <1>1, <1>2, CutKeeps
<1>4. WriterType' BY <1>2, <1>3, EventLogAssumption DEF WriterType, LogType
<1>5. ReaderType'
  <2>1. line' \in Seq(Byte) /\ Len(line') = 0 /\ events' \in Seq({Mixed} \cup DOMAIN records') BY <1>2
  <2>2. cut' \in BOOLEAN BY <1>2
  <2>3. Len(line') <= MaxRecord + 1 BY <2>1, EventLogAssumption
  <2> QED BY <1>2, <2>1, <2>2, <2>3 DEF ReaderType
<1>6. Writer' BY <1>2 DEF Writer
<1> QED BY <1>3, <1>4, <1>5, <1>6 DEF IInv

\* The end of the last record is after what is synced, so nothing of that is cut.
LEMMA SetLenKeeps ==
  ASSUME IInv, pc = "tail", NEW n \in synced..Len(file), n = 0 \/ file[n].newline, SetLen(n)
  PROVE  IInv'
<1>1. LogType /\ WriterType /\ ReaderType /\ Shape /\ Writer /\ Durable BY DEF IInv
<1>2. /\ file' = SubSeq(file, 1, n) /\ cut' = TRUE /\ pc' = "write" /\ end' = 0
      /\ UNCHANGED <<synced, records, acked, written, offset, line, events, report, known>>
  BY DEF SetLen
<1>3. LogType' /\ Shape' /\ Durable' BY <1>2, CutKeeps
<1>4. /\ Len(file') = n /\ DOMAIN file' = 1..n
      /\ \A i \in 1..n : file'[i] = file[i] /\ i \in DOMAIN file
  BY <1>1, <1>2, CutFacts DEF LogType
<1>5. WriterType' BY <1>1, <1>2, <1>3, EventLogAssumption DEF WriterType, LogType
<1>6. ReaderType' BY <1>1, <1>2 DEF ReaderType
<1>7. written = 0 /\ \A i \in DOMAIN file : file[i].record < Record BY <1>1 DEF Writer
<1>8. Terminated'
  <2>1. CASE n = 0 BY <1>3, <1>4, <2>1 DEF LogType, Terminated
  <2>2. CASE n # 0
    <3>1. n \in 1..n BY <1>1, <2>2 DEF LogType
    <3> QED BY <1>4, <2>2, <3>1 DEF Terminated
  <2> QED BY <2>1, <2>2
<1>9. Writer' BY <1>1, <1>2, <1>4, <1>7, <1>8 DEF Writer, Record
<1> QED BY <1>3, <1>5, <1>6, <1>9 DEF IInv

LEMMA TruncateTailStep == IInv /\ TruncateTail => IInv'
<1> SUFFICES ASSUME IInv, TruncateTail PROVE IInv' OBVIOUS
<1>1. LogType /\ WriterType /\ ReaderType /\ Shape /\ Writer /\ Durable BY DEF IInv
<1> DEFINE start == IF end > Window THEN end - Window ELSE 0
           found == {i \in Newlines : start < i /\ i <= end}
<1>2. pc = "tail" BY DEF TruncateTail
<1>3. /\ start \in 0..end /\ start < end /\ end \in 1..Len(file)
      /\ synced \in 0..Len(file)
  BY <1>1, <1>2, EventLogAssumption DEF LogType, WriterType, Writer
<1>4. synced <= end
  <2>1. synced = 0 \/ synced \in DOMAIN file BY <1>1 DEF LogType
  <2> QED BY <1>1, <1>2, <1>3, <2>1 DEF Durable, Writer
<1>5. synced > start => synced \in found
  BY <1>1, <1>3, <1>4 DEF Durable, Newlines, LogType
<1>6. CASE found # {}
  <2>1. PICK i \in found : (\A j \in found : j <= i) /\ SetLen(i) BY <1>6 DEF TruncateTail
  <2>2. i \in 1..Len(file) /\ file[i].newline /\ i > start BY <1>1, <2>1 DEF Newlines, LogType
  <2>3. i \in synced..Len(file) BY <1>3, <1>5, <2>1, <2>2
  <2> QED BY <1>2, <2>1, <2>2, <2>3, SetLenKeeps
<1>7. CASE found = {} /\ start = 0
  <2>1. SetLen(0) BY <1>7 DEF TruncateTail, Searched
  <2>2. 0 \in synced..Len(file) BY <1>3, <1>5, <1>7
  <2> QED BY <1>2, <2>1, <2>2, SetLenKeeps
<1>8. CASE found = {} /\ start # 0
  <2>1. /\ end' = start
        /\ UNCHANGED <<file, synced, records, acked, pc, written, offset, line, events, report, known, cut>>
    BY <1>8 DEF TruncateTail, Searched, log, reader
  <2>2. LogType' /\ ReaderType' /\ Durable' BY <1>1, <2>1 DEF LogType, ReaderType, Durable
  <2>3. WriterType' BY <1>1, <1>3, <2>1 DEF WriterType
  <2>4. Shape' BY <1>1, <2>1, LogKept
  <2>5. \A i \in DOMAIN file : i > start => ~file[i].newline
    <3>1. SUFFICES ASSUME NEW i \in DOMAIN file, i > start, file[i].newline PROVE FALSE OBVIOUS
    <3>2. i \in Int /\ i <= end BY <1>1, <1>2, <1>3, <3>1 DEF Writer, LogType
    <3> QED BY <1>8, <3>1, <3>2 DEF Newlines
  <2>6. start >= 1 BY <1>3, <1>8
  <2>7. Writer' BY <1>1, <1>2, <2>1, <2>5, <2>6 DEF Writer, Record
  <2> QED BY <2>2, <2>3, <2>4, <2>7 DEF IInv
<1> QED BY <1>6, <1>7, <1>8

LEMMA WriteAllStep == IInv /\ WriteAll => IInv'
<1> SUFFICES ASSUME IInv, WriteAll PROVE IInv' OBVIOUS
<1>1. LogType /\ WriterType /\ ReaderType /\ Shape /\ Writer /\ Durable BY DEF IInv
<1>2. /\ pc = "write"
      /\ UNCHANGED <<synced, records, acked, end, offset, line, events, report, known, cut>>
  BY DEF WriteAll, reader
<1>3. PICK n \in (written + 1)..records[Record] :
        /\ file' = file \o [i \in 1..(n - written) |-> ByteOf(Record, written + i)]
        /\ written' = n
        /\ pc' = IF n = records[Record] THEN "sync" ELSE "write"
  BY DEF WriteAll
<1> DEFINE k == n - written
           t == [i \in 1..k |-> ByteOf(Record, written + i)]
<1>4. /\ Record \in DOMAIN records /\ records[Record] \in 2..MaxRecord /\ Record \notin acked
      /\ Len(file) \in Nat /\ written \in Nat /\ synced \in 0..Len(file)
  <2>1. Record \in DOMAIN records BY <1>1, <1>2 DEF LogType, Writer, Record
  <2>2. records[Record] \in 2..(MaxRecord + 1) BY <1>1, <2>1, LengthFacts
  <2>3. records[Record] <= MaxRecord /\ Record \notin acked BY <1>1, <1>2 DEF Writer
  <2> QED BY <1>1, <2>1, <2>2, <2>3, EventLogAssumption DEF LogType, WriterType
<1>5. n \in Nat /\ k \in Nat /\ k >= 1 /\ n = written + k /\ n <= records[Record] BY <1>3, <1>4
<1>6. \A i \in 1..k : /\ written + i \in 1..records[Record]
                      /\ t[i] \in Byte /\ t[i].record = Record /\ t[i].place = written + i
                      /\ t[i].newline <=> written + i = records[Record]
  <2> SUFFICES ASSUME NEW i \in 1..k
               PROVE /\ written + i \in 1..records[Record]
                     /\ t[i] \in Byte /\ t[i].record = Record /\ t[i].place = written + i
                     /\ t[i].newline <=> written + i = records[Record]
    OBVIOUS
  <2>1. written + i \in 1..records[Record] BY <1>4, <1>5
  <2>2. t[i] = ByteOf(Record, written + i) OBVIOUS
  <2> HIDE DEF t
  <2>3. records[Record] <= MaxRecord BY <1>4, EventLogAssumption
  <2> QED BY <1>1, <1>4, <2>1, <2>2, <2>3, ByteFacts
<1>7. t \in [1..k -> Byte] BY <1>6
<1>8. /\ file' \in Seq(Byte) /\ Len(file') = Len(file) + k /\ DOMAIN file' = 1..(Len(file) + k)
      /\ \A i \in 1..Len(file) : file'[i] = file[i]
      /\ \A i \in 1..k : file'[Len(file) + i] = t[i]
  <2>1. file \in Seq(Byte) /\ file' = file \o t BY <1>1, <1>3 DEF LogType
  <2> HIDE DEF t, k
  <2> QED BY <1>5, <1>7, <2>1, GrowFacts
<1> HIDE DEF t
<1>9. DOMAIN file = 1..Len(file) BY <1>1 DEF LogType
<1>10. \A i \in DOMAIN file' : i \in DOMAIN file \/ \E j \in 1..k : i = Len(file) + j
  <2> SUFFICES ASSUME NEW i \in DOMAIN file', i \notin DOMAIN file PROVE \E j \in 1..k : i = Len(file) + j
    OBVIOUS
  <2>1. i - Len(file) \in 1..k /\ i = Len(file) + (i - Len(file)) BY <1>4, <1>5, <1>8, <1>9
  <2> QED BY <2>1
<1>11. LogType' BY <1>1, <1>2, <1>4, <1>5, <1>8 DEF LogType
<1>12. WriterType'
  <2>1. pc' \in {"write", "sync"} BY <1>3
  <2>2. n \in 0..MaxRecord BY <1>4, <1>5, EventLogAssumption
  <2> QED BY <1>1, <1>2, <1>3, <1>4, <1>5, <1>8, <2>1, <2>2 DEF WriterType
<1>13. ReaderType' BY <1>1, <1>2 DEF ReaderType
<1>14. Durable'
  <2>1. \A i \in 1..synced : i \in 1..Len(file) BY <1>4
  <2>2. synced = 0 \/ file'[synced].newline
    <3>1. CASE synced = 0 BY <3>1
    <3>2. CASE synced # 0
      <4>1. synced \in 1..Len(file) BY <1>4, <3>2
      <4> QED BY <1>1, <1>8, <3>2, <4>1 DEF Durable
    <3> QED BY <3>1, <3>2
  <2>3. ASSUME NEW r \in acked PROVE \E i \in 1..synced : file'[i].newline /\ file'[i].record = r
    <3>1. PICK i \in 1..synced : file[i].newline /\ file[i].record = r BY <1>1 DEF Durable
    <3>2. file'[i] = file[i] BY <1>8, <2>1
    <3> QED BY <3>1, <3>2
  <2> QED BY <1>2, <2>2, <2>3 DEF Durable
<1>15. Shape'
  <2>1. ASSUME NEW i \in DOMAIN file'
        PROVE  /\ (Starts(i) \/ Continues(i))'
               /\ file'[i].record \in DOMAIN records
               /\ file'[i].newline <=> file'[i].place = records[file'[i].record]
    <3>1. CASE i \in DOMAIN file
      <4>1. /\ i \in 1..Len(file) /\ file'[i] = file[i]
            /\ i > 1 => i - 1 \in 1..Len(file) /\ file'[i - 1] = file[i - 1]
        BY <1>4, <1>8, <1>9, <3>1
      <4> QED BY <1>1, <3>1, <4>1 DEF Shape, Starts, Continues
    <3>2. ASSUME NEW j \in 1..k, i = Len(file) + j
          PROVE  /\ (Starts(i) \/ Continues(i))'
                 /\ file'[i].record \in DOMAIN records
                 /\ file'[i].newline <=> file'[i].place = records[file'[i].record]
      <4>1. file'[i] = t[j] BY <1>8, <3>2
      <4>2. CASE j > 1
        <5>1. j - 1 \in 1..k /\ i - 1 = Len(file) + (j - 1) BY <1>4, <1>5, <3>2, <4>2
        <5>2. file'[i - 1] = t[j - 1] BY <1>8, <5>1
        <5>3. /\ t[j - 1].record = Record /\ t[j - 1].place = written + (j - 1)
              /\ t[j - 1].newline <=> written + (j - 1) = records[Record]
          BY <1>6, <5>1
        <5>4. written + (j - 1) # records[Record] /\ i > 1 /\ written + j = written + (j - 1) + 1
          BY <1>4, <1>5, <3>2, <4>2
        <5> QED BY <1>4, <1>6, <4>1, <5>2, <5>3, <5>4 DEF Continues
      <4>3. CASE j = 1 /\ written = 0
        <5>1. Terminated BY <1>1, <1>2, <4>3 DEF Writer
        <5>2. t[j].place = 1 BY <1>6, <4>3
        <5>3. i = 1 \/ file'[i - 1].newline
          <6>1. CASE Len(file) = 0 BY <3>2, <4>3, <6>1
          <6>2. CASE Len(file) # 0
            <7>1. Len(file) \in 1..Len(file) /\ i - 1 = Len(file) /\ file # <<>>
              BY <1>4, <3>2, <4>3, <6>2
            <7> QED BY <1>8, <5>1, <7>1 DEF Terminated
          <6> QED BY <6>1, <6>2
        <5> QED BY <1>4, <1>6, <4>1, <5>2, <5>3 DEF Starts
      <4>4. CASE j = 1 /\ written # 0
        <5>1. /\ file # <<>> /\ file[Len(file)] = ByteOf(Record, written) /\ written < records[Record]
          BY <1>1, <1>2, <1>4, <4>4 DEF Writer
        <5>2. Len(file) \in 1..Len(file) /\ i - 1 = Len(file) /\ i > 1
          BY <1>1, <1>4, <3>2, <4>4, <5>1 DEF LogType
        <5>3. file'[i - 1] = ByteOf(Record, written) BY <1>8, <5>1, <5>2
        <5>4. written \in 1..records[Record] /\ written # records[Record] /\ records[Record] <= MaxRecord
          BY <1>4, <4>4, <5>1, EventLogAssumption
        <5>5. /\ file'[i - 1].record = Record /\ file'[i - 1].place = written /\ ~file'[i - 1].newline
          BY <1>1, <1>4, <5>3, <5>4, ByteFacts
        <5> QED BY <1>4, <1>6, <4>1, <4>4, <5>2, <5>5 DEF Continues
      <4>5. j = 1 \/ j > 1 BY <1>5
      <4> QED BY <4>2, <4>3, <4>4, <4>5
    <3> QED BY <1>10, <3>1, <3>2
  <2>2. ASSUME NEW i \in DOMAIN file', NEW j \in DOMAIN file', i <= j
        PROVE  file'[i].record <= file'[j].record
    <3>1. CASE j \in DOMAIN file
      <4>1. i \in 1..Len(file) /\ j \in 1..Len(file) BY <1>4, <1>8, <1>9, <2>2, <3>1
      <4> QED BY <1>1, <1>8, <1>9, <2>2, <4>1 DEF Shape
    <3>2. CASE j \notin DOMAIN file
      <4>1. file'[j].record = Record BY <1>6, <1>8, <1>10, <3>2
      <4>2. \A r \in DOMAIN records : r <= Record BY <1>1 DEF LogType, Record
      <4> QED BY <2>1, <4>1, <4>2
    <3> QED BY <3>1, <3>2
  <2> QED BY <1>2, <2>1, <2>2 DEF Shape
<1>16. Writer'
  <2>1. /\ Len(file') = Len(file) + k /\ file'[Len(file')] = ByteOf(Record, n) /\ file' # <<>>
    <3>1. k \in 1..k /\ written + k = n BY <1>5
    <3>2. t[k] = ByteOf(Record, written + k) BY <3>1 DEF t
    <3>3. Len(file) + k # 0 BY <1>4, <1>5
    <3> QED BY <1>8, <3>1, <3>2, <3>3
  <2>2. n > 0 /\ (n # records[Record] => n < records[Record]) BY <1>4, <1>5
  <2>3. pc' \in {"write", "sync"} /\ (pc' = "sync" => n = records[Record]) /\ (pc' = "write" => n # records[Record])
    BY <1>3
  <2>4. records # <<>> BY <1>1, <1>2 DEF Writer
  <2>5. records[Record] <= MaxRecord BY <1>4, EventLogAssumption
  <2>6. written' = n /\ written' > 0 /\ pc' \notin {"idle", "open", "tail"} BY <1>3, <2>2, <2>3
  <2>7. Record' = Record /\ records' = records /\ acked' = acked /\ Record \notin acked BY <1>2, <1>4 DEF Record
  <2>8. ByteOf(Record, n)' = ByteOf(Record, n) BY <1>2, <1>3 DEF ByteOf, Record
  <2>9. CASE pc' = "write"
    <3>1. n < records[Record] BY <2>2, <2>3, <2>9
    <3> QED BY <2>1, <2>4, <2>5, <2>6, <2>7, <3>1, <2>9 DEF Writer, ByteOf
  <2>10. CASE pc' = "sync"
    <3>1. n = records[Record] BY <2>3, <2>10
    <3> QED BY <2>1, <2>4, <2>5, <2>6, <2>7, <3>1, <2>10 DEF Writer, ByteOf
  <2> QED BY <2>3, <2>9, <2>10
<1> QED BY <1>11, <1>12, <1>13, <1>14, <1>15, <1>16 DEF IInv

-----------------------------------------------------------------------------
(* The reader leaves the log and the writer alone.                         *)

LEMMA ReaderKeeps ==
  ASSUME IInv, UNCHANGED <<log, writer>>, ReaderType'
  PROVE  IInv'
<1>1. UNCHANGED <<file, synced, records, acked, pc, end, written>> BY DEF log, writer
<1>2. Shape' BY <1>1, LogKept DEF IInv
<1>3. LogType' /\ WriterType' BY <1>1 DEF IInv, LogType, WriterType
<1>4. Writer' /\ Durable' BY <1>1 DEF IInv, Writer, Durable, Terminated, Record, ByteOf
<1> QED BY <1>2, <1>3, <1>4 DEF IInv

LEMMA ReadStep == IInv /\ Read => IInv'
<1> SUFFICES ASSUME IInv, Read PROVE IInv' OBVIOUS
<1>1. /\ offset' = 0 /\ line' = <<>> /\ events' = <<>> /\ report' = "reading" /\ known' = acked
      /\ UNCHANGED <<log, writer>>
  BY DEF Read, FromTheStart
<1>2. acked' = acked BY <1>1 DEF log
<1>3. /\ line' \in Seq(Byte) /\ Len(line') = 0
      /\ events' \in Seq({Mixed} \cup DOMAIN records')
  BY <1>1
<1>4. cut' \in BOOLEAN BY DEF Read
<1>5. Len(line') <= MaxRecord + 1 BY <1>3, EventLogAssumption
<1>6. ReaderType' BY <1>1, <1>2, <1>3, <1>4, <1>5 DEF ReaderType
<1> QED BY <1>1, <1>6, ReaderKeeps

LEMMA ReadUntilStep == IInv /\ ReadUntil => IInv'
<1> SUFFICES ASSUME IInv, ReadUntil PROVE IInv' OBVIOUS
<1>1. LogType /\ ReaderType BY DEF IInv
<1>2. UNCHANGED <<log, writer, known, cut>> BY DEF ReadUntil
<1>3. records' = records /\ acked' = acked BY <1>2 DEF log
<1>4. SUFFICES /\ offset' \in Nat /\ line' \in Seq(Byte) /\ Len(line') <= MaxRecord + 1
               /\ events' \in Seq({Mixed} \cup DOMAIN records)
               /\ report' \in {"idle", "reading", "valid", "truncated", "invalid"}
  <2>1. known' \subseteq acked' BY <1>1, <1>2, <1>3 DEF ReaderType
  <2>2. cut' \in BOOLEAN BY <1>1, <1>2 DEF ReaderType
  <2>3. ReaderType' BY <1>3, <1>4, <2>1, <2>2 DEF ReaderType
  <2> QED BY <1>2, <2>3, ReaderKeeps
<1>5. CASE offset < Len(file)
  <2> DEFINE s == Append(line, file[offset + 1])
  <2>1. offset + 1 \in 1..Len(file) BY <1>1, <1>5 DEF LogType, ReaderType
  <2>2. file[offset + 1] \in Byte BY <1>1, <2>1, ElementOfSeq DEF LogType
  <2>3. s \in Seq(Byte) /\ Len(s) \in Nat BY <1>1, <2>2 DEF ReaderType
  <2>4. offset' \in Nat BY <1>1, <1>5 DEF ReadUntil, ReaderType
  <2> HIDE DEF s
  <2>5. CASE ~(Len(s) > MaxRecord + 1) /\ file[offset + 1].newline
    <3>1. Parse(s) BY <1>5, <2>5 DEF ReadUntil, s
    <3>2. line' = <<>> BY <3>1 DEF Parse
    <3>3. line' \in Seq(Byte) /\ Len(line') <= MaxRecord + 1 BY <3>2, EventLogAssumption
    <3>4. CASE IsRecord(s) /\ events' = Append(events, s[1].record) /\ UNCHANGED report
      <4>1. PICK r \in DOMAIN records : s = Whole(r) BY <3>4 DEF IsRecord
      <4>2. 1 \in 1..records[r] BY <1>1, LengthFacts, EventLogAssumption
      <4>3. s[1].record = r BY <4>1, <4>2 DEF Whole, ByteOf
      <4>4. events' \in Seq({Mixed} \cup DOMAIN records) BY <1>1, <3>4, <4>3 DEF ReaderType
      <4> QED BY <1>1, <2>4, <3>3, <3>4, <4>4 DEF ReaderType
    <3>5. CASE events' = Append(events, Mixed) /\ UNCHANGED report
      <4>1. events' \in Seq({Mixed} \cup DOMAIN records) BY <1>1, <3>5 DEF ReaderType
      <4> QED BY <1>1, <2>4, <3>3, <3>5, <4>1 DEF ReaderType
    <3>6. CASE report' = "invalid" /\ UNCHANGED events
      BY <1>1, <2>4, <3>3, <3>6 DEF ReaderType
    <3> QED BY <3>1, <3>4, <3>5, <3>6 DEF Parse
  <2>6. CASE Len(s) > MaxRecord + 1
    <3>1. report' = "invalid" /\ UNCHANGED <<line, events>> BY <1>5, <2>6 DEF ReadUntil, s
    <3> QED BY <1>1, <2>4, <3>1 DEF ReaderType
  <2>7. CASE ~(Len(s) > MaxRecord + 1) /\ ~file[offset + 1].newline
    <3>1. line' = s /\ UNCHANGED <<events, report>> BY <1>5, <2>7 DEF ReadUntil, s
    <3>2. Len(s) <= MaxRecord + 1 BY <2>3, <2>7, EventLogAssumption
    <3> QED BY <1>1, <2>3, <2>4, <3>1, <3>2 DEF ReaderType
  <2> QED BY <2>5, <2>6, <2>7
<1>6. CASE ~(offset < Len(file))
  <2>1. EndOfLog /\ UNCHANGED <<offset, line, events>> BY <1>6 DEF ReadUntil
  <2>2. line = <<>> \/ Len(line) > MaxRecord \/ Len(line) \in 1..MaxRecord
    BY <1>1, EventLogAssumption DEF ReaderType
  <2>3. report' \in {"valid", "invalid", "truncated"} BY <2>1, <2>2 DEF EndOfLog
  <2> QED BY <1>1, <2>1, <2>3 DEF ReaderType
<1> QED BY <1>5, <1>6

-----------------------------------------------------------------------------
\* The inductive invariant of the event log: what the writer left at its end, what
\* is synced, and that it is a sequence of whole records but for the last.
THEOREM Inductive == Spec => []IInv
<1>1. Init => IInv BY InitInv
<1>2. IInv /\ [Next]_vars => IInv'
  <2> SUFFICES ASSUME IInv, [Next]_vars PROVE IInv' OBVIOUS
  <2>1. CASE BeginAppend BY <2>1, BeginAppendStep
  <2>2. CASE Open BY <2>2, OpenStep
  <2>3. CASE TruncateTail BY <2>3, TruncateTailStep
  <2>4. CASE WriteAll BY <2>4, WriteAllStep
  <2>5. CASE SyncData BY <2>5, SyncDataStep
  <2>6. CASE Fail BY <2>6, FailStep
  <2>7. CASE PowerLoss BY <2>7, PowerLossStep
  <2>8. CASE Read BY <2>8, ReadStep
  <2>9. CASE ReadUntil BY <2>9, ReadUntilStep
  <2>10. CASE UNCHANGED vars
    <3>1. UNCHANGED <<log, writer>> /\ UNCHANGED <<offset, line, events, report, known, cut, records, acked>>
      BY <2>10 DEF vars, reader, log
    <3>2. ReaderType' BY <3>1 DEF IInv, ReaderType
    <3> QED BY <3>1, <3>2, ReaderKeeps
  <2> QED BY <2>1, <2>2, <2>3, <2>4, <2>5, <2>6, <2>7, <2>8, <2>9, <2>10 DEF Next
<1> QED BY <1>1, <1>2, PTL DEF Spec

\* The variables of the log, of its writer and of its reader keep their types.
THEOREM TypeCorrect == Spec => []TypeOK
<1>1. IInv => TypeOK BY DEF IInv, TypeOK, LogType, WriterType, ReaderType
<1> QED BY <1>1, Inductive, PTL

\* Every terminated line of events.jsonl is one whole record, however appends and
\* machines stop (append and truncate_torn_tail of events.rs).
THEOREM LinesWhole == Spec => []LinesAreRecords
<1>1. IInv => LinesAreRecords
  BY DEF IInv, Shape, Starts, Continues, LinesAreRecords, LogType
<1> QED BY <1>1, Inductive, PTL

\* An event whose append succeeded is never lost again (append of events.rs).
THEOREM AcknowledgedKept == Spec => []AcknowledgedStay
<1>1. IInv => AcknowledgedStay
  <2> SUFFICES ASSUME IInv, NEW r \in acked
               PROVE \E i \in Newlines : file[i].record = r /\ \A j \in 1..i : file[j].record <= r
    BY DEF AcknowledgedStay
  <2>1. LogType /\ Shape /\ Durable BY DEF IInv
  <2>2. PICK i \in 1..synced : file[i].newline /\ file[i].record = r BY <2>1 DEF Durable
  <2>3. i \in DOMAIN file /\ \A j \in 1..i : j \in DOMAIN file /\ j <= i BY <2>1, <2>2 DEF LogType
  <2>4. \A j \in 1..i : file[j].record <= r BY <2>1, <2>2, <2>3 DEF Shape
  <2> QED BY <2>2, <2>3, <2>4 DEF Newlines
<1> QED BY <1>1, Inductive, PTL

-----------------------------------------------------------------------------
(* The refinement of DurableLog.                                           *)

\* The lines of the log are whole in every state of the invariant, so what it
\* keeps are the records of its newlines, in order.
KeptFacts ==
  /\ Kept = {file[i].record : i \in Newlines}
  /\ acked \subseteq Kept
  /\ Kept \subseteq 1..MaxRecords

LEMMA KeptIs == IInv => KeptFacts
<1> SUFFICES ASSUME IInv PROVE KeptFacts OBVIOUS
<1>1. LogType /\ Shape /\ Durable BY DEF IInv
<1>2. LinesAreRecords BY <1>1 DEF Shape, Starts, Continues, LinesAreRecords, LogType
<1>3. Kept = {file[i].record : i \in Newlines} BY <1>2 DEF Kept
<1>4. acked \subseteq Kept BY <1>1, <1>3 DEF Durable, LogType, Newlines
<1>5. Kept \subseteq 1..MaxRecords
  BY <1>1, <1>3, EventLogAssumption DEF Shape, LogType, Newlines
<1> QED BY <1>3, <1>4, <1>5 DEF KeptFacts

LEMMA KeptIsNext == IInv' => KeptFacts'
BY KeptIs, PTL

\* Steps that leave the bytes and the acknowledgements alone.
LEMMA LogStutters ==
  ASSUME IInv, IInv', UNCHANGED <<file, acked>>
  PROVE  UNCHANGED Promise!vars
<1>1. Newlines' = Newlines BY DEF Newlines
<1>2. Kept' = Kept BY <1>1, KeptIs, KeptIsNext DEF KeptFacts
<1> QED BY <1>2 DEF Promise!vars

\* Cutting at the last newline, and at any place after what is synced.
LEMMA CutLoses ==
  ASSUME IInv, IInv', NEW n \in synced..Len(file), file' = SubSeq(file, 1, n),
         UNCHANGED <<synced, acked>>
  PROVE  Promise!Lose
<1>1. LogType /\ Shape /\ Durable BY DEF IInv
<1>2. n \in 0..Len(file) /\ synced <= n BY <1>1 DEF LogType
<1>3. /\ DOMAIN file' = 1..n /\ DOMAIN file = 1..Len(file)
      /\ \A i \in 1..n : file'[i] = file[i] /\ i \in DOMAIN file
  BY <1>1, <1>2, CutFacts DEF LogType
<1>4. Newlines' = {i \in Newlines : i <= n}
  BY <1>2, <1>3 DEF Newlines
<1>5. Kept = {file[i].record : i \in Newlines} BY KeptIs DEF KeptFacts
<1>6. Kept' = {file'[i].record : i \in Newlines'} /\ acked' \subseteq Kept'
  BY KeptIsNext DEF KeptFacts
<1>7. Kept' = {file[i].record : i \in {j \in Newlines : j <= n}}
  BY <1>3, <1>4, <1>6 DEF Newlines
<1> DEFINE lost == Kept \ Kept'
<1>8. Kept' \subseteq Kept /\ Kept' = Kept \ lost BY <1>5, <1>7
<1>9. lost \in SUBSET (Kept \ acked) BY <1>6
<1>10. ASSUME NEW e \in lost, NEW k \in Kept' PROVE k < e
  <2>1. PICK i \in Newlines : e = file[i].record BY <1>5
  <2>2. PICK j \in Newlines : j <= n /\ k = file[j].record BY <1>7
  <2>3. i > n BY <1>3, <1>7, <2>1 DEF Newlines
  <2>4. i \in DOMAIN file /\ j \in DOMAIN file /\ j <= i BY <1>2, <1>3, <2>2, <2>3 DEF Newlines
  <2>5. k <= e BY <1>1, <2>1, <2>2, <2>4 DEF Shape
  <2>6. k # e /\ e \in 1..MaxRecords /\ k \in 1..MaxRecords BY <1>8, KeptIs DEF KeptFacts
  <2> QED BY <2>5, <2>6, EventLogAssumption
<1> HIDE DEF lost
<1>11. \E l \in SUBSET (Kept \ acked) :
         (\A e \in l, k \in Kept \ l : k < e) /\ Kept' = Kept \ l
  BY <1>8, <1>9, <1>10
<1> QED BY <1>11 DEF Promise!Lose

\* Every step of the log is a step of DurableLog or none.
LEMMA LogStep == IInv /\ IInv' /\ [Next]_vars => [Promise!Next]_(Promise!vars)
<1> SUFFICES ASSUME IInv, IInv', [Next]_vars PROVE [Promise!Next]_(Promise!vars) OBVIOUS
<1>1. LogType /\ WriterType /\ Shape /\ Writer /\ Durable BY DEF IInv
<1>2. /\ Kept = {file[i].record : i \in Newlines} /\ Kept \subseteq 1..MaxRecords
      /\ Kept' = {file'[i].record : i \in Newlines'} /\ Kept' \subseteq 1..MaxRecords
      /\ acked \subseteq Kept
  BY KeptIs, KeptIsNext DEF KeptFacts
<1>3. CASE UNCHANGED <<file, acked>> BY <1>3, LogStutters
<1>4. CASE TruncateTail
  <2>1. /\ synced' = synced /\ acked' = acked
        /\ \/ file' = file
           \/ \E n \in Newlines \cup {0} : file' = SubSeq(file, 1, n)
    BY <1>4 DEF TruncateTail, SetLen, log
  <2>2. CASE file' = file BY <2>1, <2>2, LogStutters
  <2>3. CASE \E n \in Newlines \cup {0} : file' = SubSeq(file, 1, n)
    <3>1. PICK n \in Newlines \cup {0} : file' = SubSeq(file, 1, n) BY <2>3
    <3>2. n \in 0..Len(file) BY <1>1, <3>1 DEF Newlines, LogType
    <3>3. Len(file') = n BY <1>1, <3>1, <3>2, CutFacts DEF LogType
    <3>4. n \in synced..Len(file)
      <4>1. synced' \in 0..Len(file') BY DEF IInv, LogType
      <4> QED BY <1>1, <2>1, <3>2, <3>3, <4>1 DEF LogType
    <3> QED BY <2>1, <3>1, <3>4, CutLoses DEF Promise!Next
  <2> QED BY <2>1, <2>2, <2>3
<1>5. CASE PowerLoss
  <2>1. PICK n \in synced..Len(file) : file' = SubSeq(file, 1, n) BY <1>5 DEF PowerLoss
  <2> QED BY <1>5, <2>1, CutLoses DEF PowerLoss, Promise!Next
<1>6. CASE SyncData
  <2>1. file' = file /\ acked' = acked \cup {Record} /\ pc = "sync" BY <1>6 DEF SyncData
  <2>2. /\ Len(file) \in DOMAIN file /\ file[Len(file)] = ByteOf(Record, records[Record])
        /\ DOMAIN file = 1..Len(file)
    BY <1>1, <2>1 DEF Writer, LogType
  <2>3. file[Len(file)].record = Record /\ file[Len(file)].newline
    <3>1. Record \in DOMAIN records /\ records[Record] <= MaxRecord
      BY <1>1, <2>1 DEF Writer, LogType, Record
    <3>2. records[Record] \in 1..records[Record] BY <1>1, <3>1, LengthFacts
    <3> QED BY <1>1, <2>2, <3>1, <3>2, ByteFacts
  <2>4. Kept' = Kept BY <1>2, <2>1 DEF Newlines
  <2>5. Record \in Kept BY <1>2, <2>2, <2>3 DEF Newlines
  <2>6. \A k \in Kept : k <= Record
    BY <1>1, <1>2, <2>2, <2>3 DEF Shape, Newlines
  <2>7. Promise!Acknowledge(Record) BY <2>1, <2>4, <2>5, <2>6 DEF Promise!Acknowledge
  <2> QED BY <1>2, <2>5, <2>7 DEF Promise!Next
<1>7. CASE WriteAll
  <2>1. PICK n \in (written + 1)..records[Record] :
          file' = file \o [i \in 1..(n - written) |-> ByteOf(Record, written + i)]
    BY <1>7 DEF WriteAll
  <2>2. /\ pc = "write" /\ acked' = acked /\ Record \in DOMAIN records /\ records[Record] <= MaxRecord
        /\ Record \notin acked
    BY <1>1, <1>7 DEF WriteAll, Writer, LogType, Record
  <2>3. /\ DOMAIN file' = 1..(Len(file) + (n - written)) /\ DOMAIN file = 1..Len(file)
        /\ n - written \in Nat \ {0}
        /\ \A i \in 1..Len(file) : file'[i] = file[i]
        /\ \A i \in 1..(n - written) : file'[Len(file) + i] = ByteOf(Record, written + i)
    <3> DEFINE more == [i \in 1..(n - written) |-> ByteOf(Record, written + i)]
    <3>1. records[Record] \in 2..(MaxRecord + 1) BY <1>1, <2>2, LengthFacts
    <3>2. n - written \in Nat \ {0} /\ written \in Nat BY <1>1, <2>1, <3>1 DEF WriterType
    <3>3. \A i \in 1..(n - written) : written + i \in 1..records[Record]
      BY <2>1, <3>1, <3>2
    <3>4. more \in [1..(n - written) -> Byte] BY <1>1, <2>2, <3>3, ByteFacts
    <3>5. file \in Seq(Byte) BY <1>1 DEF LogType
    <3>6. file' = file \o more BY <2>1
    <3> HIDE DEF more
    <3>7. /\ DOMAIN file' = 1..(Len(file) + (n - written))
          /\ \A i \in 1..Len(file) : file'[i] = file[i]
          /\ \A i \in 1..(n - written) : file'[Len(file) + i] = more[i]
      <4>1. \A m \in Nat : more \in [1..m -> Byte] =>
              /\ DOMAIN (file \o more) = 1..(Len(file) + m)
              /\ \A i \in 1..Len(file) : (file \o more)[i] = file[i]
              /\ \A i \in 1..m : (file \o more)[Len(file) + i] = more[i]
        BY <3>5, GrowFacts
      <4> QED BY <3>2, <3>4, <3>6, <4>1
    <3> QED BY <3>2, <3>5, <3>7 DEF more
  <2>4. \A i \in DOMAIN file' \ DOMAIN file : file'[i].record = Record
    <3>1. SUFFICES ASSUME NEW i \in DOMAIN file' \ DOMAIN file PROVE file'[i].record = Record OBVIOUS
    <3>2. i - Len(file) \in 1..(n - written) /\ i = Len(file) + (i - Len(file))
      BY <1>1, <2>3, <3>1 DEF LogType
    <3>3. file'[i] = ByteOf(Record, written + (i - Len(file))) BY <2>3, <3>2
    <3> QED BY <3>3 DEF ByteOf
  <2>5. Newlines \subseteq Newlines' /\ \A i \in Newlines : file'[i] = file[i]
    BY <1>1, <2>3 DEF Newlines, LogType
  <2>6. Kept \subseteq Kept' /\ Kept' \subseteq Kept \cup {Record}
    <3>1. Kept \subseteq Kept' BY <1>2, <2>5
    <3>2. \A i \in Newlines' : i \in Newlines \/ file'[i].record = Record
      BY <2>3, <2>4 DEF Newlines
    <3> QED BY <1>2, <2>5, <3>1, <3>2
  <2>7. \A k \in Kept : k <= Record
    <3>1. SUFFICES ASSUME NEW i \in DOMAIN file PROVE file[i].record <= Record
      BY <1>2 DEF Newlines
    <3>2. CASE written = 0
      <4>1. file[i].record < Record BY <1>1, <2>2, <3>2 DEF Writer
      <4>2. file[i].record \in DOMAIN records BY <1>1 DEF Shape
      <4> QED BY <1>1, <2>2, <4>1, <4>2 DEF LogType
    <3>3. CASE written # 0
      <4>1. Len(file) \in DOMAIN file /\ file[Len(file)] = ByteOf(Record, written)
        BY <1>1, <2>2, <2>3, <3>3 DEF Writer, LogType, WriterType
      <4>2. file[Len(file)].record = Record BY <4>1 DEF ByteOf
      <4>3. i <= Len(file) BY <2>3
      <4> QED BY <1>1, <4>1, <4>2, <4>3 DEF Shape
    <3> QED BY <3>2, <3>3
  <2>8. CASE Kept' = Kept BY <2>2, <2>8 DEF Promise!vars
  <2>9. CASE Kept' # Kept
    <3>1. Record \notin Kept /\ Kept' = Kept \cup {Record} /\ Record \in 1..MaxRecords
      BY <1>2, <2>6, <2>9
    <3>2. \A k \in Kept : k < Record
      BY <1>2, <2>7, <3>1, EventLogAssumption
    <3> QED BY <2>2, <3>1, <3>2 DEF Promise!Next, Promise!Append
  <2> QED BY <2>8, <2>9
<1> QED
  BY <1>3, <1>4, <1>5, <1>6, <1>7
     DEF Next, BeginAppend, Open, Fail, Read, ReadUntil, vars, log

\* The bytes of events.jsonl, torn, repaired and cut by the loss of power, implement
\* a log of whole events that loses only the latest and no acknowledged one.
THEOREM BytesImplementLog == Spec => ImplementsLog
<1>1. Init => Promise!Init
  <2>1. Init => Newlines = {} BY DEF Init, Newlines
  <2> QED BY <2>1 DEF Init, Promise!Init, Kept
<1>2. IInv /\ IInv' /\ [Next]_vars => [Promise!Next]_(Promise!vars) BY LogStep
<1> QED BY <1>1, <1>2, Inductive, PTL DEF Spec, ImplementsLog, Promise!Spec

\* What DurableLog promises, it keeps, and the bytes with it: an acknowledged event is
\* in the log.
THEOREM AcknowledgedIsKept == Spec => []Promise!AckedIsKept
<1>1. Promise!Init => Promise!AckedIsKept BY DEF Promise!Init, Promise!AckedIsKept
<1>2. Promise!AckedIsKept /\ [Promise!Next]_(Promise!vars) => Promise!AckedIsKept'
  BY DEF Promise!Next, Promise!vars, Promise!Append, Promise!Acknowledge, Promise!Lose,
         Promise!AckedIsKept
<1>3. Promise!Spec => []Promise!AckedIsKept BY <1>1, <1>2, PTL DEF Promise!Spec
<1> QED BY <1>3, BytesImplementLog, PTL DEF ImplementsLog

-----------------------------------------------------------------------------
(* The reader.                                                             *)

Told == {events[k] : k \in DOMAIN events}

\* No record was begun after it was whole.
Once == \A i, j \in DOMAIN file : i < j /\ file[i].newline => file[i].record < file[j].record

\* What the reader reads next is the log it began to read: nothing was cut, or not
\* from here, since a record that it must report is still to come.
Faithful == ~cut \/ \E i \in Newlines : i > offset /\ file[i].record \in known

\* The line of the reader is the beginning of the record that ends at offset.
Begins(r) ==
  /\ file[offset] = ByteOf(r, Len(line)) /\ Len(line) < records[r]
  /\ \A j \in 1..Len(line) : line[j] = ByteOf(r, j)
LineInv ==
  report = "reading" /\ Faithful =>
    /\ offset <= Len(file)
    /\ line = <<>> => offset = 0 \/ file[offset].newline
    /\ line # <<>> => offset > 0 /\ \E r \in DOMAIN records : Begins(r)

KnownInv ==
  /\ report = "reading" =>
       \A i \in Newlines : i <= offset /\ file[i].record \in known => file[i].record \in Told
  /\ report \in {"valid", "truncated", "invalid"} => known \subseteq Told

\* Where the newlines of the events are.
Places(pos) ==
  /\ \A k \in 1..Len(events) : pos[k] \in Newlines /\ file[pos[k]].record = events[k]
  /\ \A k, l \in 1..Len(events) : k < l => pos[k] < pos[l]
  /\ \A i \in Newlines : i <= offset => \E k \in 1..Len(events) : pos[k] = i
PlaceInv ==
  report # "idle" /\ ~cut =>
    /\ report # "invalid" /\ offset <= Len(file)
    /\ \E pos \in [1..Len(events) -> 1..offset] : Places(pos)

RInv == Once /\ LineInv /\ KnownInv /\ PlaceInv

LEMMA ReaderInit == Init => RInv
<1> SUFFICES ASSUME Init PROVE RInv OBVIOUS
<1>1. DOMAIN file = {} BY DEF Init
<1> QED BY <1>1 DEF Init, RInv, Once, LineInv, KnownInv, PlaceInv

\* The sequences have the domains one expects.
LEMMA LogFacts ==
  ASSUME IInv
  PROVE  /\ Len(file) \in Nat /\ DOMAIN file = 1..Len(file)
         /\ Len(line) \in Nat /\ DOMAIN line = 1..Len(line)
         /\ Len(events) \in Nat /\ DOMAIN events = 1..Len(events)
         /\ offset \in Nat
         /\ known \subseteq acked /\ acked \subseteq DOMAIN records
         /\ DOMAIN records \subseteq Nat \ {0}
BY DEF IInv, LogType, ReaderType

\* A byte of the log is that of its record at its place.
LEMMA ByteIs ==
  ASSUME IInv, NEW i \in DOMAIN file
  PROVE  file[i] = ByteOf(file[i].record, file[i].place)
<1>1. file[i] \in Byte BY ElementOfSeq DEF IInv, LogType
<1>2. file[i].newline <=> file[i].place = records[file[i].record] BY DEF IInv, Shape
<1>3. file[i].newline = (file[i].place = records[file[i].record]) BY <1>1, <1>2 DEF Byte
<1>4. file[i] = [record |-> file[i].record, place |-> file[i].place, newline |-> file[i].newline]
  BY <1>1 DEF Byte
<1> QED BY <1>3, <1>4 DEF ByteOf

\* What was known to be acknowledged is in the log.
LEMMA KnownIsThere ==
  ASSUME IInv, NEW r \in known
  PROVE  \E i \in Newlines : file[i].record = r /\ i <= Len(file)
<1>1. PICK i \in 1..synced : file[i].newline /\ file[i].record = r
  BY LogFacts DEF IInv, Durable
<1>2. i \in DOMAIN file /\ i <= Len(file) BY LogFacts DEF IInv, LogType
<1> QED BY <1>1, <1>2 DEF Newlines

\* Steps that leave the bytes and the reader alone; records may be begun.
LEMMA QuietKeeps ==
  ASSUME IInv, RInv, UNCHANGED <<file, reader>>, DOMAIN records \subseteq DOMAIN records',
         \A r \in DOMAIN records : records'[r] = records[r]
  PROVE  RInv'
<1>1. UNCHANGED <<offset, line, events, report, known, cut>> BY DEF reader
<1>2. Newlines' = Newlines /\ Told' = Told BY <1>1 DEF Newlines, Told
<1>3. Once' BY DEF RInv, Once
<1>4. LineInv'
  <2>1. Faithful' = Faithful BY <1>1, <1>2 DEF Faithful
  <2>2. ASSUME NEW r \in DOMAIN records, Begins(r) PROVE r \in DOMAIN records' /\ Begins(r)'
    <3>1. \A i : ByteOf(r, i)' = ByteOf(r, i) BY DEF ByteOf
    <3> QED BY <1>1, <2>2, <3>1 DEF Begins
  <2> QED BY <1>1, <2>1, <2>2 DEF RInv, LineInv
<1>5. KnownInv' BY <1>1, <1>2 DEF RInv, KnownInv
<1>6. PlaceInv' BY <1>1, <1>2 DEF RInv, PlaceInv, Places
<1> QED BY <1>3, <1>4, <1>5, <1>6 DEF RInv

-----------------------------------------------------------------------------
\* What a write adds to the log is of the writer's record.
LEMMA WriteFacts ==
  ASSUME IInv, Once, WriteAll
  PROVE  /\ Len(file') \in Nat /\ Len(file) <= Len(file') /\ DOMAIN file' = 1..Len(file')
         /\ \A i \in DOMAIN file : file'[i] = file[i]
         /\ \A i \in DOMAIN file' \ DOMAIN file :
              file'[i].record = Record /\ (file'[i].newline => i = Len(file'))
         /\ \A i \in DOMAIN file : file[i].newline => file[i].record < Record
         /\ Record \notin acked /\ UNCHANGED <<records, acked, reader>>
<1>1. LogType /\ WriterType /\ Shape /\ Writer BY DEF IInv
<1>2. PICK n \in (written + 1)..records[Record] :
        file' = file \o [i \in 1..(n - written) |-> ByteOf(Record, written + i)]
  BY DEF WriteAll
<1>3. /\ pc = "write" /\ UNCHANGED <<records, acked, reader>>
      /\ Record \in DOMAIN records /\ records[Record] <= MaxRecord /\ Record \notin acked
  BY <1>1 DEF WriteAll, Writer, LogType, Record
<1> DEFINE more == [i \in 1..(n - written) |-> ByteOf(Record, written + i)]
<1>4. records[Record] \in 2..(MaxRecord + 1) BY <1>1, <1>3, LengthFacts
<1>5. n - written \in Nat \ {0} /\ written \in Nat /\ n <= records[Record]
  BY <1>1, <1>2, <1>4 DEF WriterType
<1>6. \A i \in 1..(n - written) : written + i \in 1..records[Record] BY <1>2, <1>4, <1>5
<1>7. more \in [1..(n - written) -> Byte] BY <1>1, <1>3, <1>6, ByteFacts
<1>8. file \in Seq(Byte) BY <1>1 DEF LogType
<1> HIDE DEF more
<1>9. file' = file \o more BY <1>2 DEF more
<1>10. /\ Len(file') = Len(file) + (n - written) /\ DOMAIN file' = 1..(Len(file) + (n - written))
       /\ \A i \in 1..Len(file) : file'[i] = file[i]
       /\ \A i \in 1..(n - written) : file'[Len(file) + i] = more[i]
  <2>1. \A m \in Nat : more \in [1..m -> Byte] =>
          /\ Len(file \o more) = Len(file) + m
          /\ DOMAIN (file \o more) = 1..(Len(file) + m)
          /\ \A i \in 1..Len(file) : (file \o more)[i] = file[i]
          /\ \A i \in 1..m : (file \o more)[Len(file) + i] = more[i]
    BY <1>8, GrowFacts
  <2> QED BY <1>5, <1>7, <1>9, <2>1
<1>11. DOMAIN file = 1..Len(file) /\ Len(file) \in Nat BY LogFacts
<1>12. ASSUME NEW i \in DOMAIN file' \ DOMAIN file
       PROVE  file'[i].record = Record /\ (file'[i].newline => i = Len(file'))
  <2>1. i - Len(file) \in 1..(n - written) /\ i = Len(file) + (i - Len(file))
    BY <1>5, <1>10, <1>11
  <2>2. file'[i] = ByteOf(Record, written + (i - Len(file))) BY <1>10, <2>1 DEF more
  <2>3. file'[i].record = Record /\ (file'[i].newline => written + (i - Len(file)) = records[Record])
    BY <1>1, <1>3, <1>6, <2>1, <2>2, ByteFacts
  <2> DEFINE j == i - Len(file)
  <2>4. /\ j \in 1..(n - written) /\ i = Len(file) + j
        /\ Len(file') = Len(file) + (n - written)
    BY <1>10, <2>1
  <2> HIDE DEF j
  <2>5. written + j = records[Record] => i = Len(file')
    BY <1>4, <1>5, <1>11, <2>4
  <2>6. file'[i].newline => written + j = records[Record] BY <2>3 DEF j
  <2> QED BY <2>3, <2>5, <2>6
<1>13. ASSUME NEW i \in DOMAIN file, file[i].newline PROVE file[i].record < Record
  <2>1. CASE written = 0 BY <1>1, <1>3, <1>13, <2>1 DEF Writer
  <2>2. CASE written # 0
    <3>1. /\ Len(file) \in DOMAIN file /\ file[Len(file)] = ByteOf(Record, written)
          /\ written < records[Record]
      BY <1>1, <1>3, <1>5, <1>11, <2>2 DEF Writer
    <3>2. file[Len(file)].record = Record /\ ~file[Len(file)].newline
      <4>1. written \in 1..records[Record] /\ written # records[Record] BY <1>4, <1>5, <2>2, <3>1
      <4> QED BY <1>1, <1>3, <3>1, <4>1, ByteFacts
    <3>3. i < Len(file)
      <4>1. i # Len(file) BY <1>13, <3>2
      <4> QED BY <1>11, <4>1
    <3> QED BY <1>13, <3>1, <3>2, <3>3 DEF Once
  <2> QED BY <2>1, <2>2
<1> QED BY <1>3, <1>5, <1>10, <1>11, <1>12, <1>13

LEMMA WriteKeeps == IInv /\ RInv /\ WriteAll => RInv'
<1> SUFFICES ASSUME IInv, RInv, WriteAll PROVE RInv' OBVIOUS
<1>1. Once /\ LineInv /\ KnownInv /\ PlaceInv BY DEF RInv
<1>2. /\ Len(file') \in Nat /\ Len(file) <= Len(file') /\ DOMAIN file' = 1..Len(file')
      /\ \A i \in DOMAIN file : file'[i] = file[i]
      /\ \A i \in DOMAIN file' \ DOMAIN file :
           file'[i].record = Record /\ (file'[i].newline => i = Len(file'))
      /\ \A i \in DOMAIN file : file[i].newline => file[i].record < Record
      /\ Record \notin acked /\ UNCHANGED <<records, acked, reader>>
  BY <1>1, WriteFacts
<1>3. UNCHANGED <<offset, line, events, report, known, cut>> BY <1>2 DEF reader
<1>4. /\ Len(file) \in Nat /\ DOMAIN file = 1..Len(file) /\ offset \in Nat
      /\ known \subseteq acked
  BY LogFacts
<1>5. DOMAIN file \subseteq DOMAIN file' BY <1>2, <1>4
<1>6. Newlines \subseteq Newlines' /\ \A i \in Newlines : file'[i] = file[i] /\ i \in DOMAIN file
  BY <1>2, <1>5 DEF Newlines
<1>7. \A i \in Newlines' : file'[i].record \in known \/ i <= Len(file) => i \in Newlines
  BY <1>2, <1>4 DEF Newlines
<1>8. Told' = Told BY <1>3 DEF Told
<1>9. Once'
  <2> SUFFICES ASSUME NEW i \in DOMAIN file', NEW j \in DOMAIN file', i < j, file'[i].newline
               PROVE  file'[i].record < file'[j].record
    BY DEF Once
  <2>1. i \in DOMAIN file /\ file'[i] = file[i]
    <3>1. i # Len(file') BY <1>2
    <3> QED BY <1>2, <3>1
  <2>2. CASE j \in DOMAIN file
    <3>1. file'[j] = file[j] BY <1>2, <2>2
    <3> QED BY <1>1, <2>1, <2>2, <3>1 DEF Once
  <2>3. CASE j \notin DOMAIN file
    <3>1. file'[j].record = Record BY <1>2, <2>3
    <3> QED BY <1>2, <2>1, <3>1
  <2> QED BY <2>2, <2>3
<1>10. LineInv'
  <2>1. Faithful' => Faithful BY <1>3, <1>6, <1>7 DEF Faithful
  <2>2. offset > 0 /\ offset <= Len(file) => file'[offset] = file[offset] BY <1>2, <1>4
  <2>3. ASSUME NEW r \in DOMAIN records, Begins(r), offset > 0, offset <= Len(file)
        PROVE  r \in DOMAIN records' /\ Begins(r)'
    <3>1. records' = records /\ \A i : ByteOf(r, i)' = ByteOf(r, i) BY <1>2 DEF ByteOf
    <3> QED BY <1>3, <2>2, <2>3, <3>1 DEF Begins
  <2>4. SUFFICES ASSUME (report = "reading")', Faithful'
                 PROVE  (/\ offset <= Len(file)
                         /\ line = <<>> => offset = 0 \/ file[offset].newline
                         /\ line # <<>> => offset > 0 /\ \E r \in DOMAIN records : Begins(r))'
    BY DEF LineInv
  <2>5. /\ offset <= Len(file)
        /\ line = <<>> => offset = 0 \/ file[offset].newline
        /\ line # <<>> => offset > 0 /\ \E r \in DOMAIN records : Begins(r)
    BY <1>1, <1>3, <2>1, <2>4 DEF LineInv
  <2>6. offset' <= Len(file') BY <1>2, <1>3, <1>4, <2>5
  <2>7. line' = <<>> => offset' = 0 \/ file'[offset'].newline
    BY <1>3, <1>4, <2>2, <2>5
  <2>8. line' # <<>> => offset' > 0 /\ \E r \in DOMAIN records' : Begins(r)'
    BY <1>3, <2>3, <2>5
  <2> QED BY <2>6, <2>7, <2>8
<1>11. KnownInv' BY <1>1, <1>3, <1>6, <1>7, <1>8 DEF KnownInv
<1>12. PlaceInv'
  <2>1. SUFFICES ASSUME report # "idle", ~cut
                 PROVE  /\ report # "invalid" /\ offset <= Len(file')
                        /\ \E pos \in [1..Len(events) -> 1..offset] : Places(pos)'
    BY <1>3 DEF PlaceInv
  <2>2. report # "invalid" /\ offset <= Len(file) BY <1>1, <2>1 DEF PlaceInv
  <2>3. PICK pos \in [1..Len(events) -> 1..offset] : Places(pos) BY <1>1, <2>1 DEF PlaceInv
  <2>4. \A i \in Newlines' : i <= offset => i \in Newlines
    BY <1>2, <1>4, <1>7, <2>2 DEF Newlines
  <2>5. Places(pos)' BY <1>3, <1>6, <2>3, <2>4 DEF Places
  <2> QED BY <1>2, <1>4, <2>2, <2>5
<1> QED BY <1>9, <1>10, <1>11, <1>12 DEF RInv

\* A cut leaves what it leaves in place.
LEMMA CutOnce ==
  ASSUME IInv, Once, NEW n \in synced..Len(file), file' = SubSeq(file, 1, n)
  PROVE  /\ Once' /\ Len(file') = n /\ n <= Len(file) /\ n \in Nat
         /\ DOMAIN file' = 1..n
         /\ \A i \in 1..n : file'[i] = file[i] /\ i \in DOMAIN file
<1>1. n \in 0..Len(file) BY DEF IInv, LogType
<1>2. /\ Len(file') = n /\ DOMAIN file' = 1..n
      /\ \A i \in 1..n : file'[i] = file[i] /\ i \in DOMAIN file
  BY <1>1, CutFacts DEF IInv, LogType
<1>3. Once' BY <1>2, ZenonT(60) DEF Once
<1> QED BY <1>1, <1>2, <1>3, LogFacts

\* Of a log that was cut, what still has to be reported was not.
LEMMA SetLenKeepsReader ==
  ASSUME IInv, RInv, NEW n \in synced..Len(file), SetLen(n)
  PROVE  RInv'
<1>1. Once /\ LineInv /\ KnownInv BY DEF RInv
<1>2. /\ file' = SubSeq(file, 1, n) /\ cut' = TRUE
      /\ UNCHANGED <<records, offset, line, events, report, known>>
  BY DEF SetLen
<1>3. /\ Once' /\ Len(file') = n /\ n <= Len(file) /\ n \in Nat
      /\ DOMAIN file' = 1..n
      /\ \A i \in 1..n : file'[i] = file[i] /\ i \in DOMAIN file
  BY <1>1, <1>2, CutOnce
<1>4. Newlines' \subseteq Newlines /\ \A i \in Newlines' : file'[i] = file[i] /\ i \in 1..n
  BY <1>3 DEF Newlines
<1>5. Told' = Told /\ offset \in Nat BY <1>2, LogFacts DEF Told
<1>6. LineInv'
  <2>1. SUFFICES ASSUME (report = "reading")', Faithful'
                 PROVE  (/\ offset <= Len(file)
                         /\ line = <<>> => offset = 0 \/ file[offset].newline
                         /\ line # <<>> => offset > 0 /\ \E r \in DOMAIN records : Begins(r))'
    BY DEF LineInv
  <2>2. PICK i \in Newlines' : i > offset /\ file'[i].record \in known
    BY <1>2, <2>1 DEF Faithful
  <2>3. Faithful /\ i <= n BY <1>4, <2>2 DEF Faithful
  <2>4. /\ line = <<>> => offset = 0 \/ file[offset].newline
        /\ line # <<>> => offset > 0 /\ \E r \in DOMAIN records : Begins(r)
    BY <1>1, <1>2, <2>1, <2>3 DEF LineInv
  <2>5. offset < n BY <1>3, <1>4, <1>5, <2>2
  <2>6. offset > 0 => file'[offset] = file[offset] BY <1>3, <1>5, <2>5
  <2>7. offset' <= Len(file') BY <1>2, <1>3, <1>5, <2>5
  <2>8. line' = <<>> => offset' = 0 \/ file'[offset'].newline
    <3>1. CASE offset = 0 BY <1>2, <3>1
    <3>2. CASE offset # 0
      <4>1. offset > 0 /\ offset' = offset BY <1>2, <1>5, <3>2
      <4>2. file'[offset'] = file[offset] BY <2>6, <4>1
      <4> QED BY <1>2, <2>4, <3>2, <4>2
    <3> QED BY <3>1, <3>2
  <2>9. ASSUME NEW r \in DOMAIN records, Begins(r), offset > 0
        PROVE  r \in DOMAIN records' /\ Begins(r)'
    <3>1. \A j : ByteOf(r, j)' = ByteOf(r, j) BY <1>2 DEF ByteOf
    <3> QED BY <1>2, <2>6, <2>9, <3>1 DEF Begins
  <2>10. line' # <<>> => offset' > 0 /\ \E r \in DOMAIN records' : Begins(r)'
    BY <1>2, <2>4, <2>9
  <2> QED BY <2>7, <2>8, <2>10
<1>7. KnownInv' BY <1>1, <1>2, <1>4, <1>5 DEF KnownInv
<1>8. PlaceInv' BY <1>2 DEF PlaceInv
<1> QED BY <1>3, <1>6, <1>7, <1>8 DEF RInv

LEMMA TailKeeps == IInv /\ RInv /\ TruncateTail /\ IInv' => RInv'
<1> SUFFICES ASSUME IInv, RInv, TruncateTail, IInv' PROVE RInv' OBVIOUS
<1>1. (\E n \in Newlines \cup {0} : SetLen(n)) \/ UNCHANGED <<log, pc, written, reader>>
  BY DEF TruncateTail
<1>2. ASSUME NEW n \in Newlines \cup {0}, SetLen(n) PROVE RInv'
  <2>1. n \in 0..Len(file) BY LogFacts DEF Newlines
  <2>2. /\ file' = SubSeq(file, 1, n) /\ synced' = synced BY <1>2 DEF SetLen
  <2>3. Len(file') = n BY <2>1, <2>2, CutFacts DEF IInv, LogType
  <2>4. synced' \in 0..Len(file') BY DEF IInv, LogType
  <2>5. n \in synced..Len(file) BY <2>1, <2>2, <2>3, <2>4, LogFacts
  <2> QED BY <1>2, <2>5, SetLenKeepsReader
<1>3. CASE UNCHANGED <<log, pc, written, reader>>
  <2>1. UNCHANGED <<file, reader, records>> BY <1>3 DEF log
  <2> QED BY <2>1, QuietKeeps
<1> QED BY <1>1, <1>2, <1>3

LEMMA PowerLossKeeps == IInv /\ RInv /\ PowerLoss => RInv'
<1> SUFFICES ASSUME IInv, RInv, PowerLoss PROVE RInv' OBVIOUS
<1>1. PICK n \in synced..Len(file) : file' = SubSeq(file, 1, n) BY DEF PowerLoss
<1>2. Once' BY <1>1, CutOnce DEF RInv
<1>3. report' = "idle" BY DEF PowerLoss
<1> QED BY <1>2, <1>3 DEF RInv, LineInv, KnownInv, PlaceInv

LEMMA ReadKeeps == IInv /\ RInv /\ Read => RInv'
<1> SUFFICES ASSUME IInv, RInv, Read PROVE RInv' OBVIOUS
<1>1. /\ offset' = 0 /\ line' = <<>> /\ events' = <<>> /\ report' = "reading"
      /\ UNCHANGED <<file, records>>
  BY DEF Read, FromTheStart, log
<1>2. /\ Len(file) \in Nat /\ Len(<<>>) = 0 BY LogFacts
<1>3. Once' BY <1>1 DEF RInv, Once
<1>4. LineInv' BY <1>1, <1>2 DEF LineInv
<1>5. \A i \in Newlines' : i \in Nat /\ ~(i <= 0) BY <1>1, LogFacts DEF Newlines
<1>6. KnownInv'
  <2>1. (report \notin {"valid", "truncated", "invalid"})' BY <1>1
  <2>2. \A i \in Newlines' : ~(i <= offset') BY <1>1, <1>5
  <2> QED BY <2>1, <2>2 DEF KnownInv
<1>7. PlaceInv'
  <2>1. (Len(events) = 0)' /\ 1..0 = {} BY <1>1, <1>2
  <2>2. \E pos : pos \in [1..0 -> 1..0]
    <3>1. [k \in 1..0 |-> 0] \in [1..0 -> 1..0] BY <2>1
    <3> QED BY <3>1
  <2>3. PICK pos : pos \in [1..0 -> 1..0] BY <2>2
  <2>4. \A k \in 1..(Len(events))' : FALSE BY <2>1
  <2>5. \A i \in Newlines' : ~(i <= offset') BY <1>1, <1>5
  <2>6. Places(pos)' BY <2>4, <2>5 DEF Places
  <2>7. (report # "invalid" /\ offset <= Len(file))' BY <1>1, <1>2
  <2>8. pos \in [1..(Len(events))' -> 1..offset'] BY <1>1, <2>1, <2>3
  <2> QED BY <2>6, <2>7, <2>8 DEF PlaceInv
<1> QED BY <1>3, <1>4, <1>6, <1>7 DEF RInv

-----------------------------------------------------------------------------
\* The next byte goes on where the line ends.
LEMMA NextByte ==
  ASSUME IInv, LineInv, report = "reading", Faithful, offset < Len(file)
  PROVE  \E r \in DOMAIN records :
           /\ file[offset + 1] = ByteOf(r, Len(line) + 1) /\ Len(line) + 1 <= records[r]
           /\ \A j \in 1..Len(line) : line[j] = ByteOf(r, j)
<1>1. LogType /\ Shape BY DEF IInv
<1>2. offset + 1 \in DOMAIN file /\ offset \in Nat /\ Len(line) \in Nat BY LogFacts
<1>3. /\ file[offset + 1] = ByteOf(file[offset + 1].record, file[offset + 1].place)
      /\ file[offset + 1].record \in DOMAIN records
      /\ Starts(offset + 1) \/ Continues(offset + 1)
  BY <1>1, <1>2, ByteIs DEF Shape
<1>4. /\ line = <<>> => offset = 0 \/ file[offset].newline
      /\ line # <<>> => offset > 0 /\ \E r \in DOMAIN records : Begins(r)
  BY DEF LineInv
<1>5. CASE line = <<>>
  <2>1. Len(line) = 0 /\ \A j \in 1..0 : FALSE BY <1>5
  <2>2. ~Continues(offset + 1) BY <1>2, <1>4, <1>5 DEF Continues
  <2>3. file[offset + 1].place = 1 BY <1>3, <2>2 DEF Starts
  <2>4. records[file[offset + 1].record] \in 2..(MaxRecord + 1) BY <1>1, <1>3, LengthFacts
  <2> QED BY <1>3, <2>1, <2>3, <2>4, EventLogAssumption
<1>6. CASE line # <<>>
  <2>1. PICK r \in DOMAIN records : Begins(r) BY <1>4, <1>6
  <2>2. /\ file[offset] = ByteOf(r, Len(line)) /\ Len(line) < records[r]
        /\ \A j \in 1..Len(line) : line[j] = ByteOf(r, j)
    BY <2>1 DEF Begins
  <2>3. records[r] \in Nat BY <1>1, LengthFacts, EventLogAssumption
  <2>4. file[offset].record = r /\ file[offset].place = Len(line) BY <2>2 DEF ByteOf
  <2>5. offset > 0 /\ offset \in DOMAIN file BY <1>2, <1>4, <1>6, LogFacts
  <2>6. ~file[offset].newline
    <3>1. file[offset].newline <=> file[offset].place = records[file[offset].record]
      BY <1>1, <2>5 DEF Shape
    <3> QED BY <1>2, <2>2, <2>3, <2>4, <3>1
  <2>7. Continues(offset + 1) BY <1>2, <1>3, <2>5, <2>6 DEF Starts
  <2>8. file[offset + 1].record = r /\ file[offset + 1].place = Len(line) + 1
    BY <1>2, <2>4, <2>7 DEF Continues
  <2>9. Len(line) + 1 <= records[r] BY <1>2, <2>2, <2>3
  <2> QED BY <1>3, <2>2, <2>8, <2>9
<1> QED BY <1>5, <1>6

LEMMA AppendFacts ==
  ASSUME NEW S, NEW s \in Seq(S), NEW e \in S
  PROVE  /\ Append(s, e) \in Seq(S) /\ Len(Append(s, e)) = Len(s) + 1 /\ Append(s, e) # <<>>
         /\ \A i \in 1..Len(s) : Append(s, e)[i] = s[i]
         /\ Append(s, e)[Len(s) + 1] = e
OBVIOUS

\* The reader takes a byte of the log that is as it was, or was cut after all that
\* it must report.
LEMMA FaithfulByte ==
  ASSUME IInv, RInv, ReadUntil, Faithful, offset < Len(file)
  PROVE  RInv'
<1>1. Once /\ LineInv /\ KnownInv /\ PlaceInv /\ report = "reading" BY DEF RInv, ReadUntil
<1>2. UNCHANGED <<file, records, known, cut>> /\ offset' = offset + 1 BY DEF ReadUntil, log
<1>3. /\ Len(file) \in Nat /\ DOMAIN file = 1..Len(file) /\ offset \in Nat /\ offset + 1 <= Len(file)
      /\ Len(line) \in Nat /\ line \in Seq(Byte) /\ offset + 1 \in DOMAIN file
      /\ Len(events) \in Nat /\ events \in Seq({Mixed} \cup DOMAIN records)
  BY LogFacts DEF IInv, ReaderType
<1>4. PICK r \in DOMAIN records :
        /\ file[offset + 1] = ByteOf(r, Len(line) + 1) /\ Len(line) + 1 <= records[r]
        /\ \A j \in 1..Len(line) : line[j] = ByteOf(r, j)
  BY <1>1, NextByte
<1> DEFINE s == Append(line, file[offset + 1])
<1>5. records[r] \in 2..(MaxRecord + 1) BY LengthFacts DEF IInv
<1>6. /\ Len(s) = Len(line) + 1 /\ s # <<>> /\ ~(Len(s) > MaxRecord + 1)
      /\ \A j \in 1..Len(s) : s[j] = ByteOf(r, j)
  <2>1. file[offset + 1] \in Byte BY <1>3, ElementOfSeq DEF IInv, LogType
  <2>2. /\ Len(s) = Len(line) + 1 /\ s # <<>> /\ s[Len(line) + 1] = file[offset + 1]
        /\ \A j \in 1..Len(line) : s[j] = line[j]
    BY <1>3, <2>1, AppendFacts
  <2>3. ASSUME NEW j \in 1..Len(s) PROVE s[j] = ByteOf(r, j)
    <3>1. j \in 1..Len(line) \/ j = Len(line) + 1 BY <1>3, <2>2
    <3> QED BY <1>4, <2>2, <3>1
  <2> QED BY <1>3, <1>4, <1>5, <2>2, <2>3, EventLogAssumption
<1>7. DOMAIN s = 1..Len(s) /\ s \in Seq(Byte) BY <1>3, ElementOfSeq DEF IInv, LogType
<1> HIDE DEF s
<1>8. file[offset + 1].record = r /\ (file[offset + 1].newline <=> Len(s) = records[r])
  <2>1. file[offset + 1].record = r /\ file[offset + 1].place = Len(s) BY <1>4, <1>6 DEF ByteOf
  <2>2. file[offset + 1].newline <=> file[offset + 1].place = records[file[offset + 1].record]
    BY <1>3 DEF IInv, Shape
  <2> QED BY <2>1, <2>2
<1>9. Newlines' = Newlines /\ Once' BY <1>1, <1>2 DEF Newlines, Once
<1>10. \A i \in Newlines : i \in Nat /\ (i <= offset + 1 <=> i <= offset \/ i = offset + 1)
  BY <1>3 DEF Newlines
<1>11. CASE file[offset + 1].newline
  <2>1. s = Whole(r)
    <3>1. Len(s) = records[r] /\ DOMAIN Whole(r) = 1..records[r] BY <1>8, <1>11 DEF Whole
    <3>2. s = [j \in 1..Len(s) |-> s[j]] BY <1>7
    <3> QED BY <1>6, <3>1, <3>2 DEF Whole
  <2>2. IsRecord(s) BY <2>1 DEF IsRecord
  <2>3. Parse(s) BY <1>6, <1>11 DEF ReadUntil, s
  <2>4. s[1].record = r
    <3>1. 1 \in 1..Len(s) BY <1>3, <1>6
    <3>2. s[1] = ByteOf(r, 1) BY <1>6, <3>1
    <3> QED BY <3>2 DEF ByteOf
  <2>5. line' = <<>> /\ events' = Append(events, r) /\ report' = "reading"
    BY <1>1, <2>2, <2>3, <2>4 DEF Parse
  <2>6. /\ Len(events') = Len(events) + 1 /\ events'[Len(events) + 1] = r
        /\ \A k \in 1..Len(events) : events'[k] = events[k]
        /\ DOMAIN events' = 1..(Len(events) + 1) /\ DOMAIN events = 1..Len(events)
    BY <1>3, <2>5
  <2>7. Told \subseteq Told' /\ r \in Told' BY <1>3, <2>6 DEF Told
  <2>8. LineInv' BY <1>2, <1>3, <1>11, <2>5 DEF LineInv
  <2>9. KnownInv'
    <3>1. ASSUME NEW i \in Newlines, i <= offset + 1, file[i].record \in known
          PROVE  file[i].record \in Told'
      <4>1. CASE i <= offset BY <1>1, <2>7, <3>1, <4>1 DEF KnownInv
      <4>2. CASE i = offset + 1 BY <1>8, <2>7, <4>2
      <4> QED BY <1>10, <3>1, <4>1, <4>2
    <3>2. (report = "reading")' BY <2>5
    <3> QED BY <1>2, <1>9, <3>1, <3>2 DEF KnownInv
  <2>10. PlaceInv'
    <3>1. SUFFICES ASSUME ~cut
                   PROVE \E pos \in [1..Len(events') -> 1..(offset + 1)] : Places(pos)'
      BY <1>2, <1>3, <2>5 DEF PlaceInv
    <3>2. PICK pos \in [1..Len(events) -> 1..offset] : Places(pos) BY <1>1, <3>1 DEF PlaceInv
    <3>3. PICK more \in [1..(Len(events) + 1) -> 1..(offset + 1)] :
            more = [k \in 1..(Len(events) + 1) |-> IF k \in 1..Len(events) THEN pos[k] ELSE offset + 1]
      <4>1. [k \in 1..(Len(events) + 1) |-> IF k \in 1..Len(events) THEN pos[k] ELSE offset + 1]
              \in [1..(Len(events) + 1) -> 1..(offset + 1)]
        BY <1>3, <3>2
      <4> QED BY <4>1
    <3>4. /\ \A k \in 1..Len(events) : more[k] = pos[k] /\ pos[k] \in 1..offset /\ k \in 1..(Len(events) + 1)
          /\ more[Len(events) + 1] = offset + 1
      <4>1. \A k \in 1..Len(events) : k \in 1..(Len(events) + 1) BY <1>3
      <4>2. Len(events) + 1 \in 1..(Len(events) + 1) /\ Len(events) + 1 \notin 1..Len(events) BY <1>3
      <4> QED BY <3>2, <3>3, <4>1, <4>2
    <3>5. \A k \in 1..(Len(events) + 1) : k \in 1..Len(events) \/ k = Len(events) + 1 BY <1>3
    <3>6. offset + 1 \in Newlines BY <1>3, <1>11 DEF Newlines
    <3>7. \A k \in 1..(Len(events) + 1) : more[k] \in Newlines /\ file[more[k]].record = events'[k]
      BY <1>8, <2>6, <3>2, <3>4, <3>5, <3>6 DEF Places
    <3>8. ASSUME NEW k \in 1..(Len(events) + 1), NEW l \in 1..(Len(events) + 1), k < l
          PROVE  more[k] < more[l]
      <4>1. k \in 1..Len(events) BY <1>3, <3>8
      <4>2. CASE l \in 1..Len(events) BY <3>2, <3>4, <3>8, <4>1, <4>2 DEF Places
      <4>3. CASE l = Len(events) + 1 BY <1>3, <3>4, <4>1, <4>3
      <4> QED BY <3>5, <4>2, <4>3
    <3>9. ASSUME NEW i \in Newlines, i <= offset + 1
          PROVE  \E k \in 1..(Len(events) + 1) : more[k] = i
      <4>1. CASE i <= offset
        <5>1. PICK k \in 1..Len(events) : pos[k] = i BY <3>2, <4>1 DEF Places
        <5> QED BY <1>3, <3>4, <5>1
      <4>2. CASE i = offset + 1 BY <1>3, <3>4, <4>2
      <4> QED BY <1>10, <3>9, <4>1, <4>2
    <3>10. Places(more)'
      <4>1. file' = file /\ offset' = offset + 1 /\ Len(events') = Len(events) + 1 BY <1>2, <2>6
      <4> QED BY <1>9, <3>7, <3>8, <3>9, <4>1 DEF Places
    <3> QED BY <2>6, <3>3, <3>10
  <2> QED BY <1>9, <2>8, <2>9, <2>10 DEF RInv
<1>12. CASE ~file[offset + 1].newline
  <2>1. line' = s /\ events' = events /\ report' = "reading"
    BY <1>1, <1>6, <1>12 DEF ReadUntil, s
  <2>2. Told' = Told BY <2>1 DEF Told
  <2>3. LineInv'
    <3>1. Len(s) < records[r] BY <1>3, <1>4, <1>5, <1>6, <1>8, <1>12
    <3>2. \A j : ByteOf(r, j)' = ByteOf(r, j) BY <1>2 DEF ByteOf
    <3>3. Begins(r)' BY <1>2, <1>4, <1>6, <2>1, <3>1, <3>2 DEF Begins
    <3>4. (offset <= Len(file) /\ offset > 0 /\ line # <<>>)' BY <1>2, <1>3, <1>6, <2>1
    <3>5. r \in DOMAIN records' BY <1>2
    <3> QED BY <3>3, <3>4, <3>5 DEF LineInv
  <2>4. \A i \in Newlines : i <= offset + 1 => i <= offset
    BY <1>10, <1>12 DEF Newlines
  <2>5. KnownInv' BY <1>1, <1>2, <1>9, <2>1, <2>2, <2>4 DEF KnownInv
  <2>6. PlaceInv'
    <3>1. SUFFICES ASSUME ~cut
                   PROVE \E pos \in [1..Len(events) -> 1..(offset + 1)] : Places(pos)'
      BY <1>2, <1>3, <2>1 DEF PlaceInv
    <3>2. PICK pos \in [1..Len(events) -> 1..offset] : Places(pos) BY <1>1, <3>1 DEF PlaceInv
    <3>3. pos \in [1..Len(events) -> 1..(offset + 1)] BY <1>3, <3>2
    <3>4. Places(pos)' BY <1>2, <1>9, <2>1, <2>4, <3>2 DEF Places
    <3> QED BY <3>3, <3>4
  <2> QED BY <1>9, <2>3, <2>5, <2>6 DEF RInv
<1> QED BY <1>11, <1>12

\* A reader that a cut overtook has nothing left to report.
LEMMA UnfaithfulByte ==
  ASSUME IInv, RInv, ReadUntil, ~Faithful, offset < Len(file)
  PROVE  RInv'
<1>1. Once /\ KnownInv /\ report = "reading" /\ cut BY DEF RInv, ReadUntil, Faithful
<1>2. UNCHANGED <<file, records, known, cut>> /\ offset' = offset + 1 BY DEF ReadUntil, log
<1>3. offset \in Nat /\ Len(file) \in Nat /\ DOMAIN file = 1..Len(file) BY LogFacts
<1>4. Newlines' = Newlines /\ Once' BY <1>1, <1>2 DEF Newlines, Once
<1>5. \A i \in Newlines : file[i].record \in known => i \in Nat /\ i <= offset
  BY <1>3 DEF Faithful, Newlines
<1>6. ~Faithful'
  <2>1. \A i \in Newlines : file[i].record \in known => ~(i > offset + 1) BY <1>3, <1>5
  <2> QED BY <1>1, <1>2, <1>4, <2>1 DEF Faithful
<1>7. Told \subseteq Told'
  <2>1. events' = events \/ \E e : events' = Append(events, e)
    BY DEF ReadUntil, Parse
  <2>2. events \in Seq({Mixed} \cup DOMAIN records) BY DEF IInv, ReaderType
  <2>3. CASE events' = events BY <2>3 DEF Told
  <2>4. ASSUME NEW e, events' = Append(events, e) PROVE Told \subseteq Told'
    <3>1. DOMAIN events \subseteq DOMAIN events' /\ \A k \in DOMAIN events : events'[k] = events[k]
      BY <2>2, <2>4
    <3> QED BY <3>1 DEF Told
  <2> QED BY <2>1, <2>3, <2>4
<1>8. known \subseteq Told
  <2> SUFFICES ASSUME NEW r \in known PROVE r \in Told OBVIOUS
  <2>1. PICK i \in Newlines : file[i].record = r BY KnownIsThere
  <2> QED BY <1>1, <1>5, <2>1 DEF KnownInv
<1>9. KnownInv' BY <1>2, <1>4, <1>7, <1>8 DEF KnownInv
<1> QED BY <1>1, <1>2, <1>4, <1>6, <1>9 DEF RInv, LineInv, PlaceInv

\* The end of the log comes after all that was known, and is the end of a record or
\* the beginning of one.
LEMMA EndKeeps ==
  ASSUME IInv, RInv, ReadUntil, ~(offset < Len(file))
  PROVE  RInv'
<1>1. Once /\ LineInv /\ KnownInv /\ PlaceInv /\ report = "reading" BY DEF RInv, ReadUntil
<1>2. UNCHANGED <<file, records, known, cut, offset, line, events>> /\ EndOfLog
  BY DEF ReadUntil, log
<1>3. /\ offset \in Nat /\ Len(file) \in Nat /\ DOMAIN file = 1..Len(file)
      /\ line \in Seq(Byte) /\ Len(line) \in Nat /\ Len(line) <= MaxRecord + 1
  BY LogFacts DEF IInv, ReaderType
<1>4. Newlines' = Newlines /\ Once' /\ Told' = Told BY <1>1, <1>2 DEF Newlines, Once, Told
<1>5. known \subseteq Told
  <2> SUFFICES ASSUME NEW r \in known PROVE r \in Told OBVIOUS
  <2>1. PICK i \in Newlines : file[i].record = r /\ i <= Len(file) BY KnownIsThere
  <2>2. i \in Nat BY <1>3 DEF Newlines
  <2>3. i <= offset BY <1>3, <2>1, <2>2
  <2> QED BY <1>1, <2>1, <2>3 DEF KnownInv
<1>6. report' \in {"valid", "truncated", "invalid"}
  <2>1. line = <<>> \/ Len(line) > MaxRecord \/ Len(line) \in 1..MaxRecord
    BY <1>3, EventLogAssumption
  <2> QED BY <1>2, <2>1 DEF EndOfLog
<1>7. KnownInv' /\ LineInv' BY <1>2, <1>4, <1>5, <1>6 DEF KnownInv, LineInv
<1>8. PlaceInv'
  <2>1. SUFFICES ASSUME ~cut PROVE report' # "invalid"
    <3>1. ~cut => \E pos \in [1..Len(events) -> 1..offset] : Places(pos)' /\ offset <= Len(file)
      BY <1>1, <1>2, <1>4 DEF PlaceInv, Places
    <3> QED BY <1>2, <2>1, <3>1 DEF PlaceInv
  <2>2. line # <<>> => \E r \in DOMAIN records : Begins(r) BY <1>1, <2>1 DEF LineInv, Faithful
  <2>3. line # <<>> => Len(line) \in 1..MaxRecord
    <3>1. SUFFICES ASSUME line # <<>> PROVE Len(line) \in 1..MaxRecord OBVIOUS
    <3>2. PICK r \in DOMAIN records : Begins(r) BY <2>2, <3>1
    <3>3. records[r] \in 2..(MaxRecord + 1) BY LengthFacts DEF IInv
    <3> QED BY <1>3, <3>1, <3>2, <3>3, EventLogAssumption DEF Begins
  <2>4. line = <<>> => report' = "valid"
    <3>1. line = <<>> => ~(Len(line) > MaxRecord) /\ Len(line) \notin 1..MaxRecord
      BY EventLogAssumption
    <3> QED BY <1>2, <3>1 DEF EndOfLog
  <2>5. line # <<>> => ~(Len(line) > MaxRecord) BY <1>3, <2>3, EventLogAssumption
  <2>6. line # <<>> => report' = "truncated" BY <1>2, <2>3, <2>5 DEF EndOfLog
  <2> QED BY <2>4, <2>6
<1> QED BY <1>4, <1>7, <1>8 DEF RInv

LEMMA ReaderStep == IInv /\ IInv' /\ RInv /\ [Next]_vars => RInv'
<1> SUFFICES ASSUME IInv, IInv', RInv, [Next]_vars PROVE RInv' OBVIOUS
<1>1. CASE BeginAppend
  <2>1. PICK n \in 2..(MaxRecord + 1) : records' = Append(records, n) BY <1>1 DEF BeginAppend
  <2>2. records \in Seq(2..(MaxRecord + 1)) BY DEF IInv, LogType
  <2>3. /\ DOMAIN records \subseteq DOMAIN records'
        /\ \A r \in DOMAIN records : records'[r] = records[r]
    BY <2>1, <2>2
  <2> QED BY <1>1, <2>3, QuietKeeps DEF BeginAppend
<1>2. CASE UNCHANGED <<file, records, reader>> BY <1>2, QuietKeeps
<1>3. CASE TruncateTail BY <1>3, TailKeeps
<1>4. CASE WriteAll BY <1>4, WriteKeeps
<1>5. CASE PowerLoss BY <1>5, PowerLossKeeps
<1>6. CASE Read BY <1>6, ReadKeeps
<1>7. CASE ReadUntil BY <1>7, FaithfulByte, UnfaithfulByte, EndKeeps
<1> QED BY <1>1, <1>2, <1>3, <1>4, <1>5, <1>6, <1>7
        DEF Next, Open, SyncData, Fail, vars, log

\* Events are counted by their newlines.
LEMMA CountIs ==
  ASSUME IInv, Once, NEW pos \in [1..Len(events) -> 1..offset], Places(pos), NEW k \in DOMAIN events
  PROVE  Cardinality({i \in Newlines : file[i].record <= events[k]}) = k
<1>1. /\ Len(events) \in Nat /\ k \in 1..Len(events) /\ DOMAIN file = 1..Len(file) /\ offset \in Nat
      /\ Len(file) \in Nat
  BY LogFacts
<1> DEFINE upto == {i \in Newlines : file[i].record <= events[k]}
           g    == [j \in 1..k |-> pos[j]]
<1>2. \A i \in Newlines : i \in DOMAIN file /\ i \in Nat /\ file[i].newline /\ file[i].record \in Nat
  <2>1. \A i \in DOMAIN file : file[i].record \in DOMAIN records BY DEF IInv, Shape
  <2> QED BY <1>1, <2>1, LogFacts DEF Newlines
<1>3. \A j \in 1..k : j \in 1..Len(events) BY <1>1
<1>4. \A j \in 1..Len(events) : pos[j] \in Newlines /\ file[pos[j]].record = events[j] BY DEF Places
<1>5. \A j, l \in 1..Len(events) : j < l => pos[j] < pos[l] BY DEF Places
<1>6. ASSUME NEW j \in 1..k PROVE pos[j] \in upto
  <2>1. j \in 1..Len(events) /\ (j = k \/ j < k) BY <1>1, <1>3
  <2>2. pos[j] \in DOMAIN file /\ pos[k] \in DOMAIN file /\ pos[j] \in Nat /\ pos[k] \in Nat
    BY <1>1, <1>2, <1>4, <2>1
  <2>3. pos[j] <= pos[k] BY <1>1, <1>5, <2>1, <2>2
  <2>4. file[pos[j]].record <= file[pos[k]].record BY <2>2, <2>3 DEF IInv, Shape
  <2> QED BY <1>1, <1>4, <2>1, <2>4
<1>7. ASSUME NEW i \in upto PROVE \E j \in 1..k : pos[j] = i
  <2>1. i \in DOMAIN file /\ i \in Nat /\ file[i].record \in Nat /\ i \in Newlines BY <1>2
  <2>2. /\ pos[k] \in DOMAIN file /\ pos[k] \in Nat /\ file[pos[k]].newline /\ pos[k] \in 1..offset
        /\ file[pos[k]].record = events[k] /\ file[pos[k]].record \in Nat
    BY <1>1, <1>2, <1>4
  <2>3. ~(pos[k] < i)
    <3>1. SUFFICES ASSUME pos[k] < i PROVE FALSE OBVIOUS
    <3>2. file[pos[k]].record < file[i].record BY <2>1, <2>2, <3>1 DEF Once
    <3> QED BY <2>1, <2>2, <3>2
  <2>4. i <= offset BY <1>1, <2>1, <2>2, <2>3
  <2>5. PICK j \in 1..Len(events) : pos[j] = i BY <2>1, <2>4 DEF Places
  <2>6. ~(k < j) BY <1>1, <1>5, <2>3, <2>5
  <2>7. j \in 1..k BY <1>1, <2>5, <2>6
  <2> QED BY <2>5, <2>7
<1>8. ASSUME NEW j \in 1..k, NEW l \in 1..k, pos[j] = pos[l] PROVE j = l
  <2>1. pos[j] \in Nat /\ pos[l] \in Nat /\ j \in 1..Len(events) /\ l \in 1..Len(events)
    BY <1>2, <1>3, <1>4
  <2>2. ~(j < l) /\ ~(l < j) BY <1>5, <1>8, <2>1
  <2> QED BY <1>1, <2>2
<1> HIDE DEF upto
<1>9. g \in [1..k -> upto] BY <1>6
<1>10. g \in Injection(1..k, upto) BY <1>8, <1>9 DEF Injection, IsInjective
<1>11. g \in Surjection(1..k, upto) BY <1>7, <1>9 DEF Surjection
<1>12. ExistsBijection(1..k, upto) BY <1>10, <1>11 DEF ExistsBijection, Bijection
<1>13. k \in Nat BY <1>1
<1> QED BY <1>12, <1>13, FS_CountingElements DEF upto

\* What doctor reads of events.jsonl without a lock is the log, whatever appends, dies
\* or is repaired meanwhile: true unless a truncation overtook the reading, and never
\* without an event that was acknowledged before it began (read of events.rs).
THEOREM ReadersAreTold == Spec => []ReadersAreRight
<1>1. Init => RInv BY ReaderInit
<1>2. IInv /\ IInv' /\ RInv /\ [Next]_vars => RInv' BY ReaderStep
<1>3. IInv /\ RInv => ReadersAreRight
  <2> SUFFICES ASSUME IInv, RInv PROVE ReadersAreRight OBVIOUS
  <2>1. Once /\ KnownInv /\ PlaceInv BY DEF RInv
  <2>2. ReportsAreTrue
    <3>1. SUFFICES ASSUME ~cut, report # "idle"
                   PROVE  /\ report # "invalid"
                          /\ \A k \in DOMAIN events :
                               /\ events[k] # Mixed
                               /\ Cardinality({i \in Newlines : file[i].record <= events[k]}) = k
      BY DEF ReportsAreTrue
    <3>2. PICK pos \in [1..Len(events) -> 1..offset] : Places(pos) BY <2>1, <3>1 DEF PlaceInv
    <3>3. ASSUME NEW k \in DOMAIN events PROVE events[k] # Mixed
      <4>1. k \in 1..Len(events) /\ pos[k] \in DOMAIN file /\ file[pos[k]].record = events[k]
        BY <3>2, LogFacts DEF Places, Newlines
      <4>2. events[k] \in DOMAIN records BY <4>1 DEF IInv, Shape
      <4> QED BY <4>2, LogFacts DEF Mixed
    <3> QED BY <2>1, <3>1, <3>2, <3>3, CountIs DEF PlaceInv
  <2>3. NothingKnownIsMissed BY <2>1 DEF KnownInv, NothingKnownIsMissed, Told
  <2> QED BY <2>2, <2>3 DEF ReadersAreRight
<1> QED BY <1>1, <1>2, <1>3, Inductive, PTL DEF Spec
-----------------------------------------------------------------------------
(* What several of the proofs below need: FiniteSets has one cardinality,  *)
(* in whichever module it is used; a set of natural numbers has a least    *)
(* element, and one that is bounded a greatest; a function has no more     *)
(* values than arguments.                                                  *)

LEMMA SameCardinality ==
  ASSUME NEW S
  PROVE  /\ Compose!Cardinality(S) = Cardinality(S)
         /\ Readiness!Cardinality(S) = Cardinality(S)
         /\ Model!Cardinality(S) = Cardinality(S)
BY DEF Compose!Cardinality, Readiness!Cardinality, Model!Cardinality, Cardinality

\* The least number of a set.
LEMMA Least ==
  ASSUME NEW S, S \subseteq Nat, S # {}
  PROVE  \E s \in S : \A t \in S : s <= t
<1> DEFINE R == {p \in Nat \X Nat : p[1] < p[2]}
<1>1. IsWellFoundedOn(R, Nat)
  BY NatLessThanWellFounded DEF OpToRel
<1> HIDE DEF R
<1>2. PICK s \in S : \A t \in S : <<t, s>> \notin R
  BY <1>1, WFMin
<1>3. ASSUME NEW t \in S
      PROVE  s <= t
  <2>1. <<t, s>> \in Nat \X Nat /\ <<t, s>> \notin R
    BY <1>2
  <2>2. ~(t < s)
    BY <2>1 DEF R
  <2> QED BY <2>1, <2>2
<1> QED BY <1>3

\* The greatest number of a set with a bound.
LEMMA Greatest ==
  ASSUME NEW n \in Nat, NEW S, S \subseteq 1..n, S # {}
  PROVE  \E s \in S : \A t \in S : t <= s
<1> DEFINE R == {n - s : s \in S}
<1>1. R \subseteq Nat /\ R # {}
  <2>1. ASSUME NEW s \in S
        PROVE  n - s \in Nat
    BY SMT
  <2> QED BY <2>1
<1>2. PICK r \in R : \A q \in R : r <= q
  BY <1>1, Least
<1>3. PICK s \in S : r = n - s
  BY <1>2
<1>4. ASSUME NEW t \in S
      PROVE  t <= s
  <2>1. n - t \in R /\ s \in Int /\ t \in Int
    OBVIOUS
  <2>2. n - s <= n - t
    BY <1>2, <1>3, <2>1
  <2> QED BY <2>1, <2>2
<1> QED BY <1>4

\* A set of at most one element.
LEMMA AtMostOne ==
  ASSUME NEW S, IsFiniteSet(S), ~(Cardinality(S) > 1), NEW x \in S, NEW y \in S
  PROVE  x = y
<1>1. IsFiniteSet(S \ {x}) /\ Cardinality(S \ {x}) = Cardinality(S) - 1
  BY FS_RemoveElement
<1>2. Cardinality(S) \in Nat /\ Cardinality(S \ {x}) \in Nat
  BY <1>1, FS_CardinalityType
<1>3. Cardinality(S \ {x}) = 0
  BY <1>1, <1>2
<1>4. S \ {x} = {}
  BY <1>1, <1>3, FS_EmptySet
<1> QED BY <1>4

\* A function has no more values than arguments.
LEMMA NoMoreImages ==
  ASSUME NEW S, IsFiniteSet(S), NEW f, NEW T, T \subseteq {f[x] : x \in S}
  PROVE  IsFiniteSet(T) /\ Cardinality(T) <= Cardinality(S)
<1> DEFINE g == [x \in S |-> f[x]]
           R == {f[x] : x \in S}
<1>1. g \in Surjection(S, R)
  BY DEF Surjection
<1> HIDE DEF g, R
<1>2. IsFiniteSet(R) /\ Cardinality(R) <= Cardinality(S)
  BY <1>1, FS_Surjection
<1>3. IsFiniteSet(T) /\ Cardinality(T) <= Cardinality(R)
  BY <1>2, FS_Subset DEF R
<1>4. Cardinality(S) \in Nat /\ Cardinality(R) \in Nat /\ Cardinality(T) \in Nat
  BY <1>2, <1>3, FS_CardinalityType
<1> QED BY <1>2, <1>3, <1>4

-----------------------------------------------------------------------------
(* PortAllocation.  A slot is taken when its block is free, and blocks that*)
(* fit are the slots up to the last.                                       *)

\* Division by a stride rounds down.
LEMMA Quotient ==
  ASSUME NEW a \in Int, NEW s \in Nat, s > 0, NEW k \in Int
  PROVE  /\ a \div s \in Int
         /\ k * s <= a <=> k <= a \div s
BY SMT

-----------------------------------------------------------------------------

\* What validate_inputs lets through.
LEMMA ValidInputs ==
  ASSUME NEW base \in Nat, NEW stride \in Nat, NEW names \in Seq(Nat)
  PROVE  LET invalid == Ports!ValidateInputs(base, stride, names)
         IN /\ invalid \in {"ok", "base", "stride", "small", "empty", "duplicate"}
            /\ invalid = "ok" => base > 0 /\ stride > 0 /\ Len(names) <= stride
            /\ base > 0 /\ stride > 0 /\ Len(names) <= stride => invalid \in {"ok", "empty", "duplicate"}
BY DEF Ports!ValidateInputs

\* The ports of a slot are those from its first on, and slots of which the last
\* port is one are those up to MaxSlot.
LEMMA SlotPorts ==
  ASSUME NEW base \in Nat, NEW stride \in Nat, NEW names \in Seq(Nat), NEW slot \in Nat
  PROVE  LET ports == Ports!PortsForSlot(base, stride, names, slot)
         IN /\ slot * stride \in Nat
            /\ DOMAIN ports = DOMAIN names
            /\ \A i \in DOMAIN names : ports[i] = (base + slot * stride) + i - 1
<1>1. slot * stride \in Nat
  OBVIOUS
<1> QED BY <1>1 DEF Ports!PortsForSlot

\* The slots up to MaxSlot are those whose last port is one.
LEMMA LastSlot ==
  ASSUME NEW base \in Nat, NEW stride \in Nat, stride > 0, NEW names \in Seq(Nat), NEW slot \in Nat
  PROVE  slot \in 0..Ports!MaxSlot(base, stride, names)
           <=> base + slot * stride + Len(names) - 1 <= Ports!MaxPort
<1> DEFINE room == Ports!MaxPort - base - (Len(names) - 1)
<1>1. room \in Int /\ slot * stride \in Nat /\ Len(names) \in Nat
  BY DEF Ports!MaxPort
<1>2. Ports!MaxSlot(base, stride, names) = room \div stride
  BY DEF Ports!MaxSlot
<1> HIDE DEF room
<1>3. /\ room \div stride \in Int
      /\ slot * stride <= room <=> slot <= room \div stride
  BY <1>1, Quotient
<1>4. slot * stride <= room <=> base + slot * stride + Len(names) - 1 <= Ports!MaxPort
  BY <1>1 DEF room, Ports!MaxPort
<1> QED BY <1>2, <1>3, <1>4

\* None of them overflows 16 bits.
LEMMA NoSlotOverflows ==
  ASSUME NEW base \in Nat, NEW stride \in Nat, stride > 0, NEW names \in Seq(Nat),
         NEW slot \in 0..Ports!MaxSlot(base, stride, names)
  PROVE  /\ slot \in Nat
         /\ ~Ports!Overflows(Ports!PortsForSlot(base, stride, names, slot))
<1>1. slot \in Nat /\ slot * stride \in Nat
  OBVIOUS
<1>2. base + slot * stride + Len(names) - 1 <= Ports!MaxPort
  BY <1>1, LastSlot
<1>3. ASSUME NEW i \in DOMAIN names
      PROVE  ~(Ports!PortsForSlot(base, stride, names, slot)[i] > Ports!MaxPort)
  <2>1. Ports!PortsForSlot(base, stride, names, slot)[i] = base + slot * stride + i - 1
    BY <1>1, SlotPorts
  <2>2. i \in 1..Len(names) /\ Len(names) \in Nat
    OBVIOUS
  <2> QED BY <1>1, <1>2, <2>1, <2>2 DEF Ports!MaxPort
<1>4. DOMAIN Ports!PortsForSlot(base, stride, names, slot) = DOMAIN names
  BY <1>1, SlotPorts
<1> QED BY <1>1, <1>3, <1>4 DEF Ports!Overflows

-----------------------------------------------------------------------------
\* The slots that end the search.
Stops(base, stride, names, used, probe) ==
  {s \in 0..Ports!MaxSlot(base, stride, names) :
     Ports!Examine(names, Ports!PortsForSlot(base, stride, names, s), used, probe) # "next"}

Lowermost(S) == CHOOSE s \in S : \A t \in S : s <= t

\* What the search finds.
Search(base, stride, names, used, probe) ==
  LET ends  == Stops(base, stride, names, used, probe)
      slot  == Lowermost(ends)
      ports == Ports!PortsForSlot(base, stride, names, slot)
  IN IF ends = {} THEN Ports!Refused("none")
     ELSE IF Ports!Examine(names, ports, used, probe) = "take"
     THEN Ports!Allocation(slot, ports) ELSE Ports!Refused("probe")

\* How an allocation ends: an input is refused, or the search decides.
LEMMA AllocationEnds ==
  ASSUME NEW base \in Nat, NEW stride \in Nat, NEW names \in Seq(Nat), NEW used, NEW probe
  PROVE  LET a     == Ports!AllocatePorts(base, stride, names, used, probe)
             valid == Ports!ValidateInputs(base, stride, names)
         IN /\ valid # "ok" => a = Ports!Refused(valid)
            /\ valid = "ok" /\ names = <<>> => a = Ports!Allocation(0, <<>>)
            /\ valid = "ok" /\ names # <<>> /\ base + Len(names) - 1 > Ports!MaxPort => a = Ports!Refused("overflow")
            /\ valid = "ok" /\ names # <<>> /\ base + Len(names) - 1 <= Ports!MaxPort =>
                 a = Search(base, stride, names, used, probe)
<1> DEFINE a     == Ports!AllocatePorts(base, stride, names, used, probe)
           ends  == Stops(base, stride, names, used, probe)
           slot  == Lowermost(ends)
           P(s)  == Ports!PortsForSlot(base, stride, names, s)
           valid == Ports!ValidateInputs(base, stride, names)
           found == {s \in 0..Ports!MaxSlot(base, stride, names) :
                       Ports!Overflows(P(s)) \/ Ports!Examine(names, P(s), used, probe) # "next"}
           least == CHOOSE s \in found : \A t \in found : s <= t
<1>1. a = CASE valid # "ok"                             -> Ports!Refused(valid)
            [] valid = "ok" /\ names = <<>>             -> Ports!Allocation(0, <<>>)
            [] valid = "ok" /\ names # <<>> /\ base + Len(names) - 1 > Ports!MaxPort -> Ports!Refused("overflow")
            [] OTHER ->
                 IF found = {} THEN Ports!Refused("none")
                 ELSE IF Ports!Overflows(P(least)) THEN Ports!Refused("overflow")
                 ELSE IF Ports!Examine(names, P(least), used, probe) = "take"
                 THEN Ports!Allocation(least, P(least)) ELSE Ports!Refused("probe")
  BY Zenon DEF Ports!AllocatePorts
<1> HIDE DEF a
<1>2. CASE valid # "ok"
  BY <1>1, <1>2 DEF a
<1>3. CASE valid = "ok" /\ names = <<>>
  BY <1>1, <1>3 DEF a
<1>4. CASE valid = "ok" /\ names # <<>> /\ base + Len(names) - 1 > Ports!MaxPort
  BY <1>1, <1>4 DEF a, Ports!MaxPort
<1>5. CASE valid = "ok" /\ names # <<>> /\ base + Len(names) - 1 <= Ports!MaxPort
  <2>1. stride > 0
    BY <1>5, ValidInputs
  <2>2. found = ends
    BY <2>1, NoSlotOverflows DEF Stops
  <2>3. least = slot
    BY <2>2 DEF Lowermost
  <2>4. a = IF found = {} THEN Ports!Refused("none")
            ELSE IF Ports!Overflows(P(least)) THEN Ports!Refused("overflow")
            ELSE IF Ports!Examine(names, P(least), used, probe) = "take"
            THEN Ports!Allocation(least, P(least)) ELSE Ports!Refused("probe")
    <3> HIDE DEF found, least, valid
    <3>1. ~(base + Len(names) - 1 > Ports!MaxPort)
      BY <1>5 DEF Ports!MaxPort
    <3> QED BY <1>1, <1>5, <3>1
  <2>5. ends # {} => ~Ports!Overflows(P(slot))
    <3> SUFFICES ASSUME ends # {}
                 PROVE  ~Ports!Overflows(P(slot))
      OBVIOUS
    <3>1. ends \subseteq Nat
      BY DEF Stops
    <3>2. \E s \in ends : \A t \in ends : s <= t
      BY <3>1, Least
    <3>3. slot \in ends
      BY <3>2 DEF Lowermost
    <3>4. slot \in 0..Ports!MaxSlot(base, stride, names)
      BY <3>3 DEF Stops
    <3> QED BY <2>1, <3>4, NoSlotOverflows
  <2>6. a = IF ends = {} THEN Ports!Refused("none")
            ELSE IF Ports!Examine(names, P(slot), used, probe) = "take"
            THEN Ports!Allocation(slot, P(slot)) ELSE Ports!Refused("probe")
    <3> HIDE DEF found, least, ends, slot
    <3> QED BY <2>2, <2>3, <2>4, <2>5
  <2>7. ~(base + Len(names) - 1 > Ports!MaxPort)
    BY <1>5 DEF Ports!MaxPort
  <2>8. a = Search(base, stride, names, used, probe)
    BY <2>6, Zenon DEF Search
  <2> HIDE DEF valid, ends, slot
  <2> QED BY <1>5, <2>7, <2>8, Zenon DEF a, valid
<1>6. valid = "ok" /\ names # <<>> => base + Len(names) - 1 > Ports!MaxPort \/ base + Len(names) - 1 <= Ports!MaxPort
  BY DEF Ports!MaxPort
<1> QED BY <1>2, <1>3, <1>4, <1>5, <1>6

\* A block is taken if each port of it is unused and free.
LEMMA TakenIsFree ==
  ASSUME NEW names, NEW ports, DOMAIN ports = DOMAIN names, NEW used, NEW probe
  PROVE  Ports!Examine(names, ports, used, probe) = "take"
           <=> \A i \in DOMAIN names : ports[i] \notin used /\ probe[ports[i]] = "free"
BY DEF Ports!Examine

\* The blocks of ports that fit and are free, by their place.
FreeBlocks(base, stride, names, used, probe) ==
  {k \in 0..((Ports!MaxPort - base) \div stride) :
     LET first == base + k * stride
     IN /\ first + Len(names) - 1 <= Ports!MaxPort
        /\ \A p \in first..(first + Len(names) - 1) : p \notin used /\ probe[p] = "free"}

\* The free blocks are those that fit and are taken.
LEMMA FreeIsTaken ==
  ASSUME NEW base \in Nat, NEW stride \in Nat, stride > 0, NEW names \in Seq(Nat), Len(names) > 0,
         NEW used, NEW probe, NEW k \in Nat
  PROVE  k \in FreeBlocks(base, stride, names, used, probe)
           <=> /\ k \in 0..Ports!MaxSlot(base, stride, names)
               /\ Ports!Examine(names, Ports!PortsForSlot(base, stride, names, k), used, probe) = "take"
<1> DEFINE ports == Ports!PortsForSlot(base, stride, names, k)
           first == base + k * stride
           n     == Len(names)
<1>1. k * stride \in Nat /\ first \in Nat /\ n \in Nat /\ DOMAIN names = 1..n
  OBVIOUS
<1>2. DOMAIN ports = DOMAIN names /\ \A i \in DOMAIN names : ports[i] = first + i - 1
  BY DEF Ports!PortsForSlot
<1>3. k \in 0..Ports!MaxSlot(base, stride, names) <=> first + n - 1 <= Ports!MaxPort
  BY LastSlot
<1>4. Ports!Examine(names, ports, used, probe) = "take"
        <=> \A i \in 1..n : ports[i] \notin used /\ probe[ports[i]] = "free"
  BY <1>1, <1>2, TakenIsFree
<1>5. (\A i \in 1..n : ports[i] \notin used /\ probe[ports[i]] = "free")
        <=> \A p \in first..(first + n - 1) : p \notin used /\ probe[p] = "free"
  <2> HIDE DEF ports, first, n
  <2>1. ASSUME NEW p \in first..(first + n - 1)
        PROVE  p - first + 1 \in 1..n /\ ports[p - first + 1] = p
    BY <1>1, <1>2
  <2>2. ASSUME NEW i \in 1..n
        PROVE  ports[i] \in first..(first + n - 1)
    BY <1>1, <1>2
  <2> QED BY <2>1, <2>2
<1>6. first + n - 1 <= Ports!MaxPort => k \in 0..((Ports!MaxPort - base) \div stride)
  <2>1. Ports!MaxPort - base \in Int
    BY DEF Ports!MaxPort
  <2>2. /\ (Ports!MaxPort - base) \div stride \in Int
        /\ k * stride <= Ports!MaxPort - base <=> k <= (Ports!MaxPort - base) \div stride
    BY <2>1, Quotient
  <2>3. first + n - 1 <= Ports!MaxPort => k * stride <= Ports!MaxPort - base
    BY <1>1 DEF Ports!MaxPort
  <2> QED BY <2>2, <2>3
<1>7. k \in FreeBlocks(base, stride, names, used, probe)
        <=> /\ k \in 0..((Ports!MaxPort - base) \div stride)
            /\ first + n - 1 <= Ports!MaxPort
            /\ \A p \in first..(first + n - 1) : p \notin used /\ probe[p] = "free"
  BY Zenon DEF FreeBlocks
<1> HIDE DEF ports, first, n
<1> QED BY <1>3, <1>4, <1>5, <1>6, <1>7 DEF ports

\* What a successful allocation is.
LEMMA AllocatedIsLowest ==
  ASSUME NEW base \in Nat, NEW stride \in Nat, NEW names \in Seq(Nat), NEW used, NEW probe,
         Ports!AllocatePorts(base, stride, names, used, probe).kind = "ok", names # <<>>
  PROVE  LET a == Ports!AllocatePorts(base, stride, names, used, probe)
         IN /\ base > 0 /\ stride > 0
            /\ a.slot \in 0..Ports!MaxSlot(base, stride, names)
            /\ a.ports = Ports!PortsForSlot(base, stride, names, a.slot)
            /\ Ports!Examine(names, a.ports, used, probe) = "take"
            /\ \A k \in Stops(base, stride, names, used, probe) : a.slot <= k
<1> DEFINE a     == Ports!AllocatePorts(base, stride, names, used, probe)
           ends  == Stops(base, stride, names, used, probe)
           slot  == Lowermost(ends)
           ports == Ports!PortsForSlot(base, stride, names, slot)
           valid == Ports!ValidateInputs(base, stride, names)
<1>1. valid \in {"ok", "base", "stride", "small", "empty", "duplicate"} /\ (valid = "ok" => base > 0 /\ stride > 0)
  BY ValidInputs
<1>2. Ports!Refused(valid).kind = valid /\ \A e \in {"none", "probe", "overflow"} : Ports!Refused(e).kind # "ok"
  BY DEF Ports!Refused
<1>3. valid = "ok"
  BY <1>2, AllocationEnds
<1>4. ~(base + Len(names) - 1 > Ports!MaxPort)
  BY <1>2, <1>3, AllocationEnds
<1>5. base + Len(names) - 1 <= Ports!MaxPort
  BY <1>4 DEF Ports!MaxPort
<1>6. a = IF ends = {} THEN Ports!Refused("none")
          ELSE IF Ports!Examine(names, ports, used, probe) = "take"
          THEN Ports!Allocation(slot, ports) ELSE Ports!Refused("probe")
  <2>1. valid = "ok" /\ names # <<>> /\ base + Len(names) - 1 <= Ports!MaxPort
    BY <1>3, <1>5
  <2>2. a = Search(base, stride, names, used, probe)
    BY <2>1, AllocationEnds
  <2> QED BY <2>2, Zenon DEF Search
<1>7. ends # {} /\ Ports!Examine(names, ports, used, probe) = "take" /\ a = Ports!Allocation(slot, ports)
  <2> HIDE DEF ends, slot, ports
  <2> QED BY <1>2, <1>6
<1>8. \E s \in ends : \A t \in ends : s <= t
  <2>1. ends \subseteq Nat
    BY DEF Stops
  <2> QED BY <1>7, <2>1, Least
<1>9. slot \in ends /\ \A t \in ends : slot <= t
  BY <1>8 DEF Lowermost
<1>10. slot \in 0..Ports!MaxSlot(base, stride, names)
  BY <1>9 DEF Stops
<1> HIDE DEF a, ends, slot, valid
<1>11. a.slot = slot /\ a.ports = ports
  BY <1>7 DEF Ports!Allocation
<1> QED BY <1>1, <1>3, <1>7, <1>9, <1>10, <1>11 DEF a, ends, valid

\* With no names there is nothing to search for.
LEMMA NothingToAllocate ==
  ASSUME NEW base, NEW stride, NEW names, names = <<>>, NEW used, NEW probe,
         Ports!ValidateInputs(base, stride, names) = "ok"
  PROVE  Ports!AllocatePorts(base, stride, names, used, probe) = Ports!Allocation(0, <<>>)
BY Zenon DEF Ports!AllocatePorts

\* What is taken is in range, unused, free, and one port for each name.
LEMMA AllocationIsSound ==
  ASSUME NEW base \in Nat, NEW stride \in Nat, NEW names \in Seq(Nat), NEW used, NEW probe
  PROVE  Ports!Sound(base, stride, names, used, probe)
<1> DEFINE a == Ports!AllocatePorts(base, stride, names, used, probe)
<1> SUFFICES ASSUME a.kind = "ok"
             PROVE  /\ DOMAIN a.ports = DOMAIN names
                    /\ \A i \in DOMAIN names :
                         /\ a.ports[i] \in 1..Ports!MaxPort
                         /\ a.ports[i] \notin used /\ probe[a.ports[i]] = "free"
                         /\ \A j \in DOMAIN names : a.ports[i] = a.ports[j] => i = j
  BY DEF Ports!Sound
<1>1. CASE names = <<>>
  <2>1. a = Ports!Allocation(0, <<>>)
    <3>1. Ports!ValidateInputs(base, stride, names) = "ok"
      <4>1. Ports!Refused(Ports!ValidateInputs(base, stride, names)).kind = Ports!ValidateInputs(base, stride, names)
        BY DEF Ports!Refused
      <4> QED BY <4>1, AllocationEnds
    <3> QED BY <1>1, <3>1, NothingToAllocate
  <2>2. a.ports = <<>>
    BY <2>1 DEF Ports!Allocation
  <2>3. DOMAIN names = {}
    BY <1>1
  <2> HIDE DEF a
  <2> QED BY <1>1, <2>2, <2>3
<1>2. CASE names # <<>>
  <2>1. /\ base > 0 /\ stride > 0
        /\ a.slot \in 0..Ports!MaxSlot(base, stride, names)
        /\ a.ports = Ports!PortsForSlot(base, stride, names, a.slot)
        /\ Ports!Examine(names, a.ports, used, probe) = "take"
    BY <1>2, AllocatedIsLowest
  <2> HIDE DEF a
  <2>2. a.slot \in Nat /\ ~Ports!Overflows(a.ports)
    BY <2>1, NoSlotOverflows
  <2> DEFINE first == base + a.slot * stride
  <2>3. first \in Nat /\ first >= 1
    <3> DEFINE skipped == a.slot * stride
    <3>1. skipped \in Nat
      BY <2>2
    <3> HIDE DEF skipped
    <3>2. base + skipped \in Nat /\ base + skipped >= 1
      BY <2>1, <3>1
    <3> QED BY <3>2 DEF skipped
  <2>4. DOMAIN a.ports = DOMAIN names /\ \A i \in DOMAIN names : a.ports[i] = first + i - 1
    BY <2>1 DEF Ports!PortsForSlot
  <2> HIDE DEF first
  <2>5. \A i \in DOMAIN names : a.ports[i] \notin used /\ probe[a.ports[i]] = "free"
    BY <2>1, <2>4, TakenIsFree
  <2>6. ASSUME NEW i \in DOMAIN names
        PROVE  a.ports[i] \in 1..Ports!MaxPort
    <3>1. i \in Nat /\ i >= 1
      OBVIOUS
    <3>2. ~(a.ports[i] > Ports!MaxPort)
      BY <2>2, <2>4 DEF Ports!Overflows
    <3>3. a.ports[i] = first + i - 1
      BY <2>4
    <3>4. ~(first + i - 1 > Ports!MaxPort)
      BY <3>2, <3>3
    <3>5. first + i - 1 \in 1..Ports!MaxPort
      <4>1. Ports!MaxPort \in Nat
        BY DEF Ports!MaxPort
      <4> QED BY <2>3, <3>1, <3>4, <4>1
    <3> QED BY <3>3, <3>5
  <2>7. ASSUME NEW i \in DOMAIN names, NEW j \in DOMAIN names, a.ports[i] = a.ports[j]
        PROVE  i = j
    <3>1. i \in Nat /\ j \in Nat
      OBVIOUS
    <3>2. first + i - 1 = first + j - 1
      BY <2>4, <2>7
    <3> QED BY <2>3, <3>1, <3>2
  <2> QED BY <2>4, <2>5, <2>6, <2>7
<1> QED BY <1>1, <1>2

\* When an allocation fails, and of what.
LEMMA AllocationKinds ==
  ASSUME NEW base \in Nat, NEW stride \in Nat, NEW names \in Seq(Nat), NEW used, NEW probe, names # <<>>
  PROVE  LET a     == Ports!AllocatePorts(base, stride, names, used, probe)
             valid == Ports!ValidateInputs(base, stride, names)
         IN /\ a.kind = "none" =>
                 Stops(base, stride, names, used, probe) = {} /\ stride > 0
            /\ a.kind = "overflow" => base + Len(names) - 1 > Ports!MaxPort
            /\ a.kind \in {"base", "stride", "small"} => a.kind = valid
<1> DEFINE a     == Ports!AllocatePorts(base, stride, names, used, probe)
           valid == Ports!ValidateInputs(base, stride, names)
           ends  == Stops(base, stride, names, used, probe)
<1>1. \A e : Ports!Refused(e).kind = e
  BY DEF Ports!Refused
<1>2. valid \in {"ok", "base", "stride", "small", "empty", "duplicate"} /\ (valid = "ok" => stride > 0)
  BY ValidInputs
<1>3. CASE valid # "ok"
  <2>1. a.kind = valid
    BY <1>1, <1>3, AllocationEnds
  <2> HIDE DEF a, valid
  <2> QED BY <1>2, <1>3, <2>1 DEF a, valid
<1>4. CASE valid = "ok" /\ base + Len(names) - 1 > Ports!MaxPort
  <2>1. a.kind = "overflow"
    BY <1>1, <1>4, AllocationEnds
  <2> QED BY <1>4, <2>1
<1>5. CASE valid = "ok" /\ base + Len(names) - 1 <= Ports!MaxPort
  <2>1. a = Search(base, stride, names, used, probe)
    BY <1>5, AllocationEnds
  <2>2. a.kind \in {"none", "ok", "probe"} /\ (a.kind = "none" => ends = {})
    <3> DEFINE slot  == Lowermost(ends)
               ports == Ports!PortsForSlot(base, stride, names, slot)
    <3>1. a = IF ends = {} THEN Ports!Refused("none")
              ELSE IF Ports!Examine(names, ports, used, probe) = "take"
              THEN Ports!Allocation(slot, ports) ELSE Ports!Refused("probe")
      BY <2>1, Zenon DEF Search
    <3>2. Ports!Allocation(slot, ports).kind = "ok"
      BY DEF Ports!Allocation
    <3> HIDE DEF a, ends, slot, ports
    <3> QED BY <1>1, <3>1, <3>2
  <2> HIDE DEF a, valid, ends
  <2> QED BY <1>2, <1>5, <2>2 DEF a, valid, ends
<1>6. base + Len(names) - 1 > Ports!MaxPort \/ base + Len(names) - 1 <= Ports!MaxPort
  BY DEF Ports!MaxPort
<1> QED BY <1>3, <1>4, <1>5, <1>6

\* No lower block is free, and a failure means that there is none.
LEMMA AllocationIsLowest ==
  ASSUME NEW base \in Nat, NEW stride \in Nat, NEW names \in Seq(Nat), NEW used, NEW probe
  PROVE  Ports!Lowest(base, stride, names, used, probe)
<1> DEFINE a    == Ports!AllocatePorts(base, stride, names, used, probe)
           n    == Len(names)
           free == FreeBlocks(base, stride, names, used, probe)
           ends == Stops(base, stride, names, used, probe)
<1> SUFFICES ASSUME base > 0, stride > 0, n > 0
             PROVE  /\ a.kind = "ok"       => a.slot \in free /\ \A k \in free : a.slot <= k
                    /\ a.kind = "none"     => free = {}
                    /\ a.kind = "overflow" => base + n - 1 > Ports!MaxPort
  BY Zenon DEF Ports!Lowest, FreeBlocks
<1>1. names # <<>>
  OBVIOUS
<1>2. \A k \in free : k \in ends
  <2> SUFFICES ASSUME NEW k \in free
               PROVE  k \in ends
    OBVIOUS
  <2>1. k \in Nat
    BY DEF FreeBlocks
  <2>2. /\ k \in 0..Ports!MaxSlot(base, stride, names)
        /\ Ports!Examine(names, Ports!PortsForSlot(base, stride, names, k), used, probe) = "take"
    BY <2>1, FreeIsTaken
  <2> QED BY <2>2 DEF Stops
<1>3. ASSUME a.kind = "ok"
      PROVE  a.slot \in free /\ \A k \in free : a.slot <= k
  <2>1. /\ a.slot \in 0..Ports!MaxSlot(base, stride, names)
        /\ a.ports = Ports!PortsForSlot(base, stride, names, a.slot)
        /\ Ports!Examine(names, a.ports, used, probe) = "take"
        /\ \A k \in ends : a.slot <= k
    BY <1>1, <1>3, AllocatedIsLowest
  <2> HIDE DEF a
  <2>2. a.slot \in Nat
    BY <2>1
  <2>3. a.slot \in free
    BY <2>1, <2>2, FreeIsTaken
  <2> QED BY <1>2, <2>1, <2>3
<1>4. a.kind = "none" => free = {}
  BY <1>1, <1>2, AllocationKinds
<1>5. a.kind = "overflow" => base + n - 1 > Ports!MaxPort
  BY <1>1, AllocationKinds
<1> QED BY <1>3, <1>4, <1>5

\* A stride that covers the names keeps the slots apart.
LEMMA SlotsAreDisjoint ==
  ASSUME NEW base \in Nat, NEW stride \in Nat, NEW names \in Seq(Nat)
  PROVE  Ports!Disjoint(base, stride, names)
<1> SUFFICES ASSUME Ports!ValidateInputs(base, stride, names) = "ok",
                    NEW s \in 0..2, NEW t \in 0..2, s # t,
                    NEW i \in DOMAIN names, NEW j \in DOMAIN names
             PROVE  Ports!PortsForSlot(base, stride, names, s)[i] # Ports!PortsForSlot(base, stride, names, t)[j]
  BY DEF Ports!Disjoint
<1>1. Len(names) <= stride /\ i \in 1..Len(names) /\ j \in 1..Len(names) /\ Len(names) \in Nat
  BY ValidInputs
<1>2. /\ Ports!PortsForSlot(base, stride, names, s)[i] = base + s * stride + i - 1
      /\ Ports!PortsForSlot(base, stride, names, t)[j] = base + t * stride + j - 1
  BY DEF Ports!PortsForSlot
<1>3. base + s * stride + i - 1 # base + t * stride + j - 1
  <2> DEFINE x == s * stride
             y == t * stride
  <2>1. /\ x \in Int /\ y \in Int
        /\ x >= y + stride \/ y >= x + stride
    <3>1. CASE s = 0
      BY <3>1
    <3>2. CASE s = 1
      BY <3>2
    <3>3. CASE s = 2
      BY <3>3
    <3> QED BY <3>1, <3>2, <3>3
  <2>2. i \in Int /\ j \in Int /\ 1 <= i /\ 1 <= j /\ i <= stride /\ j <= stride
    BY <1>1
  <2> HIDE DEF x, y
  <2>3. \A u, v, k, l \in Int :
          (u >= v + stride \/ v >= u + stride) /\ 1 <= k /\ 1 <= l /\ k <= stride /\ l <= stride
            => base + u + k - 1 # base + v + l - 1
    OBVIOUS
  <2>4. \A k, l \in Int :
          1 <= k /\ 1 <= l /\ k <= stride /\ l <= stride => base + x + k - 1 # base + y + l - 1
    BY <2>1, <2>3, Zenon
  <2>5. base + x + i - 1 # base + y + j - 1
    BY <2>2, <2>4, Zenon
  <2> QED BY <2>5 DEF x, y
<1> QED BY <1>2, <1>3

\* The base and the stride are read as unsigned numbers.
PortsTyped ==
  input.kind = "ports" =>
    input.base \in Nat /\ input.stride \in Nat /\ input.names \in Seq(Nat)

\* For any base, stride and names the allocation is sound and the lowest there is, no
\* two slots share a port, and the configuration's own check implies the allocator's
\* (ports.rs: allocate_ports_with_probe; config/validation.rs).
THEOREM AllocationsAreRight == PortsTyped => AllocationIsRight
<1> SUFFICES ASSUME PortsTyped, input.kind = "ports"
             PROVE  /\ Ports!Sound(input.base, input.stride, input.names, Used, Probe)
                    /\ Ports!Lowest(input.base, input.stride, input.names, Used, Probe)
                    /\ Ports!Disjoint(input.base, input.stride, input.names)
                    /\ Config!ValidatePorts(input.base, input.stride, input.names) =>
                         Ports!AllocatePorts(input.base, input.stride, input.names, Used, Probe).kind
                           \notin {"base", "stride", "small", "overflow"}
  BY DEF AllocationIsRight
<1> DEFINE base   == input.base
           stride == input.stride
           names  == input.names
<1>1. base \in Nat /\ stride \in Nat /\ names \in Seq(Nat)
  BY DEF PortsTyped
<1> HIDE DEF base, stride, names
<1>2. /\ Ports!Sound(base, stride, names, Used, Probe)
      /\ Ports!Lowest(base, stride, names, Used, Probe)
      /\ Ports!Disjoint(base, stride, names)
  BY <1>1, AllocationIsSound, AllocationIsLowest, SlotsAreDisjoint
<1>3. ASSUME Config!ValidatePorts(base, stride, names)
      PROVE  Ports!AllocatePorts(base, stride, names, Used, Probe).kind \notin {"base", "stride", "small", "overflow"}
  <2> DEFINE a     == Ports!AllocatePorts(base, stride, names, Used, Probe)
             valid == Ports!ValidateInputs(base, stride, names)
  <2>1. base > 0 /\ stride > 0 /\ Len(names) <= stride
    BY <1>1, <1>3 DEF Config!ValidatePorts
  <2>2. valid \in {"ok", "empty", "duplicate"}
    BY <1>1, <2>1, ValidInputs
  <2>3. CASE names = <<>>
    <3>0. /\ valid # "ok" => a = Ports!Refused(valid)
          /\ valid = "ok" /\ names = <<>> => a = Ports!Allocation(0, <<>>)
      BY <1>1, AllocationEnds
    <3>1. a = Ports!Refused(valid) \/ a = Ports!Allocation(0, <<>>)
      BY <2>3, <3>0, Zenon
    <3>2. a.kind \in {valid, "ok"}
      BY <3>1 DEF Ports!Refused, Ports!Allocation
    <3> HIDE DEF a, valid
    <3> QED BY <2>2, <3>2 DEF a
  <2>4. CASE names # <<>>
    <3>1. ~(base + Len(names) - 1 > Ports!MaxPort)
      BY <1>1, <1>3, <2>4 DEF Config!ValidatePorts, Ports!MaxPort
    <3>2. /\ a.kind = "overflow" => base + Len(names) - 1 > Ports!MaxPort
          /\ a.kind \in {"base", "stride", "small"} => a.kind = valid
      BY <1>1, <2>4, AllocationKinds
    <3> HIDE DEF a, valid
    <3> QED BY <2>2, <3>1, <3>2 DEF a
  <2> QED BY <2>3, <2>4
<1> QED BY <1>2, <1>3 DEF base, stride, names

-----------------------------------------------------------------------------
(* Readiness.  What completes a row leaves what Docker told, so one note   *)
(* decides what every completion of its row does.                          *)

\* A failure that is certain of one service is that of the whole contract.
LEMMA NothingGetsHidden ==
  ASSUME NEW contract, NEW listed, NEW rows
  PROVE  Readiness!NothingHidden(contract, listed, rows)
<1> DEFINE verdict == Readiness!Evaluate(contract, listed, rows)
           resolved == contract.resolution = "current"
           current == contract.declared /\ Readiness!Valid(contract) /\ resolved /\ listed
           Of(s)   == Readiness!EvaluateService(contract.required[s], contract.resolved[s], Readiness!Candidates(s, rows))
           stray   == \E row \in rows : row.service = "" /\ row.oneoff # "yes"
           notes   == Readiness!Unknown(~resolved \/ ~listed \/ stray)
                      \cup {IF resolved /\ listed THEN Of(s) ELSE "unknown" : s \in DOMAIN contract.required}
<1>1. verdict = IF ~contract.declared THEN "unconfigured"
                ELSE IF ~Readiness!Valid(contract) THEN "unknown" ELSE Readiness!Combine(notes)
  BY DEF Readiness!Evaluate
<1>2. ASSUME verdict = "ready"
      PROVE  /\ current /\ \A s \in DOMAIN contract.required : Of(s) = "ready"
             /\ \A row \in rows : row.service = "" => row.oneoff = "yes"
  <2>1. contract.declared /\ Readiness!Valid(contract) /\ Readiness!Combine(notes) = "ready"
    BY <1>1, <1>2
  <2>2. notes \subseteq {"ready"}
    BY <2>1 DEF Readiness!Combine
  <2>3. resolved /\ listed /\ ~stray
    BY <2>2 DEF Readiness!Unknown
  <2>4. \A s \in DOMAIN contract.required : Of(s) = "ready"
    BY <2>2, <2>3
  <2> QED BY <2>1, <2>3, <2>4
<1>3. ASSUME current, NEW s \in DOMAIN contract.required, Of(s) = "not_ready"
      PROVE  verdict = "not_ready"
  <2>1. "not_ready" \in notes
    BY <1>3
  <2> QED BY <1>1, <1>3, <2>1 DEF Readiness!Combine
<1> QED
  BY <1>2, <1>3 DEF Readiness!NothingHidden

-----------------------------------------------------------------------------
\* The containers Docker lists: of one id there is one.
Listing(rows) ==
  /\ IsFiniteSet(rows)
  /\ \A row, other \in rows : row.id = other.id => row = other

\* What completes a row leaves what Docker told.
Completes(real, row) ==
  /\ row.oneoff # Readiness!None => real.oneoff = row.oneoff
  /\ row.number # 0 => real.number = row.number
  /\ row.hash # Readiness!None => real.hash = row.hash
  /\ row.state \in Readiness!States => real.state = row.state
  /\ row.exit # Readiness!None => real.exit = row.exit
  /\ row.healthcheck # Readiness!None => real.healthcheck = row.healthcheck
  /\ row.health # Readiness!None => real.health = row.health

\* A completion of a row completes it.
LEMMA CompletionsComplete ==
  ASSUME NEW row, NEW real \in Readiness!Completions(row)
  PROVE  Completes(real, row)
BY DEF Readiness!Completions, Completes

\* One note of a row decides what it really does.
LEMMA SatisfactionIsCertain ==
  ASSUME NEW role, NEW row, NEW real, Completes(real, row)
  PROVE  /\ Readiness!Satisfaction(role, row) = "ready" => Readiness!Works(role, real)
         /\ Readiness!Satisfaction(role, row) = "not_ready" => ~Readiness!Works(role, real)
<1>1. CASE role = "job"
  <2>1. CASE row.state = "exited"
    <3>1. real.state = "exited"
      BY <2>1 DEF Completes, Readiness!States
    <3>2. Readiness!Satisfaction(role, row) =
            IF row.exit = "zero" THEN "ready" ELSE IF row.exit = Readiness!None THEN "unknown" ELSE "not_ready"
      BY <1>1, <2>1 DEF Readiness!Satisfaction, Readiness!None
    <3>3. row.exit # Readiness!None => real.exit = row.exit
      BY DEF Completes
    <3> QED BY <1>1, <3>1, <3>2, <3>3 DEF Readiness!Works, Readiness!None
  <2>2. CASE row.state # "exited"
    <3>1. Readiness!Satisfaction(role, row) = IF row.state \in Readiness!States THEN "not_ready" ELSE "unknown"
      BY <1>1, <2>2 DEF Readiness!Satisfaction
    <3>2. row.state \in Readiness!States => real.state = row.state
      BY DEF Completes
    <3> QED BY <1>1, <2>2, <3>1, <3>2 DEF Readiness!Works
  <2> QED BY <2>1, <2>2
<1>2. CASE role # "job"
  <2>1. CASE row.state = "running"
    <3>1. real.state = "running"
      BY <2>1 DEF Completes, Readiness!States
    <3>2. Readiness!Satisfaction(role, row) =
            IF (row.healthcheck = "no" /\ row.health = Readiness!None) \/ (row.healthcheck = "yes" /\ row.health = "healthy")
            THEN "ready"
            ELSE IF row.healthcheck = "yes" /\ row.health \in {"unhealthy", "starting"} THEN "not_ready" ELSE "unknown"
      BY <1>2, <2>1 DEF Readiness!Satisfaction, Readiness!States, Readiness!None
    <3>3. /\ row.healthcheck # Readiness!None => real.healthcheck = row.healthcheck
          /\ row.health # Readiness!None => real.health = row.health
      BY DEF Completes
    <3> QED BY <1>2, <3>1, <3>2, <3>3 DEF Readiness!Works, Readiness!None
  <2>2. CASE row.state # "running"
    <3>1. Readiness!Satisfaction(role, row) = IF row.state \in Readiness!States THEN "not_ready" ELSE "unknown"
      BY <1>2, <2>2 DEF Readiness!Satisfaction
    <3>2. row.state \in Readiness!States => real.state = row.state
      BY DEF Completes
    <3> QED BY <1>2, <2>2, <3>1, <3>2 DEF Readiness!Works
  <2> QED BY <2>1, <2>2
<1> QED BY <1>1, <1>2

\* A world: what each listed container really is.
LEMMA WorldsComplete ==
  ASSUME NEW rows, NEW W \in Readiness!Worlds(rows)
  PROVE  \E f : W = {f[row] : row \in rows} /\ \A row \in rows : Completes(f[row], row)
<1> DEFINE all == UNION {Readiness!Completions(row) : row \in rows}
<1>1. PICK f \in {g \in [rows -> all] : \A row \in rows : g[row] \in Readiness!Completions(row)} :
        W = {f[row] : row \in rows}
  BY DEF Readiness!Worlds
<1>2. \A row \in rows : Completes(f[row], row)
  BY <1>1, CompletionsComplete
<1> QED BY <1>1, <1>2

Noted(role, replicas, rows) ==
  LET current    == {row \in rows : Readiness!Provable(row)}
      count      == Cardinality({Readiness!Key(row) : row \in {row \in rows : row.hash # "other"}})
      alone(row) == \A other \in current \ {row} : other.number # row.number
  IN Readiness!Unknown(rows # current \/ count > replicas) \cup Readiness!NotReady(count < replicas)
     \cup {IF alone(row) THEN Readiness!Satisfaction(role, row) ELSE "unknown" : row \in current}

\* The verdict on a service is that on the notes of its rows.
LEMMA EvaluationCombines ==
  ASSUME NEW role, NEW replicas, NEW rows
  PROVE  Readiness!EvaluateService(role, replicas, rows) = Readiness!Combine(Noted(role, replicas, rows))
BY SameCardinality DEF Noted, Readiness!EvaluateService

\* Ready: each instance that counts was seen, and seen to serve.
LEMMA ReadyIsCertain ==
  ASSUME NEW role, NEW replicas \in Nat, NEW rows, IsFiniteSet(rows),
         Readiness!EvaluateService(role, replicas, rows) = "ready",
         NEW W \in Readiness!Worlds(rows)
  PROVE  Readiness!Serves(role, replicas, W)
<1> DEFINE current    == {row \in rows : Readiness!Provable(row)}
           keys       == {Readiness!Key(row) : row \in {row \in rows : row.hash # "other"}}
           alone(row) == \A other \in current \ {row} : other.number # row.number
           instances  == {row \in W : row.oneoff = "no" /\ row.hash = "current"}
           numbers    == {row.number : row \in rows}
<1>1. PICK f : W = {f[row] : row \in rows} /\ \A row \in rows : Completes(f[row], row)
  BY WorldsComplete
<1>2. Noted(role, replicas, rows) \subseteq {"ready"}
  BY EvaluationCombines DEF Readiness!Combine
<1>3. rows = current /\ ~(Cardinality(keys) > replicas) /\ ~(Cardinality(keys) < replicas)
  BY <1>2 DEF Noted, Readiness!Unknown, Readiness!NotReady
<1>4. ASSUME NEW row \in rows
      PROVE  Readiness!Satisfaction(role, row) = "ready"
  <2>1. (IF alone(row) THEN Readiness!Satisfaction(role, row) ELSE "unknown") \in Noted(role, replicas, rows)
    BY <1>3, Zenon DEF Noted
  <2>2. (IF alone(row) THEN Readiness!Satisfaction(role, row) ELSE "unknown") = "ready"
    BY <1>2, <2>1
  <2> QED BY <2>2
<1>5. \A row \in rows : row.oneoff = "no" /\ row.number # 0 /\ row.hash = "current"
  BY <1>3 DEF Readiness!Provable
<1>6. \A row \in rows :
        f[row].oneoff = "no" /\ f[row].hash = "current" /\ f[row].number = row.number
  BY <1>1, <1>5 DEF Completes, Readiness!None
<1>7. instances = W
  BY <1>1, <1>6
<1>8. {row.number : row \in W} = numbers
  BY <1>1, <1>6
<1>9. keys = {<<"number", n>> : n \in numbers}
  <2>1. {row \in rows : row.hash # "other"} = rows
    BY <1>5
  <2>2. \A row \in rows : Readiness!Key(row) = <<"number", row.number>>
    BY <1>5 DEF Readiness!Key
  <2> QED BY <2>1, <2>2
<1>10. IsFiniteSet(numbers) /\ IsFiniteSet(keys) /\ Cardinality(keys) = Cardinality(numbers)
  <2> DEFINE number == [row \in rows |-> row.number]
             key    == [n \in numbers |-> <<"number", n>>]
             back   == [k \in keys |-> k[2]]
  <2>1. numbers \subseteq {number[row] : row \in rows}
    OBVIOUS
  <2>2. keys \subseteq {key[n] : n \in numbers}
    BY <1>9
  <2>3. numbers \subseteq {back[k] : k \in keys}
    <3>1. ASSUME NEW n \in numbers
          PROVE  <<"number", n>> \in keys /\ back[<<"number", n>>] = n
      BY <1>9
    <3> QED BY <3>1
  <2> HIDE DEF numbers, keys, number, key, back
  <2>4. IsFiniteSet(numbers)
    BY <2>1, NoMoreImages
  <2>5. IsFiniteSet(keys) /\ Cardinality(keys) <= Cardinality(numbers)
    BY <2>2, <2>4, NoMoreImages
  <2>6. Cardinality(numbers) <= Cardinality(keys)
    BY <2>3, <2>5, NoMoreImages
  <2>7. Cardinality(numbers) \in Nat /\ Cardinality(keys) \in Nat
    BY <2>4, <2>5, FS_CardinalityType
  <2> QED BY <2>4, <2>5, <2>6, <2>7
<1>11. Cardinality(numbers) = replicas
  <2>1. Cardinality(keys) \in Nat
    BY <1>10, FS_CardinalityType
  <2> QED BY <1>3, <1>10, <2>1
<1>12. \A row \in W : Readiness!Works(role, row)
  BY <1>1, <1>4, SatisfactionIsCertain
<1>13. Readiness!Cardinality({row.number : row \in instances}) = replicas
  BY <1>7, <1>8, <1>11, SameCardinality
<1>14. \A row \in instances : Readiness!Works(role, row)
  BY <1>7, <1>12
<1> QED
  BY <1>13, <1>14, Zenon DEF Readiness!Serves

\* Not ready: too few keys for the replicas, or one that cannot serve, in any world.
LEMMA FailureIsCertain ==
  ASSUME NEW role, NEW replicas \in Nat, NEW rows, Listing(rows),
         Readiness!EvaluateService(role, replicas, rows) = "not_ready",
         NEW W \in Readiness!Worlds(rows)
  PROVE  ~Readiness!Serves(role, replicas, W)
<1> DEFINE current    == {row \in rows : Readiness!Provable(row)}
           counted    == {row \in rows : row.hash # "other"}
           keys       == {Readiness!Key(row) : row \in counted}
           alone(row) == \A other \in current \ {row} : other.number # row.number
           instances  == {row \in W : row.oneoff = "no" /\ row.hash = "current"}
           numbers    == {row.number : row \in instances}
<1>1. PICK f : W = {f[row] : row \in rows} /\ \A row \in rows : Completes(f[row], row)
  BY WorldsComplete
<1>2. "not_ready" \in Noted(role, replicas, rows)
  BY EvaluationCombines DEF Readiness!Combine
<1>3. \/ Cardinality(keys) < replicas
      \/ \E row \in current : Readiness!Satisfaction(role, row) = "not_ready"
  BY <1>2 DEF Noted, Readiness!Unknown, Readiness!NotReady
<1>4. CASE Cardinality(keys) < replicas
  <2> DEFINE key  == [row \in rows |-> Readiness!Key(row)]
             of   == [k \in keys |-> CHOOSE row \in counted : Readiness!Key(row) = k]
             real == [k \in keys |-> f[of[k]].number]
  <2>1. IsFiniteSet(rows) /\ \A row, other \in rows : row.id = other.id => row = other
    BY DEF Listing
  <2>2. keys \subseteq {key[row] : row \in rows}
    OBVIOUS
  <2>3. IsFiniteSet(keys)
    <3> HIDE DEF keys, key
    <3> QED BY <2>1, <2>2, NoMoreImages
  <2>4. numbers \subseteq {real[k] : k \in keys}
    <3> SUFFICES ASSUME NEW n \in numbers
                 PROVE  \E k \in keys : real[k] = n
      OBVIOUS
    <3>1. PICK row \in rows : f[row] \in instances /\ n = f[row].number
      BY <1>1
    <3>2. row.hash # "other"
      BY <1>1, <3>1 DEF Completes, Readiness!None
    <3>3. row \in counted /\ Readiness!Key(row) \in keys
      BY <3>2
    <3> DEFINE other == of[Readiness!Key(row)]
    <3>4. other \in counted /\ Readiness!Key(other) = Readiness!Key(row)
      BY <3>3
    <3> HIDE DEF of, other
    <3>5. f[other].number = f[row].number
      <4>1. CASE row.number = 0
        <5>1. other.id = row.id
          BY <3>4, <4>1 DEF Readiness!Key
        <5>2. other = row
          BY <2>1, <3>4, <5>1
        <5> QED BY <5>2
      <4>2. CASE row.number # 0
        <5>1. other.number = row.number
          BY <3>4, <4>2 DEF Readiness!Key
        <5>2. f[other].number = other.number /\ f[row].number = row.number
          BY <1>1, <3>4, <4>2, <5>1 DEF Completes
        <5> QED BY <5>1, <5>2
      <4> QED BY <4>1, <4>2
    <3> QED BY <3>1, <3>3, <3>5 DEF other
  <2> HIDE DEF keys, numbers, real
  <2>5. IsFiniteSet(numbers) /\ Cardinality(numbers) <= Cardinality(keys)
    BY <2>3, <2>4, NoMoreImages
  <2>6. Cardinality(numbers) \in Nat /\ Cardinality(keys) \in Nat
    BY <2>3, <2>5, FS_CardinalityType
  <2>7. Cardinality(numbers) # replicas
    BY <1>4, <2>5, <2>6
  <2>8. Readiness!Cardinality(numbers) # replicas
    BY <2>7, SameCardinality
  <2> QED BY <2>8, Zenon DEF Readiness!Serves, numbers
<1>5. CASE \E row \in current : Readiness!Satisfaction(role, row) = "not_ready"
  <2>1. PICK row \in rows : Readiness!Provable(row) /\ Readiness!Satisfaction(role, row) = "not_ready"
    BY <1>5
  <2>2. Completes(f[row], row) /\ f[row] \in W
    BY <1>1
  <2>3. f[row] \in instances
    BY <2>1, <2>2 DEF Completes, Readiness!Provable, Readiness!None
  <2>4. ~Readiness!Works(role, f[row])
    BY <2>1, <2>2, SatisfactionIsCertain
  <2> QED BY <2>3, <2>4 DEF Readiness!Serves
<1> QED BY <1>3, <1>4, <1>5

\* docker ps lists each container once; a replica count is a number.
ServiceTyped ==
  input.kind = "service" => input.replicas \in Nat /\ Listing(input.rows)

\* Whatever Docker lists, a service is found ready or not ready only if it is so in
\* every world of the rows, and a certain failure is not hidden by what is unknown of
\* other services (readiness/evaluation.rs: evaluate_service).
THEOREM VerdictsAreCertain == ServiceTyped => ReadinessIsCertain
<1> SUFFICES ASSUME ServiceTyped
             PROVE  ReadinessIsCertain
  OBVIOUS
<1>1. ASSUME input.kind = "service"
      PROVE  Readiness!VerdictIsCertain(input.role, input.replicas, input.rows)
  <2>1. input.replicas \in Nat /\ Listing(input.rows) /\ IsFiniteSet(input.rows)
    BY <1>1 DEF ServiceTyped, Listing
  <2> QED BY <2>1, ReadyIsCertain, FailureIsCertain DEF Readiness!VerdictIsCertain
<1> QED
  BY <1>1, NothingGetsHidden DEF ReadinessIsCertain

-----------------------------------------------------------------------------
(* RuntimeModel.  A network or volume is declared by one document, and of a*)
(* container_name both readings take the last.                             *)

\* Documents in order; what is not a mapping says nothing of external.
Documents(files) ==
  /\ \E n \in Nat : DOMAIN files = 1..n
  /\ \A i \in DOMAIN files, kind \in Model!Fields : \A n \in DOMAIN files[i][kind] :
       ~files[i][kind][n].mapping => files[i][kind][n].external = "absent"

\* A resource that is accepted is declared by one document.
LEMMA DeclaredOnce ==
  ASSUME NEW files, Documents(files), NEW kind \in Model!Fields, ~Model!ResourcesRefused(files, kind),
         NEW n \in Model!DeclaredIn(files, kind)
  PROVE  \E i \in DOMAIN files : Model!Declaring(files, kind, n) = {i} /\ n \in DOMAIN files[i][kind]
<1>1. PICK i \in DOMAIN files : n \in DOMAIN files[i][kind]
  BY DEF Model!DeclaredIn
<1>2. i \in Model!Declaring(files, kind, n) /\ Model!Declaring(files, kind, n) \subseteq DOMAIN files
  BY <1>1 DEF Model!Declaring
<1>3. IsFiniteSet(DOMAIN files)
  BY FS_Interval DEF Documents
<1>4. IsFiniteSet(Model!Declaring(files, kind, n))
  BY <1>2, <1>3, FS_Subset
<1>5. ~(Cardinality(Model!Declaring(files, kind, n)) > 1)
  BY SameCardinality DEF Model!ResourcesRefused
<1>6. \A j \in Model!Declaring(files, kind, n) : j = i
  BY <1>2, <1>4, <1>5, AtMostOne
<1> QED BY <1>1, <1>2, <1>6

\* The last of one is that one.
LEMMA LatestOfOne ==
  ASSUME NEW i, i \in Int
  PROVE  Model!Latest({i}) = i
BY DEF Model!Latest

\* The networks and volumes Compose creates are the ones that are claimed.
LEMMA OwnIsManaged ==
  ASSUME NEW files, Documents(files), NEW kind \in Model!Fields, ~Model!ResourcesRefused(files, kind)
  PROVE  {n \in Model!DeclaredIn(files, kind) : Model!Merged(files, kind, n, "external") # "true"}
           = Model!Managed(files, kind)
<1> SUFFICES ASSUME NEW n \in Model!DeclaredIn(files, kind)
             PROVE  Model!Merged(files, kind, n, "external") # "true"
                      <=> \A i \in Model!Declaring(files, kind, n) : ~Model!External(files[i][kind][n])
  BY DEF Model!Managed
<1>1. PICK i \in DOMAIN files : Model!Declaring(files, kind, n) = {i} /\ n \in DOMAIN files[i][kind]
  BY DeclaredOnce
<1> DEFINE r == files[i][kind][n]
           S == {j \in Model!Declaring(files, kind, n) :
                   ~files[j][kind][n].scalar /\ files[j][kind][n]["external"] # "absent"}
<1>2. ~r.scalar
  BY <1>1 DEF Model!ResourcesRefused, Model!ResourceRefused
<1>3. ~r.mapping => r.external = "absent"
  BY <1>1 DEF Documents
<1>4. i \in Int
  BY DEF Documents
<1>5. Model!Merged(files, kind, n, "external") = IF S = {} THEN "absent" ELSE files[Model!Latest(S)][kind][n]["external"]
  BY ZenonT(60) DEF Model!Merged
<1>6. CASE r.external = "absent"
  <2>1. S = {}
    BY <1>1, <1>6
  <2> QED BY <1>1, <1>5, <1>6, <2>1 DEF Model!External
<1>7. CASE r.external # "absent"
  <2>1. S = {i}
    BY <1>1, <1>2, <1>7
  <2> HIDE DEF S
  <2>2. Model!Latest(S) = i
    BY <1>4, <2>1, LatestOfOne
  <2>3. S # {}
    BY <2>1
  <2>4. Model!Merged(files, kind, n, "external") = r.external
    BY <1>5, <2>2, <2>3, Zenon
  <2> QED BY <1>1, <1>3, <1>7, <2>4 DEF Model!External
<1> QED BY <1>6, <1>7

\* The container_name Compose takes is the one that is looked up.
LEMMA NamesAreCustom ==
  ASSUME NEW files, Documents(files), NEW n \in Model!DeclaredIn(files, "services"),
         \A i \in Model!Declaring(files, "services", n) : ~files[i].services[n].scalar
  PROVE  LET name == Model!Merged(files, "services", n, "container_name")
         IN (IF name \in {"absent", "null"} THEN "scoped" ELSE name) = Model!CustomName(files, n)
<1> DEFINE name == Model!Merged(files, "services", n, "container_name")
           says == {i \in Model!Declaring(files, "services", n) : files[i].services[n].container_name # "absent"}
           S    == {i \in Model!Declaring(files, "services", n) :
                      ~files[i]["services"][n].scalar /\ files[i]["services"][n]["container_name"] # "absent"}
           value == files[Model!Latest(says)].services[n].container_name
<1>1. S = says
  OBVIOUS
<1>2. name = IF S = {} THEN "absent" ELSE files[Model!Latest(S)]["services"][n]["container_name"]
  BY ZenonT(60) DEF Model!Merged
<1>3. Model!CustomName(files, n) = IF says = {} \/ value = "null" THEN "scoped" ELSE value
  BY ZenonT(60) DEF Model!CustomName
<1>4. ASSUME says # {}
      PROVE  value # "absent"
  <2>1. PICK m \in Nat : DOMAIN files = 1..m
    BY DEF Documents
  <2>2. says \subseteq 1..m
    BY <2>1 DEF Model!Declaring
  <2>3. \E s \in says : \A t \in says : t <= s
    <3> HIDE DEF says
    <3> QED BY <1>4, <2>2, Greatest
  <2>4. Model!Latest(says) \in says
    BY <2>3 DEF Model!Latest
  <2> QED BY <2>4
<1>5. name = IF says = {} THEN "absent" ELSE value
  <2> HIDE DEF S, says
  <2> QED BY <1>1, <1>2
<1> HIDE DEF says, value, name
<1>6. (IF name \in {"absent", "null"} THEN "scoped" ELSE name) = Model!CustomName(files, n)
  BY <1>3, <1>4, <1>5
<1> QED BY <1>6 DEF name

\* So everything that is created is claimed and looked up under its name.
LEMMA AllIsAttested ==
  ASSUME NEW files, Documents(files)
  PROVE  Model!EverythingAttested(files)
<1> DEFINE model == Model!OwnershipModel(files)
           names == Model!ExpectedNames(files)
           made  == Model!Created(files)
<1> SUFFICES ASSUME model.accepted
             PROVE  /\ names.accepted
                    /\ made.containers \subseteq names.containers
                    /\ made.networks = model.networks /\ made.networks \subseteq names.networks
                    /\ made.volumes = model.volumes /\ made.volumes = names.volumes
                    /\ {c[2] : c \in made.containers} \subseteq model.services
                    /\ ~made.unnamed
  BY DEF Model!EverythingAttested
<1> DEFINE name(n) == Model!Merged(files, "services", n, "container_name")
           declared == Model!DeclaredIn(files, "volumes")
<1>1. /\ model.services = Model!DeclaredIn(files, "services")
      /\ model.networks = Model!Managed(files, "networks") \cup Model!DefaultNetwork(files)
      /\ model.volumes = Model!Managed(files, "volumes")
  BY DEF Model!OwnershipModel
<1>2. /\ \A kind \in Model!Fields : ~Model!ResourcesRefused(files, kind)
      /\ \A i \in DOMAIN files : \A n \in DOMAIN files[i].services :
           LET s == files[i].services[n]
           IN ~Model!ContainerNameRefused(s) /\ \A v \in s.volumes : ~Model!VolumeRefused(v, declared)
  BY DEF Model!OwnershipModel
<1>3. names.accepted
  BY <1>2 DEF Model!ExpectedNames
<1>4. /\ names.containers = {<<Model!CustomName(files, n), n>> : n \in Model!DeclaredIn(files, "services")}
      /\ names.networks = {"default"} \cup Model!Managed(files, "networks")
      /\ names.volumes = Model!Managed(files, "volumes")
  BY DEF Model!ExpectedNames
<1>5. /\ made.containers = {<<IF name(n) \in {"absent", "null"} THEN "scoped" ELSE name(n), n>> :
                              n \in Model!DeclaredIn(files, "services")}
      /\ made.networks = {n \in Model!DeclaredIn(files, "networks") : Model!Merged(files, "networks", n, "external") # "true"}
                           \cup Model!DefaultNetwork(files)
      /\ made.volumes = {n \in Model!DeclaredIn(files, "volumes") : Model!Merged(files, "volumes", n, "external") # "true"}
      /\ made.unnamed <=> \E i \in DOMAIN files : \E n \in DOMAIN files[i].services :
                            \E v \in files[i].services[n].volumes : v.kind = "anonymous"
  BY DEF Model!Created
<1> HIDE DEF model, names, made
<1>6. /\ {n \in Model!DeclaredIn(files, "networks") : Model!Merged(files, "networks", n, "external") # "true"} = Model!Managed(files, "networks")
      /\ {n \in Model!DeclaredIn(files, "volumes") : Model!Merged(files, "volumes", n, "external") # "true"} = Model!Managed(files, "volumes")
  <2>1. "networks" \in Model!Fields /\ "volumes" \in Model!Fields
    BY DEF Model!Fields
  <2> QED BY <1>2, <2>1, OwnIsManaged
<1>7. \A n \in Model!DeclaredIn(files, "services") :
        (IF name(n) \in {"absent", "null"} THEN "scoped" ELSE name(n)) = Model!CustomName(files, n)
  <2> SUFFICES ASSUME NEW n \in Model!DeclaredIn(files, "services")
               PROVE  (IF name(n) \in {"absent", "null"} THEN "scoped" ELSE name(n)) = Model!CustomName(files, n)
    OBVIOUS
  <2>1. \A i \in Model!Declaring(files, "services", n) : ~files[i].services[n].scalar
    BY <1>2 DEF Model!Declaring, Model!ContainerNameRefused
  <2> QED BY <2>1, NamesAreCustom
<1>8. made.containers = names.containers
  BY <1>4, <1>5, <1>7
<1>9. made.networks = model.networks /\ made.networks \subseteq names.networks
  BY <1>1, <1>4, <1>5, <1>6 DEF Model!DefaultNetwork
<1>10. made.volumes = model.volumes /\ made.volumes = names.volumes
  BY <1>1, <1>4, <1>5, <1>6
<1>11. {c[2] : c \in made.containers} \subseteq model.services
  BY <1>1, <1>4, <1>8
<1>12. ~made.unnamed
  BY <1>2, <1>5 DEF Model!VolumeRefused
<1> QED BY <1>3, <1>8, <1>9, <1>10, <1>11, <1>12

FilesTyped == input.kind = "files" => Documents(input.files)

\* Whatever the documents of an accepted model, all that Compose creates from them is
\* labelled, and looked up by the name it gets (compose/ownership_model.rs).
THEOREM EverythingIsAttested == FilesTyped => EverythingAttested
BY AllIsAttested DEF FilesTyped, EverythingAttested

-----------------------------------------------------------------------------
(* Inspection.  A world gives each container what inspect was not told of  *)
(* it; a claim is checked in each.                                         *)

\* What a container really is: one truth of each.
World(containers, w) == \A c \in containers : w[c] \in Inspect!Truths(c)

\* What inspect was told of a container is so.
LEMMA TruthsAreTold ==
  ASSUME NEW c, NEW truth \in Inspect!Truths(c)
  PROVE  /\ c.state \in Inspect!Ended \cup Inspect!Active => truth.state = c.state
         /\ c.service # Inspect!None => truth.service = c.service
         /\ c.oneoff # Inspect!None => truth.oneoff = c.oneoff
BY DEF Inspect!Truths

\* Active and inactive, running and stopped, are each claimed of what is so in every
\* world of the containers.
LEMMA ActivityIsCertain ==
  ASSUME NEW containers, NEW w, World(containers, w), Inspect!Snapshot(containers).available
  PROVE  LET snapshot == Inspect!Snapshot(containers)
         IN /\ Inspect!Holds(Inspect!Activity(snapshot), "active", "inactive",
                             \E c \in containers : w[c].state \in Inspect!Active)
            /\ Inspect!Holds(Inspect!Status(snapshot), "running", "stopped",
                             \E c \in containers : w[c].state = "running")
<1> DEFINE snapshot == Inspect!Snapshot(containers)
<1>1. snapshot.available /\ snapshot.services = containers
  BY DEF Inspect!Snapshot
<1>2. \A c \in containers : c.state \in Inspect!Ended \cup Inspect!Active => w[c].state = c.state
  BY TruthsAreTold DEF World
<1> HIDE DEF snapshot
<1>3. Inspect!Holds(Inspect!Activity(snapshot), "active", "inactive",
                    \E c \in containers : w[c].state \in Inspect!Active)
  <2>1. CASE \E c \in containers : c.state \in Inspect!Active
    <3>1. Inspect!Activity(snapshot) = "active"
      BY <1>1, <2>1 DEF Inspect!Activity
    <3>2. \E c \in containers : w[c].state \in Inspect!Active
      BY <1>2, <2>1
    <3> QED BY <3>1, <3>2 DEF Inspect!Holds
  <2>2. CASE ~\E c \in containers : c.state \in Inspect!Active
    <3>1. CASE \A c \in containers : c.state \in Inspect!Ended
      <4>1. Inspect!Activity(snapshot) = "inactive"
        BY <1>1, <2>2, <3>1 DEF Inspect!Activity
      <4>2. ~\E c \in containers : w[c].state \in Inspect!Active
        BY <1>2, <3>1 DEF Inspect!Ended, Inspect!Active
      <4> QED BY <4>1, <4>2 DEF Inspect!Holds
    <3>2. CASE ~\A c \in containers : c.state \in Inspect!Ended
      BY <1>1, <2>2, <3>2 DEF Inspect!Activity, Inspect!Holds
    <3> QED BY <3>1, <3>2
  <2> QED BY <2>1, <2>2
<1>4. Inspect!Holds(Inspect!Status(snapshot), "running", "stopped",
                    \E c \in containers : w[c].state = "running")
  <2>1. CASE \E c \in containers : c.state = "running"
    <3>1. Inspect!Status(snapshot) = "running"
      BY <1>1, <2>1 DEF Inspect!Status
    <3>2. \E c \in containers : w[c].state = "running"
      BY <1>2, <2>1 DEF Inspect!Active
    <3> QED BY <3>1, <3>2 DEF Inspect!Holds
  <2>2. CASE ~\E c \in containers : c.state = "running"
    <3>1. CASE \A c \in containers : c.state \in Inspect!Ended \cup Inspect!Active
      <4>1. Inspect!Status(snapshot) = "stopped"
        BY <1>1, <2>2, <3>1 DEF Inspect!Status
      <4>2. ~\E c \in containers : w[c].state = "running"
        BY <1>2, <2>2, <3>1
      <4> QED BY <4>1, <4>2 DEF Inspect!Holds
    <3>2. CASE ~\A c \in containers : c.state \in Inspect!Ended \cup Inspect!Active
      BY <1>1, <2>2, <3>2 DEF Inspect!Status, Inspect!Holds
    <3> QED BY <3>1, <3>2
  <2> QED BY <2>1, <2>2
<1> QED
  BY <1>3, <1>4 DEF snapshot

\* The same of one service.
LEMMA ServiceIsCertain ==
  ASSUME NEW containers, NEW w, World(containers, w), Inspect!Snapshot(containers).available
  PROVE  Inspect!Holds(Inspect!ServiceStatus(Inspect!Snapshot(containers), "web"), "running", "stopped",
           \E c \in containers : w[c].service = "web" /\ w[c].oneoff = "no" /\ w[c].state = "running")
<1> DEFINE snapshot == Inspect!Snapshot(containers)
           regular  == Inspect!Regular(snapshot, "web")
           runs(c)  == w[c].service = "web" /\ w[c].oneoff = "no" /\ w[c].state = "running"
<1>1. snapshot.available /\ snapshot.services = containers
  BY DEF Inspect!Snapshot
<1>2. \A c \in containers :
        /\ c.state \in Inspect!Ended \cup Inspect!Active => w[c].state = c.state
        /\ c.service # Inspect!None => w[c].service = c.service
        /\ c.oneoff # Inspect!None => w[c].oneoff = c.oneoff
  BY TruthsAreTold DEF World
<1>3. regular = {c \in containers : c.service = "web" /\ c.oneoff = "no"}
  BY <1>1 DEF Inspect!Regular
<1>4. Inspect!Unattributed(snapshot, "web") =
        {c \in containers : c.oneoff # "yes" /\ (c.service = Inspect!None \/ (c.service = "web" /\ c.oneoff = Inspect!None))}
  BY <1>1 DEF Inspect!Unattributed
<1> HIDE DEF snapshot
<1>5. CASE \E c \in regular : c.state = "running"
  <2>1. Inspect!ServiceStatus(snapshot, "web") = "running"
    BY <1>5 DEF Inspect!ServiceStatus, Inspect!Ended
  <2>2. \E c \in containers : runs(c)
    <3>1. PICK c \in containers : c.service = "web" /\ c.oneoff = "no" /\ c.state = "running"
      BY <1>3, <1>5
    <3>2. runs(c)
      BY <1>2, <3>1 DEF Inspect!None, Inspect!Active
    <3> QED BY <3>2
  <2> QED BY <2>1, <2>2 DEF Inspect!Holds, snapshot
<1>6. CASE ~\E c \in regular : c.state = "running"
  <2>1. CASE /\ \A c \in regular : c.state \in Inspect!Ended \cup (Inspect!Active \ {"running"})
             /\ Inspect!Unattributed(snapshot, "web") = {}
    <3>1. Inspect!ServiceStatus(snapshot, "web") = "stopped"
      BY <1>1, <1>6, <2>1 DEF Inspect!ServiceStatus
    <3>2. ASSUME NEW c \in containers, runs(c)
          PROVE  FALSE
      <4>1. c.oneoff # "yes"
        BY <1>2, <3>2 DEF Inspect!None
      <4>2. c.service \in {"web", Inspect!None}
        BY <1>2, <3>2
      <4>3. c.oneoff \in {"no", Inspect!None}
        BY <1>2, <3>2
      <4>4. c.service = "web" /\ c.oneoff = "no"
        BY <1>4, <2>1, <4>1, <4>2, <4>3
      <4>5. c.state \in Inspect!Ended \cup (Inspect!Active \ {"running"})
        BY <1>3, <2>1, <4>4
      <4> QED BY <1>2, <3>2, <4>5 DEF Inspect!Ended
    <3> QED BY <3>1, <3>2 DEF Inspect!Holds, snapshot
  <2>2. CASE ~(/\ \A c \in regular : c.state \in Inspect!Ended \cup (Inspect!Active \ {"running"})
               /\ Inspect!Unattributed(snapshot, "web") = {})
    <3>1. Inspect!ServiceStatus(snapshot, "web") = "unknown"
      BY <1>1, <1>6, <2>2 DEF Inspect!ServiceStatus
    <3> QED BY <3>1 DEF Inspect!Holds, snapshot
  <2> QED BY <2>1, <2>2
<1> QED
  BY <1>5, <1>6

\* The same of a snapshot that may not be available.
LEMMA StatusesAreCertain ==
  ASSUME NEW containers
  PROVE  Inspect!StatusIsCertain(containers)
<1> DEFINE snapshot == Inspect!Snapshot(containers)
<1>1. ~snapshot.available =>
        {Inspect!Activity(snapshot), Inspect!Status(snapshot), Inspect!ServiceStatus(snapshot, "web")} = {"unknown"}
  <2> SUFFICES ASSUME ~snapshot.available
               PROVE  {Inspect!Activity(snapshot), Inspect!Status(snapshot), Inspect!ServiceStatus(snapshot, "web")} = {"unknown"}
    OBVIOUS
  <2>1. snapshot.services = {}
    BY DEF Inspect!Snapshot
  <2> HIDE DEF snapshot
  <2>2. Inspect!Activity(snapshot) = "unknown" /\ Inspect!Status(snapshot) = "unknown"
    BY <2>1 DEF Inspect!Activity, Inspect!Status
  <2>3. Inspect!ServiceStatus(snapshot, "web") = "unknown"
    BY <2>1 DEF Inspect!ServiceStatus, Inspect!Regular
  <2> QED BY <2>2, <2>3
<1>2. ASSUME NEW w \in {f \in [containers -> UNION {Inspect!Truths(c) : c \in containers}] :
                          \A c \in containers : f[c] \in Inspect!Truths(c)}
      PROVE  World(containers, w)
  BY DEF World
<1> QED
  BY <1>1, <1>2, ActivityIsCertain, ServiceIsCertain DEF Inspect!StatusIsCertain

\* What answers on a published port is the container itself, if it runs.
LEMMA AnswersAreOwn ==
  ASSUME NEW containers, NEW checks, NEW recorded
  PROVE  Inspect!AnswersAreItsOwn(containers, checks, recorded)
<1> DEFINE snapshot == Inspect!Snapshot(containers)
           observed == Inspect!ObservedHealth(snapshot, checks)
           health   == Inspect!EffectiveHealth(snapshot, checks, recorded)
<1>1. observed # Inspect!None => Inspect!Status(snapshot) = "running"
  BY DEF Inspect!ObservedHealth
<1>2. ASSUME observed = "ready", NEW i \in DOMAIN checks
      PROVE  checks[i].answers /\ (checks[i].target = Inspect!None \/ checks[i].holder = "ours")
  <2> DEFINE found == [j \in DOMAIN checks |-> Inspect!Correlate(snapshot, checks[j])]
  <2>1. Inspect!PassiveHealth(snapshot, checks) = "ready"
    BY <1>2 DEF Inspect!ObservedHealth, Inspect!None
  <2>2. /\ {j \in DOMAIN checks : found[j] \in {"error", "failed"}} = {}
        /\ Inspect!HealthyPassive(checks) = "ready"
    BY <2>1 DEF Inspect!PassiveHealth, Inspect!None
  <2>3. checks[i].answers
    BY <2>2 DEF Inspect!HealthyPassive
  <2>4. Inspect!Correlate(snapshot, checks[i]) \notin {"error", "failed"}
    BY <2>2
  <2>5. checks[i].target = Inspect!None \/ checks[i].holder = "ours"
    BY <2>4 DEF Inspect!Correlate, Inspect!Published
  <2> QED BY <2>3, <2>5
<1>3. health = [status |-> "ready", basis |-> "live"] => observed = "ready"
  BY DEF Inspect!EffectiveHealth
<1>4. health.basis \in {"live", "recorded"} => Inspect!Status(snapshot) = "running"
  BY <1>1 DEF Inspect!EffectiveHealth
<1>5. ASSUME NEW i \in DOMAIN checks,
             Inspect!DatabaseStatus(Inspect!ServiceStatus(snapshot, "web"), checks[i]) = "reachable"
      PROVE  checks[i].holder = "ours"
  BY <1>5 DEF Inspect!DatabaseStatus, Inspect!Published
<1> QED
  BY <1>2, <1>3, <1>4, <1>5 DEF Inspect!AnswersAreItsOwn

\* What inspect claims of activity and status holds in every world of any containers,
\* and a live verdict of health or of the database never rests on a program that is
\* not the environment's (compose/observations.rs, health.rs, database.rs).
THEOREM InspectionsAreCertain == InspectionIsCertain
BY StatusesAreCertain, AnswersAreOwn DEF InspectionIsCertain

-----------------------------------------------------------------------------
(* ComposeContract.  What apply leaves is first said port by port, LeftBy; *)
(* every claim about the new file follows from that.                       *)

\* The ports of the files, by file and place.
LEMMA DeclaredPorts ==
  ASSUME NEW files
  PROVE  /\ \A d \in Compose!Declared(files) :
              d = <<d[1], d[2]>> /\ d[1] \in DOMAIN files /\ d[2] \in DOMAIN files[d[1]].ports
         /\ \A f \in DOMAIN files : \A i \in DOMAIN files[f].ports :
              /\ <<f, i>> \in Compose!Declared(files)
              /\ Compose!At(files, <<f, i>>) = files[f].ports[i]
BY DEF Compose!Declared, Compose!At

\* Contracts are one to one from ports to names: a target for each name, no
\* allocation for two.
LEMMA ContractsBindPorts ==
  ASSUME NEW files, NEW expected, NEW generate
  PROVE  Compose!ContractBindsPorts(files, expected, generate)
<1> DEFINE Host(d)     == Compose!At(files, d).host
           Contract(d) == generate[Host(d).variable]
           E(d)        == Compose!Endpoint(Compose!At(files, d), generate)
           D           == Compose!Declared(files)
<1> SUFFICES ASSUME Compose!ContractOk(files, expected, generate)
             PROVE  /\ \A d \in D :
                         /\ Compose!Loopback(Compose!Interface(Compose!At(files, d)))
                         /\ E(d).kind = "allocated" /\ E(d).of \in DOMAIN expected
                         /\ Compose!At(files, d).container = expected[E(d).of]
                         /\ \A e \in D : E(d) = E(e) => d = e
                    /\ \A n \in DOMAIN expected :
                         /\ Compose!TargetOk(files, expected, generate, n)
                         /\ \A d \in Compose!Targets(files, generate, n) : E(d).of = n
                    /\ \A f \in DOMAIN files :
                         Compose!UnboundPorts(files[f]) = {} /\ Compose!AllInterfacePorts(files[f]) = {}
  BY Zenon DEF Compose!ContractBindsPorts
<1>1. \A d \in D :
        /\ Host(d).kind = "variable" /\ Compose!Loopback(Compose!At(files, d).ip)
        /\ Host(d).variable \in DOMAIN generate /\ Contract(d) # <<>>
  BY DEF Compose!ContractOk
<1>2. \A d, e \in D : Contract(d) = Contract(e) => d = e
  BY DEF Compose!ContractOk
<1>3. {Contract(d) : d \in D} = DOMAIN expected
  BY Zenon DEF Compose!ContractOk
<1>4. \A d \in D : Compose!At(files, d).container = expected[Contract(d)]
  BY DEF Compose!ContractOk
<1>5. ASSUME NEW d \in D
      PROVE  E(d) = [kind |-> "allocated", of |-> Contract(d)]
  BY <1>1 DEF Compose!Endpoint
<1>6. ASSUME NEW d \in D
      PROVE  /\ Compose!Loopback(Compose!Interface(Compose!At(files, d)))
             /\ E(d).kind = "allocated" /\ E(d).of \in DOMAIN expected
             /\ Compose!At(files, d).container = expected[E(d).of]
             /\ \A e \in D : E(d) = E(e) => d = e
  <2>1. Compose!Loopback(Compose!Interface(Compose!At(files, d)))
    BY <1>1 DEF Compose!Loopback, Compose!Interface, Compose!None
  <2>2. E(d).kind = "allocated" /\ E(d).of = Contract(d)
    BY <1>5
  <2> HIDE DEF E
  <2>3. E(d).of \in DOMAIN expected
    BY <1>3, <2>2
  <2>4. Compose!At(files, d).container = expected[E(d).of]
    BY <1>4, <2>2
  <2>5. ASSUME NEW e \in D, E(d) = E(e)
        PROVE  d = e
    <3>1. Contract(d) = Contract(e)
      BY <1>5, <2>5
    <3> QED BY <1>2, <3>1
  <2> QED BY <2>1, <2>2, <2>3, <2>4, <2>5
<1>7. ASSUME NEW n \in DOMAIN expected
      PROVE  /\ Compose!TargetOk(files, expected, generate, n)
             /\ \A d \in Compose!Targets(files, generate, n) : E(d).of = n
  <2> DEFINE targets == Compose!Targets(files, generate, n)
  <2>1. targets = {d \in D : Contract(d) = n}
    BY <1>1 DEF Compose!Targets
  <2>2. PICK d \in D : Contract(d) = n
    BY <1>3
  <2>3. targets = {d}
    BY <1>2, <2>1, <2>2
  <2> HIDE DEF targets
  <2>4. Cardinality(targets) = 1
    BY <2>3, FS_Singleton
  <2>5. \A e \in targets : Compose!At(files, e).container = expected[n]
    BY <1>4, <2>2, <2>3
  <2>6. Compose!TargetOk(files, expected, generate, n)
    <3>1. Compose!Cardinality(Compose!Targets(files, generate, n)) = 1
      BY <2>4, SameCardinality DEF targets
    <3>2. \A e \in Compose!Targets(files, generate, n) : Compose!At(files, e).container = expected[n]
      BY <2>5 DEF targets
    <3>3. Compose!ContractOk(files, expected, generate) /\ n \in DOMAIN expected
      OBVIOUS
    <3> QED BY <3>1, <3>2, <3>3, Zenon DEF Compose!TargetOk
  <2>7. E(d).of = n
    BY <1>5, <2>2
  <2> QED BY <2>3, <2>6, <2>7 DEF targets
<1>8. ASSUME NEW f \in DOMAIN files
      PROVE  Compose!UnboundPorts(files[f]) = {} /\ Compose!AllInterfacePorts(files[f]) = {}
  <2>1. ASSUME NEW i \in DOMAIN files[f].ports
        PROVE  files[f].ports[i].host # Compose!Missing /\ files[f].ports[i].ip \notin {Compose!None, "0.0.0.0"}
    <3>1. <<f, i>> \in D /\ Compose!At(files, <<f, i>>) = files[f].ports[i]
      BY DeclaredPorts
    <3>2. files[f].ports[i].host.kind = "variable" /\ Compose!Loopback(files[f].ports[i].ip)
      BY <1>1, <3>1
    <3> QED BY <3>2 DEF Compose!Missing, Compose!Loopback, Compose!None
  <2> QED BY <2>1 DEF Compose!UnboundPorts, Compose!AllInterfacePorts
<1> QED
  BY <1>6, <1>7, <1>8

\* Files of any number and size that validate_port_contract accepts publish what the
\* manifest says and nothing else, with a target for each port of it (compose/contract.rs:
\* validate_port_contract, resolve_port_target).
THEOREM ContractsBind == ContractBindsPorts
BY ContractsBindPorts DEF ContractBindsPorts

\* Compose files as they can be written: names and variables are sequences of
\* words, a fixed port is not 0.
HostSpec == {h \in [kind : {"fixed", "variable", "missing", "other"}, port : Nat, variable : Seq(STRING)] :
               (h.kind = "fixed" <=> h.port # 0) /\ (h.kind # "variable" => h.variable = <<>>)}
PortSpec == [service : Seq(STRING) \ {<<>>}, container : STRING, host : HostSpec, ip : STRING,
             form : {"short", "long"}, own : BOOLEAN, protocol : STRING]
FileSpec == [include : BOOLEAN, strays : Seq(Nat), ports : Seq(PortSpec)]

\* A host is what its kind says.
LEMMA HostKinds ==
  ASSUME NEW h \in HostSpec
  PROVE  /\ h.kind = "fixed" => h = Compose!Fixed(h.port) /\ h.port \in Nat \ {0}
         /\ h.kind = "variable" => h = Compose!Variable(h.variable) /\ h.variable \in Seq(STRING)
         /\ h # Compose!Missing /\ h # Compose!Other => h.kind \in {"fixed", "variable"}
         /\ h.kind \in {"fixed", "variable"} => h # Compose!Missing /\ h # Compose!Other
BY DEF HostSpec, Compose!Fixed, Compose!Variable, Compose!Missing, Compose!Other

\* Only the line of a port itself can be of its number.
LEMMA MatchingIsOne ==
  ASSUME NEW f \in FileSpec, Compose!ApplyOk(f),
         NEW i \in DOMAIN f.ports, Compose!SeenInText(f.ports[i])
  PROVE  /\ Compose!Matching(Compose!Plan(f), f.ports[i].host.port) = {i}
         /\ \A j \in DOMAIN f.ports : f.ports[j].host = f.ports[i].host => j = i
<1> DEFINE port == f.ports[i].host.port
           M == Compose!Matching(Compose!Plan(f), port)
           l == [at |-> "port", index |-> i, port |-> port]
<1>1. f.ports[i].host.kind = "fixed"
  BY DEF Compose!SeenInText
<1>2. M = {j \in DOMAIN f.ports : (IF f.ports[j].host.kind = "fixed" THEN f.ports[j].host.port ELSE 0) = port}
  BY DEF Compose!Matching, Compose!Plan
<1>3. i \in M
  BY <1>1, <1>2
<1>4. l \in Compose!DetectFixedHostPorts(f)
  BY DEF Compose!DetectFixedHostPorts
<1>5. Compose!Cardinality(M) = 1
  <2>1. \A k \in Compose!DetectFixedHostPorts(f) : Compose!Cardinality(Compose!Matching(Compose!Plan(f), k.port)) = 1
    BY Zenon DEF Compose!ApplyOk
  <2>2. l.port = port
    OBVIOUS
  <2> QED BY <1>4, <2>1, <2>2
<1>6. IsFiniteSet(M)
  <2>1. DOMAIN f.ports = 1..Len(f.ports) /\ Len(f.ports) \in Nat
    BY DEF FileSpec
  <2>2. IsFiniteSet(DOMAIN f.ports)
    BY <2>1, FS_Interval
  <2> QED BY <1>2, <2>2, FS_Subset
<1> HIDE DEF M
<1>7. M = {i}
  <2>1. Cardinality(M) = 1
    BY <1>5, SameCardinality
  <2> QED BY <1>3, <1>6, <2>1, FS_Singleton
<1>8. \A j \in DOMAIN f.ports : f.ports[j].host = f.ports[i].host => j = i
  BY <1>1, <1>2, <1>7
<1> QED BY <1>7, <1>8 DEF M

\* A rewritten line is the port of its variable, with an address.
LEMMA RewrittenIs ==
  ASSUME NEW f \in FileSpec, Compose!ApplyOk(f),
         NEW i \in DOMAIN f.ports, Compose!SeenInText(f.ports[i])
  PROVE  Compose!Rewrite(f, f.ports[i]) =
           [f.ports[i] EXCEPT !.host = Compose!Variable(Compose!Env(f, i)),
                              !.ip = IF f.ports[i].ip = Compose!None THEN "127.0.0.1" ELSE f.ports[i].ip]
<1> DEFINE p == f.ports[i]
           plan == Compose!Plan(f)
           q == plan[CHOOSE k \in Compose!Matching(plan, p.host.port) : TRUE]
           address == IF p.ip = Compose!None THEN "127.0.0.1" ELSE p.ip
<1>0. p \in PortSpec
  BY DEF FileSpec
<1>1. (CHOOSE k \in Compose!Matching(plan, p.host.port) : TRUE) = i
  BY MatchingIsOne
<1>2. q.env = Compose!Env(f, i) /\ q.host = address /\ q.container = p.container
  <2>1. q = plan[i]
    BY <1>1
  <2> HIDE DEF q
  <2> QED BY <2>1 DEF Compose!Plan
<1>3. (IF \E k \in DOMAIN f.ports : f.ports[k].host = p.host /\ f.ports[k].ip = Compose!None
       THEN "127.0.0.1" ELSE p.ip) = address
  BY MatchingIsOne
<1>4. Compose!Rewrite(f, p) =
        IF p.form = "short"
        THEN [p EXCEPT !.host = Compose!Variable(q.env), !.ip = q.host, !.container = q.container]
        ELSE [p EXCEPT !.host = Compose!Variable(q.env),
                       !.ip = IF \E k \in DOMAIN f.ports : f.ports[k].host = p.host /\ f.ports[k].ip = Compose!None
                              THEN "127.0.0.1" ELSE p.ip]
  BY DEF Compose!Rewrite
<1> HIDE DEF q, address
<1>5. [p EXCEPT !.host = Compose!Variable(Compose!Env(f, i)), !.ip = address, !.container = p.container]
        = [p EXCEPT !.host = Compose!Variable(Compose!Env(f, i)), !.ip = address]
  <2> HIDE DEF p
  <2> QED BY <1>0 DEF PortSpec
<1>6. Compose!Rewrite(f, p) = [p EXCEPT !.host = Compose!Variable(Compose!Env(f, i)), !.ip = address]
  BY <1>2, <1>3, <1>4, <1>5
<1> QED BY <1>6 DEF address

\* A line that gets another host and address keeps the rest.
LEMMA PortFields ==
  ASSUME NEW p \in PortSpec, NEW h, NEW a
  PROVE  LET r == [p EXCEPT !.host = h, !.ip = a]
         IN /\ r.service = p.service /\ r.container = p.container /\ r.protocol = p.protocol
            /\ r.host = h /\ r.ip = a
BY DEF PortSpec

\* The ports of a file, by place.
LEMMA PortsOfFile ==
  ASSUME NEW f \in FileSpec
  PROVE  /\ \A i \in DOMAIN f.ports : f.ports[i] \in PortSpec /\ f.ports[i].host \in HostSpec
         /\ DOMAIN f.ports = 1..Len(f.ports) /\ Len(f.ports) \in Nat
<1>1. f.ports \in Seq(PortSpec)
  BY DEF FileSpec
<1>2. ASSUME NEW i \in DOMAIN f.ports
      PROVE  f.ports[i] \in PortSpec /\ f.ports[i].host \in HostSpec
  <2> DEFINE p == f.ports[i]
  <2>1. p \in PortSpec
    BY <1>1
  <2> HIDE DEF p
  <2>2. p.host \in HostSpec
    BY <2>1 DEF PortSpec
  <2> QED BY <2>1, <2>2 DEF p
<1> QED BY <1>1, <1>2

AddressOf(p) == IF p.ip = Compose!None THEN "127.0.0.1" ELSE p.ip

\* The file that apply leaves, port by port.
LeftBy(f, new) ==
  /\ new.include = f.include /\ new.strays = <<>> /\ DOMAIN new.ports = DOMAIN f.ports
  /\ \A i \in DOMAIN f.ports :
       LET p == f.ports[i]
           r == new.ports[i]
       IN /\ r.service = p.service /\ r.container = p.container /\ r.protocol = p.protocol
          /\ Compose!SeenInText(p) => r.host = Compose!Variable(Compose!Env(f, i)) /\ r.ip = AddressOf(p)
          /\ ~Compose!SeenInText(p) => r = p

\* That is what apply leaves.
LEMMA AppliedIs ==
  ASSUME NEW f \in FileSpec, Compose!ApplyOk(f)
  PROVE  LeftBy(f, Compose!Applied(f, f))
<1> DEFINE new   == Compose!Applied(f, f)
           ports == [i \in DOMAIN f.ports |->
                       IF Compose!SeenInText(f.ports[i]) THEN Compose!Rewrite(f, f.ports[i]) ELSE f.ports[i]]
<1>1. new = [f EXCEPT !.ports = ports, !.strays = <<>>]
  BY DEF Compose!Applied
<1>2. new.include = f.include /\ new.strays = <<>> /\ new.ports = ports
  <2> HIDE DEF new, ports
  <2> QED BY <1>1 DEF FileSpec
<1> HIDE DEF new
<1>3. ASSUME NEW i \in DOMAIN f.ports
      PROVE  LET p == f.ports[i]
                 r == new.ports[i]
             IN /\ r.service = p.service /\ r.container = p.container /\ r.protocol = p.protocol
                /\ Compose!SeenInText(p) => r.host = Compose!Variable(Compose!Env(f, i)) /\ r.ip = AddressOf(p)
                /\ ~Compose!SeenInText(p) => r = p
  <2> DEFINE p == f.ports[i]
             r == new.ports[i]
  <2>0. p \in PortSpec
    BY DEF FileSpec
  <2>1. CASE Compose!SeenInText(p)
    <3>1. r = [p EXCEPT !.host = Compose!Variable(Compose!Env(f, i)), !.ip = AddressOf(p)]
      BY <1>2, <2>1, RewrittenIs DEF AddressOf
    <3>2. /\ r.service = p.service /\ r.container = p.container /\ r.protocol = p.protocol
          /\ r.host = Compose!Variable(Compose!Env(f, i)) /\ r.ip = AddressOf(p)
      <4> HIDE DEF p, r
      <4> QED BY <2>0, <3>1, PortFields
    <3> QED BY Zenon, <2>1, <3>2
  <2>2. CASE ~Compose!SeenInText(p)
    BY <1>2, <2>2
  <2> QED BY <2>1, <2>2
<1>4. DOMAIN new.ports = DOMAIN f.ports
  BY <1>2
<1> QED BY <1>2, <1>3, <1>4 DEF LeftBy, new

\* The ports keep their names...
LEMMA NamesKept ==
  ASSUME NEW f \in FileSpec, NEW new, LeftBy(f, new), NEW i \in DOMAIN f.ports
  PROVE  Compose!Name(new, i) = Compose!Name(f, i)
<1>1. 1..(i - 1) \subseteq DOMAIN f.ports
  BY DEF FileSpec
<1>2. \A j \in DOMAIN f.ports : new.ports[j].service = f.ports[j].service
  BY DEF LeftBy
<1>3. new.ports[i].container = f.ports[i].container
  BY DEF LeftBy
<1> QED BY <1>1, <1>2, <1>3 DEF Compose!Name

\* ...and their variables.
LEMMA EnvsKept ==
  ASSUME NEW f \in FileSpec, NEW new, LeftBy(f, new), NEW i \in DOMAIN f.ports
  PROVE  Compose!Env(new, i) = Compose!Env(f, i)
<1>1. CASE Compose!SeenInText(f.ports[i])
  <2>1. new.ports[i].host = Compose!Variable(Compose!Env(f, i))
    BY <1>1 DEF LeftBy
  <2>2. /\ new.ports[i].host.kind = "variable"
        /\ new.ports[i].host.variable = Compose!Env(f, i)
    BY <2>1 DEF Compose!Variable
  <2> QED BY <2>2 DEF Compose!Env
<1>2. CASE ~Compose!SeenInText(f.ports[i])
  <2>1. new.ports[i] = f.ports[i]
    BY <1>2 DEF LeftBy
  <2> QED BY <2>1, NamesKept DEF Compose!Env
<1> QED BY <1>1, <1>2

\* What a plan that is made says of the ports.
LEMMA PlannedPorts ==
  ASSUME NEW f \in FileSpec, Compose!PlanOk(f)
  PROVE  /\ ~f.include
         /\ \A i \in DOMAIN f.ports :
              LET p == f.ports[i]
              IN /\ p.host.kind \in {"fixed", "variable"} /\ p.protocol = "tcp"
                 /\ p.ip = Compose!None \/ Compose!Loopback(p.ip)
                 /\ p.host.kind = "variable" => Compose!Loopback(p.ip)
                 /\ Compose!Loopback(AddressOf(p))
         /\ \A i, j \in DOMAIN f.ports : Compose!Env(f, i) = Compose!Env(f, j) => i = j
<1>1. ~f.include
  BY DEF Compose!PlanOk, Compose!Readable
<1>2. ASSUME NEW i \in DOMAIN f.ports
      PROVE  LET p == f.ports[i]
             IN /\ p.host.kind \in {"fixed", "variable"} /\ p.protocol = "tcp"
                /\ p.ip = Compose!None \/ Compose!Loopback(p.ip)
                /\ p.host.kind = "variable" => Compose!Loopback(p.ip)
                /\ Compose!Loopback(AddressOf(p))
  <2> DEFINE p == f.ports[i]
  <2>1. p.host # Compose!Missing /\ p.host # Compose!Other /\ p.protocol = "tcp"
    BY DEF Compose!PlanOk, Compose!Readable
  <2>2. p.host \in HostSpec
    BY PortsOfFile
  <2>3. p.host.kind \in {"fixed", "variable"}
    BY <2>1, <2>2, HostKinds
  <2>4. /\ p.ip # Compose!None => Compose!Loopback(p.ip)
        /\ p.host.kind = "variable" => Compose!Loopback(p.ip)
    BY DEF Compose!PlanOk
  <2>5. Compose!Loopback(AddressOf(p))
    BY <2>4 DEF AddressOf, Compose!Loopback
  <2> QED BY <2>1, <2>3, <2>4, <2>5
<1>3. ASSUME NEW i \in DOMAIN f.ports, NEW j \in DOMAIN f.ports, Compose!Env(f, i) = Compose!Env(f, j)
      PROVE  i = j
  <2>1. \A k \in DOMAIN f.ports : \A m \in 1..(k - 1) : Compose!Env(f, k) # Compose!Env(f, m)
    BY DEF Compose!PlanOk
  <2>2. DOMAIN f.ports \subseteq Nat \ {0}
    BY DEF FileSpec
  <2>3. ~(i < j) /\ ~(j < i)
    BY <1>3, <2>1, <2>2
  <2> QED BY <2>2, <2>3
<1> QED BY <1>1, <1>2, <1>3

\* The file that is left can be planned.
LEMMA AppliedIsPlanned ==
  ASSUME NEW f \in FileSpec, Compose!PlanOk(f), NEW new, LeftBy(f, new)
  PROVE  Compose!PlanOk(new)
<1>1. ~new.include
  BY PlannedPorts DEF LeftBy
<1>2. ASSUME NEW i \in DOMAIN new.ports
      PROVE  LET r == new.ports[i]
             IN /\ r.host # Compose!Other /\ r.host # Compose!Missing /\ r.protocol = "tcp"
                /\ r.ip = Compose!None \/ Compose!SafeHostIp(r.ip)
                /\ r.ip # Compose!None => Compose!Loopback(r.ip)
                /\ r.host.kind = "variable" => Compose!Loopback(r.ip)
                /\ \A j \in 1..(i - 1) : Compose!Env(new, i) # Compose!Env(new, j)
  <2> DEFINE p == f.ports[i]
             r == new.ports[i]
  <2>0. i \in DOMAIN f.ports
    BY DEF LeftBy
  <2>1. /\ p.host.kind \in {"fixed", "variable"} /\ p.protocol = "tcp"
        /\ p.ip = Compose!None \/ Compose!Loopback(p.ip)
        /\ p.host.kind = "variable" => Compose!Loopback(p.ip)
        /\ Compose!Loopback(AddressOf(p))
    BY <2>0, PlannedPorts
  <2>2. p.host \in HostSpec
    BY <2>0, PortsOfFile
  <2>5. \A j \in 1..(i - 1) : Compose!Env(new, i) # Compose!Env(new, j)
    <3> SUFFICES ASSUME NEW j \in 1..(i - 1)
                 PROVE  Compose!Env(new, i) # Compose!Env(new, j)
      OBVIOUS
    <3>1. j \in DOMAIN f.ports /\ j # i
      BY <2>0 DEF FileSpec
    <3> QED BY <2>0, <3>1, EnvsKept, PlannedPorts
  <2>3. CASE Compose!SeenInText(p)
    <3>1. r.host = Compose!Variable(Compose!Env(f, i)) /\ r.ip = AddressOf(p) /\ r.protocol = p.protocol
      BY <2>0, <2>3 DEF LeftBy
    <3> QED BY <2>1, <3>1, <2>5 DEF Compose!Variable, Compose!Other, Compose!Missing, Compose!SafeHostIp
  <2>4. CASE ~Compose!SeenInText(p)
    <3>1. r = p
      BY <2>0, <2>4 DEF LeftBy
    <3> QED BY <2>1, <2>2, <3>1, HostKinds, <2>5 DEF Compose!SafeHostIp
  <2> QED BY <2>3, <2>4
<1> QED BY <1>1, <1>2 DEF Compose!PlanOk, Compose!Readable

\* It plans as it did.
LEMMA ShapesKept ==
  ASSUME NEW f \in FileSpec, NEW new, LeftBy(f, new), NEW i \in DOMAIN f.ports
  PROVE  [Compose!Plan(new)[i] EXCEPT !.current = 0] = [Compose!Plan(f)[i] EXCEPT !.current = 0]
<1> DEFINE p == f.ports[i]
           r == new.ports[i]
           Planned(n, s, c, e, h, u) ==
             [name |-> n, service |-> s, container |-> c, env |-> e, host |-> h, current |-> u]
<1>1. DOMAIN new.ports = DOMAIN f.ports
  BY DEF LeftBy
<1>2. r.service = p.service /\ r.container = p.container /\ AddressOf(r) = AddressOf(p)
  <2>1. CASE Compose!SeenInText(p)
    <3>1. r.service = p.service /\ r.container = p.container /\ r.ip = AddressOf(p)
      BY <2>1 DEF LeftBy
    <3> QED BY <3>1 DEF AddressOf, Compose!None
  <2>2. CASE ~Compose!SeenInText(p)
    BY <2>2 DEF LeftBy
  <2> QED BY <2>1, <2>2
<1>3. Compose!Name(new, i) = Compose!Name(f, i) /\ Compose!Env(new, i) = Compose!Env(f, i)
  BY NamesKept, EnvsKept
<1> DEFINE c == IF p.host.kind = "fixed" THEN p.host.port ELSE 0
           d == IF r.host.kind = "fixed" THEN r.host.port ELSE 0
<1>4. Compose!Plan(f)[i] = Planned(Compose!Name(f, i), p.service, p.container, Compose!Env(f, i), AddressOf(p), c)
  BY DEF Compose!Plan, AddressOf
<1>5. Compose!Plan(new)[i] = Planned(Compose!Name(f, i), p.service, p.container, Compose!Env(f, i), AddressOf(p), d)
  BY <1>1, <1>2, <1>3 DEF Compose!Plan, AddressOf
<1> HIDE DEF c, d, p, r
<1> QED BY <1>4, <1>5

\* With no stray lines the count of lines is that of the fixed ports.
LEMMA NoneIsMissed ==
  ASSUME NEW f \in FileSpec, Compose!ApplyOk(f), f.strays = <<>>, NEW i \in DOMAIN f.ports,
         f.ports[i].host.kind = "fixed"
  PROVE  Compose!SeenInText(f.ports[i])
<1> DEFINE seen  == {k \in DOMAIN f.ports : Compose!SeenInText(f.ports[k])}
           bound == {k \in DOMAIN f.ports : f.ports[k].host.kind = "fixed"}
           L(k)  == [at |-> "port", index |-> k, port |-> f.ports[k].host.port]
           found == Compose!DetectFixedHostPorts(f)
<1>1. seen \subseteq bound
  BY DEF Compose!SeenInText
<1>2. IsFiniteSet(bound) /\ IsFiniteSet(seen)
  <2>1. IsFiniteSet(DOMAIN f.ports)
    BY PortsOfFile, FS_Interval
  <2> QED BY <2>1, FS_Subset
<1>3. found = {L(k) : k \in seen}
  <2>1. DOMAIN f.strays = {}
    OBVIOUS
  <2> QED BY <2>1 DEF Compose!DetectFixedHostPorts
<1>4. bound = {k \in DOMAIN Compose!Plan(f) : Compose!Plan(f)[k].current # 0}
  <2>1. \A k \in DOMAIN f.ports : f.ports[k].host.kind = "fixed" => f.ports[k].host.port # 0
    BY PortsOfFile, HostKinds
  <2> QED BY <2>1 DEF Compose!Plan
<1>5. Compose!Cardinality(found) = Compose!Cardinality(bound)
  BY <1>4 DEF Compose!ApplyOk
<1> HIDE DEF seen, bound, found
<1>6. Cardinality(found) = Cardinality(bound)
  BY <1>5, SameCardinality
<1>7. Cardinality({L(k) : k \in seen}) <= Cardinality(seen)
  <2> HIDE DEF L
  <2> DEFINE g == [k \in seen |-> L(k)]
  <2>1. {g[k] : k \in seen} = {L(k) : k \in seen}
    OBVIOUS
  <2>2. Cardinality({g[k] : k \in seen}) <= Cardinality(seen)
    BY <1>2, NoMoreImages
  <2> QED BY <2>1, <2>2
<1>8. seen = bound
  BY <1>1, <1>2, <1>3, <1>6, <1>7, FS_Subset, FS_CardinalityType
<1> QED BY <1>8 DEF seen, bound

\* The variable of a port is generated from its name, if init has not set it.
LEMMA GeneratedNames ==
  ASSUME NEW f \in FileSpec, Compose!PlanOk(f), NEW i \in DOMAIN f.ports
  PROVE  LET plan == Compose!Plan(f)
             made == Compose!Generated(plan)
         IN /\ Compose!Env(f, i) \in DOMAIN made
            /\ Compose!Env(f, i) \in Compose!OwnVariables(plan) => made[Compose!Env(f, i)] = <<>>
            /\ Compose!Env(f, i) \notin Compose!OwnVariables(plan) => made[Compose!Env(f, i)] = Compose!Name(f, i)
            /\ Compose!Name(f, i) # <<>>
<1> DEFINE plan == Compose!Plan(f)
           made == Compose!Generated(plan)
           v    == Compose!Env(f, i)
           own  == Compose!OwnVariables(plan)
<1>1. DOMAIN plan = DOMAIN f.ports /\ \A j \in DOMAIN f.ports : plan[j].env = Compose!Env(f, j) /\ plan[j].name = Compose!Name(f, j)
  BY DEF Compose!Plan
<1>2. {j \in DOMAIN plan : plan[j].env = v} = {i}
  BY <1>1, PlannedPorts
<1>3. Compose!LastOf(plan, {i}) = plan[i]
  <2>1. i <= i
    BY PortsOfFile
  <2>2. (CHOOSE j \in {i} : \A k \in {i} : k <= j) = i
    BY <2>1
  <2> QED BY <2>2 DEF Compose!LastOf
<1>4. v \in {plan[j].env : j \in DOMAIN plan}
  BY <1>1
<1>5. made[v] = IF v \in own THEN <<>> ELSE Compose!LastOf(plan, {j \in DOMAIN plan : plan[j].env = v}).name
  BY <1>4 DEF Compose!Generated
<1>6. v \in DOMAIN made
  BY <1>4 DEF Compose!Generated
<1>7. Compose!Name(f, i) # <<>>
  <2> DEFINE p == f.ports[i]
  <2>1. p.service \in Seq(STRING) \ {<<>>} /\ p.container \in STRING
    <3>1. p \in PortSpec
      BY PortsOfFile
    <3> HIDE DEF p
    <3> QED BY <3>1 DEF PortSpec
  <2>2. Compose!Name(f, i) = p.service \/ Compose!Name(f, i) = p.service \o <<"-", p.container>>
    BY DEF Compose!Name
  <2> HIDE DEF p
  <2>3. p.service \o <<"-", p.container>> # <<>>
    <3>1. Len(p.service \o <<"-", p.container>>) = Len(p.service) + 2
      BY <2>1
    <3>2. Len(p.service) \in Nat
      BY <2>1
    <3> QED BY <3>1, <3>2
  <2> QED BY <2>1, <2>2, <2>3
<1> HIDE DEF made, own
<1> QED BY <1>1, <1>2, <1>3, <1>5, <1>6, <1>7 DEF made, own

\* With names of their own the ports publish what they expose.
LEMMA ExposedContainers ==
  ASSUME NEW f \in FileSpec, NEW i \in DOMAIN f.ports,
         \A j \in DOMAIN f.ports : Compose!Name(f, j) = Compose!Name(f, i) => j = i
  PROVE  Compose!Exposed(Compose!Plan(f))[Compose!Name(f, i)] = f.ports[i].container
<1> DEFINE plan == Compose!Plan(f)
           n    == Compose!Name(f, i)
<1>1. DOMAIN plan = DOMAIN f.ports /\ \A j \in DOMAIN f.ports : plan[j].name = Compose!Name(f, j) /\ plan[j].container = f.ports[j].container
  BY DEF Compose!Plan
<1>2. {j \in DOMAIN plan : plan[j].name = n} = {i}
  BY <1>1
<1>3. Compose!LastOf(plan, {i}) = plan[i]
  <2>1. i <= i
    BY PortsOfFile
  <2>2. (CHOOSE j \in {i} : \A k \in {i} : k <= j) = i
    BY <2>1
  <2> QED BY <2>2 DEF Compose!LastOf
<1>4. n \in {plan[j].name : j \in DOMAIN plan}
  BY <1>1
<1>5. Compose!Exposed(plan)[n] = Compose!LastOf(plan, {j \in DOMAIN plan : plan[j].name = n}).container
  BY <1>4 DEF Compose!Exposed
<1> QED BY <1>1, <1>2, <1>3, <1>5

\* The hosts that are left: every one a variable, unless a fixed port is left.
LEMMA HostsLeft ==
  ASSUME NEW f \in FileSpec, Compose!PlanOk(f), NEW new, LeftBy(f, new), NEW i \in DOMAIN f.ports
  PROVE  LET r == new.ports[i]
         IN /\ r.host.kind \in {"fixed", "variable"}
            /\ r.host.kind = "variable" => r.host = Compose!Variable(Compose!Env(f, i)) /\ Compose!Loopback(r.ip)
            /\ r.container = f.ports[i].container
<1> DEFINE p == f.ports[i]
           r == new.ports[i]
<1>1. p.host \in HostSpec /\ p.host.kind \in {"fixed", "variable"}
  BY PortsOfFile, PlannedPorts
<1>2. Compose!Loopback(AddressOf(p)) /\ (p.host.kind = "variable" => Compose!Loopback(p.ip))
  BY PlannedPorts
<1>3. r.container = p.container
  BY DEF LeftBy
<1>4. CASE Compose!SeenInText(p)
  <2>1. r.host = Compose!Variable(Compose!Env(f, i)) /\ r.ip = AddressOf(p)
    BY <1>4 DEF LeftBy
  <2>2. r.host.kind = "variable"
    BY <2>1 DEF Compose!Variable
  <2> QED BY <1>2, <1>3, <2>1, <2>2
<1>5. CASE ~Compose!SeenInText(p)
  <2>1. r = p
    BY <1>5 DEF LeftBy
  <2>2. p.host.kind = "variable" => p.host = Compose!Variable(p.host.variable)
    BY <1>1, HostKinds
  <2>3. p.host.kind = "variable" => Compose!Env(f, i) = p.host.variable
    BY DEF Compose!Env
  <2> QED BY <1>1, <1>2, <2>1, <2>2, <2>3
<1> QED BY <1>4, <1>5

Distinct(f) == \A i, j \in DOMAIN f.ports : Compose!Name(f, i) = Compose!Name(f, j) => i = j
Own(f)      == \E i \in DOMAIN f.ports : Compose!Env(f, i) \in Compose!OwnVariables(Compose!Plan(f))
Left(f)     == \E i \in DOMAIN f.ports : f.ports[i].host.kind = "fixed"

\* The ports of one file.
LEMMA OneFileDeclares ==
  ASSUME NEW new
  PROVE  /\ \A d \in Compose!Declared(<<new>>) : d = <<1, d[2]>> /\ d[2] \in DOMAIN new.ports
         /\ \A i \in DOMAIN new.ports : <<1, i>> \in Compose!Declared(<<new>>)
         /\ \A i \in DOMAIN new.ports : Compose!At(<<new>>, <<1, i>>) = new.ports[i]
<1>1. DOMAIN <<new>> = {1} /\ <<new>>[1] = new
  OBVIOUS
<1> QED BY <1>1 DEF Compose!Declared, Compose!At

\* The contract fails closed for names that are used twice and for the variables of
\* init.
LEMMA ContractIsRefused ==
  ASSUME NEW f \in FileSpec, Compose!PlanOk(f), NEW new, LeftBy(f, new),
         Compose!ContractOk(<<new>>, Compose!Exposed(Compose!Plan(f)), Compose!Generated(Compose!Plan(f)))
  PROVE  ~Left(new) /\ Distinct(f) /\ ~Own(f)
<1> DEFINE plan == Compose!Plan(f)
           made == Compose!Generated(plan)
           D    == Compose!Declared(<<new>>)
           H(d) == Compose!At(<<new>>, d).host
<1>0. DOMAIN new.ports = DOMAIN f.ports
  BY DEF LeftBy
<1>1. \A d \in D : H(d).kind = "variable" /\ made[H(d).variable] # <<>>
  BY DEF Compose!ContractOk
<1>2. \A d, e \in D : made[H(d).variable] = made[H(e).variable] => d = e
  BY DEF Compose!ContractOk
<1>3. \A i \in DOMAIN f.ports : <<1, i>> \in D /\ H(<<1, i>>) = new.ports[i].host
  BY <1>0, OneFileDeclares
<1> HIDE DEF D, H, made
<1>4. \A i \in DOMAIN f.ports : new.ports[i].host.kind = "variable"
  BY <1>1, <1>3
<1>5. \A i \in DOMAIN f.ports : new.ports[i].host.variable = Compose!Env(f, i)
  <2>1. \A i \in DOMAIN f.ports : new.ports[i].host = Compose!Variable(Compose!Env(f, i))
    BY <1>4, HostsLeft
  <2>2. \A v : Compose!Variable(v).variable = v
    BY DEF Compose!Variable
  <2> QED BY <2>1, <2>2
<1>6. \A i \in DOMAIN f.ports : made[Compose!Env(f, i)] # <<>>
  BY <1>1, <1>3, <1>5
<1>7. \A i, j \in DOMAIN f.ports : made[Compose!Env(f, i)] = made[Compose!Env(f, j)] => i = j
  <2> SUFFICES ASSUME NEW i \in DOMAIN f.ports, NEW j \in DOMAIN f.ports, made[Compose!Env(f, i)] = made[Compose!Env(f, j)]
               PROVE  i = j
    OBVIOUS
  <2>1. <<1, i>> = <<1, j>>
    BY <1>2, <1>3, <1>5, ZenonT(60)
  <2> QED BY <2>1
<1>8. ~Own(f)
  BY <1>6, GeneratedNames DEF Own, made
<1>9. Distinct(f)
  <2>1. \A i \in DOMAIN f.ports : made[Compose!Env(f, i)] = Compose!Name(f, i)
    BY <1>8, GeneratedNames DEF Own, made
  <2> QED BY <1>7, <2>1 DEF Distinct
<1>10. ~Left(new)
  BY <1>0, <1>4 DEF Left
<1> QED BY <1>8, <1>9, <1>10

\* And it is met in every other case.
LEMMA ContractIsMet ==
  ASSUME NEW f \in FileSpec, Compose!PlanOk(f), NEW new, LeftBy(f, new), Compose!PlanOk(new),
         ~Left(new), Distinct(f), ~Own(f)
  PROVE  Compose!ContractOk(<<new>>, Compose!Exposed(Compose!Plan(f)), Compose!Generated(Compose!Plan(f)))
<1> DEFINE plan == Compose!Plan(f)
           made == Compose!Generated(plan)
           exposed == Compose!Exposed(plan)
           D    == Compose!Declared(<<new>>)
           R(d) == Compose!At(<<new>>, d)
<1>0. DOMAIN new.ports = DOMAIN f.ports
  BY DEF LeftBy
<1>1. \A d \in D : d[2] \in DOMAIN f.ports /\ d = <<1, d[2]>> /\ R(d) = new.ports[d[2]]
  <2> SUFFICES ASSUME NEW d \in D
               PROVE  d[2] \in DOMAIN f.ports /\ d = <<1, d[2]>> /\ R(d) = new.ports[d[2]]
    OBVIOUS
  <2>1. d[2] \in DOMAIN new.ports /\ d = <<1, d[2]>>
    BY OneFileDeclares
  <2>2. Compose!At(<<new>>, <<1, d[2]>>) = new.ports[d[2]]
    BY <2>1, OneFileDeclares
  <2> QED BY <1>0, <2>1, <2>2
<1>2. \A i \in DOMAIN f.ports : <<1, i>> \in D /\ R(<<1, i>>) = new.ports[i]
  BY <1>0, OneFileDeclares
<1>3. \A i \in DOMAIN f.ports :
        /\ new.ports[i].host.kind = "variable" /\ Compose!Loopback(new.ports[i].ip)
        /\ new.ports[i].host.variable = Compose!Env(f, i)
        /\ new.ports[i].container = f.ports[i].container
  <2>1. \A v : Compose!Variable(v).variable = v
    BY DEF Compose!Variable
  <2> SUFFICES ASSUME NEW i \in DOMAIN f.ports
               PROVE  /\ new.ports[i].host.kind = "variable" /\ Compose!Loopback(new.ports[i].ip)
                      /\ new.ports[i].host.variable = Compose!Env(f, i)
                      /\ new.ports[i].container = f.ports[i].container
    OBVIOUS
  <2>2. new.ports[i].host.kind = "variable"
    BY <1>0, HostsLeft DEF Left
  <2>3. /\ new.ports[i].host = Compose!Variable(Compose!Env(f, i)) /\ Compose!Loopback(new.ports[i].ip)
        /\ new.ports[i].container = f.ports[i].container
    BY <2>2, HostsLeft
  <2> QED BY <2>1, <2>2, <2>3
<1>4. \A i \in DOMAIN f.ports :
        /\ Compose!Env(f, i) \in DOMAIN made
        /\ made[Compose!Env(f, i)] = Compose!Name(f, i) /\ Compose!Name(f, i) # <<>>
  BY GeneratedNames DEF Own
<1>5. \A i \in DOMAIN f.ports : exposed[Compose!Name(f, i)] = f.ports[i].container
  BY ExposedContainers DEF Distinct
<1>6. DOMAIN exposed = {Compose!Name(f, i) : i \in DOMAIN f.ports}
  BY DEF Compose!Exposed, Compose!Plan
<1>7. \A g \in DOMAIN <<new>> : Compose!Readable(<<new>>[g])
  <2>1. DOMAIN <<new>> = {1} /\ <<new>>[1] = new
    OBVIOUS
  <2> QED BY <2>1 DEF Compose!PlanOk
<1> HIDE DEF D, R, made, exposed
<1>8. \A d \in D : /\ R(d).host.kind = "variable" /\ Compose!Loopback(R(d).ip)
                  /\ R(d).host.variable \in DOMAIN made /\ made[R(d).host.variable] # <<>>
  BY <1>1, <1>3, <1>4
<1>9. \A d, e \in D : R(d).host = R(e).host \/ made[R(d).host.variable] = made[R(e).host.variable] => d = e
  <2> SUFFICES ASSUME NEW d \in D, NEW e \in D,
                      R(d).host = R(e).host \/ made[R(d).host.variable] = made[R(e).host.variable]
               PROVE  d = e
    OBVIOUS
  <2>1. made[R(d).host.variable] = Compose!Name(f, d[2]) /\ made[R(e).host.variable] = Compose!Name(f, e[2])
    BY <1>1, <1>3, <1>4
  <2>2. Compose!Name(f, d[2]) = Compose!Name(f, e[2])
    BY <2>1
  <2>3. d[2] = e[2]
    BY <1>1, <2>2 DEF Distinct
  <2> QED BY <1>1, <2>3
<1>10. {made[R(d).host.variable] : d \in D} = DOMAIN exposed
  <2>1. \A d \in D : made[R(d).host.variable] = Compose!Name(f, d[2])
    BY <1>1, <1>3, <1>4
  <2>2. \A i \in DOMAIN f.ports : made[R(<<1, i>>).host.variable] = Compose!Name(f, i) /\ <<1, i>> \in D
    BY <1>2, <1>3, <1>4
  <2>3. ASSUME NEW d \in D
        PROVE  made[R(d).host.variable] \in DOMAIN exposed
    BY <1>1, <1>6, <2>1
  <2>4. ASSUME NEW n \in DOMAIN exposed
        PROVE  n \in {made[R(d).host.variable] : d \in D}
    <3>1. PICK i \in DOMAIN f.ports : n = Compose!Name(f, i)
      BY <1>6
    <3>2. <<1, i>> \in D /\ made[R(<<1, i>>).host.variable] = n
      BY <2>2, <3>1
    <3> QED BY Zenon, <3>2
  <2> QED BY <2>3, <2>4
<1>11. \A d \in D : R(d).container = exposed[made[R(d).host.variable]]
  BY <1>1, <1>3, <1>4, <1>5
<1> QED BY <1>7, <1>8, <1>9, <1>10, <1>11, Zenon DEF Compose!ContractOk, D, R, made, exposed

\* So apply keeps the plan and meets the contract.
LEMMA ApplicationsMeetContract ==
  ASSUME NEW f \in FileSpec
  PROVE  Compose!AppliedMeetsContract(f)
<1> DEFINE plan  == Compose!Plan(f)
           new   == Compose!Applied(f, f)
           again == Compose!Plan(new)
<1> SUFFICES ASSUME Compose!ApplyOk(f)
             PROVE  /\ Compose!PlanOk(new) /\ DOMAIN again = DOMAIN plan
                    /\ \A i \in DOMAIN plan : [again[i] EXCEPT !.current = 0] = [plan[i] EXCEPT !.current = 0]
                    /\ f.strays = <<>> => ~(\E i \in DOMAIN new.ports : new.ports[i].host.kind = "fixed")
                    /\ Compose!ContractOk(<<new>>, Compose!Exposed(plan), Compose!Generated(plan))
                         <=> /\ ~(\E i \in DOMAIN new.ports : new.ports[i].host.kind = "fixed")
                             /\ \A i, j \in DOMAIN plan : plan[i].name = plan[j].name => i = j
                             /\ ~(\E i \in DOMAIN plan : plan[i].env \in Compose!OwnVariables(plan))
  BY Zenon DEF Compose!AppliedMeetsContract
<1>1. LeftBy(f, new)
  BY AppliedIs
<1>2. Compose!PlanOk(f)
  BY DEF Compose!ApplyOk
<1> HIDE DEF new
<1>3. Compose!PlanOk(new)
  BY <1>1, <1>2, AppliedIsPlanned
<1>4. /\ DOMAIN plan = DOMAIN f.ports /\ DOMAIN new.ports = DOMAIN f.ports
      /\ DOMAIN again = DOMAIN new.ports
      /\ \A i \in DOMAIN f.ports : plan[i].name = Compose!Name(f, i) /\ plan[i].env = Compose!Env(f, i)
  BY <1>1 DEF Compose!Plan, LeftBy
<1>5. \A i \in DOMAIN plan : [again[i] EXCEPT !.current = 0] = [plan[i] EXCEPT !.current = 0]
  BY <1>1, <1>4, ShapesKept
<1>6. f.strays = <<>> => ~Left(new)
  <2> SUFFICES ASSUME f.strays = <<>>, NEW i \in DOMAIN f.ports, new.ports[i].host.kind = "fixed"
               PROVE  FALSE
    BY <1>4 DEF Left
  <2>1. CASE Compose!SeenInText(f.ports[i])
    <3>1. new.ports[i].host = Compose!Variable(Compose!Env(f, i))
      BY <1>1, <2>1 DEF LeftBy
    <3>2. new.ports[i].host.kind = "variable"
      BY <3>1 DEF Compose!Variable
    <3> QED BY <3>2
  <2>2. CASE ~Compose!SeenInText(f.ports[i])
    <3>1. f.ports[i].host.kind = "fixed"
      BY <1>1, <2>2 DEF LeftBy
    <3> QED BY <2>2, <3>1, NoneIsMissed
  <2> QED BY <2>1, <2>2
<1>7. /\ (\A i, j \in DOMAIN plan : plan[i].name = plan[j].name => i = j) <=> Distinct(f)
      /\ (\E i \in DOMAIN plan : plan[i].env \in Compose!OwnVariables(plan)) <=> Own(f)
  BY <1>4 DEF Distinct, Own
<1>8. Compose!ContractOk(<<new>>, Compose!Exposed(plan), Compose!Generated(plan))
        <=> ~Left(new) /\ Distinct(f) /\ ~Own(f)
  BY <1>1, <1>2, <1>3, ContractIsRefused, ContractIsMet
<1> QED BY <1>3, <1>4, <1>5, <1>6, <1>7, <1>8 DEF Left

\* The file was read from YAML.
ComposeTyped == input.kind = "compose" => input.file \in FileSpec

\* A Compose file of any ports that apply rewrites is planned as it was, keeps no fixed
\* port unless a stray line was taken for one, and meets the contract that init makes of
\* its plan, but for repeated names and init's own variables (compose/planning.rs
\* and apply.rs; lifecycle/project.rs: default_config).
THEOREM ApplicationsMeetTheContract == ComposeTyped => AppliedMeetsContract
BY ApplicationsMeetContract DEF ComposeTyped, AppliedMeetsContract

-----------------------------------------------------------------------------
(* SubprocessEnvironment.  What each program finds by name.                *)

Environment(f) == f = [name \in DOMAIN f |-> f[name]]

\* A value is that of the first function, if it has one.
LEMMA OverIsBoth ==
  ASSUME NEW f, NEW g
  PROVE  /\ Environment(Process!Over(f, g))
         /\ DOMAIN Process!Over(f, g) = DOMAIN f \cup DOMAIN g
         /\ \A x \in DOMAIN f : Process!Over(f, g)[x] = f[x]
         /\ \A x \in DOMAIN g \ DOMAIN f : Process!Over(f, g)[x] = g[x]
BY DEF Process!Over, Environment

\* A restriction has the values it had.
LEMMA RestrictIsPart ==
  ASSUME NEW f, NEW S
  PROVE  /\ Environment(Process!Restrict(f, S))
         /\ DOMAIN Process!Restrict(f, S) = S
         /\ \A x \in S : Process!Restrict(f, S)[x] = f[x]
BY DEF Process!Restrict, Environment

\* Environments are the same for names that find the same in both.
LEMMA SameByNames ==
  ASSUME NEW e, NEW f, NEW S,
         \A x \in S : (x \in DOMAIN e <=> x \in DOMAIN f) /\ (x \in DOMAIN e => e[x] = f[x])
  PROVE  Process!Same(e, f, S)
<1>1. DOMAIN e \cap S = DOMAIN f \cap S
  OBVIOUS
<1>2. \A x \in DOMAIN e \cap S : e[x] = f[x]
  OBVIOUS
<1> QED
  BY <1>1, <1>2 DEF Process!Same, Process!Restrict

\* Environments are equal if every name finds the same.
LEMMA EqualByNames ==
  ASSUME NEW e, NEW f, Environment(e), Environment(f), DOMAIN e = DOMAIN f,
         \A x \in DOMAIN e : e[x] = f[x]
  PROVE  e = f
BY DEF Environment

\* What a program finds by name: a host command, Compose, and Compose with the
\* recorded profiles.
HostHas(host, caller, g) ==
  /\ DOMAIN host = DOMAIN caller \cup Process!Identity \cup (DOMAIN g \ Process!Reserved)
  /\ \A x \in Process!Identity : host[x] = "own"
  /\ \A x \in (DOMAIN g \ Process!Reserved) \ Process!Identity : host[x] = g[x]
  /\ \A x \in DOMAIN caller \ (Process!Identity \cup (DOMAIN g \ Process!Reserved)) :
       host[x] = caller[x]

ComposeHas(compose, caller, g) ==
  /\ Environment(compose)
  /\ DOMAIN compose = DOMAIN caller \cup DOMAIN g \cup {Process!Project}
  /\ compose[Process!Project] = "own"
  /\ \A x \in DOMAIN g : compose[x] = g[x]
  /\ \A x \in (DOMAIN caller \ DOMAIN g) \ {Process!Project} : compose[x] = caller[x]

ModelHas(model, caller, g, profiles) ==
  LET kept == (DOMAIN caller \ DOMAIN g) \ {Process!Project, Process!Profiles}
  IN /\ Environment(model)
     /\ DOMAIN model = kept \cup DOMAIN g \cup {Process!Project} \cup DOMAIN profiles
     /\ model[Process!Project] = "own"
     /\ \A x \in DOMAIN profiles : model[x] = profiles[x]
     /\ \A x \in DOMAIN g : model[x] = g[x]
     /\ \A x \in kept : model[x] = caller[x]

\* What a host command finds by each name.
LEMMA HostFinds ==
  ASSUME NEW caller, NEW g
  PROVE  HostHas(Process!HostCommand(caller, g), caller, g)
<1> DEFINE rest == Process!Without(g, Process!Reserved)
           set  == Process!Over(Process!Own, rest)
           left == Process!Without(caller, {})
           host == Process!Over(set, left)
<1>1. /\ DOMAIN rest = DOMAIN g \ Process!Reserved
      /\ \A x \in DOMAIN rest : rest[x] = g[x]
  BY RestrictIsPart DEF Process!Without
<1>2. DOMAIN Process!Own = Process!Identity /\ \A x \in Process!Identity : Process!Own[x] = "own"
  BY DEF Process!Own
<1>3. host = Process!HostCommand(caller, g)
  BY DEF Process!HostCommand, Process!Spawned, Process!TrustedEnvironment
<1>4. DOMAIN left = DOMAIN caller /\ \A x \in DOMAIN caller : left[x] = caller[x]
  BY RestrictIsPart DEF Process!Without
<1> HIDE DEF rest, left
<1>5. /\ DOMAIN set = DOMAIN Process!Own \cup DOMAIN rest
      /\ \A x \in DOMAIN Process!Own : set[x] = Process!Own[x]
      /\ \A x \in DOMAIN rest \ DOMAIN Process!Own : set[x] = rest[x]
  BY OverIsBoth
<1> HIDE DEF set
<1>6. /\ DOMAIN host = DOMAIN set \cup DOMAIN left
      /\ \A x \in DOMAIN set : host[x] = set[x]
      /\ \A x \in DOMAIN left \ DOMAIN set : host[x] = left[x]
  BY OverIsBoth
<1> HIDE DEF host
<1> QED
  BY <1>1, <1>2, <1>3, <1>4, <1>5, <1>6 DEF HostHas

\* What Compose finds: a project that is its own, none of the names that are made.
LEMMA DockerIs ==
  ASSUME NEW g
  PROVE  /\ Process!Docker(g).removed = DOMAIN g \ Process!Reserved
         /\ DOMAIN Process!Docker(g).set = {Process!Project}
         /\ Process!Docker(g).set[Process!Project] = "own"
         /\ Environment(Process!Docker(g).set)
BY RestrictIsPart DEF Process!Docker, Process!OwnProject, Process!Own, Process!Identity

\* What compose finds: its own project, and none of the names that are generated.
LEMMA ComposeFindsIs ==
  ASSUME NEW caller, NEW g, Process!ValidNames(DOMAIN g)
  PROVE  ComposeHas(Process!ComposeFinds(caller, g), caller, g)
<1> DEFINE left == Process!Without(caller, DOMAIN g \ Process!Reserved)
           set  == Process!Docker(g).set
           run  == Process!Over(set, left)
           compose == Process!Over(run, g)
<1>0. DOMAIN g \cap Process!Reserved = {}
  BY DEF Process!ValidNames
<1>1. DOMAIN left = DOMAIN caller \ DOMAIN g /\ \A x \in DOMAIN left : left[x] = caller[x]
  BY <1>0, RestrictIsPart DEF Process!Without
<1>2. compose = Process!ComposeFinds(caller, g)
  BY DockerIs DEF Process!ComposeFinds, Process!Interpolated, Process!Spawned
<1>3. DOMAIN set = {Process!Project} /\ set[Process!Project] = "own"
  BY DockerIs
<1> HIDE DEF left, set
<1>4. /\ DOMAIN run = DOMAIN set \cup DOMAIN left
      /\ \A x \in DOMAIN set : run[x] = set[x]
      /\ \A x \in DOMAIN left \ DOMAIN set : run[x] = left[x]
  BY OverIsBoth
<1> HIDE DEF run
<1>5. /\ DOMAIN compose = DOMAIN run \cup DOMAIN g /\ Environment(compose)
      /\ \A x \in DOMAIN run : compose[x] = run[x]
      /\ \A x \in DOMAIN g \ DOMAIN run : compose[x] = g[x]
  BY OverIsBoth
<1>6. Process!Project \notin DOMAIN g
  BY <1>0 DEF Process!Reserved
<1> HIDE DEF compose
<1> QED
  BY <1>1, <1>2, <1>3, <1>4, <1>5, <1>6 DEF ComposeHas

\* pin_profiles is given the profiles alone.
Recorded(profiles) == DOMAIN profiles \subseteq {Process!Profiles}

\* What the resolution of a model finds: the profiles of the start, whoever asks.
LEMMA ModelFindsIs ==
  ASSUME NEW caller, NEW g, NEW profiles, Process!ValidNames(DOMAIN g), Recorded(profiles)
  PROVE  ModelHas(Process!ModelFinds(caller, g, profiles), caller, g, profiles)
<1> DEFINE left == Process!Without(caller, (DOMAIN g \ Process!Reserved) \cup {Process!Profiles})
           own  == Process!Without(Process!Docker(g).set, {Process!Profiles})
           set  == Process!Over(profiles, own)
           run  == Process!Over(set, left)
           model == Process!Over(run, g)
<1>0. /\ Process!Project # Process!Profiles
      /\ {Process!Project, Process!Profiles} \cap DOMAIN g = {} /\ DOMAIN g \cap Process!Reserved = {}
      /\ DOMAIN profiles \subseteq {Process!Profiles}
  BY DEF Process!Project, Process!Profiles, Process!Reserved, Process!ValidNames, Recorded
<1>1. DOMAIN left = (DOMAIN caller \ DOMAIN g) \ {Process!Profiles} /\ \A x \in DOMAIN left : left[x] = caller[x]
  BY <1>0, RestrictIsPart DEF Process!Without
<1>2. model = Process!ModelFinds(caller, g, profiles)
  BY DockerIs DEF Process!ModelFinds, Process!Interpolated, Process!Spawned, Process!PinProfiles
<1>3. DOMAIN own = {Process!Project} /\ own[Process!Project] = "own"
  <2>1. DOMAIN Process!Docker(g).set = {Process!Project} /\ Process!Docker(g).set[Process!Project] = "own"
    BY DockerIs
  <2>2. own = Process!Restrict(Process!Docker(g).set, {Process!Project})
    BY <1>0, <2>1 DEF Process!Without
  <2> QED
    BY <2>1, <2>2, RestrictIsPart
<1> HIDE DEF left, own
<1>4. /\ DOMAIN set = DOMAIN profiles \cup DOMAIN own
      /\ \A x \in DOMAIN profiles : set[x] = profiles[x]
      /\ \A x \in DOMAIN own \ DOMAIN profiles : set[x] = own[x]
  BY OverIsBoth
<1> HIDE DEF set
<1>5. /\ DOMAIN run = DOMAIN set \cup DOMAIN left
      /\ \A x \in DOMAIN set : run[x] = set[x]
      /\ \A x \in DOMAIN left \ DOMAIN set : run[x] = left[x]
  BY OverIsBoth
<1> HIDE DEF run
<1>6. /\ DOMAIN model = DOMAIN run \cup DOMAIN g /\ Environment(model)
      /\ \A x \in DOMAIN run : model[x] = run[x]
      /\ \A x \in DOMAIN g \ DOMAIN run : model[x] = g[x]
  BY OverIsBoth
<1> HIDE DEF model
<1> QED
  BY <1>0, <1>1, <1>2, <1>3, <1>4, <1>5, <1>6 DEF ModelHas

\* A start, a host command and a caller's Compose find the same by the names that
\* matter.
LEMMA ProcessesAgree ==
  ASSUME NEW starter, NEW caller, NEW generate, NEW stored
  PROVE  Process!Agree(starter, caller, generate, stored)
<1> DEFINE profiles == Process!CaptureProfiles(starter)
           host     == Process!HostCommand(caller, stored)
           compose  == Process!ComposeFinds(caller, stored)
<1> SUFFICES ASSUME Process!ValidNames(generate), DOMAIN stored = generate
             PROVE  /\ Process!Same(host, stored, generate \ Process!Identity) /\ Process!Same(compose, stored, generate)
                    /\ Process!Same(host, Process!Own, Process!Identity) /\ Process!Same(compose, Process!Own, {Process!Project})
                    /\ Process!Same(host, caller, Process!Reserved \ Process!Identity) /\ Process!Same(compose, caller, Process!Reserved \ Process!Identity)
                    /\ Process!ModelFinds(starter, stored, profiles) = Process!ComposeFinds(starter, stored)
                    /\ Process!Same(Process!ModelFinds(caller, stored, profiles), Process!ModelFinds(starter, stored, profiles),
                            generate \cup {Process!Project, Process!Profiles})
                    /\ Process!Spawned(caller, Process!Control(generate)) = Process!Spawned(caller, Process!Docker(stored))
  BY DEF Process!Agree, Process!ValidatedEnvironment
<1>1. DOMAIN stored = generate
  OBVIOUS
<1>2. DOMAIN stored \cap Process!Reserved = {} /\ Process!ValidNames(DOMAIN stored)
  BY <1>1 DEF Process!ValidNames
<1>3. DOMAIN Process!Own = Process!Identity /\ \A x \in Process!Identity : Process!Own[x] = "own"
  BY DEF Process!Own
<1>4. /\ DOMAIN profiles = DOMAIN starter \cap {Process!Profiles}
      /\ \A x \in DOMAIN profiles : profiles[x] = starter[x]
  BY RestrictIsPart DEF Process!CaptureProfiles
<1>5. /\ Process!Project # Process!Profiles /\ Process!Project \in Process!Identity
      /\ {Process!Project, Process!Profiles} \subseteq Process!Reserved
  BY DEF Process!Project, Process!Profiles, Process!Reserved, Process!Identity
<1>6. /\ Process!Same(host, stored, generate \ Process!Identity)
      /\ Process!Same(host, Process!Own, Process!Identity)
      /\ Process!Same(host, caller, Process!Reserved \ Process!Identity)
  <2>1. HostHas(host, caller, stored)
    BY HostFinds, Zenon
  <2> HIDE DEF host
  <2>2. Process!Same(host, stored, generate \ Process!Identity)
    BY <1>1, <1>2, <2>1, SameByNames DEF HostHas
  <2>3. Process!Same(host, Process!Own, Process!Identity)
    BY <1>3, <2>1, SameByNames DEF HostHas
  <2>4. Process!Same(host, caller, Process!Reserved \ Process!Identity)
    BY <1>2, <2>1, SameByNames DEF HostHas
  <2> QED
    BY <2>2, <2>3, <2>4
<1>7. /\ Process!Same(compose, stored, generate)
      /\ Process!Same(compose, Process!Own, {Process!Project})
      /\ Process!Same(compose, caller, Process!Reserved \ Process!Identity)
  <2>1. ComposeHas(compose, caller, stored)
    BY <1>2, ComposeFindsIs, Zenon
  <2> HIDE DEF compose
  <2>2. Process!Same(compose, stored, generate)
    BY <1>1, <2>1, SameByNames DEF ComposeHas
  <2>3. Process!Same(compose, Process!Own, {Process!Project})
    BY <1>3, <1>5, <2>1, SameByNames DEF ComposeHas
  <2>4. Process!Same(compose, caller, Process!Reserved \ Process!Identity)
    BY <1>2, <1>5, <2>1, SameByNames DEF ComposeHas
  <2> QED
    BY <2>2, <2>3, <2>4
<1>8. Process!ModelFinds(starter, stored, profiles) = Process!ComposeFinds(starter, stored)
  <2> DEFINE model == Process!ModelFinds(starter, stored, profiles)
             found == Process!ComposeFinds(starter, stored)
  <2>0. Recorded(profiles)
    BY <1>4 DEF Recorded
  <2> HIDE DEF profiles
  <2>1. ModelHas(model, starter, stored, profiles)
    BY <1>2, <2>0, ModelFindsIs, Zenon
  <2>2. ComposeHas(found, starter, stored)
    BY <1>2, ComposeFindsIs, Zenon
  <2> HIDE DEF model, found, profiles
  <2>3. DOMAIN model = DOMAIN found
    BY <2>1, <2>2, <1>4, <1>5, <1>2 DEF ModelHas, ComposeHas
  <2>4. \A x \in DOMAIN model : model[x] = found[x]
    BY <2>1, <2>2, <1>4, <1>5, <1>2 DEF ModelHas, ComposeHas
  <2>5. model = found
    BY <2>1, <2>2, <2>3, <2>4, EqualByNames DEF ModelHas, ComposeHas
  <2> QED
    BY <2>5 DEF model, found
<1>9. Process!Same(Process!ModelFinds(caller, stored, profiles), Process!ModelFinds(starter, stored, profiles),
                   generate \cup {Process!Project, Process!Profiles})
  <2> DEFINE mine   == Process!ModelFinds(caller, stored, profiles)
             theirs == Process!ModelFinds(starter, stored, profiles)
  <2>1. Recorded(profiles)
    BY <1>4 DEF Recorded
  <2> HIDE DEF profiles
  <2>2. ModelHas(mine, caller, stored, profiles)
    BY <1>2, <2>1, ModelFindsIs, Zenon
  <2>3. ModelHas(theirs, starter, stored, profiles)
    BY <1>2, <2>1, ModelFindsIs, Zenon
  <2> HIDE DEF mine, theirs
  <2>4. \A x \in generate \cup {Process!Project, Process!Profiles} :
          (x \in DOMAIN mine <=> x \in DOMAIN theirs) /\ (x \in DOMAIN mine => mine[x] = theirs[x])
    BY <1>1, <2>1, <2>2, <2>3 DEF Recorded, ModelHas
  <2>5. Process!Same(mine, theirs, generate \cup {Process!Project, Process!Profiles})
    BY <2>4, SameByNames
  <2> QED
    BY <2>5 DEF mine, theirs
<1>10. Process!Spawned(caller, Process!Control(generate)) = Process!Spawned(caller, Process!Docker(stored))
  BY <1>1 DEF Process!Control, Process!Docker
<1> QED
  BY <1>6, <1>7, <1>8, <1>9, <1>10

\* Host commands and Compose are given the same generated values and the same
\* identity, and a model is resolved as it was started, whatever variables the callers
\* have and however many (command/runner.rs, compose/docker.rs: the
\* environment of each program).
THEOREM EnvironmentsAlwaysAgree == EnvironmentsAgree
BY ProcessesAgree DEF EnvironmentsAgree

-----------------------------------------------------------------------------
(* EnvFile.  A sequence is flattened, or read, character by character: what*)
(* is escaped is read back one character at a time.                        *)

\* The recursion of FlattenSeq, up to a place.
Flattened(S, n, f) == f = [i \in 1..n |-> IF i = 1 THEN S[i] ELSE f[i-1] \o S[i]]

\* The parts so far, one after the other.
LEMMA FlattenedEntries ==
  ASSUME NEW S, NEW n \in Nat, NEW f, Flattened(S, n, f)
  PROVE  /\ DOMAIN f = 1..n
         /\ \A i \in 1..n : f[i] = IF i = 1 THEN S[i] ELSE f[i-1] \o S[i]
BY Zenon DEF Flattened

\* There is such a function for any number of parts.
LEMMA FlattenedExists ==
  ASSUME NEW S, NEW n \in Nat
  PROVE  \E f : Flattened(S, n, f)
<1> DEFINE bad == {k \in Nat : ~\E f : Flattened(S, k, f)}
<1> SUFFICES ASSUME bad # {}
             PROVE  FALSE
  OBVIOUS
<1>1. PICK m \in bad : \A k \in bad : m <= k
  BY Least
<1>2. CASE m = 0
  <2> DEFINE f == [i \in 1..0 |-> S[i]]
  <2>1. Flattened(S, 0, f)
    BY DEF Flattened
  <2> QED BY <1>2, <2>1
<1>3. CASE m > 0
  <2>1. m - 1 \in Nat /\ m - 1 \notin bad
    BY <1>1, <1>3
  <2>2. PICK f : Flattened(S, m - 1, f)
    BY <2>1
  <2> DEFINE g == [i \in 1..m |-> IF i = m THEN IF m = 1 THEN S[m] ELSE f[m-1] \o S[m] ELSE f[i]]
  <2>3. \A i \in 1..m : g[i] = IF i = 1 THEN S[i] ELSE g[i-1] \o S[i]
    <3> SUFFICES ASSUME NEW i \in 1..m
                 PROVE  g[i] = IF i = 1 THEN S[i] ELSE g[i-1] \o S[i]
      OBVIOUS
    <3>1. CASE i = m
      <4>1. i # 1 => i - 1 \in 1..m /\ i - 1 # m
        BY <1>3, <3>1
      <4>2. i # 1 => g[i-1] = f[i-1]
        BY <4>1
      <4> QED BY <3>1, <4>2
    <3>2. CASE i # m
      <4>1. i \in 1..(m - 1) /\ g[i] = f[i]
        BY <1>3, <3>2
      <4>2. f[i] = IF i = 1 THEN S[i] ELSE f[i-1] \o S[i]
        BY <2>1, <2>2, <4>1, FlattenedEntries
      <4>3. i # 1 => i - 1 \in 1..m /\ i - 1 # m
        BY <4>1
      <4>4. i # 1 => g[i-1] = f[i-1]
        BY <4>3
      <4> QED BY <4>1, <4>2, <4>4
    <3> QED BY <3>1, <3>2
  <2>4. DOMAIN g = 1..m /\ g = [i \in 1..m |-> g[i]]
    OBVIOUS
  <2> HIDE DEF g
  <2>5. Flattened(S, m, g)
    BY <2>3, <2>4, Zenon DEF Flattened
  <2> QED BY <1>1, <2>5
<1> QED BY <1>1, <1>2, <1>3

\* Two of them agree where the parts do.
LEMMA FlattenedAgree ==
  ASSUME NEW S, NEW n \in Nat, NEW f, Flattened(S, n, f),
         NEW T, NEW m \in Nat, NEW g, Flattened(T, m, g),
         n <= m, \A i \in 1..n : S[i] = T[i]
  PROVE  \A i \in 1..n : f[i] = g[i]
<1> DEFINE bad == {k \in 1..n : f[k] # g[k]}
<1> SUFFICES ASSUME bad # {}
             PROVE  FALSE
  OBVIOUS
<1>1. PICK k \in bad : \A j \in bad : k <= j
  <2>1. bad \subseteq Nat
    OBVIOUS
  <2> QED BY <2>1, Least
<1>2. k \in 1..n /\ k \in 1..m
  OBVIOUS
<1>3. /\ f[k] = IF k = 1 THEN S[k] ELSE f[k-1] \o S[k]
      /\ g[k] = IF k = 1 THEN T[k] ELSE g[k-1] \o T[k]
  BY <1>2, FlattenedEntries
<1>4. k # 1 => f[k-1] = g[k-1]
  <2>1. k # 1 => k - 1 \in 1..n /\ ~(k <= k - 1)
    BY <1>2
  <2> QED BY <1>1, <2>1
<1> QED BY <1>2, <1>3, <1>4

\* FlattenSeq is the last of them.
LEMMA FlattenIsLast ==
  ASSUME NEW S, Len(S) \in Nat, Len(S) # 0, NEW f, Flattened(S, Len(S), f)
  PROVE  Env!FlattenSeq(S) = f[Len(S)]
<1> DEFINE g == CHOOSE g : Flattened(S, Len(S), g)
<1>1. Flattened(S, Len(S), g)
  BY Zenon
<1>2. Env!FlattenSeq(S) = g[Len(S)]
  BY Zenon DEF Env!FlattenSeq, Flattened
<1> HIDE DEF g
<1>3. g[Len(S)] = f[Len(S)]
  BY <1>1, FlattenedAgree
<1> QED BY <1>2, <1>3

\* One more part comes after those before.
LEMMA FlattenAppend ==
  ASSUME NEW X, NEW S \in Seq(X), NEW x \in X
  PROVE  /\ Env!FlattenSeq(<<>>) = <<>>
         /\ Env!FlattenSeq(Append(S, x)) = IF S = <<>> THEN x ELSE Env!FlattenSeq(S) \o x
<1> DEFINE T == Append(S, x)
<1>1. Env!FlattenSeq(<<>>) = <<>>
  BY DEF Env!FlattenSeq
<1>2. /\ Len(S) \in Nat /\ Len(T) \in Nat /\ Len(T) = Len(S) + 1 /\ T[Len(S) + 1] = x
      /\ \A i \in 1..Len(S) : S[i] = T[i]
  OBVIOUS
<1> HIDE DEF T
<1>3. PICK g : Flattened(T, Len(T), g)
  BY <1>2, FlattenedExists, Zenon
<1>4. PICK f : Flattened(S, Len(S), f)
  BY <1>2, FlattenedExists
<1>5. Env!FlattenSeq(T) = g[Len(T)]
  BY <1>2, <1>3, FlattenIsLast
<1>6. g[Len(T)] = IF Len(T) = 1 THEN T[Len(T)] ELSE g[Len(T) - 1] \o T[Len(T)]
  <2>1. Len(T) \in Nat /\ Len(T) \in 1..Len(T)
    BY <1>2
  <2>2. \A i \in 1..Len(T) : g[i] = IF i = 1 THEN T[i] ELSE g[i-1] \o T[i]
    BY <1>3, <2>1, FlattenedEntries, ZenonT(60)
  <2> QED BY <2>1, <2>2, Zenon
<1>7. CASE S = <<>>
  <2>1. Len(S) = 0
    BY <1>7
  <2> QED BY <1>1, <1>2, <1>5, <1>6, <1>7, <2>1 DEF T
<1>8. CASE S # <<>>
  <2>1. Len(S) # 0
    BY <1>8
  <2>2. Env!FlattenSeq(S) = f[Len(S)]
    BY <1>2, <1>4, <2>1, FlattenIsLast
  <2>3. f[Len(S)] = g[Len(S)]
    <3>1. \A i \in 1..Len(S) : f[i] = g[i]
      BY <1>2, <1>3, <1>4, FlattenedAgree
    <3> QED BY <1>2, <2>1, <3>1
  <2>4. Len(T) # 1 /\ Len(T) - 1 = Len(S)
    BY <1>2, <2>1
  <2> QED BY <1>1, <1>2, <1>5, <1>6, <1>8, <2>2, <2>3, <2>4 DEF T
<1> QED BY <1>7, <1>8

\* Parts of something are something of it.
LEMMA FlattenInSeq ==
  ASSUME NEW X, NEW S \in Seq(Seq(X))
  PROVE  Env!FlattenSeq(S) \in Seq(X)
<1>0. Len(S) \in Nat /\ \A i \in 1..Len(S) : S[i] \in Seq(X)
  OBVIOUS
<1>1. CASE Len(S) = 0
  <2>1. S = <<>>
    BY <1>1
  <2>2. Env!FlattenSeq(S) = S
    BY <1>1, Zenon DEF Env!FlattenSeq
  <2>3. <<>> \in Seq(X)
    OBVIOUS
  <2> QED BY Zenon, <2>1, <2>2, <2>3
<1>2. CASE Len(S) # 0
  <2>1. PICK f : Flattened(S, Len(S), f)
    BY <1>0, FlattenedExists, Zenon
  <2>2. Env!FlattenSeq(S) = f[Len(S)]
    BY <1>0, <1>2, <2>1, FlattenIsLast
  <2>3. \A i \in 1..Len(S) : f[i] = IF i = 1 THEN S[i] ELSE f[i-1] \o S[i]
    BY <1>0, <2>1, FlattenedEntries, ZenonT(60)
  <2>4. {k \in 1..Len(S) : f[k] \notin Seq(X)} = {}
    <3> DEFINE bad == {k \in 1..Len(S) : f[k] \notin Seq(X)}
    <3> SUFFICES ASSUME bad # {}
                 PROVE  FALSE
      OBVIOUS
    <3>1. PICK k \in bad : \A j \in bad : k <= j
      <4>1. bad \subseteq Nat
        OBVIOUS
      <4> HIDE DEF bad
      <4> QED BY <4>1, Least
    <3>2. k \in 1..Len(S) /\ f[k] \notin Seq(X)
      OBVIOUS
    <3>3. k # 1 => f[k-1] \in Seq(X)
      <4>1. k # 1 => k - 1 \in 1..Len(S) /\ ~(k <= k - 1)
        BY <3>2, <1>0
      <4> QED BY <3>1, <4>1
    <3>4. CASE k = 1
      BY <1>0, <2>3, <3>2, <3>4
    <3>5. CASE k # 1
      <4>1. f[k] = f[k-1] \o S[k]
        BY <2>3, <3>2, <3>5
      <4>2. f[k-1] \in Seq(X) /\ S[k] \in Seq(X)
        BY <1>0, <3>2, <3>3, <3>5
      <4>3. f[k-1] \o S[k] \in Seq(X)
        BY <4>2
      <4> QED BY Zenon, <3>2, <4>1, <4>3
    <3> QED BY <3>4, <3>5
  <2>5. Len(S) \in 1..Len(S)
    BY <1>0, <1>2
  <2> QED BY <2>2, <2>4, <2>5
<1> QED BY <1>1, <1>2

\* The characters that EnvFile tells apart.
Characters == {"plain", "t", "n", "r", "space", "tab", "CR", "LF", "NUL", "#", "\"", "'", "\\", "$"}

\* What the escapes of Escape write.
Backslashes == <<"\\", "\\">>
Quote       == <<"\\", "\"">>
Dollar      == <<"\\", "$">>
Tabulator   == <<"\\", "t">>

\* Those that escapes are made of are characters.
LEMMA CharactersAre ==
  /\ "\\" \in Characters /\ "\"" \in Characters /\ "$" \in Characters
  /\ "tab" \in Characters /\ "t" \in Characters /\ "LF" \in Characters /\ "CR" \in Characters
  /\ Backslashes \in Seq(Characters) /\ Quote \in Seq(Characters)
  /\ Dollar \in Seq(Characters) /\ Tabulator \in Seq(Characters)
BY DEF Characters, Backslashes, Quote, Dollar, Tabulator

\* What is put for a character.
Replacement(a, c, by) == IF a = c THEN by ELSE <<a>>

\* What is replaced is replaced one character at a time.
LEMMA ReplacedAppend ==
  ASSUME NEW s \in Seq(Characters), NEW c \in Characters, NEW by \in Seq(Characters)
  PROVE  /\ Env!Replaced(<<>>, c, by) = <<>>
         /\ Env!Replaced(s, c, by) \in Seq(Characters)
         /\ \A a \in Characters :
              Env!Replaced(Append(s, a), c, by) = Env!Replaced(s, c, by) \o Replacement(a, c, by)
<1> DEFINE P(u) == [i \in DOMAIN u |-> Replacement(u[i], c, by)]
<1>1. \A u : Env!Replaced(u, c, by) = Env!FlattenSeq(P(u))
  BY Zenon DEF Env!Replaced, Replacement
<1>2. \A a \in Characters : Replacement(a, c, by) \in Seq(Characters)
  BY DEF Replacement
<1>3. P(s) \in Seq(Seq(Characters))
  <2>1. \A i \in 1..Len(s) : Replacement(s[i], c, by) \in Seq(Characters)
    BY <1>2
  <2> QED BY <2>1
<1>4. P(<<>>) = <<>>
  OBVIOUS
<1>5. \A a \in Characters : P(Append(s, a)) = Append(P(s), Replacement(a, c, by))
  <2> SUFFICES ASSUME NEW a \in Characters
               PROVE  P(Append(s, a)) = Append(P(s), Replacement(a, c, by))
    OBVIOUS
  <2>1. Append(s, a) \in Seq(Characters) /\ Len(Append(s, a)) = Len(s) + 1 /\ Len(P(s)) = Len(s)
    BY <1>3
  <2>2. DOMAIN P(Append(s, a)) = 1..(Len(s) + 1)
    BY <2>1
  <2>3. \A i \in 1..(Len(s) + 1) : P(Append(s, a))[i] = Replacement(Append(s, a)[i], c, by)
    BY <2>1
  <2>4. P(Append(s, a)) \in Seq(Seq(Characters))
    BY <1>2, <2>1
  <2>5. \A i \in 1..Len(s) : P(s)[i] = Replacement(s[i], c, by)
    OBVIOUS
  <2> DEFINE p == P(s)
             q == P(Append(s, a))
  <2> HIDE DEF P
  <2>6. p \in Seq(Seq(Characters)) /\ q \in Seq(Seq(Characters)) /\ Len(q) = Len(p) + 1
    BY <1>3, <2>1, <2>2, <2>4
  <2>7. q[Len(p) + 1] = Replacement(a, c, by) /\ \A i \in 1..Len(p) : q[i] = p[i]
    BY <2>1, <2>3, <2>5
  <2>8. Replacement(a, c, by) \in Seq(Characters)
    BY <1>2
  <2> HIDE DEF p, q
  <2>9. q = Append(p, Replacement(a, c, by))
    BY <2>6, <2>7, <2>8
  <2> QED BY <2>9 DEF p, q
<1> HIDE DEF P
<1>6. Env!FlattenSeq(P(s)) \in Seq(Characters)
  BY <1>3, FlattenInSeq
<1>7. \A a \in Characters : Env!FlattenSeq(P(Append(s, a))) = Env!FlattenSeq(P(s)) \o Replacement(a, c, by)
  <2> SUFFICES ASSUME NEW a \in Characters
               PROVE  Env!FlattenSeq(P(Append(s, a))) = Env!FlattenSeq(P(s)) \o Replacement(a, c, by)
    OBVIOUS
  <2> DEFINE x == Replacement(a, c, by)
  <2>1. x \in Seq(Characters)
    BY <1>2
  <2> HIDE DEF x
  <2>2. /\ Env!FlattenSeq(<<>>) = <<>>
        /\ Env!FlattenSeq(Append(P(s), x)) = IF P(s) = <<>> THEN x ELSE Env!FlattenSeq(P(s)) \o x
    BY <1>3, <2>1, FlattenAppend
  <2>3. Env!FlattenSeq(Append(P(s), x)) = Env!FlattenSeq(P(s)) \o x
    BY <1>3, <2>1, <2>2
  <2> QED BY <1>5, <2>3 DEF x
<1>8. Env!FlattenSeq(P(<<>>)) = <<>>
  BY <1>4, <1>3, <1>2, FlattenAppend
<1> QED BY <1>1, <1>6, <1>7, <1>8

\* The same, for a character that is concatenated.
LEMMA ReplacedOne ==
  ASSUME NEW c \in Characters, NEW by \in Seq(Characters)
  PROVE  \A s \in Seq(Characters) : \A a \in Characters :
           Env!Replaced(s \o <<a>>, c, by) = Env!Replaced(s, c, by) \o Replacement(a, c, by)
<1> SUFFICES ASSUME NEW s \in Seq(Characters), NEW a \in Characters
             PROVE  Env!Replaced(s \o <<a>>, c, by) = Env!Replaced(s, c, by) \o Replacement(a, c, by)
  OBVIOUS
<1>1. s \o <<a>> = Append(s, a)
  OBVIOUS
<1>2. Env!Replaced(Append(s, a), c, by) = Env!Replaced(s, c, by) \o Replacement(a, c, by)
  BY ReplacedAppend, Zenon
<1> QED BY <1>1, <1>2, Zenon

\* Two others are kept.
LEMMA ReplacedPair ==
  ASSUME NEW c \in Characters, NEW by \in Seq(Characters)
  PROVE  \A s \in Seq(Characters) : \A a, b \in Characters :
           a # c /\ b # c => Env!Replaced(s \o <<a, b>>, c, by) = Env!Replaced(s, c, by) \o <<a, b>>
<1> SUFFICES ASSUME NEW s \in Seq(Characters), NEW a \in Characters, NEW b \in Characters, a # c, b # c
             PROVE  Env!Replaced(s \o <<a, b>>, c, by) = Env!Replaced(s, c, by) \o <<a, b>>
  OBVIOUS
<1> DEFINE r == Env!Replaced(s, c, by)
           sa == s \o <<a>>
           ra == r \o <<a>>
<1>1. s \o <<a, b>> = sa \o <<b>> /\ sa \in Seq(Characters)
  <2>1. s \o <<a, b>> = Append(Append(s, a), b) /\ Append(s, a) \in Seq(Characters)
    OBVIOUS
  <2>2. s \o <<a>> = Append(s, a) /\ Append(s, a) \o <<b>> = Append(Append(s, a), b)
    OBVIOUS
  <2> QED BY <2>1, <2>2
<1>2. r \in Seq(Characters)
  BY ReplacedAppend
<1>3. Replacement(a, c, by) = <<a>> /\ Replacement(b, c, by) = <<b>>
  BY DEF Replacement
<1>4. Env!Replaced(sa, c, by) = r \o Replacement(a, c, by)
  BY ReplacedOne, Zenon
<1> HIDE DEF r
<1>5. ra \o <<b>> = r \o <<a, b>>
  <2>1. r \o <<a>> = Append(r, a) /\ Append(r, a) \in Seq(Characters)
    BY <1>2
  <2>2. Append(r, a) \o <<b>> = Append(Append(r, a), b)
    BY <2>1
  <2>3. r \o <<a, b>> = Append(Append(r, a), b)
    BY <1>2
  <2> QED BY <2>1, <2>2, <2>3
<1> HIDE DEF sa
<1>6. Env!Replaced(sa \o <<b>>, c, by) = Env!Replaced(sa, c, by) \o Replacement(b, c, by)
  BY <1>1, ReplacedOne, ZenonT(60)
<1>7. Env!Replaced(sa \o <<b>>, c, by) = ra \o <<b>>
  BY <1>3, <1>4, <1>6, Zenon
<1> QED BY <1>1, <1>5, <1>7, Zenon DEF r

\* What Escape makes of a character.
Esc(a) ==
  IF a \in {"\\", "\"", "$"} THEN <<"\\", a>> ELSE IF a = "tab" THEN <<"\\", "t">> ELSE <<a>>

\* No replacement touches what an earlier one wrote, so each character is escaped alone.
LEMMA EscapeAppend ==
  ASSUME NEW s \in Seq(Characters), NEW a \in Characters
  PROVE  /\ Env!Escape(<<>>) = <<>> /\ Env!Escape(s) \in Seq(Characters)
         /\ Env!Escape(Append(s, a)) = Env!Escape(s) \o Esc(a)
<1> DEFINE R1(u) == Env!Replaced(u, "\\", Backslashes)
           R2(u) == Env!Replaced(u, "\"", Quote)
           R3(u) == Env!Replaced(u, "$", Dollar)
           R4(u) == Env!Replaced(u, "tab", Tabulator)
<1>1. \A u : Env!Escape(u) = R4(R3(R2(R1(u))))
  BY Zenon DEF Env!Escape, Backslashes, Quote, Dollar, Tabulator
<1>2. R1(<<>>) = <<>> /\ R2(<<>>) = <<>> /\ R3(<<>>) = <<>> /\ R4(<<>>) = <<>>
  BY CharactersAre, ReplacedAppend
<1>3. \A u \in Seq(Characters) : R1(u) \in Seq(Characters) /\ R2(u) \in Seq(Characters) /\ R3(u) \in Seq(Characters) /\ R4(u) \in Seq(Characters)
  BY CharactersAre, ReplacedAppend
<1>4. \A u \in Seq(Characters) : \A b \in Characters :
        /\ R1(u \o <<b>>) = R1(u) \o Replacement(b, "\\", Backslashes)
        /\ R2(u \o <<b>>) = R2(u) \o Replacement(b, "\"", Quote)
        /\ R3(u \o <<b>>) = R3(u) \o Replacement(b, "$", Dollar)
        /\ R4(u \o <<b>>) = R4(u) \o Replacement(b, "tab", Tabulator)
  <2>1. \A u \in Seq(Characters) : \A b \in Characters : R1(u \o <<b>>) = R1(u) \o Replacement(b, "\\", Backslashes)
    <3>1. "\\" \in Characters /\ Backslashes \in Seq(Characters)
      BY CharactersAre
    <3> QED BY <3>1, ReplacedOne
  <2>2. \A u \in Seq(Characters) : \A b \in Characters : R2(u \o <<b>>) = R2(u) \o Replacement(b, "\"", Quote)
    <3>1. "\"" \in Characters /\ Quote \in Seq(Characters)
      BY CharactersAre
    <3> QED BY <3>1, ReplacedOne
  <2>3. \A u \in Seq(Characters) : \A b \in Characters : R3(u \o <<b>>) = R3(u) \o Replacement(b, "$", Dollar)
    <3>1. "$" \in Characters /\ Dollar \in Seq(Characters)
      BY CharactersAre
    <3> QED BY <3>1, ReplacedOne
  <2>4. \A u \in Seq(Characters) : \A b \in Characters : R4(u \o <<b>>) = R4(u) \o Replacement(b, "tab", Tabulator)
    <3>1. "tab" \in Characters /\ Tabulator \in Seq(Characters)
      BY CharactersAre
    <3> QED BY <3>1, ReplacedOne
  <2> HIDE DEF R1, R2, R3, R4
  <2> QED BY <2>1, <2>2, <2>3, <2>4
<1>5. \A u \in Seq(Characters) : \A b \in Characters :
        /\ b # "\"" => R2(u \o <<"\\", b>>) = R2(u) \o <<"\\", b>>
        /\ b # "$" => R3(u \o <<"\\", b>>) = R3(u) \o <<"\\", b>>
        /\ b # "tab" => R4(u \o <<"\\", b>>) = R4(u) \o <<"\\", b>>
  <2>1. \A u \in Seq(Characters) : \A b \in Characters :
          b # "\"" => R2(u \o <<"\\", b>>) = R2(u) \o <<"\\", b>>
    <3>1. "\"" \in Characters /\ Quote \in Seq(Characters)
      BY CharactersAre
    <3>2. "\\" \in Characters /\ "\\" # "\""
      BY CharactersAre
    <3>3. \A u \in Seq(Characters) : \A d, b \in Characters :
            d # "\"" /\ b # "\"" => R2(u \o <<d, b>>) = R2(u) \o <<d, b>>
      BY <3>1, ReplacedPair
    <3> HIDE DEF R2
    <3> QED BY <3>2, <3>3, ZenonT(60)
  <2>2. \A u \in Seq(Characters) : \A b \in Characters :
          b # "$" => R3(u \o <<"\\", b>>) = R3(u) \o <<"\\", b>>
    <3>1. "$" \in Characters /\ Dollar \in Seq(Characters)
      BY CharactersAre
    <3>2. "\\" \in Characters /\ "\\" # "$"
      BY CharactersAre
    <3>3. \A u \in Seq(Characters) : \A d, b \in Characters :
            d # "$" /\ b # "$" => R3(u \o <<d, b>>) = R3(u) \o <<d, b>>
      BY <3>1, ReplacedPair
    <3> HIDE DEF R3
    <3> QED BY <3>2, <3>3, ZenonT(60)
  <2>3. \A u \in Seq(Characters) : \A b \in Characters :
          b # "tab" => R4(u \o <<"\\", b>>) = R4(u) \o <<"\\", b>>
    <3>1. "tab" \in Characters /\ Tabulator \in Seq(Characters)
      BY CharactersAre
    <3>2. "\\" \in Characters /\ "\\" # "tab"
      BY CharactersAre
    <3>3. \A u \in Seq(Characters) : \A d, b \in Characters :
            d # "tab" /\ b # "tab" => R4(u \o <<d, b>>) = R4(u) \o <<d, b>>
      BY <3>1, ReplacedPair
    <3> HIDE DEF R4
    <3> QED BY <3>2, <3>3, ZenonT(60)
  <2> HIDE DEF R1, R2, R3, R4
  <2> QED BY <2>1, <2>2, <2>3
<1> HIDE DEF R1, R2, R3, R4
<1> DEFINE s1 == R1(s)
           s2 == R2(s1)
           s3 == R3(s2)
           s4 == R4(s3)
<1>6. s1 \in Seq(Characters) /\ s2 \in Seq(Characters) /\ s3 \in Seq(Characters) /\ s4 \in Seq(Characters)
  BY <1>3
<1>7. Append(s, a) = s \o <<a>>
  OBVIOUS
<1>8. R4(R3(R2(R1(s \o <<a>>)))) = s4 \o Esc(a)
  <2> HIDE DEF s1, s2, s3, s4
  <2>1. R1(s \o <<a>>) = s1 \o IF a = "\\" THEN <<"\\", "\\">> ELSE <<a>>
    BY <1>4 DEF s1, Replacement, Backslashes, Replacement
  <2>2. CASE a = "\\"
    <3>1. R1(s \o <<a>>) = s1 \o <<"\\", "\\">>
      BY <2>1, <2>2
    <3>2. R2(s1 \o <<"\\", "\\">>) = s2 \o <<"\\", "\\">>
      BY <1>5, <1>6, CharactersAre DEF s2
    <3>3. R3(s2 \o <<"\\", "\\">>) = s3 \o <<"\\", "\\">>
      BY <1>5, <1>6, CharactersAre DEF s3
    <3>4. R4(s3 \o <<"\\", "\\">>) = s4 \o <<"\\", "\\">>
      BY <1>5, <1>6, CharactersAre DEF s4
    <3> QED BY <2>2, <3>1, <3>2, <3>3, <3>4 DEF Esc
  <2>3. CASE a # "\\"
    <3>1. R1(s \o <<a>>) = s1 \o <<a>>
      BY <2>1, <2>3
    <3>2. CASE a = "\""
      <4>1. R2(s1 \o <<a>>) = s2 \o <<"\\", "\"">>
        BY <1>4, <1>6, <3>2 DEF s2, Replacement, Quote
      <4>2. R3(s2 \o <<"\\", "\"">>) = s3 \o <<"\\", "\"">>
        BY <1>5, <1>6, CharactersAre DEF s3
      <4>3. R4(s3 \o <<"\\", "\"">>) = s4 \o <<"\\", "\"">>
        BY <1>5, <1>6, CharactersAre DEF s4
      <4> QED BY <3>1, <3>2, <4>1, <4>2, <4>3 DEF Esc
    <3>3. CASE a = "$"
      <4>1. R2(s1 \o <<a>>) = s2 \o <<a>>
        BY <1>4, <1>6, <3>3 DEF s2, Replacement, Quote
      <4>2. R3(s2 \o <<a>>) = s3 \o <<"\\", "$">>
        BY <1>4, <1>6, <3>3 DEF s3, Replacement, Dollar
      <4>3. R4(s3 \o <<"\\", "$">>) = s4 \o <<"\\", "$">>
        BY <1>5, <1>6, CharactersAre DEF s4
      <4> QED BY <3>1, <3>3, <4>1, <4>2, <4>3 DEF Esc
    <3>4. CASE a = "tab"
      <4>1. R2(s1 \o <<a>>) = s2 \o <<a>>
        BY <1>4, <1>6, <3>4 DEF s2, Replacement, Quote
      <4>2. R3(s2 \o <<a>>) = s3 \o <<a>>
        BY <1>4, <1>6, <3>4 DEF s3, Replacement, Dollar
      <4>3. R4(s3 \o <<a>>) = s4 \o <<"\\", "t">>
        BY <1>4, <1>6, <3>4 DEF s4, Replacement, Tabulator
      <4> QED BY <3>1, <3>4, <4>1, <4>2, <4>3 DEF Esc
    <3>5. CASE a \notin {"\"", "$", "tab"}
      <4>1. R2(s1 \o <<a>>) = s2 \o <<a>>
        BY <1>4, <1>6, <3>5 DEF s2, Replacement, Quote
      <4>2. R3(s2 \o <<a>>) = s3 \o <<a>>
        BY <1>4, <1>6, <3>5 DEF s3, Replacement, Dollar
      <4>3. R4(s3 \o <<a>>) = s4 \o <<a>>
        BY <1>4, <1>6, <3>5 DEF s4, Replacement, Tabulator
      <4> QED BY <2>3, <3>1, <3>5, <4>1, <4>2, <4>3 DEF Esc
    <3> QED BY <3>2, <3>3, <3>4, <3>5
  <2> QED BY <2>2, <2>3
<1>9. Env!Escape(s) = s4
  BY <1>1
<1>10. Env!Escape(Append(s, a)) = s4 \o Esc(a)
  BY <1>1, <1>7, <1>8
<1>11. Env!Escape(<<>>) = <<>>
  BY <1>1, <1>2
<1> QED BY <1>6, <1>9, <1>10, <1>11

\* What is read before the first character.
Blank == [value |-> <<>>, escape |-> FALSE, failed |-> FALSE]

\* What is read of the first n of the characters, for each of these numbers.
Reading(s, n, f) == f = [k \in 0..n |-> IF k = 0 THEN Blank ELSE Env!Step(f[k-1], s[k])]

\* What is read so far, by the number of characters.
LEMMA ReadingEntries ==
  ASSUME NEW s, NEW n \in Nat, NEW f, Reading(s, n, f)
  PROVE  /\ f[0] = Blank
         /\ \A k \in 0..n : f[k] = IF k = 0 THEN Blank ELSE Env!Step(f[k-1], s[k])
<1>1. \A k \in 0..n : f[k] = IF k = 0 THEN Blank ELSE Env!Step(f[k-1], s[k])
  BY Zenon DEF Reading
<1>2. 0 \in 0..n
  OBVIOUS
<1> QED BY <1>1, <1>2

\* There is such a function for any number of characters.
LEMMA ReadingExists ==
  ASSUME NEW s, NEW n \in Nat
  PROVE  \E f : Reading(s, n, f)
<1> DEFINE bad == {k \in Nat : ~\E f : Reading(s, k, f)}
<1> SUFFICES ASSUME bad # {}
             PROVE  FALSE
  OBVIOUS
<1>1. PICK m \in bad : \A k \in bad : m <= k
  BY Least
<1>2. CASE m = 0
  <2> DEFINE f == [k \in 0..0 |-> Blank]
  <2>1. Reading(s, 0, f)
    BY DEF Reading
  <2> QED BY <1>2, <2>1
<1>3. CASE m > 0
  <2>1. m - 1 \in Nat /\ m - 1 \notin bad
    BY <1>1, <1>3
  <2>2. PICK f : Reading(s, m - 1, f)
    BY <2>1
  <2> DEFINE g == [k \in 0..m |-> IF k = m THEN Env!Step(f[m-1], s[m]) ELSE f[k]]
  <2>3. \A k \in 0..m : g[k] = IF k = 0 THEN Blank ELSE Env!Step(g[k-1], s[k])
    <3> SUFFICES ASSUME NEW k \in 0..m
                 PROVE  g[k] = IF k = 0 THEN Blank ELSE Env!Step(g[k-1], s[k])
      OBVIOUS
    <3>0. k # 0 => k - 1 \in 0..m /\ k - 1 # m
      BY <1>3
    <3>1. k # 0 => g[k-1] = f[k-1]
      BY <3>0
    <3>2. CASE k = m
      BY <1>3, <3>1, <3>2
    <3>3. CASE k # m
      <4>1. k \in 0..(m - 1) /\ g[k] = f[k]
        BY <1>3, <3>3
      <4>2. f[k] = IF k = 0 THEN Blank ELSE Env!Step(f[k-1], s[k])
        BY <2>1, <2>2, <4>1, ReadingEntries
      <4> QED BY <3>1, <4>1, <4>2
    <3> QED BY <3>2, <3>3
  <2>4. g = [k \in 0..m |-> g[k]]
    OBVIOUS
  <2> HIDE DEF g
  <2>5. Reading(s, m, g)
    BY <2>3, <2>4, Zenon DEF Reading
  <2> QED BY <1>1, <2>5
<1> QED BY <1>1, <1>2, <1>3

\* Two of them agree where the characters do.
LEMMA ReadingsAgree ==
  ASSUME NEW s, NEW n \in Nat, NEW f, Reading(s, n, f),
         NEW t, NEW m \in Nat, NEW g, Reading(t, m, g),
         n <= m, \A k \in 1..n : s[k] = t[k]
  PROVE  \A k \in 0..n : f[k] = g[k]
<1> DEFINE bad == {k \in 0..n : f[k] # g[k]}
<1> SUFFICES ASSUME bad # {}
             PROVE  FALSE
  OBVIOUS
<1>1. PICK k \in bad : \A j \in bad : k <= j
  <2>1. bad \subseteq Nat
    OBVIOUS
  <2> QED BY <2>1, Least
<1>2. k \in 0..n /\ k \in 0..m /\ f[k] # g[k]
  OBVIOUS
<1>3. /\ f[k] = IF k = 0 THEN Blank ELSE Env!Step(f[k-1], s[k])
      /\ g[k] = IF k = 0 THEN Blank ELSE Env!Step(g[k-1], t[k])
  BY <1>2, ReadingEntries
<1>4. k # 0 => f[k-1] = g[k-1] /\ s[k] = t[k]
  <2>1. k # 0 => k - 1 \in 0..n /\ ~(k <= k - 1) /\ k \in 1..n
    BY <1>2
  <2> QED BY <1>1, <2>1
<1> QED BY <1>2, <1>3, <1>4

\* What is read of some characters.
IsRead(s, r) == \E f : Reading(s, Len(s), f) /\ f[Len(s)] = r

\* Of nothing, nothing is read.
LEMMA NothingIsRead == IsRead(<<>>, Blank)
<1>1. PICK f : Reading(<<>>, 0, f)
  BY ReadingExists
<1>2. f[0] = Blank
  BY <1>1, ReadingEntries
<1> QED BY <1>1, <1>2 DEF IsRead

\* One more character takes one more step.
LEMMA ReadAppend ==
  ASSUME NEW s \in Seq(Characters), NEW r, IsRead(s, r), NEW c \in Characters
  PROVE  IsRead(Append(s, c), Env!Step(r, c))
<1> DEFINE t == Append(s, c)
           n == Len(s)
<1>1. n \in Nat /\ Len(t) = n + 1 /\ t[n + 1] = c /\ \A k \in 1..n : s[k] = t[k]
  OBVIOUS
<1>2. PICK f : Reading(s, n, f) /\ f[n] = r
  BY DEF IsRead
<1> HIDE DEF t, n
<1>3. PICK g : Reading(t, n + 1, g)
  BY <1>1, ReadingExists
<1>4. g[n] = r
  <2>1. n <= n + 1 /\ n + 1 \in Nat /\ n \in 0..n
    BY <1>1
  <2>2. \A k \in 0..n : f[k] = g[k]
    BY <1>1, <1>2, <1>3, <2>1, ReadingsAgree
  <2> QED BY <1>2, <2>1, <2>2
<1>5. g[n + 1] = Env!Step(g[n], t[n + 1])
  <2>1. n + 1 \in 0..(n + 1) /\ n + 1 # 0 /\ (n + 1) - 1 = n /\ n + 1 \in Nat
    BY <1>1
  <2>2. \A k \in 0..(n + 1) : g[k] = IF k = 0 THEN Blank ELSE Env!Step(g[k-1], t[k])
    BY <1>3, <2>1, ReadingEntries
  <2> QED BY <2>1, <2>2
<1>6. g[n + 1] = Env!Step(r, c)
  BY <1>1, <1>4, <1>5
<1>7. IsRead(t, Env!Step(r, c))
  BY <1>1, <1>3, <1>6 DEF IsRead
<1> QED BY <1>7 DEF t

\* Unquote gives what is read, unless it ends within an escape or is refused.
LEMMA UnquoteIsRead ==
  ASSUME NEW s \in Seq(Characters), NEW r, IsRead(s, r)
  PROVE  Env!Unquote(s) = IF r.escape \/ r.failed THEN Env!Error ELSE r.value
<1> DEFINE g == CHOOSE g : Reading(s, Len(s), g)
<1>1. Len(s) \in Nat
  OBVIOUS
<1>2. PICK f : Reading(s, Len(s), f) /\ f[Len(s)] = r
  BY DEF IsRead
<1>3. Reading(s, Len(s), g)
  BY <1>2, Zenon
<1>4. Env!Unquote(s) = IF g[Len(s)].escape \/ g[Len(s)].failed THEN Env!Error ELSE g[Len(s)].value
  BY Zenon DEF Env!Unquote, Reading, Blank
<1> HIDE DEF g
<1>5. g[Len(s)] = r
  <2>1. \A k \in 0..Len(s) : g[k] = f[k]
    BY <1>1, <1>2, <1>3, ReadingsAgree
  <2>2. Len(s) \in 0..Len(s)
    BY <1>1
  <2> QED BY <1>2, <2>1, <2>2
<1> QED BY <1>4, <1>5

\* What is read is of characters.
LEMMA ReadIsTyped ==
  ASSUME NEW s \in Seq(Characters)
  PROVE  \E r \in [value : Seq(Characters), escape : BOOLEAN, failed : BOOLEAN] : IsRead(s, r)
<1> DEFINE R == [value : Seq(Characters), escape : BOOLEAN, failed : BOOLEAN]
<1>1. Len(s) \in Nat /\ \A k \in 1..Len(s) : s[k] \in Characters
  OBVIOUS
<1>2. PICK f : Reading(s, Len(s), f)
  BY <1>1, ReadingExists
<1>3. \A k \in 0..Len(s) : f[k] = IF k = 0 THEN Blank ELSE Env!Step(f[k-1], s[k])
  BY <1>1, <1>2, ReadingEntries
<1>4. Blank \in R
  BY DEF Blank
<1>5. ASSUME NEW r \in R, NEW c \in Characters
      PROVE  Env!Step(r, c) \in R
  <2>1. Env!Unescape(c) \in Seq(Characters)
    <3>1. "\\" \in Characters /\ "tab" \in Characters /\ "LF" \in Characters /\ "CR" \in Characters
      BY CharactersAre
    <3>2. Env!Unescape(c) \in {<<c>>, <<"tab">>, <<"LF">>, <<"CR">>, <<"\\", c>>}
      BY DEF Env!Unescape
    <3>3. /\ <<c>> \in Seq(Characters) /\ <<"tab">> \in Seq(Characters) /\ <<"LF">> \in Seq(Characters)
          /\ <<"CR">> \in Seq(Characters) /\ <<"\\", c>> \in Seq(Characters)
      BY <3>1
    <3> QED BY <3>2, <3>3
  <2>2. r.value \o Env!Unescape(c) \in Seq(Characters) /\ Append(r.value, c) \in Seq(Characters)
    BY <2>1
  <2>3. Env!Step(r, c) \in {r, [r EXCEPT !.escape = FALSE, !.value = r.value \o Env!Unescape(c)],
                            [r EXCEPT !.escape = TRUE], [r EXCEPT !.failed = TRUE],
                            [r EXCEPT !.value = Append(r.value, c)]}
    BY DEF Env!Step
  <2> QED BY <2>2, <2>3
<1> HIDE DEF R
<1>6. {k \in 0..Len(s) : f[k] \notin R} = {}
  <2> DEFINE bad == {k \in 0..Len(s) : f[k] \notin R}
  <2> SUFFICES ASSUME bad # {}
               PROVE  FALSE
    OBVIOUS
  <2>1. PICK k \in bad : \A j \in bad : k <= j
    <3>1. bad \subseteq Nat
      OBVIOUS
    <3> HIDE DEF bad
    <3> QED BY <3>1, Least
  <2>2. k \in 0..Len(s) /\ f[k] \notin R
    OBVIOUS
  <2>3. k # 0 => f[k-1] \in R /\ s[k] \in Characters
    <3>1. k # 0 => k - 1 \in 0..Len(s) /\ ~(k <= k - 1) /\ k \in 1..Len(s)
      BY <2>2, <1>1
    <3> QED BY <1>1, <2>1, <3>1
  <2>4. CASE k = 0
    BY <1>3, <1>4, <2>2, <2>4
  <2>5. CASE k # 0
    <3>1. f[k] = Env!Step(f[k-1], s[k])
      BY <1>3, <2>2, <2>5
    <3> QED BY <1>5, <2>2, <2>3, <2>5, <3>1
  <2> QED BY <2>4, <2>5
<1>7. f[Len(s)] \in R /\ IsRead(s, f[Len(s)])
  <2>1. Len(s) \in 0..Len(s)
    BY <1>1
  <2> QED BY <1>2, <1>6, <2>1 DEF IsRead
<1> QED BY <1>7 DEF R

\* What is escaped is read as it was.
LEMMA EscapeIsRead ==
  ASSUME NEW s \in Seq(Characters)
  PROVE  IsRead(Env!Escape(s), [value |-> s, escape |-> FALSE, failed |-> FALSE])
<1> DEFINE Goal(u) == [value |-> u, escape |-> FALSE, failed |-> FALSE]
           Prefix(n) == SubSeq(s, 1, n)
<1>1. Len(s) \in Nat /\ \A k \in 1..Len(s) : s[k] \in Characters
  OBVIOUS
<1>2. ASSUME NEW u \in Seq(Characters), NEW c \in Characters, IsRead(Env!Escape(u), Goal(u))
      PROVE  IsRead(Env!Escape(Append(u, c)), Goal(Append(u, c)))
  <2> DEFINE e == Env!Escape(u)
             g == Goal(u)
  <2>1. /\ e \in Seq(Characters) /\ Env!Escape(Append(u, c)) = e \o Esc(c)
        /\ g.value = u /\ g.escape = FALSE /\ g.failed = FALSE
    BY EscapeAppend
  <2> HIDE DEF e
  <2>2. CASE c \notin {"\\", "\"", "$", "tab"}
    <3>1. Env!Step(g, c) = Goal(Append(u, c))
      BY <2>2 DEF Env!Step
    <3>2. Esc(c) = <<c>>
      BY <2>2 DEF Esc
    <3>3. IsRead(Append(e, c), Env!Step(g, c))
      BY <1>2, <2>1, ReadAppend DEF e
    <3>4. e \o <<c>> = Append(e, c)
      BY <2>1
    <3> HIDE DEF g, Goal
    <3> QED BY <2>1, <3>1, <3>2, <3>3, <3>4
  <2>3. CASE c \in {"\\", "\"", "$", "tab"}
    <3> DEFINE d == IF c = "tab" THEN "t" ELSE c
               h == [value |-> u, escape |-> TRUE, failed |-> FALSE]
    <3>1. d \in Characters /\ "\\" \in Characters
      BY CharactersAre
    <3>2. Esc(c) = <<"\\", d>>
      BY <2>3 DEF Esc
    <3>3. Env!Step(g, "\\") = h
      BY DEF Env!Step
    <3>4. Env!Unescape(d) = <<c>>
      BY <2>3 DEF Env!Unescape
    <3>5. Env!Step(h, d) = Goal(u \o <<c>>)
      BY <3>4 DEF Env!Step
    <3>6. u \o <<c>> = Append(u, c) /\ e \o <<"\\", d>> = Append(Append(e, "\\"), d)
      <4> HIDE DEF d
      <4>1. u \o <<c>> = Append(u, c)
        OBVIOUS
      <4>2. e \o <<"\\", d>> = Append(Append(e, "\\"), d)
        BY <2>1, <3>1
      <4> QED BY <4>1, <4>2
    <3> HIDE DEF g, h, d, Goal
    <3>7. IsRead(Append(e, "\\"), Env!Step(g, "\\"))
      BY <1>2, <2>1, <3>1, ReadAppend DEF e, g
    <3>8. Append(e, "\\") \in Seq(Characters)
      BY <2>1, <3>1
    <3>9. IsRead(Append(Append(e, "\\"), d), Env!Step(h, d))
      BY <3>1, <3>3, <3>7, <3>8, ReadAppend
    <3> QED BY <2>1, <3>2, <3>5, <3>6, <3>9
  <2> QED BY <2>2, <2>3
<1>3. IsRead(Env!Escape(<<>>), Goal(<<>>))
  <2>1. "\\" \in Characters
    BY CharactersAre
  <2>2. Env!Escape(<<>>) = <<>>
    BY <2>1, EscapeAppend
  <2> QED BY <2>2, NothingIsRead DEF Blank
<1>4. \A n \in 0..Len(s) : IsRead(Env!Escape(Prefix(n)), Goal(Prefix(n)))
  <2> DEFINE P(n) == IsRead(Env!Escape(Prefix(n)), Goal(Prefix(n)))
             bad  == {n \in 0..Len(s) : ~P(n)}
  <2> SUFFICES ASSUME bad # {}
               PROVE  FALSE
    OBVIOUS
  <2>1. PICK k \in bad : \A j \in bad : k <= j
    <3>1. bad \subseteq Nat
      OBVIOUS
    <3> HIDE DEF bad
    <3> QED BY <3>1, Least
  <2>2. k \in 0..Len(s) /\ ~P(k)
    OBVIOUS
  <2>3. CASE k = 0
    <3>1. Prefix(0) = <<>>
      BY <1>1
    <3> QED BY <1>3, <2>2, <2>3, <3>1
  <2>4. CASE k # 0
    <3>1. k - 1 \in 0..Len(s) /\ ~(k <= k - 1) /\ s[k] \in Characters
      BY <1>1, <2>2, <2>4
    <3>2. P(k - 1)
      BY <2>1, <3>1
    <3>3. Prefix(k - 1) \in Seq(Characters) /\ Prefix(k) = Append(Prefix(k - 1), s[k])
      BY <1>1, <2>2, <2>4
    <3> HIDE DEF Prefix, Goal
    <3> QED BY <1>2, <2>2, <3>1, <3>2, <3>3
  <2> QED BY <2>3, <2>4
<1>5. Prefix(Len(s)) = s /\ Len(s) \in 0..Len(s)
  BY <1>1
<1> QED BY <1>4, <1>5

\* The last character of the line that is no blank.
LEMMA TrimEnds ==
  ASSUME NEW s \in Seq(Characters)
  PROVE  \/ Env!Trim(s) = <<>>
         \/ \E i \in DOMAIN s : /\ s[i] \notin Env!Whitespace
                                /\ \A j \in DOMAIN s : s[j] \notin Env!Whitespace => j <= i
                                /\ Env!Trim(s) = SubSeq(s, 1, i)
<1> DEFINE kept == {i \in DOMAIN s : s[i] \notin Env!Whitespace}
           Topmost(i) == i \in kept /\ \A j \in kept : j <= i
           top  == CHOOSE i \in kept : \A j \in kept : j <= i
<1>1. Env!Trim(s) = IF kept = {} THEN <<>> ELSE SubSeq(s, 1, top)
  BY Zenon DEF Env!Trim
<1>2. ASSUME kept # {}
      PROVE  \E i \in kept : \A j \in kept : j <= i
  <2>1. kept \subseteq 1..Len(s) /\ Len(s) \in Nat
    OBVIOUS
  <2> HIDE DEF kept
  <2> QED BY <1>2, <2>1, Greatest
<1>3. kept # {} => Topmost(top)
  BY <1>2, Zenon
<1>4. CASE kept = {}
  BY <1>1, <1>4
<1>5. CASE kept # {}
  <2> HIDE DEF top
  <2> QED BY <1>1, <1>3, <1>5
<1> QED BY <1>4, <1>5

\* A text that does not end in a blank is kept.
LEMMA TrimKeeps ==
  ASSUME NEW s \in Seq(Characters), s # <<>>, s[Len(s)] \notin Env!Whitespace
  PROVE  Env!Trim(s) = s
<1> DEFINE n == Len(s)
           kept == {i \in DOMAIN s : s[i] \notin Env!Whitespace}
           top  == CHOOSE i \in kept : \A j \in kept : j <= i
<1>1. n \in DOMAIN s /\ n \in Nat /\ \A i \in DOMAIN s : i <= n /\ i \in Nat
  OBVIOUS
<1>2. Env!Trim(s) = IF kept = {} THEN <<>> ELSE SubSeq(s, 1, top)
  BY Zenon DEF Env!Trim
<1>3. n \in kept /\ \A j \in kept : j <= n
  BY <1>1
<1>4. top \in kept /\ \A j \in kept : j <= top
  BY <1>3, Zenon
<1>5. kept \subseteq DOMAIN s
  OBVIOUS
<1> HIDE DEF kept, top
<1>6. top = n
  <2>1. top <= n /\ n <= top /\ top \in Nat
    BY <1>1, <1>3, <1>4, <1>5
  <2> QED BY <1>1, <2>1
<1> QED BY <1>2, <1>3, <1>6, SubSeqFull

\* What is escaped is of characters.
LEMMA EscapedOfCharacters ==
  \A s \in Seq(Characters) : Env!Escape(s) \in Seq(Characters)
<1>1. "t" \in Characters
  BY CharactersAre
<1> QED BY <1>1, EscapeAppend

\* The head of a sequence is the first of it.
LEMMA HeadIsFirst ==
  ASSUME NEW S, NEW s \in Seq(S), s # <<>>
  PROVE  Head(s) = s[1]
<1>1. 1 \in 1..Len(s) /\ Len(s) \in 1..Len(s)
  OBVIOUS
<1>2. Head(SubSeq(s, 1, Len(s))) = s[1]
  BY <1>1, HeadTailOfSubSeq
<1> QED BY <1>2, SubSeqFull

\* What is between the first character and the last.
LEMMA Within ==
  ASSUME NEW S, NEW t \in Seq(S), Len(t) >= 2
  PROVE  Tail(Env!Front(t)) = SubSeq(t, 2, Len(t) - 1) /\ Tail(Env!Front(t)) \in Seq(S)
<1>1. 1 \in 1..Len(t) /\ Len(t) - 1 \in 1..Len(t) /\ Len(t) \in Nat
  OBVIOUS
<1>2. Tail(SubSeq(t, 1, Len(t) - 1)) = SubSeq(t, 2, Len(t) - 1)
  <2>1. Tail(SubSeq(t, 1, Len(t) - 1)) = SubSeq(t, 1 + 1, Len(t) - 1)
    BY <1>1, HeadTailOfSubSeq
  <2> QED BY <2>1
<1>3. Env!Front(t) = SubSeq(t, 1, Len(t) - 1)
  BY Zenon DEF Env!Front
<1>4. SubSeq(t, 2, Len(t) - 1) \in Seq(S)
  <2>1. \A i \in 2..(Len(t) - 1) : t[i] \in S
    BY <1>1
  <2>2. 2 \in Int /\ Len(t) - 1 \in Int
    BY <1>1
  <2> HIDE DEF Env!Front
  <2> QED BY <2>1, <2>2, SubSeqProperties
<1> QED BY <1>2, <1>3, <1>4

\* A text in quotes begins and ends with one, and is what is within.
LEMMA QuotesAreOutside ==
  ASSUME NEW S, NEW e \in Seq(S), NEW q \in S
  PROVE  LET t == <<q>> \o e \o <<q>>
         IN /\ t \in Seq(S) /\ t # <<>> /\ Len(t) >= 2
            /\ t[1] = q /\ t[Len(t)] = q /\ Tail(Env!Front(t)) = e
<1> DEFINE u == <<q>> \o e
           t == u \o <<q>>
           n == Len(e)
<1>1. <<q>> \in Seq(S) /\ Len(<<q>>) = 1 /\ <<q>>[1] = q /\ n \in Nat
  OBVIOUS
<1>2. /\ u \in Seq(S) /\ Len(u) = n + 1 /\ u[1] = q
      /\ \A i \in 1..n : u[i + 1] = e[i]
  <2>1. /\ u \in Seq(S) /\ Len(u) = Len(<<q>>) + n
        /\ \A i \in 1..(Len(<<q>>) + n) : u[i] = IF i <= Len(<<q>>) THEN <<q>>[i] ELSE e[i - Len(<<q>>)]
    BY <1>1, ConcatProperties
  <2> HIDE DEF u
  <2>2. \A i \in 1..(1 + n) : u[i] = IF i <= 1 THEN <<q>>[i] ELSE e[i - 1]
    BY <1>1, <2>1
  <2>3. 1 \in 1..(1 + n) /\ 1 <= 1
    BY <1>1
  <2>4. ASSUME NEW i \in 1..n
        PROVE  u[i + 1] = e[i]
    <3>1. i + 1 \in 1..(1 + n) /\ ~(i + 1 <= 1) /\ (i + 1) - 1 = i
      BY <1>1
    <3> QED BY <2>2, <3>1
  <2> QED BY <1>1, <2>1, <2>2, <2>3, <2>4
<1> HIDE DEF u
<1>3. /\ t \in Seq(S) /\ Len(t) = n + 2 /\ t[n + 2] = q
      /\ \A i \in 1..(n + 1) : t[i] = u[i]
  <2>1. /\ t \in Seq(S) /\ Len(t) = Len(u) + Len(<<q>>)
        /\ \A i \in 1..(Len(u) + Len(<<q>>)) : t[i] = IF i <= Len(u) THEN u[i] ELSE <<q>>[i - Len(u)]
    BY <1>1, <1>2, ConcatProperties
  <2> HIDE DEF t
  <2>2. Len(t) = n + 2 /\ \A i \in 1..(n + 2) : t[i] = IF i <= n + 1 THEN u[i] ELSE <<q>>[i - (n + 1)]
    <3>1. Len(u) + Len(<<q>>) = n + 2
      BY <1>1, <1>2
    <3> QED BY <1>2, <2>1, <3>1
  <2>3. n + 2 \in 1..(n + 2) /\ ~(n + 2 <= n + 1) /\ (n + 2) - (n + 1) = 1
    BY <1>1
  <2>4. \A i \in 1..(n + 1) : i \in 1..(n + 2) /\ i <= n + 1
    BY <1>1
  <2>5. t[n + 2] = q
    BY <1>1, <2>2, <2>3
  <2>6. \A i \in 1..(n + 1) : t[i] = u[i]
    BY <2>2, <2>4
  <2> QED BY <2>1, <2>2, <2>5, <2>6
<1> HIDE DEF t
<1>4. t # <<>> /\ Len(t) >= 2 /\ t[1] = q /\ t[Len(t)] = q
  <2>1. 1 \in 1..(n + 1)
    BY <1>1
  <2> QED BY <1>1, <1>2, <1>3, <2>1
<1>5. Tail(Env!Front(t)) = e
  <2> DEFINE w == SubSeq(t, 2, n + 1)
  <2>1. Tail(Env!Front(t)) = w
    <3>1. Len(t) - 1 = n + 1
      BY <1>1, <1>3
    <3> QED BY <1>3, <1>4, <3>1, Within
  <2>2. \A i \in 2..(n + 1) : t[i] \in S
    BY <1>1, <1>3
  <2>3. /\ w \in Seq(S) /\ Len(w) = IF 2 <= n + 1 THEN (n + 1) - 2 + 1 ELSE 0
        /\ \A i \in 1..((n + 1) - 2 + 1) : w[i] = t[2 + i - 1]
    <3>1. 2 \in Int /\ n + 1 \in Int
      BY <1>1
    <3> QED BY <2>2, <3>1, SubSeqProperties
  <2> HIDE DEF w
  <2>4. Len(w) = n
    BY <1>1, <2>3
  <2>5. ASSUME NEW i \in 1..n
        PROVE  w[i] = e[i]
    <3>1. i \in 1..((n + 1) - 2 + 1) /\ 2 + i - 1 = i + 1 /\ i + 1 \in 1..(n + 1)
      BY <1>1
    <3> QED BY <1>2, <1>3, <2>3, <3>1
  <2>6. w = e
    BY <2>3, <2>4, <2>5, SeqEqual
  <2> QED BY <2>1, <2>6
<1> QED BY <1>3, <1>4, <1>5 DEF t, u

\* What was encoded is parsed to what it was.
LEMMA EncodedIsParsed ==
  ASSUME NEW s \in Seq(Characters), Env!ValidValue(s)
  PROVE  Env!ParseAssignment(Env!EncodeValue(s)) = s
<1>1. SUFFICES Env!DecodeValue(Env!Trim(Env!EncodeValue(s))) = s
  BY Zenon DEF Env!ParseAssignment
<1> DEFINE quoted == s = <<>> \/ \E i \in DOMAIN s : s[i] \in Env!Whitespace \cup Env!Escaped
           e      == Env!Escape(s)
           t      == <<"\"">> \o e \o <<"\"">>
<1>2. Env!EncodeValue(s) = IF quoted THEN t ELSE s
  BY Zenon DEF Env!EncodeValue
<1>3. CASE ~quoted
  <2>1. s # <<>> /\ s[Len(s)] \notin Env!Whitespace /\ s[1] \notin Env!Escaped
    <3>1. Len(s) \in DOMAIN s /\ 1 \in DOMAIN s
      BY <1>3
    <3> QED BY <1>3, <3>1
  <2>2. Env!Trim(s) = s
    BY <2>1, TrimKeeps
  <2>3. Head(s) # "\""
    <3>1. "\"" \in Env!Escaped
      BY DEF Env!Escaped
    <3> QED BY <2>1, <3>1, HeadIsFirst
  <2>4. Env!DecodeValue(s) = s
    BY <2>3 DEF Env!DecodeValue
  <2> QED BY <1>2, <1>3, <2>2, <2>4
<1>4. CASE quoted
  <2>1. e \in Seq(Characters) /\ "\"" \in Characters
    BY CharactersAre, EscapedOfCharacters
  <2> HIDE DEF e
  <2>2. /\ t \in Seq(Characters) /\ t # <<>> /\ Len(t) >= 2
        /\ t[1] = "\"" /\ t[Len(t)] = "\"" /\ Tail(Env!Front(t)) = e
    BY <2>1, QuotesAreOutside, Zenon
  <2> HIDE DEF t
  <2>3. Env!Trim(t) = t
    <3>1. t[Len(t)] \notin Env!Whitespace
      BY <2>2 DEF Env!Whitespace
    <3> QED BY <2>2, <3>1, TrimKeeps
  <2>5. Env!DecodeValue(t) = Env!Unquote(e)
    <3>1. Head(t) = "\"" /\ Env!Last(t) = "\""
      BY <2>2, HeadIsFirst DEF Env!Last
    <3> QED BY <2>2, <3>1 DEF Env!DecodeValue
  <2>4. Env!Unquote(e) = s
    <3> DEFINE r == [value |-> s, escape |-> FALSE, failed |-> FALSE]
    <3>1. IsRead(e, r)
      BY EscapeIsRead DEF e
    <3>2. r.value = s /\ r.escape = FALSE /\ r.failed = FALSE
      OBVIOUS
    <3> HIDE DEF r
    <3> QED BY <2>1, <3>1, <3>2, UnquoteIsRead
  <2> QED BY <1>2, <1>4, <2>3, <2>4, <2>5
<1> QED BY <1>3, <1>4

\* An error is not a text.
LEMMA ErrorIsNoValue == Env!Error \notin Seq(Characters)
<1>1. "error" \notin Characters
  BY DEF Characters
<1>2. Env!Error[1] = "error" /\ Len(Env!Error) = 1
  BY DEF Env!Error
<1> QED BY <1>1, <1>2

\* What is parsed of a line is a value that can be encoded, or an error.
LEMMA ParsedIsValid ==
  ASSUME NEW l \in Seq(Characters)
  PROVE  LET v == Env!ParseAssignment(l)
         IN v = Env!Error \/ (v \in Seq(Characters) /\ Env!ValidValue(v))
<1> DEFINE t == Env!Trim(l)
           v == Env!DecodeValue(t)
<1>1. Env!ParseAssignment(l) = IF Env!ValidValue(v) THEN v ELSE Env!Error
  BY Zenon DEF Env!ParseAssignment
<1>2. t \in Seq(Characters)
  <2>1. CASE t = <<>>
    BY <2>1
  <2>2. ASSUME NEW i \in DOMAIN l, t = SubSeq(l, 1, i)
        PROVE  t \in Seq(Characters)
    <3>1. SubSeq(l, 1, i) \in Seq(Characters)
      OBVIOUS
    <3> QED BY <2>2, <3>1
  <2> HIDE DEF t
  <2> QED BY <2>1, <2>2, TrimEnds DEF t
<1> HIDE DEF t
<1>3. v \in {t, Env!Error} \/ (Len(t) >= 2 /\ v = Env!Unquote(Tail(Env!Front(t))))
  <2>1. CASE t = <<>> \/ Head(t) # "\""
    <3>1. ~(Len(t) >= 2 /\ Head(t) = "\"" /\ Env!Last(t) = "\"")
      <4>1. t = <<>> => ~(Len(t) >= 2)
        OBVIOUS
      <4> QED BY <2>1, <4>1, Zenon
    <3> QED BY <2>1, <3>1, Zenon DEF Env!DecodeValue
  <2>2. CASE Len(t) >= 2 /\ Head(t) = "\"" /\ Env!Last(t) = "\"" /\ t # <<>>
    BY <2>2 DEF Env!DecodeValue
  <2>3. CASE ~(t = <<>> \/ Head(t) # "\"") /\ ~(Len(t) >= 2 /\ Head(t) = "\"" /\ Env!Last(t) = "\"")
    BY <2>3 DEF Env!DecodeValue
  <2> QED BY <2>1, <2>2, <2>3
<1>4. ASSUME Len(t) >= 2
      PROVE  Env!Unquote(Tail(Env!Front(t))) \in Seq(Characters) \cup {Env!Error}
  <2> DEFINE u == Tail(Env!Front(t))
  <2>1. u \in Seq(Characters)
    BY <1>2, <1>4, Within
  <2> HIDE DEF u
  <2>2. PICK r \in [value : Seq(Characters), escape : BOOLEAN, failed : BOOLEAN] : IsRead(u, r)
    BY <2>1, ReadIsTyped
  <2>3. r.value \in Seq(Characters)
    OBVIOUS
  <2>4. Env!Unquote(u) = IF r.escape \/ r.failed THEN Env!Error ELSE r.value
    BY <2>1, <2>2, UnquoteIsRead
  <2>5. Env!Unquote(u) \in Seq(Characters) \cup {Env!Error}
    BY <2>3, <2>4
  <2> QED BY <2>5 DEF u
<1> HIDE DEF v
<1>5. v \in Seq(Characters) \cup {Env!Error}
  BY <1>2, <1>3, <1>4
<1> QED BY <1>1, <1>5

\* A file of one line.
LEMMA OneLineIsRead ==
  ASSUME NEW l, NEW v, Env!ParseAssignment(l) = v, v # Env!Error
  PROVE  Env!ReadFile([k \in {"NAME"} |-> l]) = [k \in {"NAME"} |-> v]
<1> DEFINE lines  == [k \in {"NAME"} |-> l]
           values == [k \in DOMAIN lines |-> Env!ParseAssignment(lines[k])]
<1>1. values = [k \in {"NAME"} |-> v]
  OBVIOUS
<1>2. Env!ReadFile(lines) = IF \E k \in DOMAIN values : values[k] = Env!Error THEN <<>> ELSE values
  BY Zenon DEF Env!ReadFile
<1> HIDE DEF values
<1>3. ~\E k \in DOMAIN values : values[k] = Env!Error
  BY <1>1
<1> QED BY <1>1, <1>2, <1>3

\* ...and of one that cannot be is not.
LEMMA OneLineIsRefused ==
  ASSUME NEW l, Env!ParseAssignment(l) = Env!Error
  PROVE  Env!ReadFile([k \in {"NAME"} |-> l]) = <<>>
<1> DEFINE lines  == [k \in {"NAME"} |-> l]
           values == [k \in DOMAIN lines |-> Env!ParseAssignment(lines[k])]
<1>1. values = [k \in {"NAME"} |-> Env!Error]
  OBVIOUS
<1>2. Env!ReadFile(lines) = IF \E k \in DOMAIN values : values[k] = Env!Error THEN <<>> ELSE values
  BY Zenon DEF Env!ReadFile
<1> HIDE DEF values
<1>3. \E k \in DOMAIN values : values[k] = Env!Error
  BY <1>1
<1> QED BY <1>1, <1>2, <1>3

\* A file without a line has no value.
LEMMA NoLineIsRead ==
  ASSUME NEW lines, DOMAIN lines = {}
  PROVE  Env!ReadFile(lines) = [k \in {} |-> <<>>]
<1> DEFINE values == [k \in DOMAIN lines |-> Env!ParseAssignment(lines[k])]
<1>1. values = [k \in {} |-> <<>>]
  OBVIOUS
<1>2. Env!ReadFile(lines) = IF \E k \in DOMAIN values : values[k] = Env!Error THEN <<>> ELSE values
  BY Zenon DEF Env!ReadFile
<1> HIDE DEF values
<1> QED BY <1>1, <1>2

\* What was written is read.
LEMMA WrittenIsRead ==
  ASSUME NEW v \in Seq(Characters)
  PROVE  Env!RoundTrip([NAME |-> v])
<1> DEFINE values == [k \in {"NAME"} |-> v]
<1>1. [NAME |-> v] = values
  OBVIOUS
<1>2. SUFFICES ASSUME \A k \in DOMAIN values : Env!ValidValue(values[k])
               PROVE  Env!ReadFile(Env!WriteGenerated(values)) = values
  BY <1>1, Zenon DEF Env!RoundTrip
<1>3. DOMAIN values = {"NAME"} /\ values["NAME"] = v
  OBVIOUS
<1>4. Env!ValidValue(v)
  BY <1>2, <1>3
<1>5. Env!WriteGenerated(values) = [k \in {"NAME"} |-> Env!EncodeValue(v)]
  <2>1. Env!WriteGenerated(values) = [k \in DOMAIN values |-> Env!EncodeValue(values[k])]
    BY <1>2, Zenon DEF Env!WriteGenerated
  <2> QED BY <1>3, <2>1
<1>6. v # Env!Error
  BY ErrorIsNoValue
<1>7. Env!ParseAssignment(Env!EncodeValue(v)) = v
  BY <1>4, EncodedIsParsed
<1> HIDE DEF values
<1>8. Env!ReadFile([k \in {"NAME"} |-> Env!EncodeValue(v)]) = [k \in {"NAME"} |-> v]
  BY <1>6, <1>7, OneLineIsRead
<1> QED BY <1>5, <1>8 DEF values

\* What is printed of a file reads as the file does.
LEMMA PrintedAgain ==
  ASSUME NEW l \in Seq(Characters)
  PROVE  Env!PrintedIsRead([NAME |-> l])
<1> DEFINE lines  == [k \in {"NAME"} |-> l]
           values == Env!ReadFile(lines)
           v      == Env!ParseAssignment(l)
<1>1. [NAME |-> l] = lines
  OBVIOUS
<1>2. SUFFICES Env!ReadFile(Env!Rendered(lines)) = values
  BY <1>1, Zenon DEF Env!PrintedIsRead
<1>3. Env!Rendered(lines) = [k \in DOMAIN values |-> Env!EncodeValue(values[k])]
  BY Zenon DEF Env!Rendered
<1>4. v = Env!Error \/ (v \in Seq(Characters) /\ Env!ValidValue(v))
  BY ParsedIsValid, Zenon
<1>5. CASE v = Env!Error
  <2>1. values = <<>>
    BY <1>5, OneLineIsRefused, Zenon
  <2> HIDE DEF values
  <2>2. DOMAIN values = {} /\ values = [k \in {} |-> <<>>]
    BY <2>1
  <2> DEFINE printed == [k \in DOMAIN values |-> Env!EncodeValue(values[k])]
  <2>3. DOMAIN printed = {}
    BY <2>2
  <2> HIDE DEF printed
  <2>4. Env!ReadFile(printed) = [k \in {} |-> <<>>]
    BY <2>3, NoLineIsRead
  <2> QED BY <1>3, <2>2, <2>4 DEF printed
<1>6. CASE v # Env!Error
  <2>1. values = [k \in {"NAME"} |-> v]
    BY <1>6, OneLineIsRead, Zenon
  <2> HIDE DEF values, v
  <2>2. Env!Rendered(lines) = [k \in {"NAME"} |-> Env!EncodeValue(v)]
    <3>1. DOMAIN values = {"NAME"} /\ values["NAME"] = v
      BY <2>1
    <3> QED BY <1>3, <3>1
  <2>3. Env!ParseAssignment(Env!EncodeValue(v)) = v
    BY <1>4, <1>6, EncodedIsParsed
  <2>4. Env!ReadFile([k \in {"NAME"} |-> Env!EncodeValue(v)]) = [k \in {"NAME"} |-> v]
    BY <1>6, <2>3, OneLineIsRead
  <2> QED BY <2>1, <2>2, <2>4
<1> QED BY <1>5, <1>6

\* A text is of the characters EnvFile tells apart, as many as there may be.
EnvTyped == input.kind = "env" => input.text \in Seq(Characters)

\* A value of any length and any characters that is written to the environment file is
\* read as it was, and what env prints of a file that can be read, written or edited,
\* has the values the file has (envfile.rs: encode_value, parse_assignment, rendered).
THEOREM FilesKeepValues == EnvTyped => ValuesSurvive
<1> SUFFICES ASSUME EnvTyped, input.kind = "env"
             PROVE  /\ Env!RoundTrip([NAME |-> input.text])
                    /\ Env!PrintedIsRead([NAME |-> input.text])
  BY DEF ValuesSurvive
<1>1. input.text \in Seq(Characters)
  BY DEF EnvTyped
<1> QED BY <1>1, WrittenIsRead, PrintedAgain


-----------------------------------------------------------------------------
(* Configuration.  A template rendered with the placeholders and with an     *)
(* environment is compared piece by piece: what begins a URL on the one    *)
(* side does on the other.  Then the rounds are taken together, one URL    *)
(* each.                                                                   *)

\* FlattenSeq is one operator in whichever module it is used.
LEMMA SameFlatten == \A S : Config!FlattenSeq(S) = Env!FlattenSeq(S)
BY Zenon DEF Config!FlattenSeq, Env!FlattenSeq

\* What is rendered, and what a template is made of.
Texts  == [kind : Config!TextKinds, of : Nat]
Pieces == {p \in [kind : Config!TextKinds \cup Config!KeyKinds \cup {"broken"}, of : Nat] :
             p.kind = "value" => p = Config!Value}

\* A scheme, a number and a path, as far as it goes.
UrlHas(r) ==
  /\ Len(r) >= 1 => r[1].kind = "http"
  /\ Len(r) >= 2 => r[2].kind = "number" /\ r[2].of \in Config!PortNumbers
  /\ Len(r) >= 3 => r[3].kind = "path"

\* If p begins a URL then a does, as far at least.
Follows(p, a) ==
  UrlHas(p) => /\ UrlHas(a)
               /\ Len(p) <= 1 => Len(a) = Len(p)
               /\ Len(p) >= 2 => Len(a) >= 2
               /\ Len(p) >= 3 => Len(a) >= 3

\* a has no space but those of p, unless d.
Clear(p, a, d) == Config!HasSpace(a) => Config!HasSpace(p) \/ d

\* Texts that differ in the numbers alone.
Alike(u, v) ==
  u.kind = v.kind /\ (u.kind = "number" /\ u.of \in Config!PortNumbers => v.of \in Config!PortNumbers)

\* What stands for the same piece under two contexts: a text or a port, a value that
\* one of them reads as a word, a URL.
Pair(p, a) ==
  \/ Len(p) = 1 /\ Len(a) = 1 /\ Alike(p[1], a[1])
  \/ p = <<Config!Text("word")>>
  \/ Config!IsLoopbackUrl(p) /\ Config!IsLoopbackUrl(a) /\ Follows(p, a)

\* A loopback URL, said by its parts.
LEMMA LoopbackHas ==
  ASSUME NEW r \in Seq(Texts)
  PROVE  Config!IsLoopbackUrl(r) <=> Len(r) >= 2 /\ UrlHas(r) /\ ~Config!HasSpace(r)
BY DEF Config!IsLoopbackUrl, UrlHas, Config!HasSpace

\* What two texts one after the other are.
LEMMA JoinedIs ==
  ASSUME NEW p \in Seq(Texts), NEW x \in Seq(Texts)
  PROVE  /\ p \o x \in Seq(Texts) /\ Len(p \o x) = Len(p) + Len(x)
         /\ \A i \in 1..Len(p) : (p \o x)[i] = p[i]
         /\ \A i \in 1..Len(x) : (p \o x)[Len(p) + i] = x[i]
<1> DEFINE r == p \o x
           m == Len(p)
           n == Len(x)
<1>0. m \in Nat /\ n \in Nat
  OBVIOUS
<1>1. /\ r \in Seq(Texts) /\ Len(r) = m + n
      /\ \A i \in 1..(m + n) : r[i] = IF i <= m THEN p[i] ELSE x[i - m]
  BY ConcatProperties
<1> HIDE DEF r
<1>2. \A i \in 1..m : i \in 1..(m + n) /\ i <= m
  BY <1>0
<1>3. \A i \in 1..n : m + i \in 1..(m + n) /\ ~(m + i <= m) /\ (m + i) - m = i
  BY <1>0
<1>4. (\A i \in 1..m : r[i] = p[i]) /\ \A i \in 1..n : r[m + i] = x[i]
  <2> HIDE DEF m, n
  <2> QED BY <1>1, <1>2, <1>3
<1> QED BY <1>1, <1>4 DEF r

\* The lengths that UrlHas tells apart.
LEMMA ShortNumbers ==
  /\ \A n \in Nat : n = 0 \/ n = 1 \/ n = 2 \/ n >= 3
  /\ \A n \in Nat : n >= 2 => n = 2 \/ n >= 3
OBVIOUS

\* What follows goes on following when a pair is added to it.
LEMMA FollowsOn ==
  ASSUME NEW p \in Seq(Texts), NEW a \in Seq(Texts), Follows(p, a),
         NEW x \in Seq(Texts), NEW y \in Seq(Texts), Pair(x, y)
  PROVE  Follows(p \o x, a \o y)
<1> DEFINE q == p \o x
           b == a \o y
<1>1. Len(p) \in Nat /\ Len(x) \in Nat /\ Len(a) \in Nat /\ Len(y) \in Nat
  OBVIOUS
<1>2. /\ Len(q) = Len(p) + Len(x)
      /\ \A i \in 1..Len(p) : q[i] = p[i]
      /\ \A i \in 1..Len(x) : q[Len(p) + i] = x[i]
  BY JoinedIs
<1>3. /\ Len(b) = Len(a) + Len(y)
      /\ \A i \in 1..Len(a) : b[i] = a[i]
      /\ \A i \in 1..Len(y) : b[Len(a) + i] = y[i]
  BY JoinedIs
<1>4. Len(p) = 0 => q = x
  OBVIOUS
<1>5. Len(a) = 0 => b = y
  OBVIOUS
<1>6. Pair(x, y) =>
        \/ Len(x) = 1 /\ Len(y) = 1 /\ Alike(x[1], y[1])
        \/ Len(x) = 1 /\ x[1].kind = "word"
        \/ Len(x) >= 2 /\ x[1].kind = "http" /\ Follows(x, y)
  <2>1. ASSUME x = <<Config!Text("word")>>
        PROVE  Len(x) = 1 /\ x[1].kind = "word"
    BY <2>1 DEF Config!Text
  <2>2. ASSUME Config!IsLoopbackUrl(x)
        PROVE  Len(x) >= 2 /\ x[1].kind = "http"
    BY <2>2 DEF Config!IsLoopbackUrl
  <2> QED BY <2>1, <2>2 DEF Pair
<1> HIDE DEF q, b
<1>7. SUFFICES ASSUME UrlHas(q)
               PROVE  /\ UrlHas(b)
                      /\ Len(q) <= 1 => Len(b) = Len(q)
                      /\ Len(q) >= 2 => Len(b) >= 2
                      /\ Len(q) >= 3 => Len(b) >= 3
  BY DEF Follows, q, b
<1>8. UrlHas(p)
  <2>1. Len(q) >= Len(p)
    BY <1>1, <1>2
  <2> QED BY <1>1, <1>2, <1>7, <2>1 DEF UrlHas
<1>9. UrlHas(a) /\ (Len(p) <= 1 => Len(a) = Len(p)) /\ (Len(p) >= 2 => Len(a) >= 2) /\ (Len(p) >= 3 => Len(a) >= 3)
  BY <1>8 DEF Follows
<1>10. CASE Len(p) = 0
  <2>1. q = x /\ b = y
    BY <1>4, <1>5, <1>9, <1>10
  <2>2. CASE Len(x) = 1 /\ Len(y) = 1 /\ Alike(x[1], y[1])
    BY <1>7, <2>1, <2>2 DEF UrlHas, Alike
  <2>3. CASE Len(x) = 1 /\ x[1].kind = "word"
    BY <1>7, <2>1, <2>3 DEF UrlHas
  <2>4. CASE Follows(x, y)
    BY <1>7, <2>1, <2>4 DEF Follows
  <2> QED BY <1>6, <2>2, <2>3, <2>4
<1>11. CASE Len(p) = 1
  <2>1. Len(x) >= 1 => x[1].kind = "number" /\ x[1].of \in Config!PortNumbers
    BY <1>1, <1>2, <1>7, <1>11 DEF UrlHas
  <2>2. Len(x) = 1 /\ Len(y) = 1 /\ Alike(x[1], y[1])
    BY <1>1, <1>6, <2>1
  <2>3. Len(a) = 1 /\ Len(b) = 2 /\ b[1] = a[1] /\ b[2] = y[1] /\ Len(q) = 2
    <3>1. Len(a) = 1 /\ Len(y) = 1 /\ 1 \in 1..1
      BY <1>9, <1>11, <2>2
    <3>2. b[1] = a[1] /\ b[Len(a) + 1] = y[1] /\ Len(a) + 1 = 2
      BY <1>3, <3>1
    <3>3. Len(b) = 2 /\ Len(q) = 2
      BY <1>2, <1>3, <1>11, <2>2, <3>1
    <3> QED BY <3>1, <3>2, <3>3
  <2>4. b[1].kind = "http" /\ b[2].kind = "number" /\ b[2].of \in Config!PortNumbers
    BY <1>9, <2>1, <2>2, <2>3 DEF UrlHas, Alike
  <2> QED BY <2>3, <2>4 DEF UrlHas
<1>12. CASE Len(p) = 2
  <2>1. Len(x) >= 1 => x[1].kind = "path"
    BY <1>1, <1>2, <1>7, <1>12 DEF UrlHas
  <2>2. Len(x) = 1 /\ Len(y) = 1 /\ Alike(x[1], y[1])
    BY <1>1, <1>6, <2>1
  <2>3. Len(a) >= 2 /\ Len(b) >= 3 /\ b[1] = a[1] /\ b[2] = a[2] /\ Len(q) = 3
    BY <1>1, <1>2, <1>3, <1>9, <1>12, <2>2
  <2>4. b[3].kind = "path"
    <3>1. CASE Len(a) = 2
      <4>1. b[3] = y[1]
        BY <1>3, <2>2, <3>1
      <4> QED BY <2>1, <2>2, <4>1 DEF Alike
    <3>2. CASE Len(a) >= 3
      <4>1. b[3] = a[3]
        BY <1>1, <1>3, <3>2
      <4> QED BY <1>9, <3>2, <4>1 DEF UrlHas
    <3>3. Len(a) = 2 \/ Len(a) >= 3
      BY <1>1, <2>3, ShortNumbers, Zenon
    <3> QED BY <3>1, <3>2, <3>3, Zenon
  <2> QED BY <1>9, <2>3, <2>4 DEF UrlHas
<1>13. CASE Len(p) >= 3
  <2>1. Len(a) >= 3 /\ Len(b) >= 3 /\ b[1] = a[1] /\ b[2] = a[2] /\ b[3] = a[3] /\ Len(q) >= 3
    BY <1>1, <1>2, <1>3, <1>9, <1>13
  <2> QED BY <1>9, <2>1 DEF UrlHas
<1>14. Len(p) = 0 \/ Len(p) = 1 \/ Len(p) = 2 \/ Len(p) >= 3
  BY <1>1, ShortNumbers, Zenon
<1> QED BY <1>10, <1>11, <1>12, <1>13, <1>14, Zenon

\* And no space comes in.
LEMMA ClearOn ==
  ASSUME NEW p \in Seq(Texts), NEW a \in Seq(Texts), NEW d, Clear(p, a, d),
         NEW x \in Seq(Texts), NEW y \in Seq(Texts), Clear(x, y, d)
  PROVE  Clear(p \o x, a \o y, d)
<1> DEFINE q == p \o x
           b == a \o y
<1>1. /\ Len(p) \in Nat /\ Len(x) \in Nat /\ Len(a) \in Nat /\ Len(y) \in Nat
      /\ DOMAIN p = 1..Len(p) /\ DOMAIN x = 1..Len(x) /\ DOMAIN a = 1..Len(a) /\ DOMAIN y = 1..Len(y)
  OBVIOUS
<1>2. /\ Len(q) = Len(p) + Len(x) /\ q \in Seq(Texts)
      /\ \A i \in 1..Len(p) : q[i] = p[i]
      /\ \A i \in 1..Len(x) : q[Len(p) + i] = x[i]
  BY JoinedIs
<1>3. /\ Len(b) = Len(a) + Len(y) /\ b \in Seq(Texts)
      /\ \A i \in 1..Len(a) : b[i] = a[i]
      /\ \A i \in 1..Len(y) : b[Len(a) + i] = y[i]
  BY JoinedIs
<1> HIDE DEF q, b
<1>4. SUFFICES ASSUME NEW i \in DOMAIN b, b[i].kind = "space", ~d
               PROVE  Config!HasSpace(q)
  BY DEF Clear, Config!HasSpace, q, b
<1>5. i \in 1..(Len(a) + Len(y)) /\ DOMAIN q = 1..(Len(p) + Len(x))
  BY <1>2, <1>3
<1>6. CASE i <= Len(a)
  <2>1. Config!HasSpace(a)
    <3>1. i \in 1..Len(a) /\ a[i].kind = "space"
      BY <1>1, <1>3, <1>4, <1>5, <1>6
    <3> QED BY <1>1, <3>1 DEF Config!HasSpace
  <2>2. PICK j \in DOMAIN p : p[j].kind = "space"
    BY <1>4, <2>1 DEF Clear, Config!HasSpace
  <2>3. j \in DOMAIN q /\ q[j] = p[j]
    BY <1>1, <1>2, <1>5, <2>2
  <2> QED BY <2>2, <2>3 DEF Config!HasSpace
<1>7. CASE i > Len(a)
  <2>1. Config!HasSpace(y)
    <3>1. i - Len(a) \in 1..Len(y) /\ Len(a) + (i - Len(a)) = i
      BY <1>1, <1>5, <1>7
    <3>2. y[i - Len(a)].kind = "space"
      BY <1>3, <1>4, <3>1
    <3> QED BY <1>1, <3>1, <3>2 DEF Config!HasSpace
  <2>2. PICK j \in DOMAIN x : x[j].kind = "space"
    BY <1>4, <2>1 DEF Clear, Config!HasSpace
  <2>3. Len(p) + j \in DOMAIN q /\ q[Len(p) + j] = x[j]
    BY <1>1, <1>2, <1>5, <2>2
  <2> QED BY <2>2, <2>3 DEF Config!HasSpace
<1> QED BY <1>1, <1>5, <1>6, <1>7

\* Before the first piece.
LEMMA NothingFollows == Follows(<<>>, <<>>) /\ \A d : Clear(<<>>, <<>>, d)
<1>1. Len(<<>>) = 0 /\ DOMAIN <<>> = {}
  OBVIOUS
<1>2. Follows(<<>>, <<>>)
  BY <1>1 DEF Follows, UrlHas
<1>3. \A d : Clear(<<>>, <<>>, d)
  BY DEF Clear
<1> QED BY <1>2, <1>3

\* Piece by piece, the whole template.
LEMMA FlattenFollows ==
  ASSUME NEW X \in Seq(Seq(Texts)), NEW Y \in Seq(Seq(Texts)), Len(X) = Len(Y), NEW d,
         \A i \in 1..Len(X) : Pair(X[i], Y[i]) /\ Clear(X[i], Y[i], d)
  PROVE  LET p == Config!FlattenSeq(X)
             a == Config!FlattenSeq(Y)
         IN p \in Seq(Texts) /\ a \in Seq(Texts) /\ Follows(p, a) /\ Clear(p, a, d)
<1> DEFINE n == Len(X)
           Goal(p, a) == p \in Seq(Texts) /\ a \in Seq(Texts) /\ Follows(p, a) /\ Clear(p, a, d)
<1>1. n \in Nat /\ \A i \in 1..n : X[i] \in Seq(Texts) /\ Y[i] \in Seq(Texts)
  OBVIOUS
<1>2. SUFFICES Goal(Env!FlattenSeq(X), Env!FlattenSeq(Y))
  BY SameFlatten
<1>3. CASE n = 0
  <2>1. X = <<>> /\ Y = <<>>
    <3>1. \A s \in Seq(Seq(Texts)) : Len(s) = 0 => s = <<>>
      OBVIOUS
    <3> QED BY <1>3, <3>1
  <2>2. Env!FlattenSeq(<<>>) = <<>>
    BY EmptySeq, FlattenAppend
  <2>3. <<>> \in Seq(Texts)
    OBVIOUS
  <2> QED BY <2>1, <2>2, <2>3, NothingFollows
<1>4. CASE n # 0
  <2>1. PICK f : Flattened(X, n, f)
    BY <1>1, FlattenedExists
  <2>2. PICK g : Flattened(Y, n, g)
    BY <1>1, FlattenedExists
  <2>3. Env!FlattenSeq(X) = f[n] /\ Env!FlattenSeq(Y) = g[n]
    BY <1>1, <1>4, <2>1, <2>2, FlattenIsLast
  <2>4. /\ \A i \in 1..n : f[i] = IF i = 1 THEN X[i] ELSE f[i-1] \o X[i]
        /\ \A i \in 1..n : g[i] = IF i = 1 THEN Y[i] ELSE g[i-1] \o Y[i]
    <3>1. \A i \in 1..n : f[i] = IF i = 1 THEN X[i] ELSE f[i-1] \o X[i]
      BY <1>1, <2>1, FlattenedEntries, ZenonT(60)
    <3>2. \A i \in 1..n : g[i] = IF i = 1 THEN Y[i] ELSE g[i-1] \o Y[i]
      BY <1>1, <2>2, FlattenedEntries, ZenonT(60)
    <3> QED BY <3>1, <3>2
  <2>5. ASSUME NEW p, NEW a, Goal(p, a), NEW i \in 1..n
        PROVE  Goal(p \o X[i], a \o Y[i])
    <3>1. p \o X[i] \in Seq(Texts) /\ a \o Y[i] \in Seq(Texts)
      BY <1>1, <2>5
    <3>2. Follows(p \o X[i], a \o Y[i])
      BY <1>1, <2>5, FollowsOn
    <3>3. Clear(p \o X[i], a \o Y[i], d)
      BY <1>1, <2>5, ClearOn
    <3> QED BY <3>1, <3>2, <3>3
  <2>6. \A i \in 1..n : Goal(X[i], Y[i])
    <3> SUFFICES ASSUME NEW i \in 1..n
                 PROVE  Goal(X[i], Y[i])
      OBVIOUS
    <3>1. Goal(<<>>, <<>>)
      BY NothingFollows
    <3>2. <<>> \o X[i] = X[i] /\ <<>> \o Y[i] = Y[i]
      BY <1>1
    <3> HIDE DEF Goal
    <3> QED BY <2>5, <3>1, <3>2
  <2> HIDE DEF Goal, n
  <2>7. {k \in 1..n : ~Goal(f[k], g[k])} = {}
    <3> DEFINE bad == {k \in 1..n : ~Goal(f[k], g[k])}
    <3> SUFFICES ASSUME bad # {}
                 PROVE  FALSE
      OBVIOUS
    <3>1. PICK k \in bad : \A j \in bad : k <= j
      <4>1. bad \subseteq Nat
        BY <1>1
      <4> HIDE DEF bad
      <4> QED BY <4>1, Least
    <3>2. k \in 1..n /\ ~Goal(f[k], g[k])
      OBVIOUS
    <3>3. CASE k = 1
      <4>1. f[k] = X[k] /\ g[k] = Y[k]
        BY <2>4, <3>2, <3>3
      <4> QED BY <2>6, <3>2, <4>1
    <3>4. CASE k # 1
      <4>1. f[k] = f[k-1] \o X[k] /\ g[k] = g[k-1] \o Y[k]
        BY <2>4, <3>2, <3>4
      <4>2. k - 1 \in 1..n /\ ~(k <= k - 1)
        BY <1>1, <3>2, <3>4
      <4>3. Goal(f[k-1], g[k-1])
        BY <3>1, <4>2
      <4> QED BY <2>5, <3>2, <4>1, <4>3
    <3> QED BY <3>3, <3>4
  <2>8. n \in 1..n
    BY <1>1, <1>4
  <2>9. Goal(f[n], g[n])
    BY <2>7, <2>8
  <2> QED BY <2>3, <2>9
<1> QED BY <1>3, <1>4 DEF Goal

\* The pieces of a template, each as it is rendered.
Blocks(t, c) == [i \in DOMAIN t |-> IF t[i].kind \in Config!TextKinds THEN <<t[i]>> ELSE Config!ValueOf(t[i], c)]

\* Keys that read under one context as a word, or alike, under the other.
KeysFollow(t, c, e, d) ==
  \A k \in Config!Keys(t) :
    /\ Config!ValueOf(k, c) \in Seq(Texts) /\ Config!ValueOf(k, e) \in Seq(Texts)
    /\ Pair(Config!ValueOf(k, c), Config!ValueOf(k, e))
    /\ Clear(Config!ValueOf(k, c), Config!ValueOf(k, e), d)

\* Templates whose keys read alike are rendered alike.
LEMMA RenderFollows ==
  ASSUME NEW t \in Seq(Pieces), NEW c, NEW e, NEW d, ~Config!Broken(t), KeysFollow(t, c, e, d)
  PROVE  LET p == Config!Render(t, c)
             a == Config!Render(t, e)
         IN p \in Seq(Texts) /\ a \in Seq(Texts) /\ Follows(p, a) /\ Clear(p, a, d)
<1> DEFINE X == Blocks(t, c)
           Y == Blocks(t, e)
<1>1. Config!Render(t, c) = Config!FlattenSeq(X) /\ Config!Render(t, e) = Config!FlattenSeq(Y)
  BY Zenon DEF Config!Render, Blocks
<1>2. Len(t) \in Nat /\ DOMAIN t = 1..Len(t) /\ \A i \in 1..Len(t) : t[i] \in Pieces
  OBVIOUS
<1>3. ASSUME NEW i \in 1..Len(t)
      PROVE  \/ t[i] \in Texts /\ t[i].kind \in Config!TextKinds
             \/ t[i].kind \notin Config!TextKinds /\ t[i] \in Config!Keys(t)
  <2>1. t[i].kind # "broken"
    BY <1>2 DEF Config!Broken
  <2>2. t[i] \in [kind : Config!TextKinds \cup Config!KeyKinds \cup {"broken"}, of : Nat]
    BY <1>2 DEF Pieces
  <2>3. t[i].kind \notin Config!TextKinds => t[i].kind \in Config!KeyKinds
    BY <2>1, <2>2
  <2>4. t[i].kind \in Config!KeyKinds => t[i] \in Config!Keys(t)
    BY <1>2 DEF Config!Keys
  <2>5. t[i].kind \in Config!TextKinds => t[i] \in Texts
    BY <2>2 DEF Texts
  <2> QED BY <2>3, <2>4, <2>5
<1>4. ASSUME NEW i \in 1..Len(t)
      PROVE  X[i] \in Seq(Texts) /\ Y[i] \in Seq(Texts) /\ Pair(X[i], Y[i]) /\ Clear(X[i], Y[i], d)
  <2>1. CASE t[i] \in Texts /\ t[i].kind \in Config!TextKinds
    <3>1. X[i] = <<t[i]>> /\ Y[i] = <<t[i]>>
      BY <1>2, <2>1 DEF Blocks
    <3>2. <<t[i]>> \in Seq(Texts) /\ Len(<<t[i]>>) = 1 /\ <<t[i]>>[1] = t[i]
      BY <2>1
    <3>3. Pair(<<t[i]>>, <<t[i]>>)
      BY <3>2 DEF Pair, Alike
    <3>4. Clear(<<t[i]>>, <<t[i]>>, d)
      BY DEF Clear
    <3> QED BY <3>1, <3>2, <3>3, <3>4
  <2>2. CASE t[i].kind \notin Config!TextKinds /\ t[i] \in Config!Keys(t)
    <3>1. X[i] = Config!ValueOf(t[i], c) /\ Y[i] = Config!ValueOf(t[i], e)
      BY <1>2, <2>2 DEF Blocks
    <3> QED BY <2>2, <3>1 DEF KeysFollow
  <2> QED BY <1>3, <2>1, <2>2
<1>5. X \in Seq(Seq(Texts)) /\ Y \in Seq(Seq(Texts)) /\ Len(X) = Len(t) /\ Len(Y) = Len(t)
  <2>1. X = [i \in 1..Len(t) |-> X[i]] /\ Y = [i \in 1..Len(t) |-> Y[i]]
    BY <1>2 DEF Blocks
  <2> HIDE DEF X, Y
  <2>2. X \in [1..Len(t) -> Seq(Texts)] /\ Y \in [1..Len(t) -> Seq(Texts)]
    BY <1>4, <2>1
  <2>3. Len(t) \in Nat
    BY <1>2
  <2> QED BY <2>2, <2>3
<1> HIDE DEF X, Y
<1>6. \A i \in 1..Len(X) : Pair(X[i], Y[i]) /\ Clear(X[i], Y[i], d)
  BY <1>4, <1>5
<1> QED BY <1>1, <1>5, <1>6, FlattenFollows, ZenonT(60)

\* A template that begins a URL under one context is one under the other, unless a
\* space comes in.
LEMMA UrlFollows ==
  ASSUME NEW t \in Seq(Pieces), NEW c, NEW e, NEW d, ~Config!Broken(t), KeysFollow(t, c, e, d),
         Config!IsLoopbackUrl(Config!Render(t, c))
  PROVE  Config!IsLoopbackUrl(Config!Render(t, e)) \/ (d /\ Config!HasSpace(Config!Render(t, e)))
<1> DEFINE p == Config!Render(t, c)
           a == Config!Render(t, e)
<1>1. p \in Seq(Texts) /\ a \in Seq(Texts) /\ Follows(p, a) /\ Clear(p, a, d)
  BY RenderFollows
<1>2. Len(p) >= 2 /\ UrlHas(p) /\ ~Config!HasSpace(p)
  BY <1>1, LoopbackHas
<1>3. Len(a) >= 2 /\ UrlHas(a)
  BY <1>1, <1>2 DEF Follows
<1>4. Config!HasSpace(a) => d
  BY <1>1, <1>2 DEF Clear
<1>5. Config!IsLoopbackUrl(a) <=> Len(a) >= 2 /\ UrlHas(a) /\ ~Config!HasSpace(a)
  BY <1>1, LoopbackHas
<1> HIDE DEF p, a
<1>6. Config!IsLoopbackUrl(a) \/ (d /\ Config!HasSpace(a))
  BY <1>3, <1>4, <1>5
<1> QED BY <1>6 DEF p, a

\* What holds first, and after each round if it held before.
LEMMA Upward ==
  ASSUME NEW n \in Nat, NEW S, 0 \in S, \A k \in 1..n : k - 1 \in S => k \in S
  PROVE  \A k \in 0..n : k \in S
<1> DEFINE bad == {k \in 0..n : k \notin S}
<1> SUFFICES ASSUME bad # {}
             PROVE  FALSE
  OBVIOUS
<1>1. PICK m \in bad : \A k \in bad : m <= k
  <2>1. bad \subseteq Nat
    OBVIOUS
  <2> HIDE DEF bad
  <2> QED BY <2>1, Least
<1>2. m \in 0..n /\ m \notin S
  OBVIOUS
<1>3. m - 1 \in 0..n /\ ~(m <= m - 1) /\ m \in 1..n
  BY <1>2
<1>4. m - 1 \in S
  BY <1>1, <1>3
<1> QED BY <1>2, <1>3, <1>4

\* Before the first round.
Unresolved(urls, c) == [ok |-> \A s \in DOMAIN urls : ~Config!Broken(urls[s]), context |-> c]

\* The next round, unless one failed.
Further(urls, r) == IF r.ok THEN Config!Round(urls, r.context) ELSE r

\* What n rounds have resolved.
Rounds(urls, c, n, f) ==
  f = [k \in 0..n |-> IF k = 0 THEN Unresolved(urls, c) ELSE Further(urls, f[k-1])]

\* One round after another.
LEMMA RoundsEntries ==
  ASSUME NEW urls, NEW c, NEW n \in Nat, NEW f, Rounds(urls, c, n, f)
  PROVE  \A k \in 0..n : f[k] = IF k = 0 THEN Unresolved(urls, c) ELSE Further(urls, f[k-1])
BY Zenon DEF Rounds

\* The recursion of ResolveUrls has a value after any number of rounds.
LEMMA RoundsExist ==
  ASSUME NEW urls, NEW c, NEW n \in Nat
  PROVE  \E f : Rounds(urls, c, n, f)
<1> DEFINE S == {k \in Nat : \E f : Rounds(urls, c, k, f)}
<1>1. 0 \in S
  <2> DEFINE f == [k \in 0..0 |-> Unresolved(urls, c)]
  <2>1. Rounds(urls, c, 0, f)
    BY DEF Rounds
  <2> QED BY <2>1
<1>2. ASSUME NEW m \in 1..n, m - 1 \in S
      PROVE  m \in S
  <2>1. m - 1 \in Nat /\ m \in Nat /\ m # 0
    OBVIOUS
  <2>2. PICK f : Rounds(urls, c, m - 1, f)
    BY <1>2
  <2> DEFINE g == [k \in 0..m |-> IF k = m THEN Further(urls, f[m-1]) ELSE f[k]]
  <2>3. \A k \in 0..m : g[k] = IF k = 0 THEN Unresolved(urls, c) ELSE Further(urls, g[k-1])
    <3> SUFFICES ASSUME NEW k \in 0..m
                 PROVE  g[k] = IF k = 0 THEN Unresolved(urls, c) ELSE Further(urls, g[k-1])
      OBVIOUS
    <3>1. k # 0 => g[k-1] = f[k-1]
      <4>1. k # 0 => k - 1 \in 0..m /\ k - 1 # m
        OBVIOUS
      <4> QED BY <4>1
    <3>2. CASE k = m
      BY <2>1, <3>1, <3>2
    <3>3. CASE k # m
      <4>1. k \in 0..(m - 1) /\ g[k] = f[k]
        BY <3>3
      <4>2. \A j \in 0..(m - 1) : f[j] = IF j = 0 THEN Unresolved(urls, c) ELSE Further(urls, f[j-1])
        BY <2>1, <2>2, RoundsEntries, ZenonT(60)
      <4> QED BY <3>1, <4>1, <4>2
    <3> QED BY <3>2, <3>3
  <2>4. g = [k \in 0..m |-> g[k]]
    OBVIOUS
  <2> HIDE DEF g
  <2>5. Rounds(urls, c, m, g)
    BY <2>3, <2>4, Zenon DEF Rounds
  <2> QED BY <2>1, <2>5
<1>3. n \in 0..n /\ \A k \in 0..n : k \in S
  <2> HIDE DEF S
  <2> QED BY <1>1, <1>2, Upward
<1> QED BY <1>3

InRounds(urls, c, n, f) ==
  \A k \in 0..n : f[k] = IF k = 0 THEN Unresolved(urls, c) ELSE Further(urls, f[k-1])

\* ResolveUrls is the value after as many rounds as there are URLs.
LEMMA ResolvedInRounds ==
  ASSUME NEW urls, NEW c, Cardinality(DOMAIN urls) \in Nat
  PROVE  \E f : /\ InRounds(urls, c, Cardinality(DOMAIN urls), f)
                /\ Config!ResolveUrls(urls, c) = f[Cardinality(DOMAIN urls)]
<1> DEFINE n == Cardinality(DOMAIN urls)
           g == CHOOSE g : Rounds(urls, c, n, g)
<1>1. Rounds(urls, c, n, g)
  BY RoundsExist, Zenon
<1>2. \A k \in 0..n : g[k] = IF k = 0 THEN Unresolved(urls, c) ELSE Further(urls, g[k-1])
  <2> HIDE DEF g, n
  <2> QED BY <1>1, RoundsEntries DEF n
<1>3. Config!Cardinality(DOMAIN urls) = n
  BY DEF Config!Cardinality, Cardinality
<1>4. Config!ResolveUrls(urls, c) = g[n]
  <2>1. Config!ResolveUrls(urls, c) =
          (CHOOSE f : f = [k \in 0..Config!Cardinality(DOMAIN urls) |->
             IF k = 0 THEN [ok |-> \A s \in DOMAIN urls : ~Config!Broken(urls[s]), context |-> c]
             ELSE IF f[k-1].ok THEN Config!Round(urls, f[k-1].context) ELSE f[k-1]])
            [Config!Cardinality(DOMAIN urls)]
    BY Zenon DEF Config!ResolveUrls
  <2> QED BY <1>3, <2>1, Zenon DEF Rounds, Unresolved, Further
<1> QED BY <1>2, <1>4 DEF InRounds

Context(ports, urls, value) == [ports |-> ports, urls |-> urls, value |-> value]

Extended(U, s, url) == [t \in {s} \cup DOMAIN U |-> IF t = s THEN url ELSE U[t]]

\* The first that is ready is ready.
LEMMA FirstIsReady ==
  ASSUME NEW S, S \subseteq Nat, S # {}
  PROVE  Config!First(S) \in S
BY Least, Zenon DEF Config!First

\* A round takes one URL that is ready, or fails.
LEMMA RoundIs ==
  ASSUME NEW urls, DOMAIN urls \subseteq Nat, NEW P, NEW U, NEW V
  PROVE  LET c == Context(P, U, V)
             s == Config!First(Config!Ready(urls, c))
             r == Config!Round(urls, c)
         IN /\ r.ok \in BOOLEAN
            /\ Config!Ready(urls, c) # {} => s \in Config!Ready(urls, c)
            /\ r.ok <=> /\ Config!Ready(urls, c) # {}
                        /\ Config!Renders(urls[s], c)
                        /\ Config!IsLoopbackUrl(Config!Render(urls[s], c))
            /\ r.ok => r.context = Context(P, Extended(U, s, Config!Render(urls[s], c)), V)
<1> DEFINE c == Context(P, U, V)
           ready == Config!Ready(urls, c)
           s == Config!First(ready)
           url == Config!Render(urls[s], c)
           r == Config!Round(urls, c)
           fails == ready = {} \/ ~Config!Renders(urls[s], c) \/ ~Config!IsLoopbackUrl(url)
           next == [c EXCEPT !.urls = [t \in {s} \cup DOMAIN c.urls |-> IF t = s THEN url ELSE c.urls[t]]]
<1>1. r = IF fails THEN [ok |-> FALSE, context |-> c] ELSE [ok |-> TRUE, context |-> next]
  BY Zenon DEF Config!Round
<1>2. ready \subseteq Nat
  BY DEF Config!Ready
<1> HIDE DEF ready
<1>3. ready # {} => s \in ready
  BY <1>2, FirstIsReady
<1> HIDE DEF s, url
<1>4. next = Context(P, Extended(U, s, url), V)
  BY DEF Context, Extended
<1> HIDE DEF next, c, r
<1>5. fails \in BOOLEAN
  OBVIOUS
<1>6. r.ok = ~fails /\ (~fails => r.context = next)
  <2> HIDE DEF fails
  <2>1. CASE fails
    BY <1>1, <2>1
  <2>2. CASE ~fails
    BY <1>1, <2>2
  <2> QED BY <2>1, <2>2
<1> QED BY <1>3, <1>4, <1>5, <1>6, Zenon DEF c, ready, s, url, r

\* Keys that are defined read alike: the ports are numbers of ports, the URLs follow
\* one another, and the values read as a word on the one side.
LEMMA DefinedFollow ==
  ASSUME NEW t \in Seq(Pieces), NEW services, NEW P \in [services -> Config!PortNumbers],
         NEW Q \in [services -> Config!PortNumbers], NEW U, NEW W, NEW V \in Seq(Texts), NEW d,
         \A k \in Config!Keys(t) : Config!Defined(k, Context(P, U, <<Config!Text("word")>>)),
         \A k \in Config!Keys(t) : Config!Defined(k, Context(Q, W, V)),
         \A x \in DOMAIN U \cap DOMAIN W :
            /\ U[x] \in Seq(Texts) /\ W[x] \in Seq(Texts)
            /\ Config!IsLoopbackUrl(U[x]) /\ Config!IsLoopbackUrl(W[x]) /\ Follows(U[x], W[x]),
         Config!HasSpace(V) /\ Config!Value \in Config!Keys(t) => d
  PROVE  KeysFollow(t, Context(P, U, <<Config!Text("word")>>), Context(Q, W, V), d)
<1> DEFINE c == Context(P, U, <<Config!Text("word")>>)
           e == Context(Q, W, V)
<1> SUFFICES ASSUME NEW k \in Config!Keys(t)
             PROVE  /\ Config!ValueOf(k, c) \in Seq(Texts) /\ Config!ValueOf(k, e) \in Seq(Texts)
                    /\ Pair(Config!ValueOf(k, c), Config!ValueOf(k, e))
                    /\ Clear(Config!ValueOf(k, c), Config!ValueOf(k, e), d)
  BY DEF KeysFollow
<1>1. /\ c.ports = P /\ c.urls = U /\ c.value = <<Config!Text("word")>>
      /\ e.ports = Q /\ e.urls = W /\ e.value = V
  BY DEF Context
<1>2. Config!Defined(k, c) /\ Config!Defined(k, e) /\ k \in Pieces
  <2>1. k \in Pieces
    BY DEF Config!Keys
  <2> QED BY <2>1
<1> HIDE DEF c, e
<1>3. CASE k.kind = "port"
  <2>1. k.of \in services
    BY <1>1, <1>2, <1>3 DEF Config!Defined
  <2>2. Config!ValueOf(k, c) = <<Config!Number(P[k.of])>> /\ Config!ValueOf(k, e) = <<Config!Number(Q[k.of])>>
    BY <1>1, <1>3 DEF Config!ValueOf
  <2>3. \A n \in Config!PortNumbers : /\ Config!Number(n) \in Texts
                                      /\ Config!Number(n).kind = "number" /\ Config!Number(n).of = n
    BY DEF Config!PortNumbers, Config!Number, Texts, Config!TextKinds
  <2>4. P[k.of] \in Config!PortNumbers /\ Q[k.of] \in Config!PortNumbers
    BY <2>1
  <2>5. \A a \in Texts : <<a>> \in Seq(Texts) /\ Len(<<a>>) = 1 /\ <<a>>[1] = a /\ DOMAIN <<a>> = {1}
    OBVIOUS
  <2> DEFINE p == Config!Number(P[k.of])
             q == Config!Number(Q[k.of])
  <2>6. p \in Texts /\ p.kind = "number" /\ q \in Texts /\ q.kind = "number" /\ q.of \in Config!PortNumbers
    BY <2>3, <2>4
  <2> HIDE DEF p, q
  <2>7. Pair(<<p>>, <<q>>)
    BY <2>5, <2>6 DEF Pair, Alike
  <2>8. ~Config!HasSpace(<<q>>)
    BY <2>5, <2>6 DEF Config!HasSpace
  <2>9. Config!ValueOf(k, c) = <<p>> /\ Config!ValueOf(k, e) = <<q>>
    BY <2>2 DEF p, q
  <2> QED BY <2>5, <2>6, <2>7, <2>8, <2>9 DEF Clear
<1>4. CASE k.kind = "url"
  <2>1. k.of \in DOMAIN U \cap DOMAIN W
    BY <1>1, <1>2, <1>4 DEF Config!Defined
  <2>2. Config!ValueOf(k, c) = U[k.of] /\ Config!ValueOf(k, e) = W[k.of]
    BY <1>1, <1>4 DEF Config!ValueOf
  <2>3. ~Config!HasSpace(W[k.of])
    BY <2>1 DEF Config!IsLoopbackUrl, Config!HasSpace
  <2> QED BY <2>1, <2>2, <2>3 DEF Pair, Clear
<1>5. CASE k.kind = "value"
  <2>1. k = Config!Value
    BY <1>2, <1>5 DEF Pieces
  <2>2. Config!ValueOf(k, c) = <<Config!Text("word")>> /\ Config!ValueOf(k, e) = V
    BY <1>1, <1>5 DEF Config!ValueOf
  <2>3. Config!Text("word") \in Texts
    BY DEF Config!Text, Texts, Config!TextKinds
  <2>4. <<Config!Text("word")>> \in Seq(Texts)
    BY <2>3
  <2> QED BY <2>1, <2>2, <2>4 DEF Pair, Clear
<1> QED BY <1>2, <1>3, <1>4, <1>5 DEF Config!Defined

\* A URL that is not in the template changes nothing in it.
LEMMA RenderedOnce ==
  ASSUME NEW t \in Seq(Pieces), NEW P, NEW U, NEW V, NEW s, NEW url, s \notin DOMAIN U,
         Config!Renders(t, Context(P, U, V))
  PROVE  LET c == Context(P, U, V)
             e == Context(P, Extended(U, s, url), V)
         IN Config!Renders(t, e) /\ Config!Render(t, e) = Config!Render(t, c)
<1> DEFINE c == Context(P, U, V)
           W == Extended(U, s, url)
           e == Context(P, W, V)
<1>1. c.ports = P /\ c.urls = U /\ c.value = V /\ e.ports = P /\ e.urls = W /\ e.value = V
  BY DEF Context
<1>2. DOMAIN W = DOMAIN U \cup {s} /\ \A x \in DOMAIN U : W[x] = U[x]
  BY DEF Extended
<1>3. Config!Renders(t, c)
  OBVIOUS
<1> HIDE DEF c, W, e
<1>4. ASSUME NEW k \in Config!Keys(t)
      PROVE  Config!Defined(k, e) /\ Config!ValueOf(k, e) = Config!ValueOf(k, c)
  <2>1. Config!Defined(k, c)
    BY <1>3 DEF Config!Renders
  <2>2. Config!Defined(k, e)
    BY <1>1, <1>2, <2>1 DEF Config!Defined
  <2>3. k.kind = "url" => W[k.of] = U[k.of]
    BY <1>1, <1>2, <2>1 DEF Config!Defined
  <2>4. CASE k.kind = "url"
    <3>1. Config!ValueOf(k, c) = c.urls[k.of]
      BY <2>4 DEF Config!ValueOf
    <3>2. Config!ValueOf(k, e) = e.urls[k.of]
      BY <2>4 DEF Config!ValueOf
    <3> QED BY <1>1, <2>2, <2>3, <2>4, <3>1, <3>2
  <2>5. CASE k.kind = "port"
    <3>1. Config!ValueOf(k, c) = <<Config!Number(c.ports[k.of])>>
      BY <2>5 DEF Config!ValueOf
    <3>2. Config!ValueOf(k, e) = <<Config!Number(e.ports[k.of])>>
      BY <2>5 DEF Config!ValueOf
    <3> QED BY <1>1, <2>2, <3>1, <3>2
  <2>6. CASE k.kind = "value"
    <3>1. Config!ValueOf(k, c) = c.value
      BY <2>6 DEF Config!ValueOf
    <3>2. Config!ValueOf(k, e) = e.value
      BY <2>6 DEF Config!ValueOf
    <3> QED BY <1>1, <2>2, <3>1, <3>2
  <2> QED BY <2>1, <2>2, <2>4, <2>5, <2>6 DEF Config!Defined
<1>5. Config!Renders(t, e)
  BY <1>3, <1>4 DEF Config!Renders
<1>6. ASSUME NEW i \in DOMAIN t
      PROVE  t[i].kind \in Config!TextKinds \/ t[i] \in Config!Keys(t)
  <2>1. t[i] \in Pieces
    OBVIOUS
  <2>2. t[i].kind # "broken"
    BY <1>3 DEF Config!Renders, Config!Broken
  <2>3. t[i].kind \notin Config!TextKinds => t[i].kind \in Config!KeyKinds
    BY <2>1, <2>2 DEF Pieces
  <2> QED BY <2>3 DEF Config!Keys
<1>7. Config!Render(t, e) = Config!FlattenSeq(Blocks(t, e)) /\ Config!Render(t, c) = Config!FlattenSeq(Blocks(t, c))
  BY Zenon DEF Config!Render, Blocks
<1>8. Blocks(t, e) = Blocks(t, c)
  <2>1. \A i \in DOMAIN t : (IF t[i].kind \in Config!TextKinds THEN <<t[i]>> ELSE Config!ValueOf(t[i], e))
                            = IF t[i].kind \in Config!TextKinds THEN <<t[i]>> ELSE Config!ValueOf(t[i], c)
    BY <1>4, <1>6
  <2> QED BY <2>1, Zenon DEF Blocks
<1> QED BY <1>5, <1>7, <1>8 DEF c, W, e

\* After n rounds none of which failed: n URLs are resolved, each is a URL, its
\* template under all of them, and no template is broken.
Settled(urls, P, V, n, c) ==
  \E U : /\ c = Context(P, U, V)
         /\ DOMAIN U \subseteq DOMAIN urls
         /\ Cardinality(DOMAIN U) = n
         /\ \A s \in DOMAIN urls : ~Config!Broken(urls[s])
         /\ \A s \in DOMAIN U : /\ Config!Renders(urls[s], c)
                                /\ U[s] = Config!Render(urls[s], c)
                                /\ Config!IsLoopbackUrl(U[s])

\* A round settles one URL more.
LEMMA RoundSettles ==
  ASSUME NEW urls, DOMAIN urls \subseteq Nat, IsFiniteSet(DOMAIN urls),
         \A s \in DOMAIN urls : urls[s] \in Seq(Pieces),
         NEW P, NEW V, NEW n \in Nat, NEW c, Settled(urls, P, V, n, c), Config!Round(urls, c).ok
  PROVE  Settled(urls, P, V, n + 1, Config!Round(urls, c).context)
<1>1. PICK U : /\ c = Context(P, U, V)
               /\ DOMAIN U \subseteq DOMAIN urls
               /\ Cardinality(DOMAIN U) = n
               /\ \A s \in DOMAIN urls : ~Config!Broken(urls[s])
               /\ \A s \in DOMAIN U : /\ Config!Renders(urls[s], c)
                                      /\ U[s] = Config!Render(urls[s], c)
                                      /\ Config!IsLoopbackUrl(U[s])
  BY Zenon DEF Settled
<1> DEFINE s == Config!First(Config!Ready(urls, c))
           url == Config!Render(urls[s], c)
           W == Extended(U, s, url)
           e == Context(P, W, V)
<1>2. /\ s \in Config!Ready(urls, c) /\ Config!Renders(urls[s], c) /\ Config!IsLoopbackUrl(url)
      /\ Config!Round(urls, c).context = e
  BY <1>1, RoundIs, Zenon
<1>3. s \in DOMAIN urls /\ s \notin DOMAIN U
  BY <1>1, <1>2 DEF Config!Ready, Context
<1>4. DOMAIN W = DOMAIN U \cup {s} /\ W[s] = url /\ \A x \in DOMAIN U : W[x] = U[x]
  BY <1>3 DEF Extended
<1>5. Cardinality(DOMAIN W) = n + 1
  <2>1. IsFiniteSet(DOMAIN U)
    BY <1>1, FS_Subset
  <2> QED BY <1>1, <1>3, <1>4, <2>1, FS_AddElement
<1> HIDE DEF s, url
<1>6. ASSUME NEW x \in DOMAIN urls, Config!Renders(urls[x], c)
      PROVE  Config!Renders(urls[x], e) /\ Config!Render(urls[x], e) = Config!Render(urls[x], c)
  <2>1. urls[x] \in Seq(Pieces)
    OBVIOUS
  <2>2. Config!Renders(urls[x], Context(P, U, V))
    BY <1>1, <1>6
  <2>3. /\ Config!Renders(urls[x], Context(P, Extended(U, s, url), V))
        /\ Config!Render(urls[x], Context(P, Extended(U, s, url), V)) = Config!Render(urls[x], Context(P, U, V))
    BY <1>3, <2>1, <2>2, RenderedOnce
  <2> QED BY <1>1, <2>3
<1>7. ASSUME NEW x \in DOMAIN W
      PROVE  Config!Renders(urls[x], e) /\ W[x] = Config!Render(urls[x], e) /\ Config!IsLoopbackUrl(W[x])
  <2> HIDE DEF W, e
  <2>1. CASE x = s
    BY <1>2, <1>3, <1>4, <1>6, <2>1 DEF url
  <2>2. CASE x \in DOMAIN U
    BY <1>1, <1>4, <1>6, <2>2
  <2> QED BY <1>4, <2>1, <2>2
<1>8. DOMAIN W \subseteq DOMAIN urls
  BY <1>1, <1>3, <1>4
<1> HIDE DEF W
<1> QED BY <1>1, <1>2, <1>5, <1>7, <1>8 DEF Settled

\* The URLs that the placeholders and an environment have resolved are the same, and
\* the one follows the other.
Matched(U, W) ==
  /\ DOMAIN U = DOMAIN W
  /\ \A x \in DOMAIN U :
       /\ U[x] \in Seq(Texts) /\ W[x] \in Seq(Texts)
       /\ Config!IsLoopbackUrl(U[x]) /\ Config!IsLoopbackUrl(W[x]) /\ Follows(U[x], W[x])

\* After a round for the placeholders, the one for an environment, which passes too or d.
RoundAlike(urls, P, U, Q, W, V, d) ==
  LET v == <<Config!Text("word")>>
      r == Config!Round(urls, Context(Q, W, V))
  IN /\ r.ok \in BOOLEAN
     /\ ~r.ok => d
     /\ r.ok => \E X, Y : /\ Config!Round(urls, Context(P, U, v)).context = Context(P, X, v)
                          /\ r.context = Context(Q, Y, V)
                          /\ Matched(X, Y)

\* The rounds of the placeholders and of an environment take the same URL.
LEMMA RoundMatches ==
  ASSUME NEW services, NEW urls, DOMAIN urls \subseteq Nat,
         \A s \in DOMAIN urls : urls[s] \in Seq(Pieces),
         NEW P \in [services -> Config!PortNumbers], NEW Q \in [services -> Config!PortNumbers],
         NEW V \in Seq(Texts), NEW U, NEW W, Matched(U, W), NEW d,
         \A s \in DOMAIN urls : Config!HasSpace(V) /\ Config!Value \in Config!Keys(urls[s]) => d,
         Config!Round(urls, Context(P, U, <<Config!Text("word")>>)).ok
  PROVE  RoundAlike(urls, P, U, Q, W, V, d)
<1> DEFINE v == <<Config!Text("word")>>
           c == Context(P, U, v)
           e == Context(Q, W, V)
           s == Config!First(Config!Ready(urls, c))
           p == Config!Render(urls[s], c)
           a == Config!Render(urls[s], e)
           X == Extended(U, s, p)
           Y == Extended(W, s, a)
<1>1. \A k : Config!Defined(k, c) <=> Config!Defined(k, e)
  <2>1. c.ports = P /\ c.urls = U /\ e.ports = Q /\ e.urls = W /\ DOMAIN P = DOMAIN Q
    BY DEF Context
  <2>2. DOMAIN U = DOMAIN W
    BY DEF Matched
  <2> QED BY <2>1, <2>2, Zenon DEF Config!Defined
<1>2. Config!Ready(urls, c) = Config!Ready(urls, e)
  <2>1. DOMAIN c.urls = DOMAIN e.urls
    BY DEF Context, Matched
  <2> HIDE DEF c, e
  <2> QED BY <1>1, <2>1 DEF Config!Ready
<1>3. /\ s \in Config!Ready(urls, c) /\ Config!Renders(urls[s], c) /\ Config!IsLoopbackUrl(p)
      /\ Config!Round(urls, c).context = Context(P, X, v)
  BY RoundIs, Zenon
<1>4. /\ Config!Round(urls, e).ok \in BOOLEAN
      /\ Config!Round(urls, e).ok <=> Config!Renders(urls[s], e) /\ Config!IsLoopbackUrl(a)
      /\ Config!Round(urls, e).ok => Config!Round(urls, e).context = Context(Q, Y, V)
  <2>1. s = Config!First(Config!Ready(urls, e)) /\ Config!Ready(urls, e) # {}
    BY <1>2, <1>3
  <2> QED BY <2>1, RoundIs, Zenon
<1>5. s \in DOMAIN urls /\ urls[s] \in Seq(Pieces)
  BY <1>3 DEF Config!Ready
<1>6. Config!Renders(urls[s], e)
  <2> HIDE DEF c, e, s
  <2> QED BY <1>1, <1>3 DEF Config!Renders
<1>7. KeysFollow(urls[s], c, e, d)
  <2>1. \A x \in DOMAIN U \cap DOMAIN W :
            /\ U[x] \in Seq(Texts) /\ W[x] \in Seq(Texts)
            /\ Config!IsLoopbackUrl(U[x]) /\ Config!IsLoopbackUrl(W[x]) /\ Follows(U[x], W[x])
    BY DEF Matched
  <2>2. /\ \A k \in Config!Keys(urls[s]) : Config!Defined(k, c)
        /\ \A k \in Config!Keys(urls[s]) : Config!Defined(k, e)
    BY <1>3, <1>6, Zenon DEF Config!Renders
  <2> HIDE DEF s
  <2> QED BY <1>5, <2>1, <2>2, DefinedFollow
<1>8. ~Config!Broken(urls[s])
  BY <1>3, Zenon DEF Config!Renders
<1>9. p \in Seq(Texts) /\ a \in Seq(Texts) /\ Follows(p, a)
  <2> HIDE DEF s, c, e
  <2> QED BY <1>5, <1>7, <1>8, RenderFollows
<1>10. Config!IsLoopbackUrl(a) \/ d
  <2> HIDE DEF s, c, e
  <2> QED BY <1>3, <1>5, <1>7, <1>8, UrlFollows
<1>11. Config!IsLoopbackUrl(a) => Matched(X, Y)
  <2> HIDE DEF s, p, a
  <2>1. /\ DOMAIN X = {s} \cup DOMAIN U /\ DOMAIN Y = {s} \cup DOMAIN W
        /\ \A x \in DOMAIN X : X[x] = IF x = s THEN p ELSE U[x]
        /\ \A x \in DOMAIN Y : Y[x] = IF x = s THEN a ELSE W[x]
    BY DEF Extended
  <2> HIDE DEF X, Y
  <2>2. SUFFICES ASSUME Config!IsLoopbackUrl(a), NEW x \in DOMAIN X
                 PROVE  /\ X[x] \in Seq(Texts) /\ Y[x] \in Seq(Texts)
                        /\ Config!IsLoopbackUrl(X[x]) /\ Config!IsLoopbackUrl(Y[x]) /\ Follows(X[x], Y[x])
    <3>1. DOMAIN X = DOMAIN Y
      BY <2>1 DEF Matched
    <3> QED BY <3>1, Zenon DEF Matched
  <2>3. x \in DOMAIN Y
    BY <2>1 DEF Matched
  <2>4. CASE x = s
    <3>1. X[x] = p /\ Y[x] = a
      BY <2>1, <2>3, <2>4
    <3>2. Config!IsLoopbackUrl(p)
      BY <1>3
    <3> QED BY <1>9, <2>2, <3>1, <3>2
  <2>5. CASE x # s
    <3>1. X[x] = U[x] /\ Y[x] = W[x] /\ x \in DOMAIN U
      BY <2>1, <2>3, <2>5
    <3> QED BY <3>1 DEF Matched
  <2> QED BY <2>4, <2>5
<1> HIDE DEF X, Y, s, p, a
<1> QED BY <1>3, <1>4, <1>6, <1>10, <1>11, Zenon DEF RoundAlike

\* A configuration: services, the templates of the URLs of some of them, of a variable
\* and of a check; the ports and the value of an environment.
IsConfig(config, ports, value) ==
  /\ config.services \subseteq Nat /\ IsFiniteSet(config.services)
  /\ DOMAIN config.urls \subseteq config.services
  /\ \A s \in DOMAIN config.urls : config.urls[s] \in Seq(Pieces)
  /\ config.generate \in Seq(Pieces) /\ config.check \in Seq(Pieces)
  /\ ports \in [config.services -> Config!PortNumbers] /\ value \in Seq(Texts)

\* A word is a text without a space.
LEMMA WordIsClear == <<Config!Text("word")>> \in Seq(Texts) /\ ~Config!HasSpace(<<Config!Text("word")>>)
<1>1. Config!Text("word") \in Texts /\ Config!Text("word").kind = "word"
  BY DEF Config!Text, Texts, Config!TextKinds
<1>2. \A x \in Texts : <<x>> \in Seq(Texts) /\ DOMAIN <<x>> = {1} /\ <<x>>[1] = x
  OBVIOUS
<1> DEFINE x == Config!Text("word")
<1>3. x \in Texts /\ x.kind = "word"
  BY <1>1
<1> HIDE DEF x
<1>4. <<x>> \in Seq(Texts) /\ ~Config!HasSpace(<<x>>)
  BY <1>2, <1>3 DEF Config!HasSpace
<1> QED BY <1>4 DEF x

\* What validation renders with.
LEMMA DefaultPorts ==
  ASSUME NEW config
  PROVE  LET P == [s \in config.services |-> 12345]
             v == <<Config!Text("word")>>
         IN /\ P \in [config.services -> Config!PortNumbers]
            /\ v \in Seq(Texts) /\ ~Config!HasSpace(v)
            /\ Config!Placeholders(config) = Context(P, <<>>, v)
            /\ Config!CheckPlaceholders(config)
                 = Context(P, [s \in DOMAIN config.urls |-> <<Config!Text("http"), Config!Number(12345)>>], v)
<1>1. 12345 \in Config!PortNumbers
  BY DEF Config!PortNumbers
<1>4. <<Config!Text("word")>> \in Seq(Texts) /\ ~Config!HasSpace(<<Config!Text("word")>>)
  BY WordIsClear
<1>5. Config!Placeholders(config) = Context([s \in config.services |-> 12345], <<>>, <<Config!Text("word")>>)
  BY DEF Config!Placeholders, Context
<1>6. Config!CheckPlaceholders(config)
        = Context([s \in config.services |-> 12345],
                  [s \in DOMAIN config.urls |-> <<Config!Text("http"), Config!Number(12345)>>],
                  <<Config!Text("word")>>)
  BY DEF Config!CheckPlaceholders, Config!Placeholders, Context
<1> QED BY <1>1, <1>4, <1>5, <1>6

\* Before the first round.
LEMMA NoUrls ==
  /\ DOMAIN <<>> = {} /\ Cardinality(DOMAIN <<>>) = 0 /\ Matched(<<>>, <<>>)
<1>1. DOMAIN <<>> = {}
  OBVIOUS
<1> QED BY <1>1, FS_EmptySet DEF Matched

\* Before the first round nothing is resolved.
LEMMA UnresolvedSettled ==
  ASSUME NEW urls, NEW P, NEW V, Unresolved(urls, Context(P, <<>>, V)).ok
  PROVE  Settled(urls, P, V, 0, Context(P, <<>>, V))
<1> DEFINE U == <<>>
<1>1. DOMAIN U = {} /\ Cardinality(DOMAIN U) = 0
  BY NoUrls
<1>2. \A s \in DOMAIN urls : ~Config!Broken(urls[s])
  BY DEF Unresolved
<1> HIDE DEF U
<1>3. Settled(urls, P, V, 0, Context(P, U, V))
  BY <1>1, <1>2 DEF Settled
<1> QED BY <1>3 DEF U

\* The rounds, as long as none fails, settle one URL each.
LEMMA RoundsSettle ==
  ASSUME NEW urls, DOMAIN urls \subseteq Nat, IsFiniteSet(DOMAIN urls),
         \A s \in DOMAIN urls : urls[s] \in Seq(Pieces), NEW P, NEW V, NEW n \in Nat, NEW f,
         InRounds(urls, Context(P, <<>>, V), n, f)
  PROVE  \A k \in 0..n : f[k].ok => Settled(urls, P, V, k, f[k].context)
<1> DEFINE S == {k \in 0..n : f[k].ok => Settled(urls, P, V, k, f[k].context)}
<1>1. 0 \in S
  <2>1. f[0] = Unresolved(urls, Context(P, <<>>, V)) /\ 0 \in 0..n
    BY DEF InRounds
  <2>2. Unresolved(urls, Context(P, <<>>, V)).context = Context(P, <<>>, V)
    BY DEF Unresolved
  <2> QED BY <2>1, <2>2, UnresolvedSettled
<1>2. ASSUME NEW k \in 1..n, k - 1 \in S
      PROVE  k \in S
  <2>1. k \in 0..n /\ k # 0 /\ k - 1 \in Nat /\ (k - 1) + 1 = k
    OBVIOUS
  <2>2. f[k] = Further(urls, f[k-1])
    BY <2>1 DEF InRounds
  <2> SUFFICES ASSUME f[k].ok
               PROVE  Settled(urls, P, V, k, f[k].context)
    BY <2>1
  <2>3. f[k-1].ok /\ f[k] = Config!Round(urls, f[k-1].context)
    BY <2>2 DEF Further
  <2>4. Settled(urls, P, V, k - 1, f[k-1].context)
    BY <1>2, <2>3
  <2>5. Settled(urls, P, V, (k - 1) + 1, f[k].context)
    <3> DEFINE c == f[k-1].context
               m == k - 1
    <3>1. Config!Round(urls, c).ok /\ m \in Nat /\ Settled(urls, P, V, m, c)
      BY <2>1, <2>3, <2>4
    <3> HIDE DEF c, m
    <3>2. Settled(urls, P, V, m + 1, Config!Round(urls, c).context)
      BY <3>1, RoundSettles
    <3> QED BY <2>3, <3>2 DEF c, m
  <2> QED BY <2>1, <2>5
<1> HIDE DEF S
<1>3. \A k \in 0..n : k \in S
  BY <1>1, <1>2, Upward
<1> QED BY <1>3 DEF S

\* What the placeholders pass, an environment passes, or d.
LEMMA RoundsMatch ==
  ASSUME NEW services, NEW urls, DOMAIN urls \subseteq Nat,
         \A s \in DOMAIN urls : urls[s] \in Seq(Pieces),
         NEW P \in [services -> Config!PortNumbers], NEW Q \in [services -> Config!PortNumbers],
         NEW V \in Seq(Texts), NEW d,
         \A s \in DOMAIN urls : Config!HasSpace(V) /\ Config!Value \in Config!Keys(urls[s]) => d,
         NEW n \in Nat, NEW f, NEW g,
         InRounds(urls, Context(P, <<>>, <<Config!Text("word")>>), n, f),
         InRounds(urls, Context(Q, <<>>, V), n, g)
  PROVE  \A k \in 0..n : f[k].ok => g[k].ok \/ d
<1> DEFINE v == <<Config!Text("word")>>
           Good(k) == /\ g[k].ok \in BOOLEAN
                      /\ ~g[k].ok => d
                      /\ g[k].ok => \E U, W : /\ f[k].context = Context(P, U, v)
                                              /\ g[k].context = Context(Q, W, V)
                                              /\ Matched(U, W)
           S == {k \in 0..n : f[k].ok => Good(k)}
<1>0. 0 \in 0..n /\ \A k \in 1..n : k \in 0..n /\ k # 0
  OBVIOUS
<1>a. Matched(<<>>, <<>>)
  BY NoUrls
<1>b. /\ f[0] = Unresolved(urls, Context(P, <<>>, v))
      /\ g[0] = Unresolved(urls, Context(Q, <<>>, V))
  BY <1>0, Zenon DEF InRounds
<1>c. \A k \in 1..n : f[k] = Further(urls, f[k-1]) /\ g[k] = Further(urls, g[k-1])
  BY <1>0, Zenon DEF InRounds
<1>1. 0 \in S
  <2>1. \A c : /\ Unresolved(urls, c).context = c
               /\ Unresolved(urls, c).ok = \A s \in DOMAIN urls : ~Config!Broken(urls[s])
    BY DEF Unresolved
  <2>2. g[0].ok \in BOOLEAN /\ f[0].ok = g[0].ok
    <3> DEFINE w == \A s \in DOMAIN urls : ~Config!Broken(urls[s])
    <3>1. f[0].ok = w /\ g[0].ok = w
      BY <1>b, <2>1, Zenon
    <3>2. w \in BOOLEAN
      OBVIOUS
    <3> HIDE DEF w
    <3> QED BY <3>1, <3>2
  <2>3. f[0].context = Context(P, <<>>, v) /\ g[0].context = Context(Q, <<>>, V)
    BY <1>b, <2>1, Zenon
  <2> QED BY <1>0, <1>a, <2>2, <2>3, Zenon
<1>2. ASSUME NEW k \in 1..n, k - 1 \in S
      PROVE  k \in S
  <2>1. k \in 0..n /\ k # 0
    BY <1>0
  <2>2. f[k] = Further(urls, f[k-1]) /\ g[k] = Further(urls, g[k-1])
    BY <1>c
  <2> SUFFICES ASSUME f[k].ok
               PROVE  Good(k)
    BY <2>1
  <2>3. f[k-1].ok /\ f[k] = Config!Round(urls, f[k-1].context)
    BY <2>2 DEF Further
  <2>4. Good(k - 1)
    BY <1>2, <2>3
  <2>5. CASE ~g[k-1].ok
    BY <2>2, <2>4, <2>5 DEF Further
  <2>6. CASE g[k-1].ok
    <3>1. g[k] = Config!Round(urls, g[k-1].context)
      BY <2>2, <2>6 DEF Further
    <3>2. PICK U, W : /\ f[k-1].context = Context(P, U, v)
                      /\ g[k-1].context = Context(Q, W, V)
                      /\ Matched(U, W)
      BY <2>4, <2>6
    <3>3. /\ Config!Round(urls, Context(P, U, v)).ok
          /\ f[k] = Config!Round(urls, Context(P, U, v)) /\ g[k] = Config!Round(urls, Context(Q, W, V))
      BY <2>3, <3>1, <3>2
    <3>4. RoundAlike(urls, P, U, Q, W, V, d)
      BY <3>2, <3>3, RoundMatches
    <3> QED BY <3>3, <3>4, Zenon DEF RoundAlike
  <2> QED BY <2>5, <2>6
<1> HIDE DEF S
<1>3. \A k \in 0..n : k \in S
  BY <1>1, <1>2, Upward
<1> QED BY <1>3 DEF S

\* A configuration has so many URLs.
LEMMA FiniteUrls ==
  ASSUME NEW config, NEW ports, NEW value, IsConfig(config, ports, value)
  PROVE  /\ DOMAIN config.urls \subseteq Nat /\ IsFiniteSet(DOMAIN config.urls)
         /\ Cardinality(DOMAIN config.urls) \in Nat
<1>1. IsFiniteSet(DOMAIN config.urls)
  BY FS_Subset DEF IsConfig
<1>2. DOMAIN config.urls \subseteq Nat
  BY DEF IsConfig
<1> QED BY <1>1, <1>2, FS_CardinalityType

\* Every URL is resolved, as its template under all of them.
Resolution(urls, P, V, c) ==
  \E U : /\ c = Context(P, U, V) /\ DOMAIN U = DOMAIN urls
         /\ \A s \in DOMAIN urls : U[s] = Config!Render(urls[s], c)

\* What all rounds settle is every URL.
LEMMA AllResolved ==
  ASSUME NEW urls, IsFiniteSet(DOMAIN urls), DOMAIN urls \subseteq Nat,
         \A s \in DOMAIN urls : urls[s] \in Seq(Pieces),
         NEW P, NEW V, Config!ResolveUrls(urls, Context(P, <<>>, V)).ok
  PROVE  Resolution(urls, P, V, Config!ResolveUrls(urls, Context(P, <<>>, V)).context)
<1> DEFINE n == Cardinality(DOMAIN urls)
           r == Config!ResolveUrls(urls, Context(P, <<>>, V))
<1>1. n \in Nat /\ n \in 0..n
  BY FS_CardinalityType
<1>2. PICK f : InRounds(urls, Context(P, <<>>, V), n, f) /\ r = f[n]
  BY <1>1, ResolvedInRounds, Zenon
<1>3. \A k \in 0..n : f[k].ok => Settled(urls, P, V, k, f[k].context)
  <2> HIDE DEF n
  <2> QED BY <1>1, <1>2, RoundsSettle
<1>4. Settled(urls, P, V, n, r.context)
  BY <1>1, <1>2, <1>3, Zenon
<1> HIDE DEF r
<1>5. PICK U : /\ r.context = Context(P, U, V)
               /\ DOMAIN U \subseteq DOMAIN urls
               /\ Cardinality(DOMAIN U) = n
               /\ \A s \in DOMAIN U : U[s] = Config!Render(urls[s], r.context)
  BY <1>4, Zenon DEF Settled
<1>6. DOMAIN U = DOMAIN urls
  BY <1>5, FS_Subset
<1> QED BY <1>5, <1>6, Zenon DEF r, Resolution

\* What validation accepts is resolved with any ports, or stopped at a space.
LEMMA AcceptedIsRendered ==
  ASSUME NEW config, NEW ports, NEW value, IsConfig(config, ports, value)
  PROVE  Config!AcceptedRenders(config, ports, value)
<1> DEFINE urls == config.urls
           P == [s \in config.services |-> 12345]
           v == <<Config!Text("word")>>
           r == Config!ResolveUrls(urls, Context(ports, <<>>, value))
           d == Config!HasSpace(value) /\ \E s \in DOMAIN urls : Config!Value \in Config!Keys(urls[s])
           n == Cardinality(DOMAIN urls)
<1>1. DOMAIN urls \subseteq Nat /\ IsFiniteSet(DOMAIN urls) /\ n \in Nat /\ n \in 0..n
  BY FiniteUrls
<1>2. /\ \A s \in DOMAIN urls : urls[s] \in Seq(Pieces)
      /\ ports \in [config.services -> Config!PortNumbers] /\ value \in Seq(Texts)
  BY DEF IsConfig
<1>3. P \in [config.services -> Config!PortNumbers] /\ Config!Placeholders(config) = Context(P, <<>>, v)
  <2>1. 12345 \in Config!PortNumbers
    BY DEF Config!PortNumbers
  <2>2. Config!Placeholders(config) = Context(P, <<>>, v)
    BY DEF Config!Placeholders, Context
  <2> QED BY <2>1, <2>2
<1>4. SUFFICES ASSUME Config!ValidateTemplates(config)
               PROVE  /\ r.ok \/ d
                      /\ r.ok => /\ DOMAIN r.context.urls = DOMAIN urls
                                 /\ \A s \in DOMAIN urls : r.context.urls[s] = Config!Render(urls[s], r.context)
                                 /\ Config!Renders(config.generate, r.context)
                                 /\ Config!Renders(config.check, r.context)
  BY Zenon DEF Config!AcceptedRenders, Context
<1>5. Config!ResolveUrls(urls, Context(P, <<>>, v)).ok
  <2>1. Config!ResolveUrls(config.urls, Config!Placeholders(config)).ok
    BY <1>4, Zenon DEF Config!ValidateTemplates
  <2> QED BY <1>3, <2>1
<1>6. r.ok \/ d
  <2>1. PICK f : InRounds(urls, Context(P, <<>>, v), n, f) /\ Config!ResolveUrls(urls, Context(P, <<>>, v)) = f[n]
    BY <1>1, ResolvedInRounds
  <2>2. PICK g : InRounds(urls, Context(ports, <<>>, value), n, g) /\ r = g[n]
    BY <1>1, ResolvedInRounds, Zenon
  <2>3. \A s \in DOMAIN urls : Config!HasSpace(value) /\ Config!Value \in Config!Keys(urls[s]) => d
    OBVIOUS
  <2> HIDE DEF d, urls, n, P
  <2>4. \A k \in 0..n : f[k].ok => g[k].ok \/ d
    BY <1>1, <1>2, <1>3, <2>1, <2>2, <2>3, RoundsMatch
  <2> QED BY <1>1, <1>5, <2>1, <2>2, <2>4, Zenon
<1>7. ASSUME r.ok
      PROVE  /\ DOMAIN r.context.urls = DOMAIN urls
             /\ \A s \in DOMAIN urls : r.context.urls[s] = Config!Render(urls[s], r.context)
             /\ Config!Renders(config.generate, r.context)
             /\ Config!Renders(config.check, r.context)
  <2>1. PICK U : /\ r.context = Context(ports, U, value) /\ DOMAIN U = DOMAIN urls
                 /\ \A s \in DOMAIN urls : U[s] = Config!Render(urls[s], r.context)
    <3>1. Resolution(urls, ports, value, r.context)
      <4> HIDE DEF urls
      <4> QED BY <1>1, <1>2, <1>7, AllResolved
    <3> QED BY <3>1, Zenon DEF Resolution
  <2>2. Config!CheckPlaceholders(config)
          = Context(P, [s \in DOMAIN urls |-> <<Config!Text("http"), Config!Number(12345)>>], v)
    BY DefaultPorts
  <2>3. Config!Allowed(config.generate, config) /\ Config!Allowed(config.check, config)
    BY <1>4, Zenon DEF Config!ValidateTemplates
  <2>4. ASSUME NEW t, Config!Allowed(t, config)
        PROVE  Config!Renders(t, r.context)
    <3> DEFINE c == Config!CheckPlaceholders(config)
    <3>1. Config!Renders(t, c)
      BY <2>4, Zenon DEF Config!Allowed
    <3>2. DOMAIN c.ports = DOMAIN r.context.ports /\ DOMAIN c.urls = DOMAIN r.context.urls
      <4>1. c.ports = P /\ c.urls = [s \in DOMAIN urls |-> <<Config!Text("http"), Config!Number(12345)>>]
        BY <2>2 DEF Context
      <4>2. r.context.ports = ports /\ r.context.urls = U
        BY <2>1 DEF Context
      <4> HIDE DEF c, r
      <4> QED BY <1>2, <2>1, <4>1, <4>2
    <3> HIDE DEF c, r
    <3> QED BY <3>1, <3>2, Zenon DEF Config!Renders, Config!Defined
  <2>5. r.context.urls = U
    BY <2>1 DEF Context
  <2> HIDE DEF r
  <2> QED BY <2>1, <2>3, <2>4, <2>5
<1> QED BY <1>6, <1>7

\* No URL of a circle is ever resolved.
LEMMA CirclesAreRefused ==
  ASSUME NEW urls, IsFiniteSet(DOMAIN urls), DOMAIN urls \subseteq Nat,
         \A s \in DOMAIN urls : urls[s] \in Seq(Pieces),
         NEW P, NEW V, Config!Circular(urls)
  PROVE  ~Config!ResolveUrls(urls, Context(P, <<>>, V)).ok
<1> DEFINE n == Cardinality(DOMAIN urls)
           r == Config!ResolveUrls(urls, Context(P, <<>>, V))
<1>1. PICK C \in SUBSET DOMAIN urls :
        C # {} /\ \A s \in C : \E t \in C : Config!Url(t) \in Config!Keys(urls[s])
  BY Zenon DEF Config!Circular
<1>2. n \in Nat /\ n \in 0..n
  BY FS_CardinalityType
<1>3. PICK f : InRounds(urls, Context(P, <<>>, V), n, f) /\ r = f[n]
  BY <1>2, ResolvedInRounds, Zenon
<1> DEFINE S == {k \in 0..n : f[k].ok => \E U : f[k].context = Context(P, U, V) /\ C \cap DOMAIN U = {}}
<1>4. 0 \in S
  <2>1. f[0] = Unresolved(urls, Context(P, <<>>, V)) /\ 0 \in 0..n
    BY <1>2, <1>3 DEF InRounds
  <2>2. f[0].context = Context(P, <<>>, V)
    BY <2>1 DEF Unresolved
  <2>3. C \cap DOMAIN <<>> = {}
    BY NoUrls
  <2> QED BY <2>1, <2>2, <2>3
<1>5. ASSUME NEW k \in 1..n, k - 1 \in S
      PROVE  k \in S
  <2>1. k \in 0..n /\ k # 0 /\ f[k] = Further(urls, f[k-1])
    BY <1>2, <1>3 DEF InRounds
  <2> SUFFICES ASSUME f[k].ok
               PROVE  \E U : f[k].context = Context(P, U, V) /\ C \cap DOMAIN U = {}
    BY <2>1
  <2>2. f[k-1].ok /\ f[k] = Config!Round(urls, f[k-1].context)
    BY <2>1 DEF Further
  <2>3. PICK U : f[k-1].context = Context(P, U, V) /\ C \cap DOMAIN U = {}
    BY <1>5, <2>2
  <2> DEFINE c == Context(P, U, V)
             s == Config!First(Config!Ready(urls, c))
             W == Extended(U, s, Config!Render(urls[s], c))
  <2>4. Config!Round(urls, c).ok /\ f[k] = Config!Round(urls, c)
    BY <2>2, <2>3
  <2>5. s \in Config!Ready(urls, c) /\ f[k].context = Context(P, W, V)
    <3>1. s \in Config!Ready(urls, c) /\ Config!Round(urls, c).context = Context(P, W, V)
      BY <2>4, RoundIs, Zenon
    <3> QED BY <2>4, <3>1, Zenon
  <2>6. s \notin C
    <3> SUFFICES ASSUME s \in C
                 PROVE  FALSE
      OBVIOUS
    <3>1. PICK t \in C : Config!Url(t) \in Config!Keys(urls[s])
      BY <1>1
    <3>2. Config!Defined(Config!Url(t), c)
      <4> HIDE DEF s, c
      <4> QED BY <2>5, <3>1 DEF Config!Ready
    <3>3. t \in DOMAIN U
      BY <3>2 DEF Config!Defined, Config!Url, Context
    <3> QED BY <2>3, <3>1, <3>3
  <2>7. DOMAIN W = {s} \cup DOMAIN U
    BY DEF Extended
  <2> HIDE DEF s, W
  <2>8. C \cap DOMAIN W = {}
    BY <2>3, <2>6, <2>7
  <2> QED BY <2>5, <2>8
<1>6. \A k \in 0..n : k \in S
  <2> HIDE DEF S, n
  <2> QED BY <1>2, <1>4, <1>5, Upward
<1>7. SUFFICES ASSUME r.ok
               PROVE  FALSE
  OBVIOUS
<1>8. PICK U : r.context = Context(P, U, V) /\ C \cap DOMAIN U = {}
  <2>1. n \in S /\ f[n].ok
    BY <1>2, <1>3, <1>6, <1>7, Zenon
  <2> QED BY <1>3, <2>1, Zenon
<1>9. PICK W : r.context = Context(P, W, V) /\ DOMAIN W = DOMAIN urls
  <2>1. Resolution(urls, P, V, r.context)
    BY <1>7, AllResolved
  <2> QED BY <2>1, Zenon DEF Resolution
<1>10. U = W
  <2> HIDE DEF r
  <2>1. r.context.urls = U /\ r.context.urls = W
    BY <1>8, <1>9 DEF Context
  <2> QED BY <2>1
<1> QED BY <1>1, <1>8, <1>9, <1>10

\* A URL that is good by itself, and waits for no circle, is resolved in its round.
LEMMA GoodAreResolved ==
  ASSUME NEW services, NEW urls, DOMAIN urls \subseteq Nat, IsFiniteSet(DOMAIN urls),
         \A s \in DOMAIN urls : urls[s] \in Seq(Pieces),
         NEW P \in [services -> Config!PortNumbers],
         NEW A, DOMAIN A = DOMAIN urls,
         \A s \in DOMAIN A : A[s] \in Seq(Texts) /\ Config!IsLoopbackUrl(A[s]) /\ Len(A[s]) = 2,
         \A s \in DOMAIN urls :
            LET a == Context(P, A, <<Config!Text("word")>>)
            IN Config!Renders(urls[s], a) /\ Config!IsLoopbackUrl(Config!Render(urls[s], a)),
         ~Config!Circular(urls)
  PROVE  Config!ResolveUrls(urls, Context(P, <<>>, <<Config!Text("word")>>)).ok
<1> DEFINE v == <<Config!Text("word")>>
           a == Context(P, A, v)
           r == Config!ResolveUrls(urls, Context(P, <<>>, v))
           n == Cardinality(DOMAIN urls)
<1>1. n \in Nat /\ n \in 0..n
  BY FS_CardinalityType
<1>4. v \in Seq(Texts) /\ ~Config!HasSpace(v)
  BY WordIsClear
<1>6. \A s \in DOMAIN urls : Config!Renders(urls[s], a) /\ Config!IsLoopbackUrl(Config!Render(urls[s], a))
  OBVIOUS
<1>7. PICK f : InRounds(urls, Context(P, <<>>, v), n, f) /\ r = f[n]
  BY <1>1, ResolvedInRounds
<1>8. \A k \in 0..n : f[k].ok => Settled(urls, P, v, k, f[k].context)
  <2> HIDE DEF n, v
  <2> QED BY <1>1, <1>7, RoundsSettle DEF n
<1> DEFINE S == {k \in 0..n : /\ f[k].ok
                              /\ \A U : f[k].context = Context(P, U, v) =>
                                          \A s \in DOMAIN U : U[s] \in Seq(Texts)}
<1>10. \A U, W : Context(P, U, v) = Context(P, W, v) => U = W
  <2> SUFFICES ASSUME NEW U, NEW W, Context(P, U, v) = Context(P, W, v)
               PROVE  U = W
    OBVIOUS
  <2>1. Context(P, U, v).urls = U /\ Context(P, W, v).urls = W
    BY Zenon DEF Context
  <2> QED BY <2>1
<1>11. 0 \in S
  <2>1. f[0] = Unresolved(urls, Context(P, <<>>, v)) /\ 0 \in 0..n
    BY <1>1, <1>7 DEF InRounds
  <2>2. f[0].context = Context(P, <<>>, v)
    <3>1. \A c : Unresolved(urls, c).context = c
      BY DEF Unresolved
    <3> QED BY <2>1, <3>1, Zenon
  <2>3. \A s \in DOMAIN urls : ~Config!Broken(urls[s])
    BY <1>6, Zenon DEF Config!Renders
  <2>4. f[0].ok
    <3>1. \A c : Unresolved(urls, c).ok = \A s \in DOMAIN urls : ~Config!Broken(urls[s])
      BY DEF Unresolved
    <3> QED BY <2>1, <2>3, <3>1, Zenon
  <2>5. \A U : f[0].context = Context(P, U, v) => DOMAIN U = {}
    BY <1>10, <2>2, NoUrls, Zenon
  <2> QED BY <2>1, <2>4, <2>5, Zenon
<1>12. ASSUME NEW k \in 1..n, k - 1 \in S
       PROVE  k \in S
  <2>1. k \in 0..n /\ k # 0 /\ f[k] = Further(urls, f[k-1]) /\ k - 1 \in 0..n /\ k - 1 # n
    BY <1>1, <1>7 DEF InRounds
  <2>2. f[k-1].ok /\ Settled(urls, P, v, k - 1, f[k-1].context)
    BY <1>8, <1>12, <2>1
  <2>3. PICK U : /\ f[k-1].context = Context(P, U, v)
                 /\ DOMAIN U \subseteq DOMAIN urls
                 /\ Cardinality(DOMAIN U) = k - 1
                 /\ \A s \in DOMAIN U : Config!IsLoopbackUrl(U[s])
    BY <2>2, Zenon DEF Settled
  <2> DEFINE c == Context(P, U, v)
             s == Config!First(Config!Ready(urls, c))
             W == Extended(U, s, Config!Render(urls[s], c))
  <2>4. \A x \in DOMAIN U : U[x] \in Seq(Texts)
    BY <1>12, <2>3
  <2>5. f[k] = Config!Round(urls, c)
    BY <2>1, <2>2, <2>3 DEF Further
  \* A key that is not defined yet is a URL that is not resolved.
  <2>6. ASSUME NEW x \in DOMAIN urls, NEW key \in Config!Keys(urls[x]), ~Config!Defined(key, c)
        PROVE  \E t \in DOMAIN urls \ DOMAIN U : key = Config!Url(t)
    <3>1. Config!Defined(key, a)
      BY <1>6 DEF Config!Renders
    <3>2. /\ c.ports = P /\ c.urls = U /\ a.ports = P /\ a.urls = A /\ DOMAIN A = DOMAIN urls
      BY DEF Context
    <3>3. key.kind = "url" /\ key.of \in DOMAIN urls \ DOMAIN U
      <4> HIDE DEF c, a
      <4> QED BY <2>6, <3>1, <3>2 DEF Config!Defined
    <3>4. key \in Pieces
      BY DEF Config!Keys
    <3>5. key = Config!Url(key.of)
      BY <3>3, <3>4 DEF Pieces, Config!Url
    <3> QED BY <3>3, <3>5
  <2>7. Config!Ready(urls, c) # {}
    <3> SUFFICES ASSUME Config!Ready(urls, c) = {}
                 PROVE  FALSE
      OBVIOUS
    <3> DEFINE C == DOMAIN urls \ DOMAIN U
    <3>1. C # {}
      <4>1. DOMAIN U # DOMAIN urls
        BY <2>1, <2>3
      <4> QED BY <2>3, <4>1
    <3>2. ASSUME NEW x \in C
          PROVE  \E t \in C : Config!Url(t) \in Config!Keys(urls[x])
      <4>1. c.urls = U
        BY DEF Context
      <4>2. PICK key \in Config!Keys(urls[x]) : ~Config!Defined(key, c)
        <5> HIDE DEF c
        <5> QED BY <4>1 DEF Config!Ready
      <4>3. \E t \in C : key = Config!Url(t)
        BY <2>6, <4>2
      <4> QED BY <4>3
    <3>3. Config!Circular(urls)
      <4>1. C \in SUBSET DOMAIN urls
        OBVIOUS
      <4> HIDE DEF C
      <4> QED BY <3>1, <3>2, <4>1, Zenon DEF Config!Circular
    <3> QED BY <1>6, <3>3
  <2>8. /\ s \in Config!Ready(urls, c)
        /\ f[k].ok <=> Config!Renders(urls[s], c) /\ Config!IsLoopbackUrl(Config!Render(urls[s], c))
        /\ f[k].ok => f[k].context = Context(P, W, v)
    BY <1>1, <2>5, <2>7, RoundIs, Zenon
  <2>9. /\ s \in DOMAIN urls /\ urls[s] \in Seq(Pieces) /\ s \notin DOMAIN U
        /\ \A key \in Config!Keys(urls[s]) : Config!Defined(key, c)
    <3>1. c.urls = U
      BY DEF Context
    <3> HIDE DEF c, s
    <3> QED BY <2>8, <3>1 DEF Config!Ready
  <2>10. Config!Renders(urls[s], a) /\ Config!IsLoopbackUrl(Config!Render(urls[s], a)) /\ ~Config!Broken(urls[s])
    BY <1>6, <2>9, Zenon DEF Config!Renders
  <2>11. KeysFollow(urls[s], a, c, FALSE)
    <3>1. \A x \in DOMAIN A \cap DOMAIN U :
            /\ A[x] \in Seq(Texts) /\ U[x] \in Seq(Texts)
            /\ Config!IsLoopbackUrl(A[x]) /\ Config!IsLoopbackUrl(U[x]) /\ Follows(A[x], U[x])
      <4> SUFFICES ASSUME NEW x \in DOMAIN A \cap DOMAIN U
                   PROVE  /\ A[x] \in Seq(Texts) /\ U[x] \in Seq(Texts)
                          /\ Config!IsLoopbackUrl(A[x]) /\ Config!IsLoopbackUrl(U[x]) /\ Follows(A[x], U[x])
        OBVIOUS
      <4>1. A[x] \in Seq(Texts) /\ Config!IsLoopbackUrl(A[x]) /\ Len(A[x]) = 2
        OBVIOUS
      <4>2. U[x] \in Seq(Texts) /\ Config!IsLoopbackUrl(U[x])
        BY <2>3, <2>4
      <4>3. Len(U[x]) >= 2 /\ UrlHas(U[x])
        BY <4>2, LoopbackHas
      <4>4. Follows(A[x], U[x])
        BY <4>1, <4>3 DEF Follows
      <4> QED BY <4>1, <4>2, <4>4
    <3>2. \A key \in Config!Keys(urls[s]) : Config!Defined(key, a)
      BY <2>10, Zenon DEF Config!Renders
    <3>3. Config!HasSpace(v) /\ Config!Value \in Config!Keys(urls[s]) => FALSE
      BY <1>4
    <3> HIDE DEF s
    <3> QED BY <1>4, <2>9, <3>1, <3>2, <3>3, DefinedFollow
  <2>12. /\ Config!IsLoopbackUrl(Config!Render(urls[s], c))
         /\ Config!Render(urls[s], c) \in Seq(Texts)
    <3> HIDE DEF a, c, s
    <3>1. Config!IsLoopbackUrl(Config!Render(urls[s], c)) \/ (FALSE /\ Config!HasSpace(Config!Render(urls[s], c)))
      BY <2>9, <2>10, <2>11, UrlFollows
    <3>2. Config!Render(urls[s], c) \in Seq(Texts)
      BY <2>9, <2>10, <2>11, RenderFollows
    <3> QED BY <3>1, <3>2
  <2>13. Config!Renders(urls[s], c)
    <3> HIDE DEF s, c
    <3> QED BY <2>9, <2>10 DEF Config!Renders
  <2>14. f[k].ok /\ f[k].context = Context(P, W, v)
    BY <2>8, <2>12, <2>13, Zenon
  <2>15. \A x \in DOMAIN W : W[x] \in Seq(Texts)
    <3> DEFINE url == Config!Render(urls[s], c)
    <3>1. DOMAIN W = {s} \cup DOMAIN U /\ \A x \in DOMAIN W : W[x] = IF x = s THEN url ELSE U[x]
      BY DEF Extended
    <3>2. url \in Seq(Texts)
      BY <2>12
    <3> HIDE DEF W, url, s
    <3> QED BY <2>4, <3>1, <3>2
  <2> HIDE DEF W
  <2> QED BY <1>10, <2>1, <2>14, <2>15, Zenon
<1>13. \A k \in 0..n : k \in S
  <2> HIDE DEF S, n
  <2> QED BY <1>1, <1>11, <1>12, Upward
<1> QED BY <1>1, <1>7, <1>13, Zenon

\* What is refused is a circle, or not a URL by itself.
LEMMA OnlyCirclesAreRefused ==
  ASSUME NEW config, NEW ports, NEW value, IsConfig(config, ports, value)
  PROVE  Config!OnlyCirclesRefused(config)
<1> DEFINE urls == config.urls
           P == [s \in config.services |-> 12345]
           v == <<Config!Text("word")>>
           A == [s \in DOMAIN urls |-> <<Config!Text("http"), Config!Number(12345)>>]
           r == Config!ResolveUrls(urls, Config!Placeholders(config))
           good(s) == /\ Config!Renders(urls[s], Config!CheckPlaceholders(config))
                      /\ Config!IsLoopbackUrl(Config!Render(urls[s], Config!CheckPlaceholders(config)))
<1>1. DOMAIN urls \subseteq Nat /\ IsFiniteSet(DOMAIN urls)
  BY FiniteUrls
<1>2. \A s \in DOMAIN urls : urls[s] \in Seq(Pieces)
  BY DEF IsConfig
<1>3. 12345 \in Config!PortNumbers
  BY DEF Config!PortNumbers
<1>4. /\ P \in [config.services -> Config!PortNumbers]
      /\ Config!Placeholders(config) = Context(P, <<>>, v)
      /\ Config!CheckPlaceholders(config) = Context(P, A, v)
  <2>1. P \in [config.services -> Config!PortNumbers]
    BY <1>3
  <2>2. Config!Placeholders(config) = Context(P, <<>>, v)
    BY DEF Config!Placeholders, Context
  <2>3. Config!CheckPlaceholders(config) = Context(P, A, v)
    BY DEF Config!CheckPlaceholders, Config!Placeholders, Context
  <2> QED BY <2>1, <2>2, <2>3
\* What A stands for is a URL.
<1>5. /\ DOMAIN A = DOMAIN urls
      /\ \A s \in DOMAIN A : A[s] \in Seq(Texts) /\ Config!IsLoopbackUrl(A[s]) /\ Len(A[s]) = 2
  <2> DEFINE x == Config!Text("http")
             y == Config!Number(12345)
  <2>1. x \in Texts /\ x.kind = "http" /\ y \in Texts /\ y.kind = "number" /\ y.of \in Config!PortNumbers
    BY <1>3 DEF Config!Text, Config!Number, Texts, Config!TextKinds, Config!PortNumbers
  <2> HIDE DEF x, y
  <2>2. <<x, y>> \in Seq(Texts) /\ Config!IsLoopbackUrl(<<x, y>>) /\ Len(<<x, y>>) = 2
    BY <2>1 DEF Config!IsLoopbackUrl
  <2>3. DOMAIN A = DOMAIN urls /\ \A s \in DOMAIN A : A[s] = <<x, y>>
    BY DEF x, y
  <2> HIDE DEF A
  <2> QED BY <2>2, <2>3
<1> HIDE DEF P, A, v, urls
<1>6. Config!Circular(urls) => ~r.ok
  BY <1>1, <1>2, <1>4, CirclesAreRefused
<1>7. ASSUME \A s \in DOMAIN urls : good(s), ~Config!Circular(urls)
      PROVE  r.ok
  <2>1. \A s \in DOMAIN urls : /\ Config!Renders(urls[s], Context(P, A, v))
                               /\ Config!IsLoopbackUrl(Config!Render(urls[s], Context(P, A, v)))
    BY <1>4, <1>7
  <2> QED BY <1>1, <1>2, <1>4, <1>5, <1>7, <2>1, GoodAreResolved DEF v
<1> QED BY <1>6, <1>7, Zenon DEF Config!OnlyCirclesRefused, Config!Allowed, urls

\* The configurations a check is about: any services, any templates, any ports and any
\* value.
ConfigTyped == input.kind = "config" => IsConfig(input.config, input.ports, input.value)

\* The templates of an accepted configuration of any services and URLs render with any
\* ports and any value, each URL as its template under all of them, unless a value with a
\* space comes into one; and only circles are refused of URLs that are good by themselves
\* (config/urls.rs: resolve_urls; config/validation.rs: validate_templates).
THEOREM TemplatesAlwaysResolve == ConfigTyped => TemplatesResolve
<1>1. SUFFICES ASSUME ConfigTyped, input.kind = "config"
               PROVE  /\ Config!AcceptedRenders(input.config, input.ports, input.value)
                      /\ Config!OnlyCirclesRefused(input.config)
  BY DEF TemplatesResolve
<1>2. IsConfig(input.config, input.ports, input.value)
  BY <1>1 DEF ConfigTyped
<1> QED BY <1>2, AcceptedIsRendered, OnlyCirclesAreRefused
=============================================================================
