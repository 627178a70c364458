----------------------- MODULE CapturedCommandProofs -----------------------
(***************************************************************************)
(* Proofs about CapturedCommand, for any number of descendants, with and   *)
(* without failing system calls.                                           *)
(***************************************************************************)
EXTENDS CapturedCommand, TLAPS

Before == {"start", "drain", "observe", "wait", "streams"}

\* What is signalled is not yet reaped.
SignalInv ==
  /\ ~stray
  /\ life[Leader] = "gone" <=> reaped
  /\ reaped => pc \in {"collect", "judge", "cancel", "joinWorker", "ended"}
  /\ pc \in {"collect", "judge"} => reaped /\ ~broken
  /\ result = "ok" => reaped /\ pc = "ended"
  /\ pc = "start" => life[Leader] = "none" /\ group = {}
  /\ pc = "ended" => reaped \/ broken \/ life[Leader] = "none"

\* When the threads run.
ThreadInv ==
  /\ pc \in {"start", "drain"} => worker = "none"
  /\ pc \in {"start", "drain", "observe"} => observer = "none"
  /\ observer \in {"watching", "notified"} =>
       pc \in {"wait", "streams", "terminate", "killGroup", "killLeader", "joinObserver"}
  /\ worker \in {"polling", "stopped"} => pc # "ended" /\ pc # "judge"
  /\ worker \in {"polling", "stopped"} /\ result = "failed" => pc \in {"cancel", "joinWorker"}
  /\ mode = "status" => worker = "none" /\ pc # "drain"
  /\ streams => worker = "joined" /\ captured = "whole"
  /\ pc \in {"cancel", "joinWorker"} => result = "failed"
  /\ pc \in {"start", "drain"} => result = "pending"
  /\ result \in {"ok", "late"} => pc = "ended"

\* What was captured to its end is closed for good.
OutputInv ==
  /\ worker # "none" => \A pipe \in Pipes \ unread : \A p \in Procs : pipe \notin holds[p]
  /\ captured = "whole" => worker \in {"stopped", "joined"} /\ unread = {}
  /\ pc = "judge" /\ mode = "output" => captured = "whole"

\* An exit that was noticed was the command's own, unless it came too late.
ExitInv ==
  /\ pc \in Before => dying = {}
  /\ pc \in Before /\ life[Leader] = "zombie" => own \/ expired
  /\ pc \in Before /\ "exit" \in channel => broken \/ life[Leader] = "zombie"
  /\ completion = "exit" =>
       \/ broken
       \/ life[Leader] \in {"zombie", "gone"} /\ (own \/ expired)

\* Once the group was signalled, nothing in it runs.
GroupInv ==
  /\ \A p \in group : life[p] # "none"
  /\ pc \in {"killGroup", "killLeader", "joinObserver", "reap", "collect", "judge"} => ~signalable
  /\ reaped => ~signalable
  /\ ~signalable /\ ~unsignalled /\ pc # "killGroup" =>
       \A p \in group : Alive(p) => p \in dying
  /\ signalable /\ pc = "ended" => group = {}
  /\ unsignalled => broken
  /\ pc = "start" => signalable

IInv ==
  /\ TypeOK /\ SignalInv /\ ThreadInv /\ OutputInv /\ ExitInv /\ GroupInv
  /\ SuccessIsWhole

-----------------------------------------------------------------------------
LEMMA IInvInit == Init => IInv
BY DEF Init, IInv, TypeOK, SignalInv, ThreadInv, OutputInv, ExitInv, GroupInv, SuccessIsWhole,
       Before, PCs, Procs, Pipes


\* TypeOK in two parts: the processes, and the rest.
ProcsOK ==
  /\ life \in [Procs -> {"none", "alive", "zombie", "gone"}]
  /\ group \subseteq Procs /\ holds \in [Procs -> SUBSET Pipes] /\ dying \subseteq Procs
  /\ own \in BOOLEAN /\ stray \in BOOLEAN

RestOK ==
  /\ mode \in Modes /\ expired \in BOOLEAN /\ pc \in PCs
  /\ channel \subseteq {"exit", "output"} /\ streams \in BOOLEAN
  /\ completion \in {"pending", "exit", "late", "failed"}
  /\ signalable \in BOOLEAN /\ unsignalled \in BOOLEAN /\ broken \in BOOLEAN
  /\ reaped \in BOOLEAN /\ result \in {"pending", "ok", "late", "failed"}
  /\ observer \in {"none", "watching", "notified", "joined"}
  /\ worker \in {"none", "polling", "stopped", "joined"}
  /\ captured \in {"pending", "whole", "failed"} /\ unread \subseteq Pipes
  /\ cancel \in BOOLEAN

LEMMA TypeParts == TypeOK <=> ProcsOK /\ RestOK
BY DEF TypeOK, ProcsOK, RestOK

LEMMA LeaderIsProc == Leader \in Procs /\ \A d \in Descendants : d \in Procs /\ d # Leader
BY LeaderAssumption DEF Procs

LEMMA ProcsStep == IInv /\ Next => ProcsOK'
<1> SUFFICES ASSUME IInv, Next PROVE ProcsOK' OBVIOUS
<1>1. ProcsOK BY TypeParts DEF IInv
<1> USE <1>1, LeaderIsProc DEF ProcsOK
<1>2. CASE UNCHANGED procs BY <1>2 DEF procs
<1>3. CASE Start
  <2>1. holds' \in [Procs -> SUBSET Pipes] BY <1>3 DEF Start
  <2> QED BY <1>3, <2>1 DEF Start
<1>4. CASE KillGroup \/ KillLeader
  <2>1. UNCHANGED <<life, group, holds, own>> /\ stray' \in BOOLEAN
    BY <1>4 DEF KillGroup, KillLeader, Kill
  <2>2. dying' \subseteq Procs BY <1>4 DEF KillGroup, KillLeader, Kill
  <2> QED BY <2>1, <2>2
<1>5. CASE Reap
  BY <1>5 DEF Reap
<1>6. CASE Fork
  <2>1. PICK p \in Procs, q \in Descendants :
          /\ life' = [life EXCEPT ![q] = "alive"]
          /\ group' = IF p \in group THEN group \cup {q} ELSE group
          /\ holds' = [holds EXCEPT ![q] = holds[p]]
    BY <1>6 DEF Fork
  <2>2. UNCHANGED <<dying, own, stray>> BY <1>6 DEF Fork
  <2> QED BY <2>1, <2>2
<1>7. CASE LeaveGroup \/ ClosePipe
  BY <1>7 DEF LeaveGroup, ClosePipe
<1>8. ASSUME NEW p \in Procs, Exits(p) PROVE ProcsOK'
  BY <1>8 DEF Exits
<1> QED
  BY <1>2, <1>3, <1>4, <1>5, <1>6, <1>7, <1>8
  DEF Next, Caller, Worker, Fault, Exit, StartRefused, StartFails, StartDrain, StartObserver,
      SetupFails, WaitExpires, WaitExit, WaitOutput, JoinStreams, Terminate, TerminateClosed,
      SignalFails, JoinObserver, ReapFails, Collect, Judge, Cancel, JoinWorker, Observe,
      ObserveFails, ReadToEnd, CaptureEnds, CaptureStops, CaptureFails, StopWorker, Expire

LEMMA RestStep == IInv /\ Next => RestOK'
<1> SUFFICES ASSUME IInv, Next PROVE RestOK' OBVIOUS
<1>1. RestOK BY TypeParts DEF IInv
<1> USE <1>1 DEF RestOK, PCs, caller, threads, End
<1>2. CASE StartRefused BY <1>2 DEF StartRefused
<1>3. CASE StartFails BY <1>3 DEF StartFails
<1>4. CASE Start BY <1>4 DEF Start
<1>5. CASE StartDrain BY <1>5 DEF StartDrain
<1>6. CASE StartObserver BY <1>6 DEF StartObserver
<1>7. CASE SetupFails BY <1>7 DEF SetupFails, Unwind
<1>8. CASE WaitExpires BY <1>8 DEF WaitExpires
<1>9. CASE WaitExit BY <1>9 DEF WaitExit
<1>10. CASE WaitOutput BY <1>10 DEF WaitOutput
<1>11. CASE JoinStreams
  <2>1. CASE captured = "whole" BY <1>11, <2>1 DEF JoinStreams
  <2>2. CASE captured # "whole" BY <1>11, <2>2 DEF JoinStreams
  <2> QED BY <2>1, <2>2
<1>12. CASE Terminate
  <2>1. UNCHANGED <<mode, expired, streams, completion, unsignalled, broken, reaped, result, cancel>>
    BY <1>12 DEF Terminate
  <2>2. pc' \in PCs /\ signalable' \in BOOLEAN /\ UNCHANGED threads BY <1>12 DEF Terminate
  <2> QED BY <2>1, <2>2
<1>13. CASE TerminateClosed BY <1>13 DEF TerminateClosed
<1>14. CASE SignalFails
  <2>1. pc' \in PCs BY <1>14 DEF SignalFails
  <2>2. UNCHANGED <<mode, expired, streams, completion, reaped, result, cancel>>
    BY <1>14 DEF SignalFails
  <2>3. signalable' \in BOOLEAN /\ unsignalled' \in BOOLEAN /\ broken' \in BOOLEAN
    BY <1>14 DEF SignalFails
  <2>4. UNCHANGED threads BY <1>14 DEF SignalFails
  <2> QED BY <2>1, <2>2, <2>3, <2>4
<1>15. CASE KillGroup BY <1>15 DEF KillGroup, Kill
<1>16. CASE KillLeader BY <1>16 DEF KillLeader, Kill
<1>17. CASE JoinObserver BY <1>17 DEF JoinObserver
<1>18. CASE Cancel BY <1>18 DEF Cancel
<1>19. CASE JoinWorker BY <1>19 DEF JoinWorker
<1>20. CASE Reap BY <1>20 DEF Reap, Finished, Unwind
<1>21. CASE ReapFails BY <1>21 DEF ReapFails, Finished, Unwind
<1>22. CASE Collect BY <1>22 DEF Collect
<1>23. CASE Judge BY <1>23 DEF Judge
<1>24. CASE Observe BY <1>24 DEF Observe
<1>25. CASE ObserveFails BY <1>25 DEF ObserveFails
<1>26. CASE ReadToEnd BY <1>26 DEF ReadToEnd
<1>27. CASE CaptureEnds BY <1>27 DEF CaptureEnds, StopWorker
<1>28. CASE CaptureStops BY <1>28 DEF CaptureStops, StopWorker
<1>29. CASE CaptureFails BY <1>29 DEF CaptureFails, StopWorker
<1>30. CASE Fork BY <1>30 DEF Fork
<1>31. CASE LeaveGroup BY <1>31 DEF LeaveGroup
<1>32. CASE ClosePipe BY <1>32 DEF ClosePipe
<1>33. CASE Exit BY <1>33 DEF Exit, Exits
<1>34. CASE Expire BY <1>34 DEF Expire
<1> QED
  BY <1>2, <1>3, <1>4, <1>5, <1>6, <1>7, <1>8, <1>9, <1>10, <1>11, <1>12, <1>13, <1>14, <1>15, <1>16, <1>17, <1>18, <1>19, <1>20, <1>21, <1>22, <1>23, <1>24, <1>25, <1>26, <1>27, <1>28, <1>29, <1>30, <1>31, <1>32, <1>33, <1>34
  DEF Next, Caller, Worker, Fault

LEMMA TypeStep == IInv /\ Next => TypeOK'
<1>1. (ProcsOK /\ RestOK)' => TypeOK' BY DEF TypeOK, ProcsOK, RestOK
<1> QED BY <1>1, ProcsStep, RestStep

LEMMA SignalStep == IInv /\ Next => SignalInv'
<1> SUFFICES ASSUME IInv, Next PROVE SignalInv' OBVIOUS
<1> USE DEF IInv, TypeOK, SignalInv, ThreadInv, caller, threads, procs, Alive, End
<1>1. CASE StartRefused \/ StartFails \/ Start
  BY <1>1 DEF StartRefused, StartFails, Start
<1>2. CASE StartDrain \/ StartObserver \/ SetupFails
  BY <1>2 DEF StartDrain, StartObserver, SetupFails, Unwind
<1>3. CASE WaitExpires \/ WaitExit \/ WaitOutput \/ JoinStreams
  BY <1>3 DEF WaitExpires, WaitExit, WaitOutput, JoinStreams
<1>4. CASE Terminate \/ TerminateClosed \/ SignalFails
  BY <1>4 DEF Terminate, TerminateClosed, SignalFails
<1>5. CASE KillGroup \/ KillLeader
  BY <1>5 DEF KillGroup, KillLeader, Kill
<1>6. CASE JoinObserver \/ Cancel \/ JoinWorker
  BY <1>6 DEF JoinObserver, Cancel, JoinWorker
<1>7. CASE Reap \/ ReapFails
  <2>1. CASE Reap
    <3>1. life'[Leader] = "gone" /\ reaped' /\ UNCHANGED <<stray, broken>>
      BY <2>1, LeaderIsProc DEF Reap
    <3>2. pc' \in {"collect", "judge", "cancel", "ended"}
          /\ (pc' \in {"collect", "judge"} => ~broken)
      BY <2>1, <3>1 DEF Reap, Finished, Unwind
    <3>3. result' # "ok" BY <2>1 DEF Reap, Finished, Unwind
    <3> QED BY <3>1, <3>2, <3>3
  <2>2. CASE ReapFails BY <2>2 DEF ReapFails, Finished, Unwind
  <2> QED BY <1>7, <2>1, <2>2
<1>8. CASE Collect \/ Judge
  BY <1>8 DEF Collect, Judge
<1>9. CASE Observe \/ ObserveFails
  BY <1>9 DEF Observe, ObserveFails
<1>10. CASE ReadToEnd \/ CaptureEnds \/ CaptureStops \/ CaptureFails
  BY <1>10 DEF ReadToEnd, CaptureEnds, CaptureStops, CaptureFails, StopWorker
<1>11. CASE Fork \/ LeaveGroup \/ ClosePipe
  <2>1. CASE Fork
    <3>1. PICK p \in Procs, q \in Descendants :
            /\ Alive(p) /\ life' = [life EXCEPT ![q] = "alive"]
            /\ group' = IF p \in group THEN group \cup {q} ELSE group
      BY <2>1 DEF Fork, Running
    <3>2. life'[Leader] = life[Leader] BY <3>1, LeaderIsProc
    <3>3. UNCHANGED <<pc, reaped, broken, stray, result>> BY <2>1 DEF Fork
    <3>4. pc # "start" \/ group' = {}
      BY <3>1, LeaderIsProc
    <3> QED BY <3>2, <3>3, <3>4
  <2>2. CASE LeaveGroup BY <2>2 DEF LeaveGroup, Running
  <2>3. CASE ClosePipe BY <2>3 DEF ClosePipe, Running
  <2> QED BY <1>11, <2>1, <2>2, <2>3
<1>12. CASE Exit
  BY <1>12 DEF Exit, Exits
<1>13. CASE Expire
  BY <1>13 DEF Expire
<1> QED BY <1>1, <1>2, <1>3, <1>4, <1>5, <1>6, <1>7, <1>8, <1>9, <1>10, <1>11, <1>12, <1>13 DEF Next, Caller, Worker, Fault

LEMMA ThreadStep == IInv /\ Next => ThreadInv'
<1> SUFFICES ASSUME IInv, Next PROVE ThreadInv' OBVIOUS
<1> USE DEF IInv, TypeOK, SignalInv, ThreadInv, caller, threads, procs, Alive, End
<1>1. CASE StartRefused \/ StartFails \/ Start
  BY <1>1 DEF StartRefused, StartFails, Start
<1>2. CASE StartDrain \/ StartObserver \/ SetupFails
  <2>1. CASE StartDrain
    <3>1. pc' = "observe" /\ UNCHANGED <<observer, result, mode>> /\ pc = "drain"
      BY <2>1 DEF StartDrain
    <3>2. UNCHANGED <<streams, captured>> BY <2>1 DEF StartDrain
    <3>3. ~streams BY <3>1
    <3>4. mode # "status" BY <3>1
    <3>5. result # "failed" BY <3>1
    <3> QED BY <3>1, <3>2, <3>3, <3>4, <3>5
  <2>2. CASE StartObserver BY <2>2 DEF StartObserver, Unwind
  <2>3. CASE SetupFails BY <2>3 DEF SetupFails, Unwind
  <2> QED BY <1>2, <2>1, <2>2, <2>3
<1>3. CASE WaitExpires \/ WaitExit \/ WaitOutput \/ JoinStreams
  BY <1>3 DEF WaitExpires, WaitExit, WaitOutput, JoinStreams
<1>4. CASE Terminate \/ TerminateClosed \/ SignalFails
  BY <1>4 DEF Terminate, TerminateClosed, SignalFails
<1>5. CASE KillGroup \/ KillLeader
  BY <1>5 DEF KillGroup, KillLeader, Kill
<1>6. CASE JoinObserver \/ Cancel \/ JoinWorker
  BY <1>6 DEF JoinObserver, Cancel, JoinWorker
<1>7. CASE Reap \/ ReapFails
  <2>1. CASE Reap
    <3>1. UNCHANGED <<observer, worker, mode, captured, streams, completion>> BY <2>1 DEF Reap
    <3>2. result' \in {result, "failed"} BY <2>1 DEF Reap, Finished, Unwind
    <3>3. CASE result = "failed"
      <4>1. pc' = "ended" /\ result' = "failed" BY <2>1, <3>3 DEF Reap, Finished
      <4>2. worker \notin {"polling", "stopped"} BY <2>1, <3>3 DEF Reap
      <4> QED BY <2>1, <3>1, <4>1, <4>2 DEF Reap
    <3>4. CASE result # "failed" /\ (broken \/ completion = "failed")
      <4>1. result' = "failed"
            /\ pc' = IF worker \in {"polling", "stopped"} THEN "cancel" ELSE "ended"
        BY <2>1, <3>4 DEF Reap, Finished, Unwind
      <4> QED BY <2>1, <3>1, <4>1 DEF Reap
    <3>5. CASE result # "failed" /\ ~(broken \/ completion = "failed")
      <4>1. result' = result
            /\ pc' = IF mode = "output" /\ ~streams THEN "collect" ELSE "judge"
        BY <2>1, <3>5 DEF Reap, Finished
      <4>2. ~(mode = "output" /\ ~streams) => worker \notin {"polling", "stopped"}
        BY ModesAssumption
      <4>3. pc = "reap" /\ observer \notin {"watching", "notified"} BY <2>1 DEF Reap
      <4>4. pc' \in {"collect", "judge"} /\ (worker \in {"polling", "stopped"} => pc' = "collect")
        BY <4>1, <4>2
      <4>5. result' \notin {"failed", "ok", "late"} BY <3>5, <4>1, <4>3
      <4> QED BY <3>1, <4>3, <4>4, <4>5
    <3> QED BY <3>3, <3>4, <3>5
  <2>2. CASE ReapFails BY <2>2 DEF ReapFails, Finished, Unwind
  <2> QED BY <1>7, <2>1, <2>2
<1>8. CASE Collect \/ Judge
  BY <1>8 DEF Collect, Judge
<1>9. CASE Observe \/ ObserveFails
  BY <1>9 DEF Observe, ObserveFails
<1>10. CASE ReadToEnd \/ CaptureEnds \/ CaptureStops \/ CaptureFails
  BY <1>10 DEF ReadToEnd, CaptureEnds, CaptureStops, CaptureFails, StopWorker
<1>11. CASE Fork \/ LeaveGroup \/ ClosePipe
  BY <1>11 DEF Fork, LeaveGroup, ClosePipe, Running
<1>12. CASE Exit
  BY <1>12 DEF Exit, Exits
<1>13. CASE Expire
  BY <1>13 DEF Expire
<1> QED BY <1>1, <1>2, <1>3, <1>4, <1>5, <1>6, <1>7, <1>8, <1>9, <1>10, <1>11, <1>12, <1>13 DEF Next, Caller, Worker, Fault

LEMMA OutputStep == IInv /\ Next => OutputInv'
<1> SUFFICES ASSUME IInv, Next PROVE OutputInv' OBVIOUS
<1> USE DEF IInv, TypeOK, ThreadInv, OutputInv, caller, threads, procs, Alive, End
<1>1. CASE StartRefused \/ StartFails \/ Start
  BY <1>1 DEF StartRefused, StartFails, Start
<1>2. CASE StartDrain \/ StartObserver \/ SetupFails
  BY <1>2 DEF StartDrain, StartObserver, SetupFails, Unwind
<1>3. CASE WaitExpires \/ WaitExit \/ WaitOutput \/ JoinStreams
  BY <1>3 DEF WaitExpires, WaitExit, WaitOutput, JoinStreams
<1>4. CASE Terminate \/ TerminateClosed \/ SignalFails
  BY <1>4 DEF Terminate, TerminateClosed, SignalFails
<1>5. CASE KillGroup \/ KillLeader
  BY <1>5 DEF KillGroup, KillLeader, Kill
<1>6. CASE JoinObserver \/ Cancel \/ JoinWorker
  BY <1>6 DEF JoinObserver, Cancel, JoinWorker
<1>7. CASE Reap \/ ReapFails
  BY <1>7 DEF Reap, ReapFails, Finished, Unwind
<1>8. CASE Collect \/ Judge
  BY <1>8 DEF Collect, Judge
<1>9. CASE Observe \/ ObserveFails
  BY <1>9 DEF Observe, ObserveFails
<1>10. CASE ReadToEnd \/ CaptureEnds \/ CaptureStops \/ CaptureFails
  BY <1>10 DEF ReadToEnd, CaptureEnds, CaptureStops, CaptureFails, StopWorker
<1>11. CASE Fork \/ LeaveGroup \/ ClosePipe
  BY <1>11 DEF Fork, LeaveGroup, ClosePipe, Running
<1>12. CASE Exit
  BY <1>12 DEF Exit, Exits
<1>13. CASE Expire
  BY <1>13 DEF Expire
<1> QED BY <1>1, <1>2, <1>3, <1>4, <1>5, <1>6, <1>7, <1>8, <1>9, <1>10, <1>11, <1>12, <1>13 DEF Next, Caller, Worker, Fault

LEMMA ExitStep == IInv /\ Next => ExitInv'
<1> SUFFICES ASSUME IInv, Next PROVE ExitInv' OBVIOUS
<1> USE DEF IInv, TypeOK, SignalInv, ThreadInv, ExitInv, Before, caller, threads, procs, Alive, End
<1>1. CASE StartRefused \/ StartFails \/ Start
  BY <1>1 DEF StartRefused, StartFails, Start
<1>2. CASE StartDrain \/ StartObserver \/ SetupFails
  BY <1>2 DEF StartDrain, StartObserver, SetupFails, Unwind
<1>3. CASE WaitExpires \/ WaitExit \/ WaitOutput \/ JoinStreams
  BY <1>3 DEF WaitExpires, WaitExit, WaitOutput, JoinStreams
<1>4. CASE Terminate \/ TerminateClosed \/ SignalFails
  BY <1>4 DEF Terminate, TerminateClosed, SignalFails
<1>5. CASE KillGroup \/ KillLeader
  BY <1>5 DEF KillGroup, KillLeader, Kill
<1>6. CASE JoinObserver \/ Cancel \/ JoinWorker
  BY <1>6 DEF JoinObserver, Cancel, JoinWorker
<1>7. CASE Reap \/ ReapFails
  BY <1>7 DEF Reap, ReapFails, Finished, Unwind
<1>8. CASE Collect \/ Judge
  BY <1>8 DEF Collect, Judge
<1>9. CASE Observe \/ ObserveFails
  BY <1>9 DEF Observe, ObserveFails
<1>10. CASE ReadToEnd \/ CaptureEnds \/ CaptureStops \/ CaptureFails
  BY <1>10 DEF ReadToEnd, CaptureEnds, CaptureStops, CaptureFails, StopWorker
<1>11. CASE Fork \/ LeaveGroup \/ ClosePipe
  <2>1. CASE Fork BY <2>1 DEF Fork, Running
  <2>2. CASE LeaveGroup BY <2>2 DEF LeaveGroup, Running
  <2>3. CASE ClosePipe BY <2>3 DEF ClosePipe, Running
  <2> QED BY <1>11, <2>1, <2>2, <2>3
<1>12. ASSUME NEW p \in Procs, Exits(p) PROVE ExitInv'
  <2>1. UNCHANGED <<pc, dying, channel, broken, expired, completion>> BY <1>12 DEF Exits
  <2>2. CASE p = Leader
    <3>1. life'[Leader] = "zombie" /\ (own' = (p \notin dying /\ ~expired)) BY <1>12, <2>2 DEF Exits
    <3>2. life[Leader] = "alive" BY <1>12, <2>2 DEF Exits
    <3>3. dying = {} => own' \/ expired BY <3>1
    <3>4. completion = "exit" => broken BY <3>2
    <3> QED BY <2>1, <3>1, <3>3, <3>4
  <2>3. CASE p # Leader
    <3>1. life'[Leader] = life[Leader] BY <1>12, <2>3, LeaderIsProc DEF Exits
    <3>2. own' = own BY <1>12, <2>3 DEF Exits
    <3> QED BY <2>1, <3>1, <3>2
  <2> QED BY <2>2, <2>3
<1>13. CASE Expire
  BY <1>13 DEF Expire
<1> QED BY <1>1, <1>2, <1>3, <1>4, <1>5, <1>6, <1>7, <1>8, <1>9, <1>10, <1>11, <1>12, <1>13 DEF Next, Caller, Worker, Fault, Exit

LEMMA GroupStep == IInv /\ Next => GroupInv'
<1> SUFFICES ASSUME IInv, Next PROVE GroupInv' OBVIOUS
<1> USE DEF IInv, TypeOK, SignalInv, GroupInv, caller, threads, procs, Alive, End
<1>1. CASE StartRefused \/ StartFails \/ Start
  <2>1. CASE StartRefused BY <2>1 DEF StartRefused
  <2>2. CASE StartFails BY <2>2 DEF StartFails
  <2>3. CASE Start
    <3>1. life'[Leader] = "alive" /\ group' = {Leader}
      BY <2>3, LeaderIsProc DEF Start
    <3>2. pc' \in {"drain", "observe"} BY <2>3 DEF Start
    <3>3. UNCHANGED <<signalable, unsignalled, broken, reaped>> BY <2>3 DEF Start
    <3>4. signalable /\ ~reaped BY <2>3 DEF Start
    <3> QED BY <3>1, <3>2, <3>3, <3>4
  <2> QED BY <1>1, <2>1, <2>2, <2>3
<1>2. CASE StartDrain \/ StartObserver \/ SetupFails
  BY <1>2 DEF StartDrain, StartObserver, SetupFails, Unwind
<1>3. CASE WaitExpires \/ WaitExit \/ WaitOutput \/ JoinStreams
  BY <1>3 DEF WaitExpires, WaitExit, WaitOutput, JoinStreams
<1>4. CASE Terminate \/ TerminateClosed \/ SignalFails
  BY <1>4 DEF Terminate, TerminateClosed, SignalFails
<1>5. CASE KillGroup \/ KillLeader
  BY <1>5 DEF KillGroup, KillLeader, Kill
<1>6. CASE JoinObserver \/ Cancel \/ JoinWorker
  BY <1>6 DEF JoinObserver, Cancel, JoinWorker
<1>7. CASE Reap \/ ReapFails
  BY <1>7 DEF Reap, ReapFails, Finished, Unwind
<1>8. CASE Collect \/ Judge
  BY <1>8 DEF Collect, Judge
<1>9. CASE Observe \/ ObserveFails
  BY <1>9 DEF Observe, ObserveFails
<1>10. CASE ReadToEnd \/ CaptureEnds \/ CaptureStops \/ CaptureFails
  BY <1>10 DEF ReadToEnd, CaptureEnds, CaptureStops, CaptureFails, StopWorker
<1>11. CASE Fork \/ LeaveGroup \/ ClosePipe
  <2>1. CASE Fork
    <3>1. PICK p \in Procs, q \in Descendants :
            /\ Alive(p) /\ p \notin dying
            /\ life[q] = "none" /\ life' = [life EXCEPT ![q] = "alive"]
            /\ group' = IF p \in group THEN group \cup {q} ELSE group
      BY <2>1 DEF Fork, Running
    <3>2. UNCHANGED <<pc, reaped, broken, signalable, unsignalled, dying>> BY <2>1 DEF Fork
    <3>3. q \notin group /\ q \in Procs BY <3>1, LeaderIsProc
    <3>4. \A r \in Procs : r # q => life'[r] = life[r] BY <3>1
    <3>5. life'[q] = "alive" BY <3>1, <3>3
    <3>6. \A r \in group' : life'[r] # "none" BY <3>1, <3>3, <3>4, <3>5
    <3>7. CASE ~signalable /\ ~unsignalled /\ pc # "killGroup"
      <4>1. p \notin group BY <3>1, <3>7
      <4> QED BY <3>1, <3>2, <3>3, <3>4, <3>6, <3>7, <4>1
    <3>8. CASE ~(~signalable /\ ~unsignalled /\ pc # "killGroup")
      <4>1. signalable /\ pc = "ended" => group' = {} BY <3>1
      <4> QED BY <3>2, <3>6, <3>8, <4>1
    <3> QED BY <3>7, <3>8
  <2>2. CASE LeaveGroup BY <2>2 DEF LeaveGroup, Running
  <2>3. CASE ClosePipe BY <2>3 DEF ClosePipe, Running
  <2> QED BY <1>11, <2>1, <2>2, <2>3
<1>12. CASE Exit
  BY <1>12 DEF Exit, Exits
<1>13. CASE Expire
  BY <1>13 DEF Expire
<1> QED BY <1>1, <1>2, <1>3, <1>4, <1>5, <1>6, <1>7, <1>8, <1>9, <1>10, <1>11, <1>12, <1>13 DEF Next, Caller, Worker, Fault

LEMMA WholeStep == IInv /\ Next => SuccessIsWhole'
<1> SUFFICES ASSUME IInv, Next PROVE SuccessIsWhole' OBVIOUS
<1> USE DEF IInv, TypeOK, SignalInv, ThreadInv, OutputInv, ExitInv, SuccessIsWhole, caller, threads, procs, Alive, End
<1>1. CASE StartRefused \/ StartFails \/ Start
  BY <1>1 DEF StartRefused, StartFails, Start
<1>2. CASE StartDrain \/ StartObserver \/ SetupFails
  BY <1>2 DEF StartDrain, StartObserver, SetupFails, Unwind
<1>3. CASE WaitExpires \/ WaitExit \/ WaitOutput \/ JoinStreams
  BY <1>3 DEF WaitExpires, WaitExit, WaitOutput, JoinStreams
<1>4. CASE Terminate \/ TerminateClosed \/ SignalFails
  BY <1>4 DEF Terminate, TerminateClosed, SignalFails
<1>5. CASE KillGroup \/ KillLeader
  BY <1>5 DEF KillGroup, KillLeader, Kill
<1>6. CASE JoinObserver \/ Cancel \/ JoinWorker
  BY <1>6 DEF JoinObserver, Cancel, JoinWorker
<1>7. CASE Reap \/ ReapFails
  BY <1>7 DEF Reap, ReapFails, Finished, Unwind
<1>8. CASE Collect \/ Judge
  BY <1>8 DEF Collect, Judge
<1>9. CASE Observe \/ ObserveFails
  BY <1>9 DEF Observe, ObserveFails
<1>10. CASE ReadToEnd \/ CaptureEnds \/ CaptureStops \/ CaptureFails
  BY <1>10 DEF ReadToEnd, CaptureEnds, CaptureStops, CaptureFails, StopWorker
<1>11. CASE Fork \/ LeaveGroup \/ ClosePipe
  BY <1>11 DEF Fork, LeaveGroup, ClosePipe, Running
<1>12. ASSUME NEW p \in Procs, Exits(p) PROVE SuccessIsWhole'
  <2>1. UNCHANGED <<result, mode>> BY <1>12 DEF Exits
  <2>2. \A r \in Procs : holds[r] = {} => holds'[r] = {} BY <1>12 DEF Exits
  <2>3. result = "ok" => life[Leader] # "alive"
    BY <2>1
  <2>4. result = "ok" => own' = own BY <1>12, <2>3 DEF Exits
  <2> QED BY <2>1, <2>2, <2>4
<1>13. CASE Expire
  BY <1>13 DEF Expire
<1> QED BY <1>1, <1>2, <1>3, <1>4, <1>5, <1>6, <1>7, <1>8, <1>9, <1>10, <1>11, <1>12, <1>13 DEF Next, Caller, Worker, Fault, Exit

-----------------------------------------------------------------------------
\* Every step of the call, of its threads and of the command's processes keeps
\* the invariant.
THEOREM Inductive == IInv /\ [Next]_vars => IInv'
<1> SUFFICES ASSUME IInv, [Next]_vars PROVE IInv' OBVIOUS
<1>1. CASE Next
  BY <1>1, TypeStep, SignalStep, ThreadStep, OutputStep, ExitStep, GroupStep, WholeStep DEF IInv
<1>2. CASE UNCHANGED vars
  BY <1>2 DEF vars, caller, threads, procs, IInv, TypeOK, SignalInv, ThreadInv, OutputInv,
       ExitInv, GroupInv, SuccessIsWhole, Before, Alive
<1> QED BY <1>1, <1>2

LEMMA Invariant == Spec => []IInv
BY IInvInit, Inductive, PTL DEF Spec

\* The state of a call has its type.
THEOREM TypeCorrect == Spec => []TypeOK
<1>1. IInv => TypeOK BY DEF IInv
<1> QED BY Invariant, <1>1, PTL

\* Whatever fails, no signal goes to the process or the group of an id that was
\* given back: signalling is closed before the wait that consumes the status.
THEOREM SignalsAreOwned == Spec => []NoStraySignal
<1>1. IInv => NoStraySignal BY DEF IInv, SignalInv, NoStraySignal
<1> QED BY Invariant, <1>1, PTL

\* A call that succeeds saw the command exit by itself in time and read its
\* output to the end, whatever the descendants did with the pipes.
THEOREM SuccessesAreWhole == Spec => []SuccessIsWhole
<1>1. IInv => SuccessIsWhole BY DEF IInv
<1> QED BY Invariant, <1>1, PTL

\* A call that could signal leaves nothing running in the command's group.
THEOREM GroupsAreKilled == Spec => []GroupIsKilled
<1>1. IInv => GroupIsKilled
  <2> SUFFICES ASSUME IInv, pc = "ended", ~unsignalled, NEW p \in group, Alive(p)
               PROVE  p \in dying
    BY DEF GroupIsKilled
  <2> QED BY DEF IInv, TypeOK, GroupInv
<1> QED BY Invariant, <1>1, PTL

\* However the call ends, its threads are joined and the command is reaped.
THEOREM NothingDetached == Spec => []NothingIsDetached
<1>1. IInv => NothingIsDetached
  <2> SUFFICES ASSUME IInv, pc = "ended" PROVE NothingIsDetached BY DEF NothingIsDetached
  <2>1. observer \in {"none", "joined"} /\ worker \in {"none", "joined"}
    BY DEF IInv, TypeOK, ThreadInv
  <2>2. life[Leader] \in {"none", "gone"} \/ broken
    BY DEF IInv, TypeOK, SignalInv
  <2> QED BY <2>1, <2>2 DEF NothingIsDetached
<1> QED BY Invariant, <1>1, PTL

\* However the call ends, of the command and its group nothing is left but what a
\* failing system call leaves.
THEOREM NothingLeft == Spec => []NothingIsLeft
<1> QED BY GroupsAreKilled, NothingDetached, PTL DEF NothingIsLeft

=============================================================================
