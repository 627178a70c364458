-------------------------- MODULE CapturedCommand --------------------------
(***************************************************************************)
(* A command run to a deadline: Git and Docker clients whose output is     *)
(* captured ("output"), and probes of which only the status counts         *)
(* ("status").  The command leads a process group of its own.  A worker    *)
(* thread drains its pipes, an observer thread waits for its exit without  *)
(* consuming the status, and the caller ends the group before it reaps.    *)
(*                                                                         *)
(* The command's processes fork, leave the group, close their pipes and    *)
(* exit when they like.  What was read is abstracted to whether a pipe     *)
(* came to its end; messages of the two threads may be taken in any order. *)
(* SIGCHLD has the default policy the code demands, so that nobody else    *)
(* reaps the command.                                                      *)
(***************************************************************************)
CONSTANTS Leader,       \* the direct child
          Descendants,  \* the processes it may fork, directly or not
          Modes,        \* "output", "status"
          Faults        \* system calls may fail

ASSUME LeaderAssumption == Leader \notin Descendants
ASSUME ModesAssumption == Modes \subseteq {"output", "status"}
ASSUME FaultsAssumption == Faults \in BOOLEAN

Procs == {Leader} \cup Descendants
Pipes == {"stdout", "stderr"}

VARIABLES
  mode,
  expired,    \* the deadline has passed
  pc,         \* next step of the caller
  channel,    \* notifications sent and not yet received
  streams,    \* the output was joined before the exit was seen
  completion, \* how the wait ended
  signalable, \* Target.signalable
  unsignalled,\* signalling failed
  broken,     \* any step of Target::finish failed
  reaped,     \* Target.reaped
  result,     \* what is returned
  observer,   \* the exit observer thread
  worker,     \* the output thread
  captured,   \* its result
  unread,     \* the pipes it has not read to their end
  cancel,     \* the sender of the cancellation socket is closed
  life,       \* none, alive, zombie or gone
  group,      \* the processes in the command's group
  holds,      \* the pipes each process holds
  dying,      \* the processes that got SIGKILL
  own,        \* the leader exited by itself, before the deadline
  stray       \* a signal went to an id that was already reaped

caller  == <<mode, pc, streams, completion, signalable, unsignalled, broken, reaped, result, cancel>>
threads == <<channel, observer, worker, captured, unread>>
procs   == <<life, group, holds, dying, own, stray>>
vars    == <<expired, caller, threads, procs>>

PCs == {"start", "drain", "observe", "wait", "streams", "terminate", "killGroup", "killLeader",
        "joinObserver", "reap", "collect", "judge", "cancel", "joinWorker", "ended"}

TypeOK ==
  /\ mode \in Modes /\ expired \in BOOLEAN /\ pc \in PCs
  /\ channel \subseteq {"exit", "output"} /\ streams \in BOOLEAN
  /\ completion \in {"pending", "exit", "late", "failed"}
  /\ signalable \in BOOLEAN /\ unsignalled \in BOOLEAN /\ broken \in BOOLEAN
  /\ reaped \in BOOLEAN /\ result \in {"pending", "ok", "late", "failed"}
  /\ observer \in {"none", "watching", "notified", "joined"}
  /\ worker \in {"none", "polling", "stopped", "joined"}
  /\ captured \in {"pending", "whole", "failed"} /\ unread \subseteq Pipes
  /\ cancel \in BOOLEAN
  /\ life \in [Procs -> {"none", "alive", "zombie", "gone"}]
  /\ group \subseteq Procs /\ holds \in [Procs -> SUBSET Pipes] /\ dying \subseteq Procs
  /\ own \in BOOLEAN /\ stray \in BOOLEAN

Init ==
  /\ mode \in Modes /\ expired = FALSE /\ pc = "start"
  /\ channel = {} /\ streams = FALSE /\ completion = "pending"
  /\ signalable = TRUE /\ unsignalled = FALSE /\ broken = FALSE /\ reaped = FALSE
  /\ result = "pending" /\ observer = "none" /\ worker = "none" /\ captured = "pending"
  /\ unread = {} /\ cancel = FALSE
  /\ life = [p \in Procs |-> "none"]
  /\ group = {} /\ holds = [p \in Procs |-> {}] /\ dying = {} /\ own = FALSE /\ stray = FALSE

-----------------------------------------------------------------------------
Alive(p) == life[p] = "alive"

End(r) == pc' = "ended" /\ result' = r

\* Mutant: the worker is left to itself.
UnwindDetaching ==
  /\ result' = "failed"
  /\ pc' = IF reaped' THEN "ended" ELSE "terminate"

\* An error returns: the drain is dropped, then the target.  Either drop does
\* nothing when its work was done.
Unwind ==
  /\ result' = "failed"
  /\ pc' = CASE worker \in {"polling", "stopped"} -> "cancel"
             [] worker \notin {"polling", "stopped"} /\ ~reaped' -> "terminate"
             [] OTHER -> "ended"

\* The deadline has passed already.
StartRefused ==
  /\ pc = "start"
  /\ expired
  /\ End(IF mode = "status" THEN "late" ELSE "failed")
  /\ UNCHANGED <<mode, expired, streams, completion, signalable, unsignalled, broken, reaped,
                 cancel, threads, procs>>

\* No child can be waited for, or none is started.
StartFails ==
  /\ pc = "start"
  /\ Faults
  /\ End("failed")
  /\ UNCHANGED <<mode, expired, streams, completion, signalable, unsignalled, broken, reaped,
                 cancel, threads, procs>>

Start ==
  /\ pc = "start"
  /\ ~expired
  /\ pc' = IF mode = "output" THEN "drain" ELSE "observe"
  /\ life' = [life EXCEPT ![Leader] = "alive"]
  /\ group' = {Leader}
  /\ holds' = [holds EXCEPT ![Leader] = IF mode = "output" THEN Pipes ELSE {}]
  /\ UNCHANGED <<mode, expired, streams, completion, signalable, unsignalled, broken, reaped,
                 result, cancel, threads, dying, own, stray>>

\* Drain::start
StartDrain ==
  /\ pc = "drain"
  /\ pc' = "observe"
  /\ worker' = "polling"
  /\ unread' = Pipes
  /\ UNCHANGED <<mode, expired, streams, completion, signalable, unsignalled, broken, reaped,
                 result, cancel, channel, observer, captured, procs>>

StartObserver ==
  /\ pc = "observe"
  /\ pc' = "wait"
  /\ observer' = "watching"
  /\ UNCHANGED <<mode, expired, streams, completion, signalable, unsignalled, broken, reaped,
                 result, cancel, channel, worker, captured, unread, procs>>

\* Either start fails.
SetupFails ==
  /\ pc \in {"drain", "observe"}
  /\ Faults
  /\ UNCHANGED reaped
  /\ Unwind
  /\ UNCHANGED <<mode, expired, streams, completion, signalable, unsignalled, broken, cancel,
                 threads, procs>>

-----------------------------------------------------------------------------
\* wait_for_exit, and the one recv_timeout of status
WaitExpires ==
  /\ pc = "wait"
  /\ expired
  /\ completion' = IF mode = "status" THEN "late" ELSE "failed"
  /\ pc' = "terminate"
  /\ UNCHANGED <<mode, expired, streams, signalable, unsignalled, broken, reaped, result, cancel,
                 threads, procs>>

WaitExit ==
  /\ pc = "wait"
  /\ "exit" \in channel
  /\ channel' = channel \ {"exit"}
  /\ completion' = "exit"
  /\ pc' = "terminate"
  /\ UNCHANGED <<mode, expired, streams, signalable, unsignalled, broken, reaped, result, cancel,
                 observer, worker, captured, unread, procs>>

WaitOutput ==
  /\ pc = "wait"
  /\ "output" \in channel
  /\ channel' = channel \ {"output"}
  /\ pc' = "streams"
  /\ UNCHANGED <<mode, expired, streams, completion, signalable, unsignalled, broken, reaped,
                 result, cancel, observer, worker, captured, unread, procs>>

\* Drain::finish before the exit
JoinStreams ==
  /\ pc = "streams"
  /\ worker = "stopped"
  /\ worker' = "joined"
  /\ IF captured = "whole"
     THEN streams' = TRUE /\ pc' = "wait" /\ UNCHANGED completion
     ELSE completion' = "failed" /\ pc' = "terminate" /\ UNCHANGED streams
  /\ UNCHANGED <<mode, expired, signalable, unsignalled, broken, reaped, result, cancel,
                 channel, observer, captured, unread, procs>>

-----------------------------------------------------------------------------
\* Mutant: the last look at the command consumes its status.
TerminateReaping ==
  /\ pc = "terminate"
  /\ signalable
  /\ signalable' = FALSE
  /\ life' = [life EXCEPT ![Leader] = IF @ = "zombie" THEN "gone" ELSE @]
  /\ pc' = "killGroup"
  /\ UNCHANGED <<mode, expired, streams, completion, unsignalled, broken, reaped, result, cancel,
                 threads, group, holds, dying, own, stray>>

\* Target::terminate closes signalling before any wait that consumes.
Terminate ==
  /\ pc = "terminate"
  /\ signalable
  /\ signalable' = FALSE
  /\ pc' = "killGroup"
  /\ UNCHANGED <<mode, expired, streams, completion, unsignalled, broken, reaped, result, cancel,
                 threads, procs>>

TerminateClosed ==
  /\ pc = "terminate"
  /\ ~signalable
  /\ pc' = "joinObserver"
  /\ UNCHANGED <<mode, expired, streams, completion, signalable, unsignalled, broken, reaped,
                 result, cancel, threads, procs>>

Kill(targets) ==
  /\ dying' = dying \cup targets
  /\ stray' = (stray \/ life[Leader] = "gone")
  /\ UNCHANGED <<mode, expired, streams, completion, signalable, unsignalled, broken, reaped,
                 result, cancel, threads, life, group, holds, own>>

KillGroup == pc = "killGroup" /\ pc' = "killLeader" /\ Kill({p \in group : Alive(p)})

\* Mutant: the group is taken for all there is.
KillLeaderInGroup ==
  pc = "killLeader" /\ pc' = "joinObserver" /\ Kill({p \in {Leader} \cap group : Alive(p)})

\* The direct child may have left its group.
KillLeader == pc = "killLeader" /\ pc' = "joinObserver" /\ Kill({p \in {Leader} : Alive(p)})

\* The look at the command or a signal fails; the wait is kept.
SignalFails ==
  /\ \/ pc = "terminate" /\ signalable /\ pc' = "joinObserver"
     \/ pc = "killGroup" /\ pc' = "killLeader"
     \/ pc = "killLeader" /\ pc' = "joinObserver"
  /\ Faults
  /\ signalable' = FALSE
  /\ unsignalled' = TRUE
  /\ broken' = TRUE
  /\ UNCHANGED <<mode, expired, streams, completion, reaped, result, cancel, threads, procs>>

JoinObserver ==
  /\ pc = "joinObserver"
  /\ observer \in {"none", "notified", "joined"}
  /\ observer' = IF observer = "none" THEN "none" ELSE "joined"
  /\ pc' = "reap"
  /\ UNCHANGED <<mode, expired, streams, completion, signalable, unsignalled, broken, reaped,
                 result, cancel, channel, worker, captured, unread, procs>>

\* Where the caller goes after Target::finish: in a drop, after an error, after
\* a failed wait, or to the output.
Finished(failed) ==
  CASE result = "failed" -> End("failed")
    [] result # "failed" /\ (failed \/ completion = "failed") -> Unwind
    [] OTHER -> /\ pc' = IF mode = "output" /\ ~streams THEN "collect" ELSE "judge"
                /\ UNCHANGED result

Reap ==
  /\ pc = "reap"
  /\ life[Leader] = "zombie"
  /\ life' = [life EXCEPT ![Leader] = "gone"]
  /\ reaped' = TRUE
  /\ Finished(broken)
  /\ UNCHANGED <<mode, expired, streams, completion, signalable, unsignalled, broken, cancel,
                 threads, group, holds, dying, own, stray>>

ReapFails ==
  /\ pc = "reap"
  /\ Faults
  /\ broken' = TRUE
  /\ UNCHANGED reaped
  /\ Finished(TRUE)
  /\ UNCHANGED <<mode, expired, streams, completion, signalable, unsignalled, cancel,
                 threads, procs>>

\* Drain::finish after the exit: to the end of the pipes or to the deadline.
Collect ==
  /\ pc = "collect"
  /\ worker = "stopped"
  /\ worker' = "joined"
  /\ IF captured = "whole" THEN pc' = "judge" /\ UNCHANGED result ELSE End("failed")
  /\ UNCHANGED <<mode, expired, streams, completion, signalable, unsignalled, broken, reaped,
                 cancel, channel, observer, captured, unread, procs>>

Judge ==
  /\ pc = "judge"
  /\ End(CASE completion = "exit" /\ ~expired -> "ok"
           [] mode = "status" /\ (completion # "exit" \/ expired) -> "late"
           [] OTHER -> "failed")
  /\ UNCHANGED <<mode, expired, streams, completion, signalable, unsignalled, broken, reaped,
                 cancel, threads, procs>>

\* Drain is dropped.
Cancel ==
  /\ pc = "cancel"
  /\ cancel' = TRUE
  /\ pc' = "joinWorker"
  /\ UNCHANGED <<mode, expired, streams, completion, signalable, unsignalled, broken, reaped,
                 result, threads, procs>>

JoinWorker ==
  /\ pc = "joinWorker"
  /\ worker = "stopped"
  /\ worker' = "joined"
  /\ pc' = IF reaped THEN "ended" ELSE "terminate"
  /\ UNCHANGED <<mode, expired, streams, completion, signalable, unsignalled, broken, reaped,
                 result, cancel, channel, observer, captured, unread, procs>>

-----------------------------------------------------------------------------
\* The exit observer: a waitid that consumes nothing.
Observe ==
  /\ observer = "watching"
  /\ life[Leader] = "zombie"
  /\ observer' = "notified"
  /\ channel' = channel \cup {"exit"}
  /\ UNCHANGED <<expired, caller, worker, captured, unread, procs>>

\* The notification is sent on errors too.
ObserveFails ==
  /\ observer = "watching"
  /\ Faults
  /\ observer' = "notified"
  /\ broken' = TRUE
  /\ channel' = channel \cup {"exit"}
  /\ UNCHANGED <<mode, expired, pc, streams, completion, signalable, unsignalled, reaped, result,
                 cancel, worker, captured, unread, procs>>

\* Reader::read: the end of a pipe nobody holds any more
ReadToEnd ==
  /\ worker = "polling"
  /\ \E pipe \in unread :
       /\ \A p \in Procs : pipe \notin holds[p]
       /\ unread' = unread \ {pipe}
  /\ UNCHANGED <<expired, caller, channel, observer, worker, captured, procs>>

StopWorker(c) ==
  /\ worker = "polling"
  /\ worker' = "stopped"
  /\ captured' = c
  /\ channel' = channel \cup {"output"}
  /\ UNCHANGED <<expired, caller, observer, unread, procs>>

\* Mutant: the output ends with the first pipe.
CaptureEndsEarly == unread # Pipes /\ StopWorker("whole")

CaptureEnds  == unread = {} /\ StopWorker("whole")
CaptureStops == unread # {} /\ (expired \/ cancel) /\ StopWorker("failed")
CaptureFails == unread # {} /\ Faults /\ StopWorker("failed")

-----------------------------------------------------------------------------
Running(p) == Alive(p) /\ p \notin dying

Fork ==
  /\ \E p \in Procs, q \in Descendants :
       /\ Running(p) /\ life[q] = "none"
       /\ life' = [life EXCEPT ![q] = "alive"]
       /\ group' = IF p \in group THEN group \cup {q} ELSE group
       /\ holds' = [holds EXCEPT ![q] = holds[p]]
  /\ UNCHANGED <<expired, caller, threads, dying, own, stray>>

LeaveGroup ==
  /\ \E p \in group : Running(p) /\ group' = group \ {p}
  /\ UNCHANGED <<expired, caller, threads, life, holds, dying, own, stray>>

ClosePipe ==
  /\ \E p \in Procs, pipe \in Pipes :
       /\ Running(p) /\ pipe \in holds[p]
       /\ holds' = [holds EXCEPT ![p] = @ \ {pipe}]
  /\ UNCHANGED <<expired, caller, threads, life, group, dying, own, stray>>

\* A process that exits closes its pipes; somebody reaps a descendant.
Exits(p) ==
  /\ Alive(p)
  /\ life' = [life EXCEPT ![p] = IF p = Leader THEN "zombie" ELSE "gone"]
  /\ holds' = [holds EXCEPT ![p] = {}]
  /\ own' = IF p = Leader THEN p \notin dying /\ ~expired ELSE own
  /\ UNCHANGED <<expired, caller, threads, group, dying, stray>>

Exit == \E p \in Procs : Exits(p)
Die  == \E p \in dying : Exits(p)

Expire ==
  /\ ~expired
  /\ expired' = TRUE
  /\ UNCHANGED <<caller, threads, procs>>

-----------------------------------------------------------------------------
Caller ==
  \/ StartRefused \/ Start \/ StartDrain \/ StartObserver
  \/ WaitExpires \/ WaitExit \/ WaitOutput \/ JoinStreams
  \/ Terminate \/ TerminateClosed \/ KillGroup \/ KillLeader \/ JoinObserver \/ Reap
  \/ Collect \/ Judge \/ Cancel \/ JoinWorker
Worker == ReadToEnd \/ CaptureEnds \/ CaptureStops
Fault  == StartFails \/ SetupFails \/ SignalFails \/ ObserveFails \/ ReapFails \/ CaptureFails

Next ==
  \/ Caller \/ Observe \/ Worker \/ Fault
  \/ Fork \/ LeaveGroup \/ ClosePipe \/ Exit \/ Expire

Spec == Init /\ [][Next]_vars

\* Threads are scheduled and SIGKILL works; nothing else needs to happen, not
\* even the deadline.
FairSpec ==
  Spec /\ WF_vars(Caller) /\ WF_vars(Observe) /\ WF_vars(Worker) /\ WF_vars(Die)

-----------------------------------------------------------------------------
\* No signal goes to the group or the process of an id that was reaped (output:
\* "NOWAIT retains the original leader until all group signals have finished").
NoStraySignal == ~stray

\* A success is the command's own exit before the deadline, and its output is
\* all of it: no process holds a pipe any more.
SuccessIsWhole ==
  result = "ok" =>
    /\ own
    /\ mode = "output" => \A p \in Procs : holds[p] = {}

\* Nothing of the command's group outlives the call but what is being killed,
\* also after a success, unless signalling itself failed.
GroupIsKilled ==
  pc = "ended" /\ ~unsignalled =>
    \A p \in group : Alive(p) => p \in dying

\* Both threads are joined and the command is reaped, however the call ends;
\* only a failing system call leaves the command.
NothingIsDetached ==
  pc = "ended" =>
    /\ observer \in {"none", "joined"} /\ worker \in {"none", "joined"}
    /\ life[Leader] \in {"none", "gone"} \/ broken

\* So nothing is left of a call that returned, neither a process of its group that
\* is not being killed nor a thread, but for what a failing system call leaves.
NothingIsLeft == GroupIsKilled /\ NothingIsDetached

\* After the deadline or an error the call returns, whoever holds the pipes or
\* left the group, unless the command cannot be signalled.
CommandEnds ==
  (expired \/ result = "failed") /\ pc # "start" ~> pc = "ended" \/ unsignalled
=============================================================================
