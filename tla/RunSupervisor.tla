--------------------------- MODULE RunSupervisor ---------------------------
(***************************************************************************)
(* The private supervisor of `stackstead run` on Linux: it holds the run   *)
(* lease, starts the command as its direct child (the leader of a process  *)
(* group), and ends it and every process it left behind before the lease   *)
(* goes.  The command's processes fork, leave the group, reap each other   *)
(* and exit whenever they like; the wrapper that started the supervisor    *)
(* may die at any time, which closes the control socket.                   *)
(*                                                                         *)
(* A process that got SIGKILL runs no further code of its own and becomes  *)
(* a zombie later; SIGTERM does nothing a process could not do anyway.     *)
(* The supervisor itself is not killed, and SIGCHLD has the default policy *)
(* it demands before it starts anything, so no wait reports ECHILD.        *)
(***************************************************************************)
EXTENDS Naturals, FiniteSets

CONSTANTS Leader,       \* the direct child
          Descendants,  \* the processes it may fork, directly or not
          Passes,       \* rounds of one cleanup, 25 in the code
          Faults        \* system calls may fail

ASSUME LeaderAssumption == Leader \notin Descendants
ASSUME SupervisorAssumption == "supervisor" \notin Descendants \cup {Leader}
ASSUME PassesAssumption == Passes \in Nat
ASSUME FaultsAssumption == Faults \in BOOLEAN

Procs      == {Leader} \cup Descendants
\* a parent that is not one of the command's processes
Supervisor == "supervisor"

VARIABLES
  pc,         \* next step of the supervisor
  open,       \* the wrapper's end of the control socket is open
  observer,   \* the exit observer thread: none, watching or done
  signalable, \* TargetGuard.signalable
  skip,       \* the group needs no final signal
  cancelled,  \* the run was cancelled before its command exited
  failed,     \* an error will be returned
  dropping,   \* in the fallback of TargetGuard::drop
  pass,       \* cleanup rounds left
  listed,     \* adopted children of this round not yet signalled
  lease,      \* the run lease is held
  life,       \* none, alive, zombie or gone
  parent,     \* whose child a process is
  group,      \* the processes in the original group
  dying,      \* the processes that got SIGKILL
  touched,    \* the processes signalled while they were alive
  status,     \* the leader's status was consumed by Child::wait
  stray       \* a signal went to an id that was already reaped

control == <<open, observer, signalable, skip, cancelled, failed, dropping, pass, listed, lease>>
procs   == <<life, parent, group, dying, touched, status, stray>>
vars    == <<pc, control, procs>>

PCs == {"start", "observe", "wait", "graceful", "grace", "kill", "join", "reapLeader",
        "reap", "list", "signal", "ended"}

TypeOK ==
  /\ pc \in PCs
  /\ open \in BOOLEAN /\ observer \in {"none", "watching", "done"}
  /\ signalable \in BOOLEAN /\ skip \in BOOLEAN /\ cancelled \in BOOLEAN
  /\ failed \in BOOLEAN /\ dropping \in BOOLEAN
  /\ pass \in 0..Passes /\ listed \subseteq Procs /\ lease \in BOOLEAN
  /\ life \in [Procs -> {"none", "alive", "zombie", "gone"}]
  /\ parent \in [Procs -> Procs \cup {Supervisor}]
  /\ group \subseteq Procs /\ dying \subseteq Procs /\ touched \subseteq Procs
  /\ status \in BOOLEAN /\ stray \in BOOLEAN

Init ==
  /\ pc = "start" /\ open = TRUE /\ observer = "none"
  /\ signalable = TRUE /\ skip = FALSE /\ cancelled = FALSE /\ failed = FALSE
  /\ dropping = FALSE /\ pass = 0 /\ listed = {} /\ lease = TRUE
  /\ life = [p \in Procs |-> "none"]
  /\ parent = [p \in Procs |-> Supervisor]
  /\ group = {} /\ dying = {} /\ touched = {} /\ status = FALSE /\ stray = FALSE

-----------------------------------------------------------------------------
Present(p) == life[p] \in {"alive", "zombie"}

\* Mutant: what left the group is not looked for.
ChildrenInGroup == {p \in group : Present(p) /\ parent[p] = Supervisor}

\* The ids in /proc/self/task/<pid>/children
Children == {p \in Procs : Present(p) /\ parent[p] = Supervisor}

\* observe(pid, nonblocking): waitid with NOWAIT
Exited == life[Leader] = "zombie"

\* Linux: the subreaper has adopted whatever the leader left behind.
LeaderIsAlone == Children = {Leader}

\* What a signal to the original group and to the direct child reaches.
GroupAlive  == {p \in group : life[p] = "alive"}
LeaderAlive == {p \in {Leader} : life[p] = "alive"}

\* The process ends: the lease's descriptor closes with it.
End == pc' = "ended" /\ lease' = FALSE

\* TargetGuard is dropped before it settled: complete(Ok(false)).
Drop == pc' = "kill" /\ dropping' = TRUE /\ failed' = TRUE /\ skip' = FALSE

-----------------------------------------------------------------------------
\* run: a wrapper that is gone already starts nothing; a spawn may fail.
StartCancelled ==
  /\ pc = "start"
  /\ \/ ~open /\ cancelled' = TRUE /\ UNCHANGED failed
     \/ Faults /\ failed' = TRUE /\ UNCHANGED cancelled
  /\ End
  /\ UNCHANGED <<open, observer, signalable, skip, dropping, pass, listed, procs>>

Start ==
  /\ pc = "start"
  /\ open
  /\ pc' = "observe"
  /\ life' = [life EXCEPT ![Leader] = "alive"]
  /\ group' = {Leader}
  /\ UNCHANGED <<control, parent, dying, touched, status, stray>>

StartObserver ==
  /\ pc = "observe"
  /\ pc' = "wait"
  /\ observer' = "watching"
  /\ UNCHANGED <<open, signalable, skip, cancelled, failed, dropping, pass, listed, lease, procs>>

\* The observer thread: a blocking waitid that consumes nothing.
Observe ==
  /\ observer = "watching"
  /\ Exited
  /\ observer' = "done"
  /\ UNCHANGED <<pc, open, signalable, skip, cancelled, failed, dropping, pass, listed, lease, procs>>

\* Mutant: the end of the control socket passes for the end of the command.
WaitUndecided ==
  /\ pc = "wait"
  /\ observer = "done" \/ ~open
  /\ cancelled' = FALSE
  /\ pc' = "graceful"
  /\ UNCHANGED <<open, observer, signalable, skip, failed, dropping, pass, listed, lease, procs>>

\* Observer::wait: completion wins; at the end of the control socket the run is
\* cancelled unless its command has exited by then.
Wait ==
  /\ pc = "wait"
  /\ \/ observer = "done" /\ cancelled' = FALSE
     \/ ~open /\ cancelled' = ~Exited
  /\ pc' = "graceful"
  /\ UNCHANGED <<open, observer, signalable, skip, failed, dropping, pass, listed, lease, procs>>

\* start_observer or wait fails: the guard is dropped.
ObserveFails ==
  /\ pc \in {"observe", "wait"}
  /\ Faults
  /\ Drop
  /\ UNCHANGED <<open, observer, signalable, cancelled, pass, listed, lease, procs>>

-----------------------------------------------------------------------------
\* graceful, first return: exited, and nothing is left behind.
GracefulAlone ==
  /\ pc = "graceful"
  /\ Exited
  /\ LeaderIsAlone
  /\ pc' = "kill"
  /\ skip' = TRUE
  /\ UNCHANGED <<open, observer, signalable, cancelled, failed, dropping, pass, listed, lease, procs>>

\* SIGTERM to the group, and to a cancelled command wherever it is.
GracefulTerm ==
  /\ pc = "graceful"
  /\ ~(Exited /\ LeaderIsAlone)
  /\ touched' = touched \cup GroupAlive \cup IF cancelled THEN LeaderAlive ELSE {}
  /\ stray' = (stray \/ life[Leader] = "gone")
  /\ pc' = "grace"
  /\ UNCHANGED <<control, life, parent, group, dying, status>>

\* The grace period: to its deadline, or to the exit of a cancelled command.
Grace ==
  /\ pc = "grace"
  /\ pc' = "kill"
  /\ UNCHANGED <<control, procs>>

\* graceful fails; complete goes on and returns the error at the end.
GracefulFails ==
  /\ pc = "graceful"
  /\ Faults
  /\ pc' = "kill"
  /\ failed' = TRUE
  /\ UNCHANGED <<open, observer, signalable, skip, cancelled, dropping, pass, listed, lease, procs>>

\* Mutant: the direct child is not signalled outside the group.
KillTargetsGroup == IF skip /\ Exited THEN {} ELSE GroupAlive

\* What the final SIGKILL is meant for.
KillTargets == IF skip /\ Exited THEN {} ELSE GroupAlive \cup LeaderAlive

\* kill_and_close: authority is closed first; any part of the batch may fail.
KillAndClose ==
  /\ pc = "kill"
  /\ signalable
  /\ signalable' = FALSE
  /\ stray' = (stray \/ life[Leader] = "gone")
  /\ \E hit \in IF Faults THEN SUBSET KillTargets ELSE {KillTargets} :
       /\ dying' = dying \cup hit
       /\ touched' = touched \cup hit
       /\ failed' \in {failed, failed \/ hit # KillTargets}
       /\ Leader \in KillTargets \ hit => failed'
  /\ pc' = "join"
  /\ UNCHANGED <<open, observer, skip, cancelled, dropping, pass, listed, lease,
                 life, parent, group, status>>

\* Mutant: the fallback signals the group again, whatever was closed.
KillClosedAgain ==
  /\ pc = "kill"
  /\ ~signalable
  /\ stray' = (stray \/ life[Leader] = "gone")
  /\ pc' = "join"
  /\ UNCHANGED <<control, life, parent, group, dying, touched, status>>

\* Signalling stays closed in the fallback.
KillClosed ==
  /\ pc = "kill"
  /\ ~signalable
  /\ pc' = "join"
  /\ UNCHANGED <<control, procs>>

-----------------------------------------------------------------------------

\* settle: the observer thread is joined where there is one.
Join ==
  /\ pc = "join"
  /\ observer # "watching"
  /\ pc' = "reapLeader"
  /\ UNCHANGED <<control, procs>>

\* Mutant: the child is polled, not waited for (try_wait).
ReapLeaderPolling ==
  /\ pc = "reapLeader"
  /\ life' = [life EXCEPT ![Leader] = IF Exited THEN "gone" ELSE @]
  /\ status' = TRUE
  /\ pass' = Passes
  /\ pc' = "reap"
  /\ UNCHANGED <<open, observer, signalable, skip, cancelled, failed, dropping, listed, lease,
                 parent, group, dying, touched, stray>>

\* Child::wait, which remembers a status it has consumed.
ReapLeader ==
  /\ pc = "reapLeader"
  /\ Exited \/ status
  /\ life' = [life EXCEPT ![Leader] = "gone"]
  /\ status' = TRUE
  /\ pass' = Passes
  /\ pc' = "reap"
  /\ UNCHANGED <<open, observer, signalable, skip, cancelled, failed, dropping, listed, lease,
                 parent, group, dying, touched, stray>>

\* reap_children: every child that has exited by now.
Reap ==
  /\ pc = "reap"
  /\ life' = [p \in Procs |->
                IF life[p] = "zombie" /\ parent[p] = Supervisor THEN "gone" ELSE life[p]]
  /\ pc' = "list"
  /\ UNCHANGED <<control, parent, group, dying, touched, status, stray>>

\* Nothing is left: settled.
CleanedUp ==
  /\ pc = "list"
  /\ Children = {}
  /\ End
  /\ UNCHANGED <<open, observer, signalable, skip, cancelled, failed, dropping, pass, listed, procs>>

List ==
  /\ pc = "list"
  /\ Children # {}
  /\ pass > 0
  /\ pass' = pass - 1
  /\ listed' = Children
  /\ pc' = "signal"
  /\ UNCHANGED <<open, observer, signalable, skip, cancelled, failed, dropping, lease, procs>>

\* SIGKILL to each listed child, then 20 ms of sleep.
SignalChild ==
  /\ pc = "signal"
  /\ \E c \in listed :
       /\ listed' = listed \ {c}
       /\ stray' = (stray \/ life[c] = "gone")
       /\ dying' = dying \cup {x \in {c} : life[c] = "alive"}
       /\ touched' = touched \cup {x \in {c} : life[c] = "alive"}
  /\ pc' = IF listed' = {} THEN "reap" ELSE "signal"
  /\ UNCHANGED <<open, observer, signalable, skip, cancelled, failed, dropping, pass, lease,
                 life, parent, group, status>>

\* A failed system call, or children left after the last round.  The guard is
\* not settled: finish returns the error and the drop tries once more.
CleanupFails ==
  /\ \/ pc \in {"reap", "list", "signal"} /\ Faults
     \/ pc = "list" /\ pass = 0 /\ Children # {}
  /\ listed' = {}
  /\ \/ ~dropping /\ Drop /\ UNCHANGED lease
     \/ dropping /\ End /\ failed' = TRUE /\ UNCHANGED <<dropping, skip>>
  /\ UNCHANGED <<open, observer, signalable, cancelled, pass, procs>>

-----------------------------------------------------------------------------
\* The wrapper dies, and with it its end of the control socket.
WrapperDies ==
  /\ pc # "ended"
  /\ open
  /\ open' = FALSE
  /\ UNCHANGED <<pc, observer, signalable, skip, cancelled, failed, dropping, pass, listed, lease, procs>>

Fork(p) ==
  /\ pc # "ended"
  /\ life[p] = "alive" /\ p \notin dying
  /\ \E d \in Descendants :
       /\ life[d] = "none"
       /\ life' = [life EXCEPT ![d] = "alive"]
       /\ parent' = [parent EXCEPT ![d] = p]
       /\ group' = group \cup {x \in {d} : p \in group}
  /\ UNCHANGED <<pc, control, dying, touched, status, stray>>

\* setsid or setpgid
LeaveGroup(p) ==
  /\ pc # "ended"
  /\ life[p] = "alive" /\ p \in group \ dying
  /\ group' = group \ {p}
  /\ UNCHANGED <<pc, control, life, parent, dying, touched, status, stray>>

\* A process exits; the subreaper adopts its children.
Exit(p) ==
  /\ pc # "ended"
  /\ life[p] = "alive"
  /\ life' = [life EXCEPT ![p] = "zombie"]
  /\ parent' = [q \in Procs |-> IF parent[q] = p THEN Supervisor ELSE parent[q]]
  /\ UNCHANGED <<pc, control, group, dying, touched, status, stray>>

\* A process of the command reaps its own child.
ReapOwn(p) ==
  /\ pc # "ended"
  /\ life[p] = "zombie"
  /\ parent[p] \in Procs
  /\ parent[p] \notin dying
  /\ life' = [life EXCEPT ![p] = "gone"]
  /\ UNCHANGED <<pc, control, parent, group, dying, touched, status, stray>>

-----------------------------------------------------------------------------
Step ==
  \/ StartCancelled \/ Start \/ StartObserver \/ Wait \/ ObserveFails
  \/ GracefulAlone \/ GracefulTerm \/ Grace \/ GracefulFails
  \/ KillAndClose \/ KillClosed
  \/ Join \/ ReapLeader \/ Reap \/ CleanedUp \/ List \/ SignalChild \/ CleanupFails

Next ==
  \/ Step
  \/ Observe
  \/ WrapperDies
  \/ \E p \in Procs : Fork(p) \/ LeaveGroup(p) \/ Exit(p) \/ ReapOwn(p)

Spec == Init /\ [][Next]_vars

\* The supervisor and its observer run, and a process that got SIGKILL exits.
\* No system call has to fail, but a cleanup gives up after its last round.
FairSpec ==
  /\ Spec
  /\ WF_vars(Step /\ (failed' = failed \/ pc = "list")) /\ WF_vars(Observe)
  /\ \A p \in Procs : WF_vars(p \in dying /\ Exit(p))

-----------------------------------------------------------------------------
\* However the run ends, with whatever error, the lease outlives the command:
\* a command that cannot be killed keeps the environment (settle's wait).
LeaseOutlivesCommand == ~lease => life[Leader] \in {"none", "gone"}

\* A run that reports no error has left no process behind, not even one that
\* detached itself: a later destroy meets nothing of it (leader_is_alone,
\* cleanup_adopted_children).
CleanEndLeavesNothing ==
  pc = "ended" /\ ~failed => \A p \in Procs : ~Present(p)

\* The supervisor signals an id only while that process, alive or zombie, holds
\* it, so no signal can reach a process that got the id later (signalable).
NoStraySignal == ~stray

\* The status reported as the command's own is that of a command the supervisor
\* did not signal, whatever races with its exit (Observer::wait).
StatusIsOwn == pc = "ended" /\ ~failed /\ ~cancelled => Leader \notin touched

\* Only Child::wait consumes the leader's status; the broad reap of adopted
\* children never takes it.
StatusKept == life[Leader] = "gone" => status

\* A command that exits or loses its wrapper ends the supervision, whatever its
\* processes do, unless a system call of the shutdown fails.
SupervisionEnds ==
  pc = "wait" /\ (Exited \/ ~open) ~> pc = "ended" \/ failed
=============================================================================
