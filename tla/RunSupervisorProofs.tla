------------------------ MODULE RunSupervisorProofs ------------------------
(***************************************************************************)
(* Proofs about RunSupervisor: its invariants hold for any set of          *)
(* descendants, any number of cleanup rounds, with or without faults.      *)
(***************************************************************************)
EXTENDS RunSupervisor, TLAPS

-----------------------------------------------------------------------------
\* Where signalling is open, where it is closed, and what is known there.
PhaseInv ==
  /\ pc = "start" => \A p \in Procs : life[p] = "none"
  /\ pc \in {"start", "observe", "wait", "graceful", "grace"} => signalable
  /\ pc \in {"join", "reapLeader", "reap", "list", "signal"} => ~signalable
  /\ pc \notin {"start", "ended"} => life[Leader] # "none"
  /\ pc \in {"reap", "list", "signal"} => status
  /\ pc = "ended" => life[Leader] \in {"none", "gone"}
  /\ lease <=> pc # "ended"

\* The leader stays the supervisor's child until the supervisor reaps it, with
\* signalling closed for good.
LeaderInv ==
  /\ parent[Leader] = Supervisor
  /\ status <=> life[Leader] = "gone"
  /\ status => ~signalable
  /\ observer = "done" => life[Leader] \in {"zombie", "gone"}

\* What the supervisor signalled, and when it may have been the leader.
SignalInv ==
  /\ pc = "signal" => listed \subseteq Children
  /\ Leader \in touched => pc \notin {"start", "observe", "wait"} /\ (failed \/ cancelled)
  /\ pc \in {"start", "observe", "wait"} => ~cancelled /\ ~dropping
  /\ pc \notin {"start", "observe", "wait", "ended"} /\ ~failed /\ ~cancelled =>
       life[Leader] \in {"zombie", "gone"}

\* The processes form trees below the supervisor: the parent of a process lives,
\* and every set of processes has one whose parent is outside.
TreeInv ==
  /\ \A p \in Procs : Present(p) /\ parent[p] # Supervisor => life[parent[p]] = "alive"
  /\ \A S \in SUBSET Procs :
       S # {} /\ (\A p \in S : Present(p)) => \E p \in S : parent[p] \notin S

\* TypeOK in two parts: the flags, and the rest.
Flags ==
  /\ open \in BOOLEAN /\ signalable \in BOOLEAN /\ skip \in BOOLEAN /\ cancelled \in BOOLEAN
  /\ failed \in BOOLEAN /\ dropping \in BOOLEAN /\ lease \in BOOLEAN
  /\ status \in BOOLEAN /\ stray \in BOOLEAN

Shapes ==
  /\ pc \in PCs
  /\ observer \in {"none", "watching", "done"}
  /\ pass \in 0..Passes /\ listed \subseteq Procs
  /\ life \in [Procs -> {"none", "alive", "zombie", "gone"}]
  /\ parent \in [Procs -> Procs \cup {Supervisor}]
  /\ group \subseteq Procs /\ dying \subseteq Procs /\ touched \subseteq Procs

IInv ==
  /\ TypeOK /\ PhaseInv /\ LeaderInv /\ SignalInv /\ TreeInv
  /\ NoStraySignal /\ CleanEndLeavesNothing

USE DEF Procs, Supervisor

-----------------------------------------------------------------------------
LEMMA TypeParts == TypeOK <=> Flags /\ Shapes
BY DEF TypeOK, Flags, Shapes

LEMMA IInvInit == Init => IInv
<1> SUFFICES ASSUME Init PROVE IInv
  OBVIOUS
<1> USE PassesAssumption, LeaderAssumption, SupervisorAssumption DEF Init
<1>1. TypeOK
  <2>1. Flags
    BY Zenon DEF Flags
  <2>2. Shapes
    BY DEF Shapes, PCs
  <2> QED BY <2>1, <2>2, TypeParts
<1>2. PhaseInv /\ LeaderInv /\ SignalInv
  BY DEF PhaseInv, LeaderInv, SignalInv
<1>3. TreeInv
  BY DEF TreeInv, Present
<1>4. NoStraySignal /\ CleanEndLeavesNothing
  BY DEF NoStraySignal, CleanEndLeavesNothing
<1> QED BY <1>1, <1>2, <1>3, <1>4 DEF IInv

LEMMA FlagsStep == Flags /\ [Next]_vars => Flags'
<1> SUFFICES ASSUME Flags, [Next]_vars PROVE Flags'
  OBVIOUS
<1> USE DEF Flags
<1>1. CASE StartCancelled
  BY <1>1, Zenon DEF StartCancelled, End, procs
<1>2. CASE Start
  BY <1>2, Zenon DEF Start, control
<1>3. CASE StartObserver \/ Wait \/ Observe \/ WrapperDies
  BY <1>3, Zenon DEF StartObserver, Wait, Observe, WrapperDies, procs
<1>4. CASE ObserveFails \/ GracefulAlone \/ Grace \/ GracefulFails
  BY <1>4, Zenon DEF ObserveFails, Drop, GracefulAlone, Grace, GracefulFails, procs, control
<1>5. CASE GracefulTerm
  BY <1>5, Zenon DEF GracefulTerm, control
<1>6. CASE KillAndClose
  BY <1>6, Zenon DEF KillAndClose
<1>7. CASE KillClosed \/ Join
  BY <1>7, Zenon DEF KillClosed, Join, procs, control
<1>8. CASE ReapLeader \/ Reap
  BY <1>8, Zenon DEF ReapLeader, Reap, control
<1>9. CASE CleanedUp \/ CleanupFails
  BY <1>9, Zenon DEF CleanedUp, CleanupFails, End, Drop, procs
<1>10. CASE List
  BY <1>10, Zenon DEF List, procs
<1>11. CASE SignalChild
  BY <1>11, Zenon DEF SignalChild
<1>12. ASSUME NEW p \in Procs, Fork(p) \/ LeaveGroup(p) \/ Exit(p) \/ ReapOwn(p) PROVE Flags'
  BY <1>12, Zenon DEF Fork, LeaveGroup, Exit, ReapOwn, control
<1>13. CASE UNCHANGED vars
  BY <1>13, Zenon DEF vars, control, procs
<1> QED BY <1>1, <1>2, <1>3, <1>4, <1>5, <1>6, <1>7, <1>8, <1>9, <1>10, <1>11, <1>12,
           <1>13 DEF Next, Step

LEMMA ShapesStep == Shapes /\ [Next]_vars => Shapes'
<1> SUFFICES ASSUME Shapes, [Next]_vars PROVE Shapes'
  OBVIOUS
<1> USE PassesAssumption, LeaderAssumption, SupervisorAssumption DEF Shapes, PCs
<1>1. CASE StartCancelled
  BY <1>1 DEF StartCancelled, End, procs
<1>2. CASE Start
  BY <1>2 DEF Start, control
<1>3. CASE StartObserver \/ Wait \/ Observe \/ WrapperDies
  BY <1>3 DEF StartObserver, Wait, Observe, WrapperDies, procs
<1>4. CASE ObserveFails \/ GracefulAlone \/ Grace \/ GracefulFails
  BY <1>4 DEF ObserveFails, Drop, GracefulAlone, Grace, GracefulFails, procs, control
<1>5. CASE GracefulTerm
  BY <1>5 DEF GracefulTerm, GroupAlive, LeaderAlive, control
<1>6. CASE KillAndClose
  <2>1. KillTargets \subseteq Procs
    BY DEF KillTargets, GroupAlive, LeaderAlive
  <2>2. PICK hit \in SUBSET KillTargets : dying' = dying \cup hit /\ touched' = touched \cup hit
    BY <1>6 DEF KillAndClose
  <2>3. dying' \subseteq Procs /\ touched' \subseteq Procs
    BY <2>1, <2>2
  <2> QED BY <1>6, <2>3 DEF KillAndClose
<1>7. CASE KillClosed \/ Join
  BY <1>7 DEF KillClosed, Join, procs, control
<1>8. CASE ReapLeader \/ Reap
  BY <1>8 DEF ReapLeader, Reap, control
<1>9. CASE CleanedUp \/ CleanupFails
  BY <1>9 DEF CleanedUp, CleanupFails, End, Drop, procs
<1>10. CASE List
  BY <1>10 DEF List, Children, procs
<1>11. CASE SignalChild
  BY <1>11 DEF SignalChild
<1>12. ASSUME NEW p \in Procs, Fork(p) PROVE Shapes'
  BY <1>12 DEF Fork, control
<1>13. ASSUME NEW p \in Procs, LeaveGroup(p) \/ Exit(p) \/ ReapOwn(p) PROVE Shapes'
  BY <1>13 DEF LeaveGroup, Exit, ReapOwn, control
<1>14. CASE UNCHANGED vars
  BY <1>14 DEF vars, control, procs
<1> QED BY <1>1, <1>2, <1>3, <1>4, <1>5, <1>6, <1>7, <1>8, <1>9, <1>10, <1>11, <1>12,
           <1>13, <1>14 DEF Next, Step

LEMMA PhaseStep == Shapes /\ Flags /\ PhaseInv /\ LeaderInv /\ [Next]_vars => PhaseInv'
<1> SUFFICES ASSUME Shapes, Flags, PhaseInv, LeaderInv, [Next]_vars PROVE PhaseInv'
  OBVIOUS
<1> USE LeaderAssumption, SupervisorAssumption DEF Shapes, PhaseInv, LeaderInv, Exited
<1>1. CASE StartCancelled
  BY <1>1 DEF StartCancelled, End, procs
<1>2. CASE Start
  BY <1>2 DEF Start, control
<1>3. CASE StartObserver
  BY <1>3 DEF StartObserver, procs
<1>4. CASE Wait
  BY <1>4 DEF Wait, procs
<1>5. CASE Observe
  BY <1>5 DEF Observe, procs
<1>6. CASE WrapperDies
  BY <1>6 DEF WrapperDies, procs
<1>7. CASE ObserveFails
  BY <1>7 DEF ObserveFails, Drop, procs
<1>8. CASE GracefulAlone
  BY <1>8 DEF GracefulAlone, procs
<1>9. CASE GracefulTerm
  BY <1>9 DEF GracefulTerm, GroupAlive, LeaderAlive, control
<1>10. CASE Grace
  BY <1>10 DEF Grace, control, procs
<1>11. CASE GracefulFails
  BY <1>11 DEF GracefulFails, procs
<1>12. CASE KillAndClose
  BY <1>12 DEF KillAndClose
<1>13. CASE KillClosed
  BY <1>13 DEF KillClosed, control, procs
<1>14. CASE Join
  BY <1>14 DEF Join, control, procs
<1>15. CASE ReapLeader
  BY <1>15 DEF ReapLeader
<1>16. CASE Reap
  BY <1>16 DEF Reap, control
<1>17. CASE CleanedUp
  BY <1>17 DEF CleanedUp, End, procs
<1>18. CASE List
  BY <1>18 DEF List, procs
<1>19. CASE SignalChild
  BY <1>19 DEF SignalChild
<1>20. CASE CleanupFails
  BY <1>20 DEF CleanupFails, End, Drop, procs
<1>21. ASSUME NEW p \in Procs, Fork(p) PROVE PhaseInv'
  BY <1>21 DEF Fork, control
<1>22. ASSUME NEW p \in Procs, LeaveGroup(p) PROVE PhaseInv'
  BY <1>22 DEF LeaveGroup, control
<1>23. ASSUME NEW p \in Procs, Exit(p) PROVE PhaseInv'
  BY <1>23 DEF Exit, control
<1>24. ASSUME NEW p \in Procs, ReapOwn(p) PROVE PhaseInv'
  BY <1>24 DEF ReapOwn, control
<1>25. CASE UNCHANGED vars
  BY <1>25 DEF vars, control, procs
<1> QED BY <1>1, <1>2, <1>3, <1>4, <1>5, <1>6, <1>7, <1>8, <1>9, <1>10, <1>11, <1>12, <1>13, <1>14, <1>15,
           <1>16, <1>17, <1>18, <1>19, <1>20, <1>21, <1>22, <1>23, <1>24, <1>25 DEF Next, Step

LEMMA LeaderStep == Shapes /\ Flags /\ PhaseInv /\ LeaderInv /\ [Next]_vars => LeaderInv'
<1> SUFFICES ASSUME Shapes, Flags, PhaseInv, LeaderInv, [Next]_vars PROVE LeaderInv'
  OBVIOUS
<1> USE LeaderAssumption, SupervisorAssumption DEF Shapes, PhaseInv, LeaderInv, Exited
<1>1. CASE StartCancelled
  BY <1>1 DEF StartCancelled, End, procs
<1>2. CASE Start
  BY <1>2 DEF Start, control
<1>3. CASE StartObserver
  BY <1>3 DEF StartObserver, procs
<1>4. CASE Wait
  BY <1>4 DEF Wait, procs
<1>5. CASE Observe
  BY <1>5 DEF Observe, procs
<1>6. CASE WrapperDies
  BY <1>6 DEF WrapperDies, procs
<1>7. CASE ObserveFails
  BY <1>7 DEF ObserveFails, Drop, procs
<1>8. CASE GracefulAlone
  BY <1>8 DEF GracefulAlone, procs
<1>9. CASE GracefulTerm
  BY <1>9 DEF GracefulTerm, GroupAlive, LeaderAlive, control
<1>10. CASE Grace
  BY <1>10 DEF Grace, control, procs
<1>11. CASE GracefulFails
  BY <1>11 DEF GracefulFails, procs
<1>12. CASE KillAndClose
  BY <1>12 DEF KillAndClose
<1>13. CASE KillClosed
  BY <1>13 DEF KillClosed, control, procs
<1>14. CASE Join
  BY <1>14 DEF Join, control, procs
<1>15. CASE ReapLeader
  BY <1>15 DEF ReapLeader
<1>16. CASE Reap
  BY <1>16 DEF Reap, control
<1>17. CASE CleanedUp
  BY <1>17 DEF CleanedUp, End, procs
<1>18. CASE List
  BY <1>18 DEF List, procs
<1>19. CASE SignalChild
  BY <1>19 DEF SignalChild
<1>20. CASE CleanupFails
  BY <1>20 DEF CleanupFails, End, Drop, procs
<1>21. ASSUME NEW p \in Procs, Fork(p) PROVE LeaderInv'
  BY <1>21 DEF Fork, control
<1>22. ASSUME NEW p \in Procs, LeaveGroup(p) PROVE LeaderInv'
  BY <1>22 DEF LeaveGroup, control
<1>23. ASSUME NEW p \in Procs, Exit(p) PROVE LeaderInv'
  BY <1>23 DEF Exit, control
<1>24. ASSUME NEW p \in Procs, ReapOwn(p) PROVE LeaderInv'
  BY <1>24 DEF ReapOwn, control
<1>25. CASE UNCHANGED vars
  BY <1>25 DEF vars, control, procs
<1> QED BY <1>1, <1>2, <1>3, <1>4, <1>5, <1>6, <1>7, <1>8, <1>9, <1>10, <1>11, <1>12, <1>13, <1>14, <1>15,
           <1>16, <1>17, <1>18, <1>19, <1>20, <1>21, <1>22, <1>23, <1>24, <1>25 DEF Next, Step

LEMMA SignalStep == Shapes /\ Flags /\ PhaseInv /\ LeaderInv /\ SignalInv /\ [Next]_vars => SignalInv'
<1> SUFFICES ASSUME Shapes, Flags, PhaseInv, LeaderInv, SignalInv, [Next]_vars PROVE SignalInv'
  OBVIOUS
<1> USE LeaderAssumption, SupervisorAssumption DEF Shapes, PhaseInv, LeaderInv, SignalInv, Exited, Children, Present
<1>1. CASE StartCancelled
  BY <1>1 DEF StartCancelled, End, procs
<1>2. CASE Start
  BY <1>2 DEF Start, control
<1>3. CASE StartObserver
  BY <1>3 DEF StartObserver, procs
<1>4. CASE Wait
  BY <1>4 DEF Wait, procs
<1>5. CASE Observe
  BY <1>5 DEF Observe, procs
<1>6. CASE WrapperDies
  BY <1>6 DEF WrapperDies, procs
<1>7. CASE ObserveFails
  BY <1>7 DEF ObserveFails, Drop, procs
<1>8. CASE GracefulAlone
  BY <1>8 DEF GracefulAlone, procs
<1>9. CASE GracefulTerm
  BY <1>9 DEF GracefulTerm, GroupAlive, LeaderAlive, control
<1>10. CASE Grace
  BY <1>10 DEF Grace, control, procs
<1>11. CASE GracefulFails
  BY <1>11 DEF GracefulFails, procs
<1>12. CASE KillAndClose
  <2>1. ~failed /\ ~cancelled => Leader \notin KillTargets
    BY <1>12 DEF KillAndClose, KillTargets, GroupAlive, LeaderAlive
  <2>2. PICK hit \in SUBSET KillTargets :
          touched' = touched \cup hit /\ failed' \in {failed, failed \/ hit # KillTargets}
    BY <1>12 DEF KillAndClose
  <2>3. failed => failed'
    BY <2>2
  <2>4. Leader \in touched' => failed' \/ cancelled'
    BY <1>12, <2>1, <2>2, <2>3 DEF KillAndClose
  <2> QED BY <1>12, <2>3, <2>4 DEF KillAndClose
<1>13. CASE KillClosed
  BY <1>13 DEF KillClosed, control, procs
<1>14. CASE Join
  BY <1>14 DEF Join, control, procs
<1>15. CASE ReapLeader
  BY <1>15 DEF ReapLeader
<1>16. CASE Reap
  BY <1>16 DEF Reap, control
<1>17. CASE CleanedUp
  BY <1>17 DEF CleanedUp, End, procs
<1>18. CASE List
  BY <1>18 DEF List, procs
<1>19. CASE SignalChild
  BY <1>19 DEF SignalChild
<1>20. CASE CleanupFails
  BY <1>20 DEF CleanupFails, End, Drop, procs
<1>21. ASSUME NEW p \in Procs, Fork(p) PROVE SignalInv'
  BY <1>21 DEF Fork, control
<1>22. ASSUME NEW p \in Procs, LeaveGroup(p) PROVE SignalInv'
  BY <1>22 DEF LeaveGroup, control
<1>23. ASSUME NEW p \in Procs, Exit(p) PROVE SignalInv'
  BY <1>23 DEF Exit, control
<1>24. ASSUME NEW p \in Procs, ReapOwn(p) PROVE SignalInv'
  BY <1>24 DEF ReapOwn, control
<1>25. CASE UNCHANGED vars
  BY <1>25 DEF vars, control, procs
<1> QED BY <1>1, <1>2, <1>3, <1>4, <1>5, <1>6, <1>7, <1>8, <1>9, <1>10, <1>11, <1>12, <1>13, <1>14, <1>15,
           <1>16, <1>17, <1>18, <1>19, <1>20, <1>21, <1>22, <1>23, <1>24, <1>25 DEF Next, Step

-----------------------------------------------------------------------------
\* The forest of processes under each action that changes it.
LEMMA TreeStep == Shapes /\ PhaseInv /\ LeaderInv /\ TreeInv /\ [Next]_vars => TreeInv'
<1> SUFFICES ASSUME Shapes, PhaseInv, LeaderInv, TreeInv, [Next]_vars PROVE TreeInv'
  OBVIOUS
<1> USE LeaderAssumption, SupervisorAssumption DEF Shapes, TreeInv, Present
<1>1. CASE Start
  <2>1. life' = [life EXCEPT ![Leader] = "alive"] /\ parent' = parent
    BY <1>1 DEF Start
  <2>2. \A p \in Procs : Present(p)' => p = Leader
    BY <1>1, <2>1 DEF Start, PhaseInv
  <2> QED BY <2>1, <2>2 DEF LeaderInv
<1>2. CASE ReapLeader
  <2>1. parent' = parent /\ life' = [life EXCEPT ![Leader] = "gone"] /\ life[Leader] # "alive"
    BY <1>2 DEF ReapLeader, Exited, LeaderInv
  <2>2. \A p \in Procs : Present(p)' => Present(p)
    BY <2>1
  <2> QED BY <2>1, <2>2
<1>3. CASE Reap
  <2>1. parent' = parent /\ \A p \in Procs : life[p] = "alive" => life'[p] = "alive"
    BY <1>3 DEF Reap
  <2>2. \A p \in Procs : Present(p)' => Present(p)
    BY <1>3 DEF Reap
  <2> QED BY <2>1, <2>2
<1>4. ASSUME NEW p \in Procs, Fork(p) PROVE TreeInv'
  <2>1. PICK d \in Descendants :
          /\ life[d] = "none" /\ life[p] = "alive"
          /\ life' = [life EXCEPT ![d] = "alive"] /\ parent' = [parent EXCEPT ![d] = p]
    BY <1>4 DEF Fork
  <2>2. \A q \in Procs : Present(q)' => q = d \/ Present(q)
    BY <2>1
  <2>3. \A q \in Procs : Present(q) => parent'[q] = parent[q] /\ parent[q] # d
    BY <2>1
  <2>4. ASSUME NEW S \in SUBSET Procs, S # {}, \A q \in S : Present(q)'
        PROVE \E q \in S : parent'[q] \notin S
    <3>1. CASE S = {d}
      BY <2>1, <3>1
    <3>2. CASE S # {d}
      <4>1. S \ {d} \in SUBSET Procs /\ S \ {d} # {} /\ \A q \in S \ {d} : Present(q)
        BY <2>2, <2>4, <3>2
      <4>2. PICK q \in S \ {d} : parent[q] \notin S \ {d}
        BY <4>1
      <4> QED BY <2>3, <4>1, <4>2
    <3> QED BY <3>1, <3>2
  <2>5. \A q \in Procs : Present(q)' /\ parent'[q] # Supervisor => life'[parent'[q]] = "alive"
    BY <2>1, <2>2, <2>3
  <2> QED BY <2>4, <2>5
<1>5. ASSUME NEW p \in Procs, Exit(p) PROVE TreeInv'
  <2>1. /\ life' = [life EXCEPT ![p] = "zombie"] /\ life[p] = "alive"
        /\ parent' = [q \in Procs |-> IF parent[q] = p THEN Supervisor ELSE parent[q]]
    BY <1>5 DEF Exit
  <2>2. \A q \in Procs : Present(q)' <=> Present(q)
    BY <2>1
  <2>3. \A q \in Procs : parent'[q] = parent[q] \/ parent'[q] = Supervisor
    BY <2>1
  <2>4. ASSUME NEW S \in SUBSET Procs, S # {}, \A q \in S : Present(q)'
        PROVE \E q \in S : parent'[q] \notin S
    <3>1. PICK q \in S : parent[q] \notin S
      BY <2>2, <2>4
    <3> QED BY <2>3, <3>1
  <2>5. \A q \in Procs : Present(q)' /\ parent'[q] # Supervisor => life'[parent'[q]] = "alive"
    BY <2>1, <2>2
  <2> QED BY <2>4, <2>5
<1>6. ASSUME NEW p \in Procs, ReapOwn(p) PROVE TreeInv'
  <2>1. parent' = parent /\ life' = [life EXCEPT ![p] = "gone"] /\ life[p] = "zombie"
    BY <1>6 DEF ReapOwn
  <2>2. \A q \in Procs : Present(q)' => Present(q)
    BY <2>1
  <2> QED BY <2>1, <2>2
<1>7. CASE UNCHANGED <<life, parent>>
  BY <1>7
<1> QED
  BY <1>1, <1>2, <1>3, <1>4, <1>5, <1>6, <1>7
     DEF Next, Step, vars, control, procs, StartCancelled, StartObserver, Wait, Observe, WrapperDies,
         ObserveFails, GracefulAlone, GracefulTerm, Grace, GracefulFails, KillAndClose, KillClosed,
         Join, CleanedUp, List, SignalChild, CleanupFails, LeaveGroup

\* Whoever is left hangs below a child of the supervisor.
LEMMA NoChildrenNobody ==
  ASSUME Shapes, TreeInv, Children = {}
  PROVE  \A p \in Procs : ~Present(p)
<1> DEFINE S == {p \in Procs : Present(p)}
<1>1. SUFFICES ASSUME S # {} PROVE FALSE
  OBVIOUS
<1>2. PICK p \in S : parent[p] \notin S
  BY <1>1 DEF TreeInv
<1>3. parent[p] = Supervisor
  BY <1>2 DEF TreeInv, Shapes, Present
<1> QED BY <1>2, <1>3 DEF Children

LEMMA CleanStep ==
  Shapes /\ PhaseInv /\ TreeInv /\ CleanEndLeavesNothing /\ [Next]_vars => CleanEndLeavesNothing'
<1> SUFFICES ASSUME Shapes, PhaseInv, TreeInv, CleanEndLeavesNothing, [Next]_vars,
                    pc' = "ended", ~failed'
             PROVE  \A p \in Procs : ~Present(p)'
  BY DEF CleanEndLeavesNothing
<1>1. CASE StartCancelled
  BY <1>1 DEF StartCancelled, End, procs, PhaseInv, Present
<1>2. CASE CleanedUp
  BY <1>2, NoChildrenNobody DEF CleanedUp, End, procs, Present
<1>3. CASE CleanupFails
  BY <1>3 DEF CleanupFails, Drop
<1>4. CASE UNCHANGED <<pc, failed, life>>
  BY <1>4 DEF CleanEndLeavesNothing, Present
<1> QED
  BY <1>1, <1>2, <1>3, <1>4
     DEF Next, Step, vars, control, procs, Start, StartObserver, Wait, Observe, WrapperDies,
         ObserveFails, Drop, GracefulAlone, GracefulTerm, Grace, GracefulFails, KillAndClose,
         KillClosed, Join, ReapLeader, Reap, List, SignalChild, Fork, LeaveGroup, Exit, ReapOwn

LEMMA StrayStep ==
  PhaseInv /\ LeaderInv /\ SignalInv /\ NoStraySignal /\ [Next]_vars => NoStraySignal'
<1> SUFFICES ASSUME PhaseInv, LeaderInv, SignalInv, ~stray, [Next]_vars PROVE ~stray'
  BY DEF NoStraySignal
<1>1. CASE GracefulTerm
  BY <1>1 DEF GracefulTerm, PhaseInv, LeaderInv
<1>2. CASE KillAndClose
  BY <1>2 DEF KillAndClose, LeaderInv
<1>3. CASE SignalChild
  BY <1>3 DEF SignalChild, SignalInv, Children, Present
<1>4. CASE UNCHANGED stray
  BY <1>4
<1> QED
  BY <1>1, <1>2, <1>3, <1>4
     DEF Next, Step, vars, control, procs, StartCancelled, Start, StartObserver, Wait, Observe,
         WrapperDies, ObserveFails, GracefulAlone, Grace, GracefulFails, KillClosed, Join,
         ReapLeader, Reap, CleanedUp, List, CleanupFails, Fork, LeaveGroup, Exit, ReapOwn

-----------------------------------------------------------------------------
\* The invariant holds in every behaviour: whatever the command's processes do
\* and whichever system call fails.
THEOREM Inductive == Spec => []IInv
<1>1. Init => IInv
  BY IInvInit
<1>2. TypeOK' <=> Flags' /\ Shapes'
  BY DEF TypeOK, Flags, Shapes
<1>3. IInv /\ [Next]_vars => IInv'
  BY <1>2, TypeParts, FlagsStep, ShapesStep, PhaseStep, LeaderStep, SignalStep, TreeStep, CleanStep,
     StrayStep DEF IInv
<1> QED BY <1>1, <1>3, PTL DEF Spec

\* The variables keep their types.
THEOREM TypeCorrect == Spec => []TypeOK
<1>1. IInv => TypeOK
  BY DEF IInv
<1> QED BY <1>1, Inductive, PTL

\* The run lease outlives the command, also when it cannot be killed (settle).
THEOREM LeaseOutlives == Spec => []LeaseOutlivesCommand
<1>1. IInv => LeaseOutlivesCommand
  BY DEF IInv, PhaseInv, LeaseOutlivesCommand
<1> QED BY <1>1, Inductive, PTL

\* A supervision that ends without an error leaves no process of the command,
\* detached ones included (cleanup_adopted_children).
THEOREM CleanEnds == Spec => []CleanEndLeavesNothing
<1>1. IInv => CleanEndLeavesNothing
  BY DEF IInv
<1> QED BY <1>1, Inductive, PTL

\* No signal goes to an id that was reaped (TargetGuard.signalable).
THEOREM SignalsAreOwned == Spec => []NoStraySignal
<1>1. IInv => NoStraySignal
  BY DEF IInv
<1> QED BY <1>1, Inductive, PTL

\* A status reported as the command's own is not of the supervisor's making.
THEOREM StatusesAreOwn == Spec => []StatusIsOwn
<1>1. IInv => StatusIsOwn
  BY DEF IInv, SignalInv, StatusIsOwn
<1> QED BY <1>1, Inductive, PTL

\* Only Child::wait consumes the status of the direct child.
THEOREM StatusesAreKept == Spec => []StatusKept
<1>1. IInv => StatusKept
  BY DEF IInv, LeaderInv, StatusKept
<1> QED BY <1>1, Inductive, PTL
=============================================================================
