----------------------- MODULE EnvironmentAccessProofs -----------------------
(* The safety properties of EnvironmentAccess for any set of invocations.   *)
EXTENDS EnvironmentAccess, TLAPS

\* The pcs at which an invocation holds each lock.
CreatorPCs == {"freshLock", "initialize", "creating", "publishing"}
ChildPCs   == {"waiting", "orphan"}

\* An invocation that uses the run lease is at a pc that fits its operation.
OpFits(p) ==
  /\ pc[p] = "idle" => op[p] = "none"
  /\ pc[p] \in CreatorPCs => op[p] \in Creators
  /\ pc[p] \in {"openMutex", "waitMutex"} => op[p] \in Mutators \cup {"run", "destroy"}
  /\ pc[p] \in {"openRun", "waitRun", "check", "work"} => op[p] \in AllOps \ {"create"}
  /\ pc[p] = "tearing" => op[p] = "destroy"
  /\ pc[p] = "downgrading" => op[p] = "launch"
  /\ pc[p] \in {"spawn"} \cup ChildPCs => op[p] \in {"run", "launch"}

\* The mutation lock is held from its acquisition to the hand-off.
HoldsMutex(p) ==
  \/ pc[p] \in {"initialize", "creating", "publishing", "tearing", "downgrading"}
  \/ pc[p] \in {"openRun", "waitRun", "check", "work"} /\ op[p] # "observe"

MutexInv ==
  /\ \A p \in Procs : p \in mutex <=> HoldsMutex(p)
  /\ \A p, q \in mutex : p = q

LeaseInv ==
  /\ \A p \in exclusive : pc[p] \in {"check", "work", "tearing"} /\ op[p] \notin SharedOps
  /\ \A p \in shared :
       \/ pc[p] \in {"check", "work"} /\ op[p] \in SharedOps \cup {"launch"}
       \/ pc[p] \in {"spawn"} \cup ChildPCs
  /\ \A p \in Procs :
       /\ pc[p] \in {"check", "work"} => p \in exclusive \cup shared
       /\ pc[p] = "tearing" => p \in exclusive
       /\ pc[p] \in {"spawn"} \cup ChildPCs => p \in shared
       /\ p \in children <=> pc[p] \in ChildPCs
  /\ \A p, q \in exclusive : p = q
  /\ exclusive = {} \/ shared = {}

\* Which pcs can coexist with each stage of the environment.
StageInv ==
  /\ root = "absent" => \A p \in Procs : pc[p] = "idle"
  /\ root = "bare" => \A p \in Procs : pc[p] \in {"idle", "freshLock", "initialize", "done"}
  /\ \A p \in Procs :
       /\ pc[p] \in {"freshLock", "initialize"} => root = "bare"
       /\ pc[p] = "creating" => root = "pending"
       /\ pc[p] = "publishing" => root = "published"
       /\ pc[p] = "work" => root \in Acceptable(op[p])
       /\ pc[p] = "tearing" => root \in {"pending", "teardown"}
       /\ pc[p] \in {"spawn"} \cup ChildPCs => root = "published"
       /\ op[p] = "launch" /\ pc[p] \in {"openRun", "waitRun", "check", "downgrading"} =>
            root = "published"
  /\ \A p, q \in Procs :
       /\ pc[p] = "freshLock" /\ pc[q] \in {"freshLock", "initialize"} => p = q
       /\ pc[p] = "publishing" => pc[q] \notin {"spawn"} \cup ChildPCs

IInv ==
  /\ TypeOK
  /\ \A p \in Procs : OpFits(p)
  /\ MutexInv
  /\ LeaseInv
  /\ StageInv

-----------------------------------------------------------------------------
\* The initial state satisfies the strengthened invariant.
LEMMA IInvInit == Init => IInv
BY DEF Init, IInv, TypeOK, Stages, PCs, OpFits, MutexInv, HoldsMutex, LeaseInv,
       StageInv, CreatorPCs, ChildPCs

\* Every step of every invocation preserves it.  The locks (MutexInv, LeaseInv)
\* follow from the pcs; the stage (StageInv) follows from who holds which lock.
LEMMA IInvStep == IInv /\ [Next]_vars => IInv'
<1> SUFFICES ASSUME IInv, [Next]_vars PROVE IInv' OBVIOUS
<1> USE DEF IInv, TypeOK, AllOps, Creators, Mutators, SharedOps, CreatorPCs, ChildPCs
<1>0. CASE UNCHANGED vars
  BY <1>0 DEF vars, OpFits, MutexInv, HoldsMutex, LeaseInv, StageInv
<1>1. ASSUME NEW p \in Procs, NEW o \in Ops, Begin(p, o) PROVE IInv'
  <2> USE <1>1 DEF Begin, Goto
  <2>1. TypeOK' /\ \A q \in Procs : OpFits(q)' BY OpsAssumption DEF Stages, PCs, OpFits
  <2>2. MutexInv' /\ LeaseInv' BY DEF MutexInv, LeaseInv, HoldsMutex, OpFits
  <2>3. StageInv' BY DEF StageInv, MutexInv, LeaseInv, HoldsMutex, OpFits, Acceptable, Resolvable
  <2> QED BY <2>1, <2>2, <2>3
<1>2. ASSUME NEW p \in Procs, LockFresh(p) PROVE IInv'
  <2> USE <1>2 DEF LockFresh, Goto
  <2>1. TypeOK' /\ \A q \in Procs : OpFits(q)' BY DEF Stages, PCs, OpFits
  <2>2. MutexInv' /\ LeaseInv' BY DEF MutexInv, LeaseInv, HoldsMutex, OpFits
  <2>3. StageInv' BY DEF StageInv, MutexInv, LeaseInv, HoldsMutex, OpFits, Acceptable
  <2> QED BY <2>1, <2>2, <2>3
<1>3. ASSUME NEW p \in Procs, PersistManifest(p) PROVE IInv'
  <2> USE <1>3 DEF PersistManifest, Goto
  <2>1. TypeOK' /\ \A q \in Procs : OpFits(q)' BY DEF Stages, PCs, OpFits
  <2>2. MutexInv' /\ LeaseInv' BY DEF MutexInv, LeaseInv, HoldsMutex, OpFits
  <2>3. StageInv' BY DEF StageInv, MutexInv, LeaseInv, HoldsMutex, OpFits, Acceptable
  <2> QED BY <2>1, <2>2, <2>3
<1>4. ASSUME NEW p \in Procs, PublishPointer(p) PROVE IInv'
  <2> USE <1>4 DEF PublishPointer, Goto
  <2>1. TypeOK' /\ \A q \in Procs : OpFits(q)' BY DEF Stages, PCs, OpFits
  <2>2. MutexInv' /\ LeaseInv' BY DEF MutexInv, LeaseInv, HoldsMutex, OpFits
  <2>3. StageInv' BY DEF StageInv, MutexInv, LeaseInv, HoldsMutex, OpFits, Acceptable
  <2> QED BY <2>1, <2>2, <2>3
<1>5. ASSUME NEW p \in Procs, FinishCreate(p) PROVE IInv'
  <2> USE <1>5 DEF FinishCreate, Goto, Release
  <2>1. TypeOK' /\ \A q \in Procs : OpFits(q)' BY DEF Stages, PCs, OpFits
  <2>2. MutexInv' /\ LeaseInv' BY DEF MutexInv, LeaseInv, HoldsMutex, OpFits
  <2>3. StageInv' BY DEF StageInv, MutexInv, LeaseInv, HoldsMutex, OpFits, Acceptable
  <2> QED BY <2>1, <2>2, <2>3
<1>6. ASSUME NEW p \in Procs, RollBackCreate(p) PROVE IInv'
  <2> USE <1>6 DEF RollBackCreate, Goto, Release
  <2>1. TypeOK' /\ \A q \in Procs : OpFits(q)' BY DEF Stages, PCs, OpFits
  <2>2. MutexInv' /\ LeaseInv' BY DEF MutexInv, LeaseInv, HoldsMutex, OpFits
  <2>3. StageInv' BY DEF StageInv, MutexInv, LeaseInv, HoldsMutex, OpFits, Acceptable
  <2> QED BY <2>1, <2>2, <2>3
<1>7. ASSUME NEW p \in Procs, OpenMutex(p) PROVE IInv'
  <2> USE <1>7 DEF OpenMutex, Goto
  <2>1. TypeOK' /\ \A q \in Procs : OpFits(q)' BY DEF Stages, PCs, OpFits
  <2>2. MutexInv' /\ LeaseInv' BY DEF MutexInv, LeaseInv, HoldsMutex, OpFits
  <2>3. StageInv' BY DEF StageInv, MutexInv, LeaseInv, HoldsMutex, OpFits, Acceptable, LockFileExists
  <2> QED BY <2>1, <2>2, <2>3
<1>8. ASSUME NEW p \in Procs, LockMutex(p) PROVE IInv'
  <2> USE <1>8 DEF LockMutex, Goto
  <2>1. TypeOK' /\ \A q \in Procs : OpFits(q)' BY DEF Stages, PCs, OpFits
  <2>2. MutexInv' /\ LeaseInv' BY DEF MutexInv, LeaseInv, HoldsMutex, OpFits
  <2>3. StageInv' BY DEF StageInv, MutexInv, LeaseInv, HoldsMutex, OpFits, Acceptable
  <2> QED BY <2>1, <2>2, <2>3
<1>9. ASSUME NEW p \in Procs, OpenRun(p) PROVE IInv'
  <2> USE <1>9 DEF OpenRun, Goto
  <2>1. TypeOK' /\ \A q \in Procs : OpFits(q)' BY DEF Stages, PCs, OpFits
  <2>2. MutexInv' /\ LeaseInv' BY DEF MutexInv, LeaseInv, HoldsMutex, OpFits
  <2>3. StageInv' BY DEF StageInv, MutexInv, LeaseInv, HoldsMutex, OpFits, Acceptable, RunLockExists
  <2> QED BY <2>1, <2>2, <2>3
<1>10. ASSUME NEW p \in Procs, LockRun(p) PROVE IInv'
  <2> USE <1>10 DEF LockRun, Goto
  <2>1. TypeOK' /\ \A q \in Procs : OpFits(q)' BY DEF Stages, PCs, OpFits
  <2>2. MutexInv' /\ LeaseInv' BY DEF MutexInv, LeaseInv, HoldsMutex, OpFits
  <2>3. StageInv' BY DEF StageInv, MutexInv, LeaseInv, HoldsMutex, OpFits, Acceptable
  <2> QED BY <2>1, <2>2, <2>3
<1>11. ASSUME NEW p \in Procs, Check(p) PROVE IInv'
  <2> USE <1>11 DEF Check, Goto
  <2>1. TypeOK' /\ \A q \in Procs : OpFits(q)' BY DEF Stages, PCs, OpFits
  <2>2. MutexInv' /\ LeaseInv' BY DEF MutexInv, LeaseInv, HoldsMutex, OpFits
  <2>3. StageInv' BY DEF StageInv, MutexInv, LeaseInv, HoldsMutex, OpFits, Acceptable
  <2> QED BY <2>1, <2>2, <2>3
<1>12. ASSUME NEW p \in Procs, Refuse(p) PROVE IInv'
  <2> USE <1>12 DEF Refuse, Goto, Release
  <2>1. TypeOK' /\ \A q \in Procs : OpFits(q)' BY DEF Stages, PCs, OpFits
  <2>2. MutexInv' /\ LeaseInv' BY DEF MutexInv, LeaseInv, HoldsMutex, OpFits
  <2>3. StageInv' BY DEF StageInv, MutexInv, LeaseInv, HoldsMutex, OpFits, Acceptable
  <2> QED BY <2>1, <2>2, <2>3
<1>13. ASSUME NEW p \in Procs, FinishWork(p) PROVE IInv'
  <2> USE <1>13 DEF FinishWork, Goto, Release
  <2>1. TypeOK' /\ \A q \in Procs : OpFits(q)' BY DEF Stages, PCs, OpFits
  <2>2. MutexInv' /\ LeaseInv' BY DEF MutexInv, LeaseInv, HoldsMutex, OpFits
  <2>3. StageInv' BY DEF StageInv, MutexInv, LeaseInv, HoldsMutex, OpFits, Acceptable
  <2> QED BY <2>1, <2>2, <2>3
<1>14. ASSUME NEW p \in Procs, Downgrade(p) PROVE IInv'
  <2> USE <1>14 DEF Downgrade, Goto
  <2>1. TypeOK' /\ \A q \in Procs : OpFits(q)' BY DEF Stages, PCs, OpFits
  <2>2. MutexInv' /\ LeaseInv' BY DEF MutexInv, LeaseInv, HoldsMutex, OpFits
  <2>3. StageInv' BY DEF StageInv, MutexInv, LeaseInv, HoldsMutex, OpFits, Acceptable
  <2> QED BY <2>1, <2>2, <2>3
<1>15. ASSUME NEW p \in Procs, Reshare(p) PROVE IInv'
  <2> USE <1>15 DEF Reshare, Goto
  <2>1. TypeOK' /\ \A q \in Procs : OpFits(q)' BY DEF Stages, PCs, OpFits
  <2>2. MutexInv' /\ LeaseInv' BY DEF MutexInv, LeaseInv, HoldsMutex, OpFits
  <2>3. StageInv' BY DEF StageInv, MutexInv, LeaseInv, HoldsMutex, OpFits, Acceptable
  <2> QED BY <2>1, <2>2, <2>3
<1>16. ASSUME NEW p \in Procs, IntoRun(p) PROVE IInv'
  <2> USE <1>16 DEF IntoRun, Goto
  <2>1. TypeOK' /\ \A q \in Procs : OpFits(q)' BY DEF Stages, PCs, OpFits
  <2>2. MutexInv' /\ LeaseInv' BY DEF MutexInv, LeaseInv, HoldsMutex, OpFits
  <2>3. StageInv' BY DEF StageInv, MutexInv, LeaseInv, HoldsMutex, OpFits, Acceptable
  <2> QED BY <2>1, <2>2, <2>3
<1>17. ASSUME NEW p \in Procs, Spawn(p) PROVE IInv'
  <2> USE <1>17 DEF Spawn, Goto
  <2>1. TypeOK' /\ \A q \in Procs : OpFits(q)' BY DEF Stages, PCs, OpFits
  <2>2. MutexInv' /\ LeaseInv' BY DEF MutexInv, LeaseInv, HoldsMutex, OpFits
  <2>3. StageInv' BY DEF StageInv, MutexInv, LeaseInv, HoldsMutex, OpFits, Acceptable
  <2> QED BY <2>1, <2>2, <2>3
<1>18. ASSUME NEW p \in Procs, ParentDies(p) PROVE IInv'
  <2> USE <1>18 DEF ParentDies, Goto
  <2>1. TypeOK' /\ \A q \in Procs : OpFits(q)' BY DEF Stages, PCs, OpFits
  <2>2. MutexInv' /\ LeaseInv' BY DEF MutexInv, LeaseInv, HoldsMutex, OpFits
  <2>3. StageInv' BY DEF StageInv, MutexInv, LeaseInv, HoldsMutex, OpFits, Acceptable
  <2> QED BY <2>1, <2>2, <2>3
<1>19. ASSUME NEW p \in Procs, ChildExits(p) PROVE IInv'
  <2> USE <1>19 DEF ChildExits, Goto, Release
  <2>1. TypeOK' /\ \A q \in Procs : OpFits(q)' BY DEF Stages, PCs, OpFits
  <2>2. MutexInv' /\ LeaseInv' BY DEF MutexInv, LeaseInv, HoldsMutex, OpFits
  <2>3. StageInv' BY DEF StageInv, MutexInv, LeaseInv, HoldsMutex, OpFits, Acceptable
  <2> QED BY <2>1, <2>2, <2>3
<1>20. ASSUME NEW p \in Procs, BeginTeardown(p) PROVE IInv'
  <2> USE <1>20 DEF BeginTeardown, Goto
  <2>1. TypeOK' /\ \A q \in Procs : OpFits(q)' BY DEF Stages, PCs, OpFits
  <2>2. MutexInv' /\ LeaseInv' BY DEF MutexInv, LeaseInv, HoldsMutex, OpFits
  <2>3. StageInv' BY DEF StageInv, MutexInv, LeaseInv, HoldsMutex, OpFits, Acceptable
  <2> QED BY <2>1, <2>2, <2>3
<1>21. ASSUME NEW p \in Procs, RemoveRoot(p) PROVE IInv'
  <2> USE <1>21 DEF RemoveRoot, Goto, Release
  <2>1. TypeOK' /\ \A q \in Procs : OpFits(q)' BY DEF Stages, PCs, OpFits
  <2>2. MutexInv' /\ LeaseInv' BY DEF MutexInv, LeaseInv, HoldsMutex, OpFits
  <2>3. StageInv' BY DEF StageInv, MutexInv, LeaseInv, HoldsMutex, OpFits, Acceptable
  <2> QED BY <2>1, <2>2, <2>3
<1>22. ASSUME NEW p \in Procs, Abandon(p) PROVE IInv'
  <2> USE <1>22 DEF Abandon, Goto, Release
  <2>1. TypeOK' /\ \A q \in Procs : OpFits(q)' BY DEF Stages, PCs, OpFits
  <2>2. MutexInv' /\ LeaseInv' BY DEF MutexInv, LeaseInv, HoldsMutex, OpFits
  <2>3. StageInv' BY DEF StageInv, MutexInv, LeaseInv, HoldsMutex, OpFits, Acceptable
  <2> QED BY <2>1, <2>2, <2>3
<1> QED BY <1>0, <1>1, <1>2, <1>3, <1>4, <1>5, <1>6, <1>7, <1>8, <1>9, <1>10, <1>11,
         <1>12, <1>13, <1>14, <1>15, <1>16, <1>17, <1>18, <1>19, <1>20, <1>21, <1>22 DEF Next, Progress

\* The strengthened invariant holds in every reachable state.
THEOREM Inductive == Spec => []IInv
BY IInvInit, IInvStep, PTL DEF Spec

-----------------------------------------------------------------------------
\* Every variable keeps its type.
THEOREM TypeCorrect == Spec => []TypeOK
<1>1. IInv => TypeOK BY DEF IInv
<1> QED BY <1>1, Inductive, PTL

\* A child of run or exec keeps the run lease locked and the environment
\* published for as long as it lives, whether or not its parent still does.
THEOREM ChildrenAreProtected == Spec => []ChildProtected
<1>1. IInv => ChildProtected
  BY DEF IInv, TypeOK, LeaseInv, StageInv, ChildProtected
<1> QED BY <1>1, Inductive, PTL

\* Work under the exclusive run lease excludes every other command and child.
THEOREM ExclusiveWorkIsAlone == Spec => []ExclusiveWork
<1>1. IInv => ExclusiveWork
  BY DEF IInv, TypeOK, LeaseInv, ExclusiveWork, Working, ChildPCs
<1> QED BY <1>1, Inductive, PTL

\* What a command checked under its locks stays true while it works.
THEOREM ChecksStayValid == Spec => []CheckedStageHolds
<1>1. IInv => CheckedStageHolds
  <2> SUFFICES ASSUME IInv, NEW p \in Procs, pc[p] = "spawn"
               PROVE root \in Acceptable(op[p])
    BY DEF IInv, StageInv, CheckedStageHolds
  <2>1. root = "published" /\ op[p] \in {"run", "launch"}
    BY DEF IInv, StageInv, OpFits
  <2> QED BY <2>1 DEF Acceptable
<1> QED BY <1>1, Inductive, PTL

\* Beside a running create only the lock-free observers get past their checks.
THEOREM CreationIsPrivate == Spec => []CreationPrivate
<1>1. IInv => CreationPrivate
  <2> SUFFICES ASSUME IInv, NEW p \in Procs, NEW q \in Procs \ {p},
                      Creating(p), Working(q)
               PROVE op[q] = "observe"
    BY DEF CreationPrivate
  <2>1. p \in mutex BY DEF IInv, MutexInv, HoldsMutex, Creating
  <2>2. q \notin mutex BY <2>1 DEF IInv, MutexInv
  <2>3. pc[q] # "spawn" BY DEF IInv, StageInv, Creating
  <2> QED BY <2>2, <2>3 DEF IInv, MutexInv, HoldsMutex, Working
<1> QED BY <1>1, Inductive, PTL

\* Creation never waits for the lock of its own root.
THEOREM FreshLockIsFree == Spec => []FreshLockUncontended
<1>1. IInv => FreshLockUncontended
  BY DEF IInv, TypeOK, MutexInv, HoldsMutex, StageInv, FreshLockUncontended
<1> QED BY <1>1, Inductive, PTL

\* launch never finds another exclusive holder in the gap of its downgrade.
THEOREM DowngradeIsUncontended == Spec => []DowngradeUncontended
<1>1. IInv => DowngradeUncontended
  BY DEF IInv, TypeOK, MutexInv, LeaseInv, HoldsMutex, SharedOps, DowngradeUncontended
<1> QED BY <1>1, Inductive, PTL
\* The stage only advances, and the root is removed only when neither a child
\* nor an observer that passed its checks is left.
THEOREM StageIsMonotone == Spec => StageOnlyAdvances
<1>1. IInv /\ [Next]_vars => [StageAdvances]_vars
  <2> SUFFICES ASSUME IInv, Next PROVE StageAdvances
    BY DEF vars, StageAdvances
  <2> USE DEF IInv, StageAdvances
  <2>1. children # {} => root = "published"
    BY DEF TypeOK, LeaseInv, StageInv
  <2>2. PICK p \in Procs :
          (\E o \in Ops : Begin(p, o)) \/ Progress(p) \/ RollBackCreate(p)
          \/ ParentDies(p) \/ Abandon(p)
    BY DEF Next
  <2>3. CASE RemoveRoot(p)
    <3>1. p \in exclusive /\ root \in {"pending", "teardown"}
      BY <2>3 DEF RemoveRoot, LeaseInv, StageInv
    <3>2. \A q \in Procs : op[q] = "observe" => ~Working(q)
      BY <3>1 DEF LeaseInv, OpFits, Working, SharedOps
    <3> QED BY <2>1, <2>3, <3>1, <3>2 DEF RemoveRoot
  <2>4. CASE RollBackCreate(p)
    <3>1. root \in {"bare", "pending"}
      BY <2>4 DEF RollBackCreate, StageInv
    <3>2. \A q \in Procs : op[q] = "observe" => ~Working(q)
      BY <3>1 DEF StageInv, Working, Acceptable, OpFits
    <3> QED BY <2>1, <2>4, <3>1, <3>2 DEF RollBackCreate
  <2>5. CASE root' = root
    BY <2>1, <2>5 DEF StageInv, Working, Acceptable, OpFits
  <2>6. CASE root' # root /\ ~RemoveRoot(p) /\ ~RollBackCreate(p)
    <3>1. root \notin {"teardown", "removed"} /\ root' # "removed"
      BY <2>2, <2>6 DEF Progress, Begin, LockFresh, PersistManifest, PublishPointer,
           FinishCreate, OpenMutex, LockMutex, OpenRun, LockRun, Check, Refuse,
           FinishWork, Downgrade, Reshare, IntoRun, Spawn, ParentDies, ChildExits,
           BeginTeardown, Abandon, Resolvable, Creators, StageInv, Acceptable
    <3> QED BY <3>1
  <2> QED BY <2>3, <2>4, <2>5, <2>6
<1> QED BY <1>1, Inductive, PTL DEF Spec, StageOnlyAdvances

-----------------------------------------------------------------------------
(* The refinement of EnvironmentUse.                                       *)

\* The uses, as the provers take them: which one each pc stands for.
LEMMA UseIs ==
  ASSUME NEW p \in Procs, OpFits(p), pc[p] \in PCs, op[p] \in AllOps \cup {"none"}
  PROVE  /\ pc[p] \in CreatorPCs => UseOf(p) = "create"
         /\ op[p] = "launch" /\ pc[p] \in {"openRun", "waitRun"} => UseOf(p) = "create"
         /\ op[p] # "launch" /\ pc[p] \in {"openRun", "waitRun", "check"} => UseOf(p) = "none"
         /\ op[p] \in Mutators \cup {"destroy"} /\ pc[p] = "work" => UseOf(p) = "alone"
         /\ pc[p] = "tearing" => UseOf(p) = "alone"
         /\ op[p] = "launch" /\ pc[p] \in {"check", "work"} =>
              UseOf(p) = IF p \in exclusive THEN "alone" ELSE "run"
         /\ pc[p] \in {"downgrading", "spawn"} \cup ChildPCs => UseOf(p) = "run"
         /\ op[p] = "run" /\ pc[p] = "work" => UseOf(p) = "run"
         /\ op[p] = "observe" /\ pc[p] = "work" => UseOf(p) = "look"
         /\ pc[p] \in {"idle", "openMutex", "waitMutex", "done"} => UseOf(p) = "none"
BY DEF UseOf, OpFits, PCs, AllOps, Creators, Mutators, SharedOps, CreatorPCs, ChildPCs

\* What the locks say about the others once an invocation has the mutation lock
\* and nobody else the run lease, has the run lease alone, or shares it.
LEMMA OthersAllow ==
  ASSUME IInv, NEW p \in Procs, NEW q \in Procs \ {p}
  PROVE  /\ p \in mutex /\ exclusive \cup shared \subseteq {p} /\ root # "bare" => UseOf(q) = "none"
         /\ p \in mutex /\ p \in shared => UseOf(q) \in {"none", "run", "look"}
         /\ p \in shared /\ p \notin mutex => UseOf(q) \in {"none", "create", "run", "look"}
         /\ root = "absent" => UseOf(q) = "none"
<1> USE DEF IInv, TypeOK
<1>1. /\ pc[q] \in PCs /\ op[q] \in AllOps \cup {"none"} /\ OpFits(q)
      /\ q \in mutex <=> HoldsMutex(q)
      /\ p \in mutex => q \notin mutex
  BY DEF MutexInv
<1>2. CASE root = "absent"
  BY <1>1, <1>2, UseIs DEF StageInv
<1>3. CASE root # "absent"
  <2>1. CASE pc[q] = "freshLock"
    BY <1>1, <1>3, <2>1, UseIs DEF StageInv, LeaseInv, CreatorPCs, ChildPCs
  <2>2. CASE pc[q] \in (CreatorPCs \ {"freshLock"}) \cup {"tearing", "downgrading"}
    BY <1>1, <1>3, <2>2, UseIs DEF HoldsMutex, LeaseInv, CreatorPCs
  <2>3. CASE pc[q] \in {"openRun", "waitRun", "check", "work"}
    <3>1. CASE op[q] = "observe"
      BY <1>1, <1>3, <2>3, <3>1, UseIs DEF LeaseInv
    <3>2. CASE op[q] # "observe"
      <4>1. q \in mutex BY <1>1, <2>3, <3>2 DEF HoldsMutex
      <4>2. p \notin mutex BY <1>1, <4>1
      <4>3. p \in shared => exclusive = {} BY DEF LeaseInv
      <4>4. q \notin exclusive /\ pc[q] \in {"check", "work"} => q \in shared
        BY DEF LeaseInv
      <4>5. op[q] \in {"launch", "run", "destroy"} \cup Mutators
        BY <1>1, <2>3, <3>2 DEF OpFits, AllOps, Creators
      <4>6. q \in shared /\ pc[q] = "work" => op[q] \notin Mutators \cup {"destroy"}
        BY <2>3 DEF LeaseInv, SharedOps, Mutators, ChildPCs
      <4> QED BY <1>1, <1>3, <2>3, <3>2, <4>2, <4>3, <4>4, <4>5, <4>6, UseIs DEF Mutators
    <3> QED BY <3>1, <3>2
  <2>4. CASE pc[q] \in {"spawn"} \cup ChildPCs
    BY <1>1, <1>3, <2>4, UseIs DEF LeaseInv
  <2>5. CASE pc[q] \in {"idle", "openMutex", "waitMutex", "done"}
    BY <1>1, <1>3, <2>5, UseIs
  <2>6. pc[q] \in {"freshLock"} \cup ((CreatorPCs \ {"freshLock"}) \cup {"tearing", "downgrading"})
                 \cup {"openRun", "waitRun", "check", "work"} \cup ({"spawn"} \cup ChildPCs)
                 \cup {"idle", "openMutex", "waitMutex", "done"}
    BY <1>1 DEF PCs, CreatorPCs, ChildPCs
  <2> QED BY <2>1, <2>2, <2>3, <2>4, <2>5, <2>6
<1> QED BY <1>2, <1>3

\* The abstract state and its change in a step of p, for the lemmas below.
Uses       == [q \in Procs |-> UseOf(q)]
Only(p, u) == Uses' = [Uses EXCEPT ![p] = u]

\* A step of one invocation changes the use of no other one.
LEMMA OnlyOne ==
  ASSUME NEW p \in Procs,
         \A q \in Procs \ {p} :
           pc'[q] = pc[q] /\ op'[q] = op[q] /\ (q \in exclusive' <=> q \in exclusive)
  PROVE  Only(p, UseOf(p)')
<1>1. \A q \in Procs \ {p} : UseOf(q)' = UseOf(q)
  <2> SUFFICES ASSUME NEW q \in Procs \ {p} PROVE UseOf(q)' = UseOf(q) OBVIOUS
  <2>1. pc'[q] = pc[q] /\ op'[q] = op[q] /\ (q \in exclusive' <=> q \in exclusive) OBVIOUS
  <2>2. CASE q \in exclusive BY <2>1, <2>2 DEF UseOf
  <2>3. CASE q \notin exclusive BY <2>1, <2>3 DEF UseOf
  <2> QED BY <2>2, <2>3
<1> QED BY <1>1 DEF Only, Uses

\* The initial state of the locks is one of EnvironmentUse.
LEMMA UseInit == Init => Use!Init
<1> SUFFICES ASSUME Init PROVE Use!Init OBVIOUS
<1>1. \A p \in Procs : UseOf(p) = "none"
  BY DEF Init, UseOf, Mutators
<1> QED BY <1>1 DEF Init, Use!Init

\* Every step of the locks is a step of EnvironmentUse or none.
LEMMA UseStep == IInv /\ IInv' /\ [Next]_vars => [Use!Next]_(Use!vars)
<1> SUFFICES ASSUME IInv, IInv', [Next]_vars PROVE [Use!Next]_(Use!vars) OBVIOUS
<1>0. CASE UNCHANGED vars
  <2>1. \A q \in Procs : UseOf(q)' = UseOf(q) BY <1>0 DEF vars, UseOf
  <2> QED BY <1>0, <2>1 DEF vars, Use!vars
<1>1. CASE Next
  <2>1. PICK p \in Procs :
          (\E o \in Ops : Begin(p, o)) \/ Progress(p) \/ RollBackCreate(p)
          \/ ParentDies(p) \/ Abandon(p)
    BY <1>1 DEF Next
  <2>2. Only(p, UseOf(p)')
    <3>1. \A q \in Procs \ {p} :
            pc'[q] = pc[q] /\ op'[q] = op[q] /\ (q \in exclusive' <=> q \in exclusive)
      BY <2>1 DEF IInv, TypeOK, Progress, Begin, LockFresh, PersistManifest, PublishPointer,
           FinishCreate, OpenMutex, LockMutex, OpenRun, LockRun, Check, Refuse,
           FinishWork, Downgrade, Reshare, IntoRun, Spawn, ParentDies, ChildExits,
           BeginTeardown, RemoveRoot, RollBackCreate, Abandon, Goto, Release
    <3> QED BY <3>1, OnlyOne
  <2>3. /\ pc[p] \in PCs /\ op[p] \in AllOps \cup {"none"} /\ OpFits(p)
        /\ pc'[p] \in PCs /\ op'[p] \in AllOps \cup {"none"} /\ OpFits(p)'
    BY DEF IInv, TypeOK
  <2>4. Uses \in [Procs -> {"none", "create", "alone", "run", "look"}] /\ Uses[p] = UseOf(p)
    BY DEF Uses, UseOf
  <2>5. ASSUME UseOf(p)' = UseOf(p), root' = root PROVE UNCHANGED Use!vars
    BY <2>2, <2>4, <2>5 DEF Only, Uses, Use!vars
  <2>6. ASSUME UseOf(p) # "none", UseOf(p)' = "none", root' = root \/ Use!Move(p) PROVE Use!Next
    BY <2>2, <2>4, <2>6 DEF Only, Uses, Use!Next, Use!Leave, Use!Become
  <2>7. ASSUME UseOf(p)' = UseOf(p), Use!Move(p), root' # "removed" PROVE Use!Next
    <3>1. Uses' = Uses BY <2>2, <2>4, <2>7 DEF Only
    <3> QED BY <2>7, <3>1 DEF Uses, Use!Next, Use!Work
  <2>8. ASSUME NEW u \in {"create", "alone", "run", "look"},
               \A q \in Procs \ {p} : UseOf(q) \in Use!Beside[u]
        PROVE  Use!AllowedBy(p, u)
    BY <2>8 DEF Use!AllowedBy
  <2>9. ASSUME NEW u \in {"alone", "run", "look"}, UseOf(p) = "none", UseOf(p)' = u,
               root \in Use!Admitted[u], root' = root, Use!AllowedBy(p, u)
        PROVE  Use!Next
    <3>1. u \in Use!Uses BY DEF Use!Uses
    <3> QED BY <2>2, <2>4, <2>9, <3>1 DEF Only, Uses, Use!Next, Use!Enter, Use!Become
  <2>10. ASSUME UseOf(p)' = "none", root' = root PROVE [Use!Next]_(Use!vars)
    <3>1. CASE UseOf(p) = "none" BY <2>5, <2>10, <3>1
    <3>2. CASE UseOf(p) # "none" BY <2>6, <2>10, <3>2
    <3> QED BY <3>1, <3>2
  <2> USE DEF Goto
  <2>11. ASSUME NEW o \in Ops, Begin(p, o) PROVE [Use!Next]_(Use!vars)
    <3>1. UseOf(p) = "none" BY <2>3, <2>11, UseIs DEF Begin
    <3>2. CASE o \in Creators
      <4>1. root = "absent" /\ root' = "bare" /\ pc'[p] = "freshLock"
        BY <2>11, <3>2 DEF Begin, Resolvable, Creators, IInv, TypeOK
      <4>2. UseOf(p)' = "create" BY <4>1 DEF UseOf
      <4>3. Use!AllowedBy(p, "create") BY <2>8, <4>1, OthersAllow DEF Use!Beside
      <4> QED BY <2>2, <2>4, <3>1, <4>1, <4>2, <4>3
              DEF Only, Uses, Use!Next, Use!Create, Use!Become
    <3>3. CASE o \notin Creators
      <4>1. pc'[p] \in {"openRun", "openMutex"} /\ op'[p] = o /\ root' = root
        BY <2>11, <3>3 DEF Begin, IInv, TypeOK
      <4>2. UseOf(p)' = "none" BY <3>3, <4>1 DEF UseOf, Creators
      <4> QED BY <2>10, <4>1, <4>2
    <3> QED BY <3>2, <3>3
  <2>12. CASE LockFresh(p) \/ (FinishCreate(p) /\ op[p] = "launch")
    <3>1. /\ pc[p] \in CreatorPCs /\ root' = root /\ op' = op
          /\ (pc'[p] \in CreatorPCs \/ (pc'[p] = "openRun" /\ op[p] = "launch"))
      BY <2>12 DEF LockFresh, FinishCreate, CreatorPCs, IInv, TypeOK
    <3>2. UseOf(p) = "create" BY <2>3, <3>1, UseIs
    <3>3. UseOf(p)' = "create" BY <3>1 DEF UseOf, CreatorPCs
    <3> QED BY <2>5, <3>1, <3>2, <3>3
  <2>13. CASE PersistManifest(p) \/ PublishPointer(p)
    <3>1. /\ UseOf(p) = "create" /\ pc'[p] \in CreatorPCs
          /\ \/ root = "bare" /\ root' = "pending"
             \/ root = "pending" /\ root' = "published"
      BY <2>3, <2>13, UseIs DEF PersistManifest, PublishPointer, CreatorPCs, IInv, TypeOK, StageInv
    <3>2. UseOf(p)' = "create" BY <3>1 DEF UseOf, CreatorPCs
    <3> QED BY <2>4, <2>7, <3>1, <3>2 DEF Uses, Use!Move, Use!Moves
  <2>14. CASE (FinishCreate(p) /\ op[p] = "create") \/ Refuse(p) \/ Abandon(p) \/ ChildExits(p)
    <3>1. pc'[p] = "done" /\ root' = root
      BY <2>14 DEF FinishCreate, Refuse, Abandon, ChildExits, IInv, TypeOK
    <3> QED BY <2>10, <3>1 DEF UseOf
  <2>15. CASE RollBackCreate(p)
    <3>1. pc'[p] = "done" /\ root' = "removed" /\ root \in {"bare", "pending"} /\ pc[p] \in CreatorPCs
      BY <2>15 DEF RollBackCreate, IInv, TypeOK, StageInv, CreatorPCs
    <3>2. UseOf(p) = "create" BY <2>3, <3>1, UseIs
    <3>3. UseOf(p)' = "none" BY <3>1 DEF UseOf
    <3> QED BY <2>4, <2>6, <3>1, <3>2, <3>3 DEF Uses, Use!Move, Use!Moves
  <2>16. CASE OpenMutex(p) \/ LockMutex(p)
    <3>1. pc'[p] \in {"waitMutex", "openRun"} /\ op' = op /\ root' = root /\ op[p] \notin Creators
      BY <2>3, <2>16 DEF OpenMutex, LockMutex, IInv, TypeOK, OpFits, Creators, Mutators
    <3> QED BY <2>10, <3>1 DEF UseOf, Creators
  <2>17. CASE OpenRun(p)
    <3>1. pc[p] = "openRun" /\ pc'[p] = "waitRun" /\ op' = op /\ root' = root
      BY <2>17 DEF OpenRun, IInv, TypeOK
    <3>2. UseOf(p)' = UseOf(p) BY <3>1 DEF UseOf
    <3> QED BY <2>5, <3>1, <3>2
  <2>18. CASE LockRun(p)
    <3>1. pc[p] = "waitRun" /\ pc'[p] = "check" /\ op' = op /\ root' = root
      BY <2>18 DEF LockRun, IInv, TypeOK
    <3>2. CASE op[p] # "launch"
      BY <2>10, <3>1, <3>2 DEF UseOf
    <3>3. CASE op[p] = "launch"
      <4>1. /\ p \in mutex /\ exclusive = {} /\ shared = {} /\ p \in exclusive'
            /\ root = "published"
        BY <2>18, <3>1, <3>3
           DEF LockRun, SharedOps, IInv, TypeOK, MutexInv, HoldsMutex, StageInv
      <4>2. UseOf(p) = "create" BY <2>3, <3>1, <3>3, UseIs
      <4>3. UseOf(p)' = "alone" BY <3>1, <3>3, <4>1 DEF UseOf, Mutators
      <4>4. Use!AllowedBy(p, "alone") BY <2>8, <4>1, OthersAllow DEF Use!Beside
      <4> QED BY <2>2, <2>4, <3>1, <4>1, <4>2, <4>3, <4>4
              DEF Only, Uses, Use!Next, Use!Promote, Use!Become
    <3> QED BY <3>2, <3>3
  <2>19. CASE Check(p)
    <3>1. /\ pc[p] = "check" /\ pc'[p] = "work" /\ op' = op /\ root' = root /\ exclusive' = exclusive
          /\ root \in Acceptable(op[p])
      BY <2>19 DEF Check, IInv, TypeOK
    <3>2. CASE op[p] = "launch"
      <4>1. UseOf(p)' = UseOf(p) BY <3>1, <3>2 DEF UseOf, Mutators
      <4> QED BY <2>5, <3>1, <4>1
    <3>3. CASE op[p] \in Mutators \cup {"destroy"}
      <4>1. p \in mutex /\ exclusive \cup shared \subseteq {p} /\ root # "bare"
        BY <3>1, <3>3 DEF IInv, TypeOK, MutexInv, HoldsMutex, LeaseInv, Mutators, SharedOps,
             Acceptable, ChildPCs
      <4>2. Use!AllowedBy(p, "alone") BY <2>8, <4>1, OthersAllow DEF Use!Beside
      <4>3. UseOf(p)' = "alone" /\ UseOf(p) = "none"
        BY <2>3, <3>1, <3>3, UseIs DEF UseOf, Mutators
      <4>4. root \in Use!Admitted["alone"] BY <3>1, <3>3 DEF Acceptable, Mutators, Use!Admitted
      <4> QED BY <2>9, <3>1, <4>2, <4>3, <4>4
    <3>4. CASE op[p] = "run"
      <4>1. p \in mutex /\ p \in shared
        BY <3>1, <3>4 DEF IInv, TypeOK, MutexInv, HoldsMutex, LeaseInv, SharedOps
      <4>2. Use!AllowedBy(p, "run") BY <2>8, <4>1, OthersAllow DEF Use!Beside
      <4>3. UseOf(p)' = "run" /\ UseOf(p) = "none"
        BY <2>3, <3>1, <3>4, UseIs DEF UseOf, Mutators
      <4>4. root \in Use!Admitted["run"] BY <3>1, <3>4 DEF Acceptable, Use!Admitted
      <4> QED BY <2>9, <3>1, <4>2, <4>3, <4>4
    <3>5. CASE op[p] = "observe"
      <4>1. p \notin mutex /\ p \in shared
        BY <3>1, <3>5 DEF IInv, TypeOK, MutexInv, HoldsMutex, LeaseInv, SharedOps
      <4>2. Use!AllowedBy(p, "look") BY <2>8, <4>1, OthersAllow DEF Use!Beside
      <4>3. UseOf(p)' = "look" /\ UseOf(p) = "none"
        BY <2>3, <3>1, <3>5, UseIs DEF UseOf, Mutators
      <4>4. root \in Use!Admitted["look"] BY <3>1, <3>5 DEF Acceptable, Use!Admitted
      <4> QED BY <2>9, <3>1, <4>2, <4>3, <4>4
    <3> QED BY <2>3, <3>1, <3>2, <3>3, <3>4, <3>5 DEF OpFits, AllOps, Creators
  <2>20. CASE FinishWork(p)
    <3>1. pc'[p] = "done" /\ pc[p] = "work" /\ op' = op /\ op[p] \in Mutators \cup {"observe"}
      BY <2>20 DEF FinishWork, IInv, TypeOK
    <3>2. UseOf(p)' = "none" BY <3>1 DEF UseOf
    <3>3. CASE root' = root BY <2>10, <3>2, <3>3
    <3>4. CASE root' # root
      <4>1. op[p] = "repair" /\ root = "pending" /\ root' = "published"
        BY <2>20, <3>1, <3>4 DEF FinishWork, IInv, StageInv, Acceptable
      <4>2. UseOf(p) = "alone" BY <2>3, <3>1, <4>1, UseIs DEF Mutators
      <4> QED BY <2>4, <2>6, <3>2, <4>1, <4>2 DEF Uses, Use!Move, Use!Moves
    <3> QED BY <3>3, <3>4
  <2>21. CASE Downgrade(p)
    <3>1. /\ pc[p] = "work" /\ op[p] = "launch" /\ p \in exclusive /\ pc'[p] = "downgrading"
          /\ root = "published" /\ root' = root
      BY <2>21 DEF Downgrade, IInv, TypeOK, StageInv, Acceptable
    <3>2. UseOf(p) = "alone" BY <2>3, <3>1, UseIs
    <3>3. UseOf(p)' = "run" BY <3>1 DEF UseOf
    <3> QED BY <2>2, <2>4, <3>1, <3>2, <3>3 DEF Only, Uses, Use!Next, Use!Downgrade, Use!Become
  <2>22. CASE Reshare(p) \/ IntoRun(p) \/ Spawn(p) \/ ParentDies(p)
    <3>1. root' = root /\ UseOf(p) = "run"
      BY <2>3, <2>22, UseIs
         DEF Reshare, IntoRun, Spawn, ParentDies, IInv, TypeOK, LeaseInv, ChildPCs
    <3>2. UseOf(p)' = "run"
      BY <2>3, <2>22
         DEF Reshare, IntoRun, Spawn, ParentDies, UseOf, Mutators, IInv, TypeOK, OpFits
    <3> QED BY <2>5, <3>1, <3>2
  <2>23. CASE BeginTeardown(p)
    <3>1. /\ pc[p] = "work" /\ op[p] = "destroy" /\ pc'[p] = "tearing"
          /\ root' = IF root = "published" THEN "teardown" ELSE root
      BY <2>23 DEF BeginTeardown, IInv, TypeOK
    <3>2. UseOf(p) = "alone" BY <2>3, <3>1, UseIs
    <3>3. UseOf(p)' = "alone" BY <3>1 DEF UseOf
    <3>4. CASE root' = root BY <2>5, <3>2, <3>3, <3>4
    <3>5. CASE root = "published" /\ root' = "teardown"
      BY <2>4, <2>7, <3>2, <3>3, <3>5 DEF Uses, Use!Move, Use!Moves
    <3> QED BY <3>1, <3>4, <3>5
  <2>24. CASE RemoveRoot(p)
    <3>1. /\ pc[p] = "tearing" /\ pc'[p] = "done" /\ root' = "removed"
          /\ root \in {"pending", "teardown"}
      BY <2>24 DEF RemoveRoot, IInv, TypeOK, StageInv
    <3>2. UseOf(p) = "alone" BY <2>3, <3>1, UseIs
    <3>3. UseOf(p)' = "none" BY <3>1 DEF UseOf
    <3> QED BY <2>4, <2>6, <3>1, <3>2, <3>3 DEF Uses, Use!Move, Use!Moves
  <2> QED
    <3>1. FinishCreate(p) => op[p] \in Creators
      BY <2>3 DEF FinishCreate, OpFits, CreatorPCs
    <3> QED
      BY <2>1, <2>11, <2>12, <2>13, <2>14, <2>15, <2>16, <2>17, <2>18, <2>19, <2>20, <2>21,
         <2>22, <2>23, <2>24, <3>1 DEF Progress, Creators
<1> QED BY <1>0, <1>1

\* The locks, with all their waiting, conversion, inheritance and sudden death,
\* implement the uses of an environment as EnvironmentUse promises them.
THEOREM LocksImplementUse == Spec => ImplementsUse
<1>1. Init => Use!Init BY UseInit
<1>2. IInv /\ IInv' /\ [Next]_vars => [Use!Next]_(Use!vars) BY UseStep
<1> QED BY <1>1, <1>2, Inductive, PTL DEF Spec, ImplementsUse, Use!Spec

LEMMA UseInvInit == Use!Init => Use!TypeOK /\ Use!Compatible /\ Use!UsedIsPublished
BY DEF Use!Init, Use!TypeOK, Use!Compatible, Use!UsedIsPublished, Use!Stages, Use!Uses

LEMMA UseInvStep ==
  Use!TypeOK /\ Use!Compatible /\ Use!UsedIsPublished /\ [Use!Next]_(Use!vars)
    => Use!TypeOK' /\ Use!Compatible' /\ Use!UsedIsPublished'
<1> SUFFICES ASSUME Use!TypeOK, Use!Compatible, Use!UsedIsPublished, [Use!Next]_(Use!vars)
             PROVE  Use!TypeOK' /\ Use!Compatible' /\ Use!UsedIsPublished'
  OBVIOUS
<1> USE DEF Use!TypeOK, Use!Compatible, Use!UsedIsPublished, Use!Stages, Use!Uses
<1>1. CASE UNCHANGED Use!vars BY <1>1 DEF Use!vars
<1>2. ASSUME NEW p \in Procs, Use!Create(p)
      PROVE  Use!TypeOK' /\ Use!Compatible' /\ Use!UsedIsPublished'
  BY <1>2 DEF Use!Create, Use!AllowedBy, Use!Become, Use!Beside
<1>3. ASSUME NEW p \in Procs, NEW u \in Use!Uses, Use!Enter(p, u)
      PROVE  Use!TypeOK' /\ Use!Compatible' /\ Use!UsedIsPublished'
  <2>1. /\ \A q \in Procs : UseOf(q)' = IF q = p THEN u ELSE UseOf(q)
        /\ UNCHANGED root /\ u \in {"alone", "run", "look"} /\ root \in Use!Admitted[u]
        /\ UseOf(p) = "none" /\ \A q \in Procs \ {p} : UseOf(q) \in Use!Beside[u]
    BY <1>3 DEF Use!Enter, Use!AllowedBy, Use!Become
  <2>2. Use!TypeOK' BY <2>1
  <2>3. Use!Compatible'
    <3>1. SUFFICES ASSUME NEW r \in Procs, NEW q \in Procs, r # q, UseOf(r)' # "none"
                   PROVE  UseOf(q)' \in Use!Beside[UseOf(r)']
      OBVIOUS
    <3>2. CASE r = p BY <2>1, <3>1, <3>2
    <3>3. CASE q = p BY <2>1, <3>1, <3>3 DEF Use!Beside
    <3>4. CASE r # p /\ q # p BY <2>1, <3>1, <3>4
    <3> QED BY <3>2, <3>3, <3>4
  <2>4. Use!UsedIsPublished' BY <2>1 DEF Use!Admitted
  <2> QED BY <2>2, <2>3, <2>4
<1>4. ASSUME NEW p \in Procs, Use!Promote(p)
      PROVE  Use!TypeOK' /\ Use!Compatible' /\ Use!UsedIsPublished'
  BY <1>4 DEF Use!Promote, Use!AllowedBy, Use!Become, Use!Beside
<1>5. ASSUME NEW p \in Procs, Use!Downgrade(p)
      PROVE  Use!TypeOK' /\ Use!Compatible' /\ Use!UsedIsPublished'
  <2>1. /\ \A q \in Procs : UseOf(q)' = IF q = p THEN "run" ELSE UseOf(q)
        /\ UNCHANGED root /\ root = "published" /\ UseOf(p) = "alone"
    BY <1>5 DEF Use!Downgrade, Use!Become
  <2>2. \A q \in Procs \ {p} : UseOf(q) = "none" BY <2>1 DEF Use!Beside
  <2> QED BY <2>1, <2>2 DEF Use!Beside
<1>6. ASSUME NEW p \in Procs, Use!Move(p)
      PROVE  /\ root' \in Use!Stages
             /\ \A q \in Procs \ {p} : UseOf(q) \notin {"run", "look"}
  BY <1>6 DEF Use!Move, Use!Moves, Use!Beside
<1>7. ASSUME NEW p \in Procs, Use!Work(p)
      PROVE  Use!TypeOK' /\ Use!Compatible' /\ Use!UsedIsPublished'
  BY <1>6, <1>7 DEF Use!Work, Use!Move
<1>8. ASSUME NEW p \in Procs, Use!Leave(p)
      PROVE  Use!TypeOK' /\ Use!Compatible' /\ Use!UsedIsPublished'
  <2>1. \A q \in Procs : UseOf(q)' = IF q = p THEN "none" ELSE UseOf(q)
    BY <1>8 DEF Use!Leave, Use!Become
  <2>2. /\ root' \in Use!Stages
        /\ (\A q \in Procs \ {p} : UseOf(q) \notin {"run", "look"}) \/ UNCHANGED root
    BY <1>6, <1>8 DEF Use!Leave
  <2>3. Use!TypeOK' /\ Use!UsedIsPublished' BY <2>1, <2>2
  <2>4. Use!Compatible'
    <3>1. SUFFICES ASSUME NEW r \in Procs, NEW q \in Procs, r # q, UseOf(r)' # "none"
                   PROVE  UseOf(q)' \in Use!Beside[UseOf(r)']
      OBVIOUS
    <3>2. r # p /\ UseOf(r)' = UseOf(r) BY <2>1, <3>1
    <3>3. UseOf(r) \in Use!Uses \ {"none"} BY <3>1, <3>2
    <3>4. CASE q = p BY <2>1, <3>2, <3>3, <3>4 DEF Use!Beside
    <3>5. CASE q # p BY <2>1, <3>1, <3>2, <3>5
    <3> QED BY <3>4, <3>5
  <2> QED BY <2>3, <2>4
<1> QED BY <1>1, <1>2, <1>3, <1>4, <1>5, <1>7, <1>8 DEF Use!Next

\* What EnvironmentUse promises, it keeps, and the locks with it: the uses of any two
\* invocations may go on beside each other, and whoever runs a command or looks does
\* so in a published environment.
THEOREM UsesAreCompatible == Spec => [](Use!Compatible /\ Use!UsedIsPublished)
<1>1. Use!Spec => [](Use!TypeOK /\ Use!Compatible /\ Use!UsedIsPublished)
  BY UseInvInit, UseInvStep, PTL DEF Use!Spec
<1> QED BY <1>1, LocksImplementUse, PTL DEF ImplementsUse
=============================================================================
