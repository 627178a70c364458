-------------------------- MODULE EnvironmentAccess --------------------------
(***************************************************************************)
(* How the commands of one stackstead share it: the mutation lock          *)
(* (state/lock), the run lease (state/run.lock) and the durable stage of   *)
(* the environment that both files live in.  Every element of Procs is one *)
(* invocation of the CLI: it chooses an operation, runs it once and is     *)
(* done.  Locks are flock(2) locks: they belong to an open file            *)
(* description, so a run lease survives its process in a child that        *)
(* inherited the descriptor, and a waiter keeps waiting on a file that was *)
(* unlinked under it.                                                      *)
(*                                                                         *)
(* Simplifications.  Stackstead ids carry 128 random bits, so a removed    *)
(* root never reappears under the same path and one environment is enough: *)
(* two environments share no lock of this module.  What an operation does  *)
(* between its checks and its end is one pc ("work"); Lifecycle opens the  *)
(* steps of create and destroy.                                            *)
(***************************************************************************)
EXTENDS Naturals

CONSTANTS Procs,  \* invocations of the CLI
          Ops     \* the operations they may choose

\* create and adopt; launch = create, then up, then run, under one lock
Creators  == {"create", "launch"}
\* "mutate" stands for up and stop: exclusive, and resolved with a live pointer
Mutators  == {"mutate", "repair"}
\* "run" stands for run and exec; "observe" for open and db status
AllOps    == Creators \cup Mutators \cup {"run", "observe", "destroy"}
SharedOps == {"run", "observe"}

ASSUME OpsAssumption == Ops \subseteq AllOps

VARIABLES
  root,       \* durable stage of the environment, see Stages
  pc,         \* where each invocation is
  op,         \* the operation it chose ("none" before that)
  mutex,      \* invocations whose descriptor has the lock on state/lock
  exclusive,  \* ... an exclusive lock on state/run.lock
  shared,     \* ... a shared lock on state/run.lock (its own or its child's)
  children    \* invocations with a live supervised or foreground child

vars == <<root, pc, op, mutex, exclusive, shared, children>>

\* absent: no root.  bare: root and lock file only.  pending: run.lock and
\* manifest.json, pointer not yet published.  published: reciprocal pointer in
\* the worktree.  teardown: teardown.json written.  removed: root deleted.
Stages == {"absent", "bare", "pending", "published", "teardown", "removed"}

PCs == {"idle", "freshLock", "initialize", "creating", "publishing",
        "openMutex", "waitMutex", "openRun", "waitRun", "check", "work",
        "tearing", "downgrading", "spawn", "waiting", "orphan", "done"}

TypeOK ==
  /\ root \in Stages
  /\ pc \in [Procs -> PCs]
  /\ op \in [Procs -> AllOps \cup {"none"}]
  /\ mutex \subseteq Procs
  /\ exclusive \subseteq Procs
  /\ shared \subseteq Procs
  /\ children \subseteq Procs

\* An earlier invocation may have left the environment in any stage that can be
\* resolved; its own locks went with it.
Init ==
  /\ root \in {"absent", "pending", "published", "teardown"}
  /\ pc = [p \in Procs |-> "idle"]
  /\ op = [p \in Procs |-> "none"]
  /\ mutex = {}
  /\ exclusive = {}
  /\ shared = {}
  /\ children = {}

-----------------------------------------------------------------------------
\* Which stages a command can resolve by name, and what it accepts once it
\* holds its locks and has reloaded the manifest.
Resolvable(o) ==
  CASE o \in Creators            -> {"absent"}
    [] o \in {"repair", "destroy"} -> {"pending", "published", "teardown"}
    [] OTHER                     -> {"published"}

Acceptable(o) ==
  CASE o = "destroy" -> {"pending", "published", "teardown"}
    [] o = "repair"  -> {"pending", "published"}
    [] OTHER         -> {"published"}

LockFileExists == root \notin {"absent", "removed"}
RunLockExists  == root \in {"pending", "published", "teardown"}

Goto(p, to) == pc' = [pc EXCEPT ![p] = to]

\* Dropping the guards of p: LockGuard::drop unlocks, and so does process exit.
Release(p) ==
  /\ mutex' = mutex \ {p}
  /\ exclusive' = exclusive \ {p}
  /\ shared' = shared \ {p}

-----------------------------------------------------------------------------

\* Resolution reads manifests without any lock.  A creator makes the root and
\* opens the lock file in it (initialize_manifest, LockGuard::acquire).
Begin(p, o) ==
  /\ pc[p] = "idle"
  /\ root \in Resolvable(o)
  /\ op' = [op EXCEPT ![p] = o]
  /\ \/ o \in Creators /\ root' = "bare" /\ Goto(p, "freshLock")
     \/ o = "observe" /\ Goto(p, "openRun") /\ UNCHANGED root
     \/ o \notin Creators \cup {"observe"} /\ Goto(p, "openMutex") /\ UNCHANGED root
  /\ UNCHANGED <<mutex, exclusive, shared, children>>

\* The creator of a fresh root locks it, then makes run.lock and the manifest.
LockFresh(p) ==
  /\ pc[p] = "freshLock"
  /\ mutex = {}
  /\ mutex' = mutex \cup {p}
  /\ Goto(p, "initialize")
  /\ UNCHANGED <<root, op, exclusive, shared, children>>

PersistManifest(p) ==
  /\ pc[p] = "initialize"
  /\ root' = "pending"
  /\ Goto(p, "creating")
  /\ UNCHANGED <<op, mutex, exclusive, shared, children>>

\* write_contract publishes the pointer; post_create hooks run after it.
PublishPointer(p) ==
  /\ pc[p] = "creating"
  /\ root' = "published"
  /\ Goto(p, "publishing")
  /\ UNCHANGED <<op, mutex, exclusive, shared, children>>

\* create drops the lock with its outcome; launch carries it into up, where
\* HeldEnvironment::after_create goes on to the run lease.
FinishCreate(p) ==
  /\ pc[p] = "publishing"
  /\ \/ op[p] = "create" /\ Release(p) /\ Goto(p, "done")
     \/ op[p] = "launch" /\ Goto(p, "openRun") /\ UNCHANGED <<mutex, exclusive, shared>>
  /\ UNCHANGED <<root, op, children>>

\* A failed create removes its root under the lock unless the pointer exists.
RollBackCreate(p) ==
  /\ pc[p] \in {"initialize", "creating"}
  /\ root' = "removed"
  /\ Release(p)
  /\ Goto(p, "done")
  /\ UNCHANGED <<op, children>>

-----------------------------------------------------------------------------

\* LockGuard::open_existing: the path is opened first, the lock waited for
\* afterwards, on that open file, whatever happens to the path.
OpenMutex(p) ==
  /\ pc[p] = "openMutex"
  /\ LockFileExists
  /\ Goto(p, "waitMutex")
  /\ UNCHANGED <<root, op, mutex, exclusive, shared, children>>

LockMutex(p) ==
  /\ pc[p] = "waitMutex"
  /\ mutex = {}
  /\ mutex' = mutex \cup {p}
  /\ Goto(p, "openRun")
  /\ UNCHANGED <<root, op, exclusive, shared, children>>

OpenRun(p) ==
  /\ pc[p] = "openRun"
  /\ RunLockExists
  /\ Goto(p, "waitRun")
  /\ UNCHANGED <<root, op, mutex, exclusive, shared, children>>

LockRun(p) ==
  /\ pc[p] = "waitRun"
  /\ exclusive = {}
  /\ \/ /\ op[p] \in SharedOps
        /\ shared' = shared \cup {p}
        /\ UNCHANGED exclusive
     \/ /\ op[p] \notin SharedOps
        /\ shared = {}
        /\ exclusive' = exclusive \cup {p}
        /\ UNCHANGED shared
  /\ Goto(p, "check")
  /\ UNCHANGED <<root, op, mutex, children>>

\* Mutant: the manifest resolved before the wait for the locks is trusted.
CheckStale(p) ==
  /\ pc[p] = "check"
  /\ Goto(p, "work")
  /\ UNCHANGED <<root, op, mutex, exclusive, shared, children>>

\* The manifest is read again under the locks and the operation's own checks
\* run: binding, pointer, teardown record, port leases.
Check(p) ==
  /\ pc[p] = "check"
  /\ root \in Acceptable(op[p])
  /\ Goto(p, "work")
  /\ UNCHANGED <<root, op, mutex, exclusive, shared, children>>

\* The error returns of the three steps above.
Refuse(p) ==
  /\ \/ pc[p] = "openMutex" /\ ~LockFileExists
     \/ pc[p] = "openRun" /\ ~RunLockExists
     \/ pc[p] = "check" /\ root \notin Acceptable(op[p])
  /\ Release(p)
  /\ Goto(p, "done")
  /\ UNCHANGED <<root, op, children>>
-----------------------------------------------------------------------------
\* up and stop end; repair regenerates the contract, pointer included; open and
\* db status end.
FinishWork(p) ==
  /\ pc[p] = "work"
  /\ op[p] \in Mutators \cup {"observe"}
  /\ root' = IF op[p] = "repair" THEN "published" ELSE root
  /\ Release(p)
  /\ Goto(p, "done")
  /\ UNCHANGED <<op, children>>

\* Mutant: the mutation lock is dropped before the lease is converted.
DowngradeUnlocked(p) ==
  /\ pc[p] = "work"
  /\ op[p] = "launch"
  /\ p \in exclusive
  /\ exclusive' = exclusive \ {p}
  /\ mutex' = mutex \ {p}
  /\ Goto(p, "downgrading")
  /\ UNCHANGED <<root, op, shared, children>>

\* HeldEnvironment::for_run: launch turns startup's exclusive lease into a
\* shared one.  flock cannot convert atomically: unlock, then one attempt.
Downgrade(p) ==
  /\ pc[p] = "work"
  /\ op[p] = "launch"
  /\ p \in exclusive
  /\ exclusive' = exclusive \ {p}
  /\ Goto(p, "downgrading")
  /\ UNCHANGED <<root, op, mutex, shared, children>>

Reshare(p) ==
  /\ pc[p] = "downgrading"
  /\ exclusive = {}
  /\ shared' = shared \cup {p}
  /\ Goto(p, "check")
  /\ UNCHANGED <<root, op, mutex, exclusive, children>>

\* HeldEnvironment::into_run drops the mutation lock after the checks.
IntoRun(p) ==
  /\ pc[p] = "work"
  /\ op[p] \in {"run", "launch"}
  /\ p \in shared
  /\ mutex' = mutex \ {p}
  /\ Goto(p, "spawn")
  /\ UNCHANGED <<root, op, exclusive, shared, children>>

\* Mutant: the parent drops its lease guard, which unlocks the child's lock.
SpawnUnlocking(p) ==
  /\ pc[p] = "spawn"
  /\ children' = children \cup {p}
  /\ shared' = shared \ {p}
  /\ Goto(p, "waiting")
  /\ UNCHANGED <<root, op, mutex, exclusive>>

\* The child inherits the lease descriptor; the parent closes its own copy
\* without unlocking (close_after_handoff), so the lease stays locked.
Spawn(p) ==
  /\ pc[p] = "spawn"
  /\ children' = children \cup {p}
  /\ Goto(p, "waiting")
  /\ UNCHANGED <<root, op, mutex, exclusive, shared>>

\* The CLI dies while its child runs.
ParentDies(p) ==
  /\ pc[p] = "waiting"
  /\ Goto(p, "orphan")
  /\ UNCHANGED <<root, op, mutex, exclusive, shared, children>>

\* Mutant: the lease descriptor leaks into a process that outlives the child.
ChildExitsLeaking(p) ==
  /\ p \in children
  /\ children' = children \ {p}
  /\ Goto(p, "done")
  /\ UNCHANGED <<root, op, mutex, exclusive, shared>>

\* The supervisor (after cleaning up its target) or the foreground Compose
\* client exits: its descriptor was the last one.
ChildExits(p) ==
  /\ p \in children
  /\ children' = children \ {p}
  /\ Release(p)
  /\ Goto(p, "done")
  /\ UNCHANGED <<root, op>>

\* destroy records the teardown before it removes anything, unless an
\* interrupted create left nothing to tear down.
BeginTeardown(p) ==
  /\ pc[p] = "work"
  /\ op[p] = "destroy"
  /\ root' = IF root = "published" THEN "teardown" ELSE root
  /\ Goto(p, "tearing")
  /\ UNCHANGED <<op, mutex, exclusive, shared, children>>

RemoveRoot(p) ==
  /\ pc[p] = "tearing"
  /\ root' = "removed"
  /\ Release(p)
  /\ Goto(p, "done")
  /\ UNCHANGED <<op, children>>

\* Any other end of an invocation before its child runs: an error return, the
\* 30 second lock timeout, a signal.  The guards are dropped, files stay.
Abandon(p) ==
  /\ pc[p] \notin {"idle", "waiting", "orphan", "done"}
  /\ Release(p)
  /\ Goto(p, "done")
  /\ UNCHANGED <<root, op, children>>

-----------------------------------------------------------------------------
Progress(p) ==
  \/ LockFresh(p) \/ PersistManifest(p) \/ PublishPointer(p) \/ FinishCreate(p)
  \/ OpenMutex(p) \/ LockMutex(p) \/ OpenRun(p) \/ LockRun(p) \/ Check(p) \/ Refuse(p)
  \/ FinishWork(p) \/ Downgrade(p) \/ Reshare(p) \/ IntoRun(p) \/ Spawn(p)
  \/ ChildExits(p) \/ BeginTeardown(p) \/ RemoveRoot(p)

Next ==
  \E p \in Procs :
    \/ \E o \in Ops : Begin(p, o)
    \/ Progress(p)
    \/ RollBackCreate(p)
    \/ ParentDies(p)
    \/ Abandon(p)

Spec == Init /\ [][Next]_vars

\* An invocation that can take its next step takes it, a child ends, and the
\* lock poll of wait_for_lock finds a lock that stays free.  Nothing forces a
\* timeout, an error or a crash.
FairSpec == Spec /\ \A p \in Procs : WF_vars(Progress(p))

-----------------------------------------------------------------------------
\* Past its checks and not yet done with the environment.
Working(p) == pc[p] \in {"work", "tearing", "spawn"}

Creating(p) == pc[p] \in {"initialize", "creating", "publishing"}

\* A live child always runs in a published environment, under a locked run
\* lease, with no teardown begun: stop, up, repair and destroy wait for run and
\* exec, also when the parent CLI died (agent.rs handoff, docs/lifecycle.md).
ChildProtected ==
  \A p \in children : p \in shared /\ root = "published"

\* While one invocation works under the exclusive run lease, no other one works
\* on the environment and no child runs in it.
ExclusiveWork ==
  \A p \in exclusive :
    /\ Working(p) => \A q \in Procs \ {p} : ~Working(q)
    /\ children = {}

\* What an operation checked after it got its locks still holds as long as it
\* works: nobody begins a teardown or removes the root under it.
CheckedStageHolds ==
  \A p \in Procs :
    /\ pc[p] \in {"work", "spawn"} => root \in Acceptable(op[p])
    /\ pc[p] = "tearing" => root \in {"pending", "teardown"}

\* From before its manifest can be resolved until create is over, only open and
\* db status get past their checks beside the creator: creation holds the new
\* lock before persisting the manifest and through post_create.
CreationPrivate ==
  \A p \in Procs : Creating(p) =>
    \A q \in Procs \ {p} : Working(q) => op[q] = "observe"

\* The lock of a fresh root is never contended, so taking it while holding the
\* port lease lock, against the usual order, cannot wait (provision.rs).
FreshLockUncontended ==
  \A p \in Procs : pc[p] = "freshLock" => mutex = {}

\* In the gap of a downgrade nobody holds the run lease exclusively, so the
\* single attempt to lock it shared succeeds: the mutation lock is kept.
DowngradeUncontended ==
  \A p \in Procs : pc[p] = "downgrading" => exclusive = {}

\* How an invocation uses the environment: the abstract state of EnvironmentUse.
\* launch creates until it has the run lease, works alone until it gives that
\* lease up, and counts as running in the gap of the conversion.
UseOf(p) ==
  CASE \/ pc[p] \in {"freshLock", "initialize", "creating", "publishing"}
       \/ op[p] = "launch" /\ pc[p] \in {"openRun", "waitRun"} -> "create"
    [] \/ pc[p] = "tearing"
       \/ op[p] \in Mutators \cup {"destroy"} /\ pc[p] = "work"
       \/ op[p] = "launch" /\ pc[p] \in {"check", "work"} /\ p \in exclusive -> "alone"
    [] \/ pc[p] \in {"downgrading", "spawn", "waiting", "orphan"}
       \/ op[p] = "run" /\ pc[p] = "work"
       \/ op[p] = "launch" /\ pc[p] \in {"check", "work"} /\ p \notin exclusive -> "run"
    [] op[p] = "observe" /\ pc[p] = "work" -> "look"
    [] OTHER -> "none"

Use == INSTANCE EnvironmentUse WITH stage <- root, use <- [p \in Procs |-> UseOf(p)]

\* Two files and the order in which they are locked, converted, handed over and
\* dropped give what EnvironmentUse promises: uses exclude each other as its table
\* says, each begins in a stage that admits it, launch keeps everybody out from the
\* first step of create to its child, and the stage moves under its one owner.
ImplementsUse == Use!Spec

\* A removed root stays removed: a delayed command cannot recreate state.
\* Teardown is left only by removal, and the root is never removed under a
\* child or under an open or db status that passed its checks.
StageAdvances ==
  /\ root = "removed" => root' = "removed"
  /\ root = "teardown" => root' \in {"teardown", "removed"}
  /\ root' = "removed" =>
       /\ children = {}
       /\ \A p \in Procs : op[p] = "observe" => ~Working(p)

StageOnlyAdvances == [][StageAdvances]_vars

\* Without any timeout, every command that started finishes: the order of the
\* two locks leaves no two commands waiting on each other, and a waiter for the
\* run lease is served once the children it waits for have exited.
EveryCommandEnds ==
  \A p \in Procs : pc[p] # "idle" ~> pc[p] = "done"

=============================================================================
