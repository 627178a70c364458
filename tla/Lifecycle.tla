------------------------------ MODULE Lifecycle ------------------------------
(***************************************************************************)
(* The durable state of one environment from create to destroy: the files  *)
(* of its root, the generated contract in its worktree, its port lease,    *)
(* its Compose claim and resources.  Every command is a sequence of        *)
(* durable steps, and the process can end between any two of them; the     *)
(* next command starts from what is on disk.                               *)
(*                                                                         *)
(* One command runs at a time: EnvironmentAccess shows that the two locks  *)
(* of the environment leave no other mutating command beside it.  A file   *)
(* written through a temporary name and a rename is replaced in one step.  *)
(* Git and Docker commands take effect in one step or fail; of the partial *)
(* failures the one the code handles is modelled, a `git worktree remove`  *)
(* that unregisters the worktree but leaves files.  Compose resources are  *)
(* all there or all gone, and foreign resources are not modelled.          *)
(***************************************************************************)
EXTENDS Naturals

CONSTANTS Ownerships,     \* source ownerships to consider
          CustomOutputs   \* which generated files lie outside .stackstead

ASSUME OwnershipsAssumption == Ownerships \subseteq {"stackstead", "external"}
ASSUME CustomOutputsAssumption == CustomOutputs \subseteq SUBSET {"env", "context"}

VARIABLES
  owner,      \* SourceOwnership of the manifest
  custom,     \* the outputs its configuration places outside .stackstead
  pc,         \* next step of the running command, "idle" between commands
  op,         \* the running command
  probes,     \* the probe files it has placed and not yet removed
  root,       \* files of the stackstead root that exist
  source,     \* status.source in manifest.json
  keys,       \* env_keys in manifest.json match the generated environment
  phase,      \* phase in teardown.json, "none" while there is no such file
  tree,       \* the worktree: absent, registered, or leftover without Git
  dirty,      \* it holds work that is not committed
  dir,        \* .stackstead exists in the worktree
  outputs,    \* the generated files: see Contents
  excluded,   \* info/exclude of the repository lists .stackstead/
  lease,      \* the port lease registry names this runtime token
  claim,      \* the Compose claim volume exists
  resources,  \* labelled Compose containers, networks or volumes exist
  calm        \* from now on nothing fails and only destroy is run

durable   == <<root, source, keys, phase>>
checkout  == <<tree, dirty, dir, outputs, excluded>>
runtime   == <<lease, claim, resources>>
parameter == <<owner, custom>>
vars == <<parameter, pc, op, probes, durable, checkout, runtime, calm>>

RootFiles == {"root", "lock", "run.lock", "manifest", "events"}
Phases    == {"none", "runtime_remove", "source_remove", "finalize"}
Outputs   == {"env", "context", "pointer", "override"}
\* empty: the zero-length probe file of validate_output_aliases
Contents  == {"absent", "empty", "valid"}
Commands  == {"create", "up", "repair", "destroy"}

PCs == {"start", "idle",
        "initialize", "persist", "reserve", "checkout", "probe", "unprobe", "exclude",
        "mkdir", "reprobe", "unreprobe", "env", "context", "override", "pointer", "save",
        "journal", "hooks", "ready", "journalRepair",
        "ungenerate", "unlease", "clean", "removeRoot", "claim", "compose",
        "teardown", "preDestroy", "record", "runtime", "recordRuntime", "sourceRemove",
        "gitRemove", "removeLeftover", "removeDir", "recordSource", "finalize"}

TypeOK ==
  /\ owner \in Ownerships /\ custom \in CustomOutputs
  /\ pc \in PCs /\ op \in Commands \cup {"none"} /\ probes \subseteq Outputs
  /\ root \subseteq RootFiles
  /\ source \in {"created", "ready"} /\ keys \in BOOLEAN
  /\ phase \in Phases
  /\ tree \in {"absent", "registered", "leftover"} /\ dirty \in BOOLEAN
  /\ dir \in BOOLEAN /\ outputs \in [Outputs -> Contents] /\ excluded \in BOOLEAN
  /\ lease \in BOOLEAN /\ claim \in BOOLEAN /\ resources \in BOOLEAN
  /\ calm \in BOOLEAN

Init ==
  /\ owner \in Ownerships /\ custom \in CustomOutputs
  /\ pc = "start" /\ op = "none" /\ probes = {}
  /\ root = {} /\ source = "created" /\ keys = FALSE /\ phase = "none"
  /\ tree = IF owner = "external" THEN "registered" ELSE "absent"
  /\ dirty = FALSE /\ dir = FALSE /\ outputs = [o \in Outputs |-> "absent"]
  /\ excluded \in BOOLEAN
  /\ lease = FALSE /\ claim = FALSE /\ resources = FALSE
  /\ calm = FALSE

-----------------------------------------------------------------------------
Owned == owner = "stackstead"

\* destroy.rs: no event log yet, and the first manifest still in place.
Pending == "events" \notin root /\ source = "created"

env     == outputs["env"]
pointer == outputs["pointer"]

\* owned_custom_outputs reads the header of a custom output that exists: an
\* empty one proves nothing and is an error.
OutputsProven == \A o \in custom : outputs[o] # "empty"

\* Git sees a file below .stackstead/, which is none of the custom outputs that
\* ensure_worktree_clean lets pass.
Exposed == ~excluded /\ \E o \in Outputs \ custom : outputs[o] # "absent"

\* ensure_source_clean; Git answers only for a registered worktree.
SourceClean == tree = "registered" /\ ~dirty /\ OutputsProven /\ ~Exposed

\* validate_pointer_binding and validate_source_binding
Bound == pointer = "valid" /\ tree = "registered"

SourceComplete ==
  /\ pointer = "absent"
  /\ IF Owned THEN tree = "absent" ELSE ~dir /\ \A o \in custom : outputs[o] = "absent"

LocksExist == {"lock", "run.lock"} \subseteq root

\* ensure_no_teardown
NoTeardown == phase = "none"

\* Mutant: destroy verifies the lease in every phase.
LeaseAlwaysVerified == lease

\* destroy verifies the lease in every phase but the one that releases it.
LeaseVerified == phase # "finalize" => lease

\* resolve_destroy_manifest
DestroyResolves ==
  /\ "manifest" \in root
  /\ \/ Pending /\ pointer # "empty"
     \/ ~Pending /\ (phase # "none" \/ pointer = "valid")

Goto(to) == pc' = to /\ UNCHANGED <<op, probes>>

\* The command ends, with a result, an error or by dying.
Return == pc' = "idle" /\ op' = "none" /\ probes' = {}

Start(command, at) == pc' = at /\ op' = command /\ probes' = {}

\* What is left of the outputs when some are removed.
Without(gone) == [o \in Outputs |-> IF o \in gone THEN "absent" ELSE outputs[o]]

\* The worktree loses everything stackstead generated.
Ungenerated == dir' = FALSE /\ outputs' = Without(Outputs)

-----------------------------------------------------------------------------
\* create and adopt.  A stackstead id is random, so each root is made once.
BeginCreate ==
  /\ pc = "start"
  /\ ~calm
  /\ Start("create", "initialize")
  /\ UNCHANGED <<parameter, durable, checkout, runtime, calm>>

\* initialize_manifest: directories, lock, run.lock.
InitializeRoot ==
  /\ pc = "initialize"
  /\ root' = {"root", "lock", "run.lock"}
  /\ Goto("persist")
  /\ UNCHANGED <<parameter, source, keys, phase, checkout, runtime, calm>>

PersistManifest ==
  /\ pc = "persist"
  /\ root' = root \cup {"manifest"}
  /\ Goto("reserve")
  /\ UNCHANGED <<parameter, source, keys, phase, checkout, runtime, calm>>

\* The save failed, before or after the rename (write_json_atomic).
PersistFails ==
  /\ pc = "persist"
  /\ ~calm
  /\ root' \in {root, root \cup {"manifest"}}
  /\ Goto("removeRoot")
  /\ UNCHANGED <<parameter, source, keys, phase, checkout, runtime, calm>>

ReservePorts ==
  /\ pc = "reserve"
  /\ lease' = TRUE
  /\ Goto("checkout")
  /\ UNCHANGED <<parameter, durable, checkout, claim, resources, calm>>

\* Mutant: a failed reservation is taken to hold nothing.
ReserveFailsUnreleased ==
  /\ pc = "reserve"
  /\ ~calm
  /\ lease' \in BOOLEAN
  /\ Goto("clean")
  /\ UNCHANGED <<parameter, durable, checkout, claim, resources, calm>>

\* An ambiguous reservation: the registry may or may not hold it.
ReserveFails ==
  /\ pc = "reserve"
  /\ ~calm
  /\ lease' \in BOOLEAN
  /\ Goto("unlease")
  /\ UNCHANGED <<parameter, durable, checkout, claim, resources, calm>>

CreateSource ==
  /\ pc = "checkout"
  /\ tree' = "registered"
  /\ Goto("probe")
  /\ UNCHANGED <<parameter, durable, dirty, dir, outputs, excluded, runtime, calm>>

\* output_paths
Rank == [env |-> 1, context |-> 2, pointer |-> 3, override |-> 4]

First(o, some) == o \in some /\ \A p \in some : Rank[o] <= Rank[p]

\* validate_output_aliases creates every missing output, in this order, ...
PlaceProbe ==
  /\ pc \in {"probe", "reprobe"}
  /\ LET missing == {o \in Outputs : outputs[o] = "absent"} IN
     \/ \E o \in missing :
          /\ First(o, missing)
          /\ outputs' = [outputs EXCEPT ![o] = "empty"]
          /\ dir' = (dir \/ o \notin custom)
          /\ probes' = probes \cup {o}
          /\ UNCHANGED <<pc, op>>
     \/ /\ missing = {}
        /\ Goto(IF pc = "probe" THEN "unprobe" ELSE "unreprobe")
        /\ UNCHANGED <<dir, outputs>>
  /\ UNCHANGED <<parameter, durable, tree, dirty, excluded, runtime, calm>>

\* ... and removes them again; write_contract does it a second time.  An error
\* half way removes them too and leaves what an error before or after leaves.
RemoveProbe ==
  /\ pc \in {"unprobe", "unreprobe"}
  /\ \/ \E o \in probes :
          /\ First(o, probes)
          /\ outputs' = [outputs EXCEPT ![o] = "absent"]
          /\ probes' = probes \ {o}
          /\ UNCHANGED <<pc, op>>
     \/ /\ probes = {}
        /\ Goto(IF pc = "unprobe" THEN "exclude" ELSE "env")
        /\ UNCHANGED outputs
  /\ UNCHANGED <<parameter, durable, tree, dirty, dir, excluded, runtime, calm>>

\* ensure_generated_excluded, of create after the first probes and of repair
\* before any.  The entries of the custom outputs change no clean check.
ExcludeGenerated ==
  /\ pc = "exclude"
  /\ excluded' = TRUE
  /\ Goto(IF op = "create" THEN "mkdir" ELSE "reprobe")
  /\ UNCHANGED <<parameter, durable, tree, dirty, dir, outputs, runtime, calm>>

MakeGeneratedDir ==
  /\ pc = "mkdir"
  /\ dir' = TRUE
  /\ Goto("reprobe")
  /\ UNCHANGED <<parameter, durable, tree, dirty, outputs, excluded, runtime, calm>>

-----------------------------------------------------------------------------
\* write_contract, shared by create, up and repair: one output after the other.
Generate(o) ==
  /\ outputs' = [outputs EXCEPT ![o] = "valid"]
  /\ dir' = (dir \/ o \notin custom)
  /\ UNCHANGED <<parameter, durable, tree, dirty, excluded, runtime, calm>>

WriteEnvironment == pc = "env" /\ Generate("env") /\ Goto("context")
WriteContext     == pc = "context" /\ Generate("context") /\ Goto("override")
WriteOverride    == pc = "override" /\ Generate("override") /\ Goto("pointer")
WritePointer     == pc = "pointer" /\ Generate("pointer") /\ Goto("save")

SaveContract ==
  /\ pc = "save"
  /\ keys' = TRUE
  /\ Goto(IF op = "repair" THEN "ready" ELSE "journal")
  /\ UNCHANGED <<parameter, root, source, phase, checkout, runtime, calm>>

\* The first events of create and of up.
Journal ==
  /\ pc = "journal"
  /\ root' = root \cup {"events"}
  /\ Goto(IF op = "create" THEN "hooks" ELSE "claim")
  /\ UNCHANGED <<parameter, source, keys, phase, checkout, runtime, calm>>

\* post_create succeeded and the bindings still hold.
PostCreate ==
  /\ pc = "hooks"
  /\ Bound
  /\ Goto("ready")
  /\ UNCHANGED <<parameter, durable, checkout, runtime, calm>>

\* create and repair end; repair appends its event after the save.
SaveReady ==
  /\ pc = "ready"
  /\ source' = "ready"
  /\ IF op = "repair" THEN Goto("journalRepair") ELSE Return
  /\ UNCHANGED <<parameter, root, keys, phase, checkout, runtime, calm>>

JournalRepair ==
  /\ pc = "journalRepair"
  /\ root' = root \cup {"events"}
  /\ Return
  /\ UNCHANGED <<parameter, source, keys, phase, checkout, runtime, calm>>

-----------------------------------------------------------------------------

\* An error of create once the ports are reserved.  A published environment is
\* kept; the failure is journaled if that succeeds.
KeepPublished ==
  /\ op = "create" /\ pc \in {"save", "journal", "hooks", "ready"}
  /\ ~calm
  /\ pointer = "valid"
  /\ root' \in {root, root \cup {"events"}}
  /\ keys' \in {keys} \cup (IF pc = "save" THEN {TRUE} ELSE {})
  /\ Return
  /\ UNCHANGED <<parameter, source, phase, checkout, runtime, calm>>

RollBack ==
  /\ op = "create" /\ probes = {}
  /\ ~calm
  /\ \/ pc \in {"checkout", "probe", "exclude", "mkdir"} /\ Goto("unlease")
     \/ pc \in {"exclude", "reprobe", "env", "context", "override", "pointer"} /\ Goto("ungenerate")
  /\ UNCHANGED <<parameter, durable, checkout, runtime, calm>>

\* create_source_and_contract removes what the probes or write_contract left.
RemovePartialContract ==
  /\ pc = "ungenerate"
  /\ Ungenerated
  /\ Goto("unlease")
  /\ UNCHANGED <<parameter, durable, tree, dirty, excluded, runtime, calm>>

\* release_port_leases(_after_destroy), also the one of finalize_destroy.
ReleaseLease ==
  /\ pc = "unlease"
  /\ lease' = FALSE
  /\ Goto(IF phase = "finalize" THEN "removeRoot" ELSE "clean")
  /\ UNCHANGED <<parameter, durable, checkout, claim, resources, calm>>

\* cleanup_failed_create, of create itself and of destroy on a pending one.
CleanFailedCreate ==
  /\ pc = "clean"
  /\ IF Owned
     THEN tree = "absent" \/ SourceClean
     ELSE OutputsProven
  /\ tree' = IF Owned THEN "absent" ELSE tree
  /\ Ungenerated
  /\ Goto("removeRoot")
  /\ UNCHANGED <<parameter, durable, dirty, excluded, runtime, calm>>

\* Git unregistered the worktree but could not remove all of it.
CleanFailedCreateFails ==
  /\ pc = "clean"
  /\ ~calm
  /\ Owned /\ SourceClean
  /\ tree' = "leftover"
  /\ \E gone \in SUBSET Outputs : custom \subseteq gone /\ outputs' = Without(gone)
  /\ Return
  /\ UNCHANGED <<parameter, durable, dirty, dir, excluded, runtime, calm>>

\* remove_stackstead_root: remove_dir_all in any order, the root itself last.
RemoveRootEntry ==
  /\ pc = "removeRoot"
  /\ \/ \E f \in root \ {"root"} :
          /\ root' = root \ {f}
          /\ UNCHANGED <<phase, pc, op, probes>>
     \/ /\ phase # "none"
        /\ phase' = "none"
        /\ UNCHANGED <<root, pc, op, probes>>
     \/ /\ root = {"root"} /\ phase = "none"
        /\ root' = {}
        /\ UNCHANGED phase
        /\ Return
  /\ UNCHANGED <<parameter, source, keys, checkout, runtime, calm>>

-----------------------------------------------------------------------------
\* up and repair, after their checks under the locks.  up is reduced to what
\* destroy has to undo: the claim and the Compose resources.
BeginUp ==
  /\ pc = "idle"
  /\ ~calm
  /\ "manifest" \in root /\ LocksExist
  /\ Bound /\ NoTeardown /\ lease
  /\ Start("up", "reprobe")
  /\ UNCHANGED <<parameter, durable, checkout, runtime, calm>>

BeginRepair ==
  /\ pc = "idle"
  /\ ~calm
  /\ "manifest" \in root /\ LocksExist
  /\ pointer # "empty" /\ tree = "registered" /\ NoTeardown /\ lease
  /\ Start("repair", "exclude")
  /\ UNCHANGED <<parameter, durable, checkout, runtime, calm>>

\* compose::up claims the namespace before it creates anything in it.
EnsureClaim ==
  /\ pc = "claim"
  /\ claim \/ ~resources
  /\ claim' = TRUE
  /\ Goto("compose")
  /\ UNCHANGED <<parameter, durable, checkout, lease, resources, calm>>

ComposeUp ==
  /\ pc = "compose"
  /\ resources' = TRUE
  /\ Return
  /\ UNCHANGED <<parameter, durable, checkout, lease, claim, calm>>

-----------------------------------------------------------------------------
\* destroy resolves, locks, reloads, and takes up the recorded phase.
BeginDestroy ==
  /\ pc = "idle"
  /\ DestroyResolves /\ LocksExist
  /\ \/ /\ Pending /\ pointer = "absent"
        /\ Start("destroy", "unlease")
     \/ /\ ~(Pending /\ pointer = "absent")
        /\ LeaseVerified
        /\ \/ phase = "none" /\ Start("destroy", "teardown")
           \/ phase = "runtime_remove" /\ Start("destroy", "runtime")
           \/ phase = "source_remove" /\ Start("destroy", "sourceRemove")
           \/ phase = "finalize" /\ SourceComplete /\ Start("destroy", "finalize")
  /\ UNCHANGED <<parameter, durable, checkout, runtime, calm>>

\* begin_teardown: checks and the first event, the hooks, the record.
StartTeardown ==
  /\ pc = "teardown"
  /\ Bound /\ SourceClean
  /\ root' = root \cup {"events"}
  /\ Goto("preDestroy")
  /\ UNCHANGED <<parameter, source, keys, phase, checkout, runtime, calm>>

PreDestroy ==
  /\ pc = "preDestroy"
  /\ env = "valid" /\ keys
  /\ Goto("record")
  /\ UNCHANGED <<parameter, durable, checkout, runtime, calm>>

\* Mutant: the phase is recorded ahead of the work it stands for.
RecordTeardownAhead ==
  /\ pc = "record"
  /\ phase' = "source_remove"
  /\ Goto("runtime")
  /\ UNCHANGED <<parameter, root, source, keys, checkout, runtime, calm>>

RecordTeardown ==
  /\ pc = "record"
  /\ phase' = "runtime_remove"
  /\ Goto("runtime")
  /\ UNCHANGED <<parameter, root, source, keys, checkout, runtime, calm>>

\* remove_runtime: compose stop and down -v, then the next phase.
RemoveRuntime ==
  /\ pc = "runtime"
  /\ Bound /\ SourceClean
  /\ claim \/ ~resources
  /\ root' = root \cup {"events"}
  /\ resources' = FALSE
  /\ Goto("recordRuntime")
  /\ UNCHANGED <<parameter, source, keys, phase, checkout, lease, claim, calm>>

RecordRuntimeRemoved ==
  /\ pc = "recordRuntime"
  /\ phase' = "source_remove"
  /\ Goto("sourceRemove")
  /\ UNCHANGED <<parameter, root, source, keys, checkout, runtime, calm>>

\* remove_source: validate_recovery_source, the event, the custom outputs.
BeginSourceRemoval ==
  /\ pc = "sourceRemove"
  /\ root' = root \cup {"events"}
  /\ \/ SourceComplete /\ Goto("recordSource") /\ UNCHANGED outputs
     \/ /\ ~SourceComplete /\ Owned /\ tree # "registered"
        /\ Goto("removeLeftover")
        /\ UNCHANGED outputs
     \/ /\ ~SourceComplete /\ Bound /\ SourceClean
        /\ outputs' = Without(custom)
        /\ Goto(IF Owned THEN "gitRemove" ELSE "removeDir")
  /\ UNCHANGED <<parameter, source, keys, phase, tree, dirty, dir, excluded, runtime, calm>>

\* Mutant: git worktree remove --force.
GitRemoveForced ==
  /\ pc = "gitRemove"
  /\ tree' = "absent" /\ Ungenerated
  /\ Goto("recordSource")
  /\ UNCHANGED <<parameter, durable, dirty, excluded, runtime, calm>>

\* git worktree remove, without --force: it refuses a dirty worktree itself.
GitRemove ==
  /\ pc = "gitRemove"
  /\ SourceClean
  /\ tree' = "absent" /\ Ungenerated
  /\ Goto("recordSource")
  /\ UNCHANGED <<parameter, durable, dirty, excluded, runtime, calm>>

\* It unregistered the worktree and could not remove all of it.
GitRemoveFails ==
  /\ pc = "gitRemove"
  /\ ~calm
  /\ SourceClean
  /\ tree' = "leftover"
  /\ \E gone \in SUBSET Outputs : outputs' = Without(gone)
  /\ Goto("removeLeftover")
  /\ UNCHANGED <<parameter, durable, dirty, dir, excluded, runtime, calm>>

\* remove_owned_source, also after the ownership helper ran.
RemoveLeftover ==
  /\ pc = "removeLeftover"
  /\ tree' = "absent" /\ Ungenerated
  /\ Goto("recordSource")
  /\ UNCHANGED <<parameter, durable, dirty, excluded, runtime, calm>>

\* remove_generated_dir of an adopted worktree: remove_dir_all, in any order.
RemoveDirEntry ==
  /\ pc = "removeDir"
  /\ \/ \E o \in Outputs :
          /\ outputs[o] # "absent"
          /\ outputs' = Without({o})
          /\ UNCHANGED <<pc, op, probes, dir>>
     \/ /\ \A o \in Outputs : outputs[o] = "absent"
        /\ dir' = FALSE
        /\ Goto("recordSource")
        /\ UNCHANGED outputs
  /\ UNCHANGED <<parameter, durable, tree, dirty, excluded, runtime, calm>>

RecordSourceRemoved ==
  /\ pc = "recordSource"
  /\ SourceComplete
  /\ phase' = "finalize"
  /\ Goto("finalize")
  /\ UNCHANGED <<parameter, root, source, keys, checkout, runtime, calm>>

\* finalize_destroy goes on with ReleaseLease and RemoveRootEntry.
RemoveClaim ==
  /\ pc = "finalize"
  /\ SourceComplete
  /\ ~(claim /\ resources)
  /\ claim' = FALSE
  /\ root' = root \cup {"events"}
  /\ Goto("unlease")
  /\ UNCHANGED <<parameter, source, keys, phase, checkout, lease, resources, calm>>

-----------------------------------------------------------------------------
\* Somebody works in the checkout; commits or discards.
Edit ==
  /\ ~calm
  /\ tree = "registered"
  /\ dirty' = TRUE
  /\ UNCHANGED <<parameter, pc, op, probes, durable, tree, dir, outputs, excluded, runtime, calm>>

Commit ==
  /\ dirty
  /\ dirty' = FALSE
  /\ UNCHANGED <<parameter, pc, op, probes, durable, tree, dir, outputs, excluded, runtime, calm>>

\* Another create or repair of the repository lists .stackstead/ in the file all
\* its worktrees share.
ExcludeElsewhere ==
  /\ ~excluded
  /\ excluded' = TRUE
  /\ UNCHANGED <<parameter, pc, op, probes, durable, tree, dirty, dir, outputs, runtime, calm>>

\* The process dies, or a step without a rollback of its own returns an error.
\* A custom output is written beside itself: its temporary file may stay.
Interrupt ==
  /\ pc \notin {"start", "idle"}
  /\ ~calm
  /\ UNCHANGED dirty \/ (pc \in custom /\ dirty' = TRUE)
  /\ Return
  /\ UNCHANGED <<parameter, durable, tree, dir, outputs, excluded, runtime, calm>>

\* A step finds what it checks violated, and the command ends with an error.
\* (The guards of the other steps are never found violated.)
Refuse ==
  /\ \/ pc = "clean" /\ ~(IF Owned THEN tree = "absent" \/ SourceClean ELSE OutputsProven)
     \/ pc \in {"teardown", "runtime"} /\ ~(Bound /\ SourceClean)
     \/ pc = "preDestroy" /\ ~(env = "valid" /\ keys)
     \/ pc = "sourceRemove" /\ ~(SourceComplete \/ (Owned /\ tree # "registered")
                                 \/ (Bound /\ SourceClean))
     \/ pc = "gitRemove" /\ ~SourceClean
  /\ Return
  /\ UNCHANGED <<parameter, durable, checkout, runtime, calm>>

Calm ==
  /\ ~calm
  /\ calm' = TRUE
  /\ UNCHANGED <<parameter, pc, op, probes, durable, checkout, runtime>>

-----------------------------------------------------------------------------
Create ==
  \/ InitializeRoot \/ PersistManifest \/ ReservePorts \/ CreateSource
  \/ PlaceProbe \/ RemoveProbe \/ ExcludeGenerated \/ MakeGeneratedDir
  \/ WriteEnvironment \/ WriteContext \/ WriteOverride \/ WritePointer
  \/ SaveContract \/ Journal \/ PostCreate \/ SaveReady \/ JournalRepair

Undo ==
  \/ RemovePartialContract \/ ReleaseLease \/ CleanFailedCreate \/ RemoveRootEntry

Destroy ==
  \/ StartTeardown \/ PreDestroy \/ RecordTeardown \/ RemoveRuntime \/ RecordRuntimeRemoved
  \/ BeginSourceRemoval \/ GitRemove \/ RemoveLeftover \/ RemoveDirEntry
  \/ RecordSourceRemoved \/ RemoveClaim

Fault ==
  \/ PersistFails \/ ReserveFails \/ KeepPublished \/ RollBack \/ CleanFailedCreateFails
  \/ GitRemoveFails \/ Interrupt

Step == Create \/ EnsureClaim \/ ComposeUp \/ Undo \/ Destroy \/ Refuse

Next ==
  \/ BeginCreate \/ BeginUp \/ BeginRepair \/ BeginDestroy
  \/ Step \/ Fault \/ Edit \/ Commit \/ ExcludeElsewhere \/ Calm

Spec == Init /\ [][Next]_vars

\* A running command goes on, and destroy is retried while it is accepted.
FairSpec == Spec /\ WF_vars(Step) /\ WF_vars(BeginDestroy)

-----------------------------------------------------------------------------
\* Whatever Compose holds can be traced and torn down: as long as resources
\* exist there are their claim, their port lease, the manifest, the registered
\* source and its reciprocal pointer (compose/runtime.rs, destroy.rs).
RuntimeAnchored ==
  resources => claim /\ lease /\ "manifest" \in root /\ Bound

\* Once no manifest is left, nothing else of the environment is: no lease or
\* claim, no managed worktree, no generated file in an adopted one.
NothingOrphaned ==
  "manifest" \notin root =>
    /\ ~lease /\ ~claim /\ ~resources
    /\ ~dir /\ \A o \in Outputs : outputs[o] = "absent"
    /\ Owned => tree = "absent"

\* A published pointer is backed by a manifest, a lease and both lock files, so
\* a lifecycle command that resolves through it finds all it needs; and Git does
\* not see what was generated, so destroy does not take it for somebody's work.
PublishedIsBacked ==
  pointer = "valid" => "manifest" \in root /\ LocksExist /\ lease /\ ~Exposed

\* Wherever a command died or failed, nothing is left that no command can find:
\* what Compose holds, what is on disk and what is published have their anchors.
NothingIsLost == RuntimeAnchored /\ NothingOrphaned /\ PublishedIsBacked

\* The recorded phase is the truth about what is gone, whatever interrupted
\* the command that recorded it: a retry may skip the earlier phases.
PhaseIsTrue ==
  /\ phase \in {"source_remove", "finalize"} => ~resources
  /\ phase = "finalize" => SourceComplete
  /\ claim => "manifest" \in root /\ lease

\* Destroy and rollback never remove a checkout with uncommitted work, never
\* an adopted checkout, and keep the claim until the source is gone.
WorkIsKept ==
  [][/\ tree = "registered" /\ tree' # "registered" => Owned /\ ~dirty
     /\ claim /\ ~claim' => SourceComplete]_vars

\* What destroy needs to get through, over and above an untouched checkout: a
\* pending create of a managed checkout must not have died with a probe below
\* .stackstead/ before that was excluded (PendingIsFinalizable fails there).
Recoverable ==
  /\ DestroyResolves /\ LocksExist /\ OutputsProven
  /\ Pending /\ pointer = "absent" => tree # "leftover" /\ (Owned => ~Exposed)
  /\ phase = "none" /\ pointer = "valid" => keys /\ env = "valid"
  /\ phase = "source_remove" => SourceComplete \/ Bound \/ (Owned /\ tree = "leftover")

\* Once failures have stopped and the checkout is clean, destroy gets an
\* environment it can recover from any phase to removal (lifecycle.md, Destroy).
DestroyFinishes ==
  calm /\ ~dirty /\ Recoverable ~> "manifest" \notin root

-----------------------------------------------------------------------------
\* What docs/lifecycle.md says of interruptions and the code does not keep.

\* "a process interruption leaves a manager-resolvable pending manifest that
\* destroy can finalize": before the pointer is published.
PendingIsFinalizable ==
  pc = "idle" /\ "manifest" \in root /\ Pending /\ pointer # "valid" =>
    DestroyResolves /\ OutputsProven /\ (Owned => ~Exposed)

\* The same, between the publication of the pointer and the end of create.
PublishedCreateIsFinalizable ==
  pc = "idle" /\ source = "created" /\ pointer = "valid" => env = "valid" /\ keys

\* "A retry resumes the recorded phase": source_remove, of a clean checkout.
SourceRemovalResumes ==
  pc = "idle" /\ phase = "source_remove" /\ ~dirty =>
    SourceComplete \/ Bound \/ (Owned /\ tree = "leftover")

\* "A retry resumes the recorded phase": finalize, as long as it is recorded.
FinalizeResumes ==
  pc = "idle" /\ "manifest" \in root /\ phase = "finalize" => LocksExist

=============================================================================
