--------------------------- MODULE LifecycleProofs ---------------------------
(* Nothing is lost, phases are true and work is kept, for every ownership    *)
(* and output, whatever fails or is interrupted and however often destroy    *)
(* is repeated.                                                              *)
EXTENDS Lifecycle, TLAPS

\* No output exists.
Bare == \A o \in Outputs : outputs[o] = "absent"

\* Nothing is left outside the root.
Clean ==
  /\ ~lease /\ ~claim /\ ~resources
  /\ ~dir /\ Bare
  /\ Owned => tree = "absent"

Rooted    == {"manifest", "lock", "run.lock"} \subseteq root
Unclaimed == ~claim /\ ~resources

\* What holds wherever a command may have ended.
DurableInv ==
  /\ resources => claim /\ Bound
  /\ claim => lease /\ Rooted /\ "events" \in root
  /\ pointer = "valid" => lease /\ Rooted /\ excluded
  /\ "manifest" \notin root => Clean
  /\ phase \in {"source_remove", "finalize"} => ~resources
  /\ phase = "finalize" => SourceComplete
  /\ phase # "none" /\ "events" \notin root => Clean /\ phase = "finalize"
  /\ ~dir => \A o \in Outputs \ custom : outputs[o] = "absent"
  /\ Owned /\ tree = "absent" => ~dir /\ Bare

\* What a command knows besides, by the step it has come to.
PlaceInv ==
  /\ pc \in {"start", "initialize"} => root = {} /\ phase = "none"
  /\ pc = "persist" => "manifest" \notin root /\ {"lock", "run.lock"} \subseteq root /\ phase = "none"
  /\ pc = "reserve" => Clean /\ Rooted /\ phase = "none"
  /\ pc = "checkout" =>
       /\ Unclaimed /\ lease /\ Rooted /\ phase = "none"
       /\ ~dir /\ Bare
  /\ pc \in {"initialize", "persist", "reserve", "checkout", "probe", "unprobe", "mkdir"} =>
       op = "create"
  /\ pc \in {"probe", "unprobe", "exclude", "mkdir", "reprobe", "unreprobe", "env", "context",
              "override", "pointer"} =>
       /\ lease /\ Rooted /\ phase = "none" /\ tree = "registered"
       /\ op = "create" => Unclaimed /\ pointer # "valid"
  /\ pc \in {"mkdir", "reprobe", "unreprobe", "env", "context", "override", "pointer"} =>
       excluded
  /\ pc \in {"save", "journal", "claim", "compose"} =>
       Bound /\ lease /\ Rooted /\ phase = "none"
  /\ pc \in {"claim", "compose"} => "events" \in root
  /\ pc = "compose" => claim
  /\ pc = "ungenerate" => Unclaimed /\ phase = "none"
  /\ pc = "unlease" => Unclaimed /\ pointer # "valid" /\ phase \in {"none", "finalize"}
  /\ pc = "clean" => Unclaimed /\ ~lease /\ pointer # "valid" /\ phase = "none"
  /\ pc = "removeRoot" => Clean /\ phase \in {"none", "finalize"}
  /\ pc \in {"teardown", "preDestroy", "record"} => lease /\ Rooted /\ phase = "none"
  /\ pc \in {"preDestroy", "record"} => "events" \in root
  /\ pc \in {"runtime", "recordRuntime"} => phase = "runtime_remove"
  /\ pc = "recordRuntime" => ~resources
  /\ pc \in {"sourceRemove", "gitRemove", "removeLeftover", "removeDir", "recordSource"} =>
       phase = "source_remove"
  /\ pc \in {"gitRemove", "removeLeftover"} => Owned
  /\ pc = "removeLeftover" => tree # "registered"
  /\ pc = "finalize" => phase = "finalize"
  /\ \A o \in probes : outputs[o] = "empty"
  /\ pc \notin {"probe", "unprobe", "reprobe", "unreprobe"} => probes = {}

IInv == TypeOK /\ DurableInv /\ PlaceInv

-----------------------------------------------------------------------------
\* The initial state satisfies the strengthened invariant.
LEMMA IInvInit == Init => IInv
<1> SUFFICES ASSUME Init PROVE IInv OBVIOUS
<1>1. TypeOK
  BY DEF Init, TypeOK, PCs, Commands, RootFiles, Phases, Contents, Outputs
<1>2. DurableInv /\ PlaceInv
  BY CustomOutputsAssumption
  DEF Init, DurableInv, PlaceInv, Clean, Bare, Outputs, Owned, Rooted, SourceComplete, env, pointer
<1> QED BY <1>1, <1>2 DEF IInv

\* The types, of the place, of what is on disk, and of what is there or not.
PlaceTypes == pc \in PCs /\ op \in Commands \cup {"none"} /\ probes \subseteq Outputs
FileTypes  ==
  /\ owner \in Ownerships /\ custom \in CustomOutputs
  /\ root \subseteq RootFiles /\ source \in {"created", "ready"} /\ phase \in Phases
  /\ tree \in {"absent", "registered", "leftover"} /\ outputs \in [Outputs -> Contents]
FlagTypes  ==
  /\ keys \in BOOLEAN /\ dirty \in BOOLEAN /\ dir \in BOOLEAN
  /\ excluded \in BOOLEAN
  /\ lease \in BOOLEAN /\ claim \in BOOLEAN /\ resources \in BOOLEAN /\ calm \in BOOLEAN

\* Every step keeps the types of the place.
LEMMA PlaceTypeStep == PlaceTypes /\ Next => PlaceTypes'
<1> SUFFICES ASSUME PlaceTypes, Next PROVE PlaceTypes' OBVIOUS
<1> USE DEF PlaceTypes, PCs, Commands, Goto, Return, Start
<1>1. CASE BeginCreate \/ InitializeRoot \/ PersistManifest \/ PersistFails
           \/ ReservePorts \/ ReserveFails \/ CreateSource
  BY <1>1
  DEF BeginCreate, InitializeRoot, PersistManifest, PersistFails, ReservePorts,
      ReserveFails, CreateSource
<1>2. CASE PlaceProbe \/ RemoveProbe \/ ExcludeGenerated \/ MakeGeneratedDir
           \/ WriteEnvironment \/ WriteContext \/ WriteOverride \/ WritePointer
           \/ SaveContract \/ Journal \/ PostCreate \/ SaveReady
           \/ JournalRepair
  BY <1>2
  DEF PlaceProbe, RemoveProbe, ExcludeGenerated, MakeGeneratedDir, WriteEnvironment,
      WriteContext, WriteOverride, WritePointer, Generate, First, SaveContract, Journal,
      PostCreate, SaveReady, JournalRepair
<1>3. CASE KeepPublished \/ RollBack \/ RemovePartialContract \/ ReleaseLease
           \/ CleanFailedCreate \/ CleanFailedCreateFails \/ RemoveRootEntry
  BY <1>3
  DEF KeepPublished, RollBack, RemovePartialContract, ReleaseLease, CleanFailedCreate,
      CleanFailedCreateFails, RemoveRootEntry
<1>4. CASE BeginUp \/ BeginRepair \/ EnsureClaim \/ ComposeUp \/ BeginDestroy
  BY <1>4
  DEF BeginUp, BeginRepair, EnsureClaim, ComposeUp, BeginDestroy
<1>5. CASE StartTeardown \/ PreDestroy \/ RecordTeardown \/ RemoveRuntime
           \/ RecordRuntimeRemoved \/ BeginSourceRemoval \/ GitRemove \/ GitRemoveFails
           \/ RemoveLeftover \/ RemoveDirEntry \/ RecordSourceRemoved \/ RemoveClaim
  BY <1>5
  DEF StartTeardown, PreDestroy, RecordTeardown, RemoveRuntime, RecordRuntimeRemoved,
      BeginSourceRemoval, GitRemove, GitRemoveFails, RemoveLeftover, RemoveDirEntry,
      RecordSourceRemoved, RemoveClaim
<1>6. CASE Edit \/ Commit \/ ExcludeElsewhere \/ Interrupt \/ Refuse \/ Calm
  BY <1>6
  DEF Edit, Commit, ExcludeElsewhere, Interrupt, Refuse, Calm
<1> QED
  BY <1>1, <1>2, <1>3, <1>4, <1>5, <1>6
  DEF Next, Step, Create, Undo, Destroy, Fault

\* Every step keeps the types of the files.
LEMMA FileTypeStep == FileTypes /\ Next => FileTypes'
<1> SUFFICES ASSUME FileTypes, Next PROVE FileTypes' OBVIOUS
<1> USE DEF FileTypes, RootFiles, Phases, Contents, Without, Ungenerated,
            parameter, durable, checkout, runtime
<1>1. CASE BeginCreate \/ InitializeRoot \/ PersistManifest \/ PersistFails
           \/ ReservePorts \/ ReserveFails \/ CreateSource
  BY <1>1
  DEF BeginCreate, InitializeRoot, PersistManifest, PersistFails, ReservePorts,
      ReserveFails, CreateSource
<1>2. CASE PlaceProbe \/ RemoveProbe \/ ExcludeGenerated \/ MakeGeneratedDir
           \/ WriteEnvironment \/ WriteContext \/ WriteOverride \/ WritePointer
           \/ SaveContract \/ Journal \/ PostCreate \/ SaveReady
           \/ JournalRepair
  BY <1>2
  DEF PlaceProbe, RemoveProbe, ExcludeGenerated, MakeGeneratedDir, WriteEnvironment,
      WriteContext, WriteOverride, WritePointer, Generate, First, SaveContract, Journal,
      PostCreate, SaveReady, JournalRepair
<1>3. CASE KeepPublished \/ RollBack \/ RemovePartialContract \/ ReleaseLease
           \/ CleanFailedCreate \/ CleanFailedCreateFails \/ RemoveRootEntry
  BY <1>3
  DEF KeepPublished, RollBack, RemovePartialContract, ReleaseLease, CleanFailedCreate,
      CleanFailedCreateFails, RemoveRootEntry
<1>4. CASE BeginUp \/ BeginRepair \/ EnsureClaim \/ ComposeUp \/ BeginDestroy
  BY <1>4
  DEF BeginUp, BeginRepair, EnsureClaim, ComposeUp, BeginDestroy
<1>5. CASE StartTeardown \/ PreDestroy \/ RecordTeardown \/ RemoveRuntime
           \/ RecordRuntimeRemoved \/ BeginSourceRemoval \/ GitRemove \/ GitRemoveFails
           \/ RemoveLeftover \/ RemoveDirEntry \/ RecordSourceRemoved \/ RemoveClaim
  BY <1>5
  DEF StartTeardown, PreDestroy, RecordTeardown, RemoveRuntime, RecordRuntimeRemoved,
      BeginSourceRemoval, GitRemove, GitRemoveFails, RemoveLeftover, RemoveDirEntry,
      RecordSourceRemoved, RemoveClaim
<1>6. CASE Edit \/ Commit \/ ExcludeElsewhere \/ Interrupt \/ Refuse \/ Calm
  BY <1>6
  DEF Edit, Commit, ExcludeElsewhere, Interrupt, Refuse, Calm
<1> QED
  BY <1>1, <1>2, <1>3, <1>4, <1>5, <1>6
  DEF Next, Step, Create, Undo, Destroy, Fault

\* Every step keeps the types of the flags.
LEMMA FlagTypeStep == FlagTypes /\ Next => FlagTypes'
<1> SUFFICES ASSUME FlagTypes, Next PROVE FlagTypes' OBVIOUS
<1> USE DEF FlagTypes, Ungenerated, parameter, durable, checkout, runtime
<1>1. CASE BeginCreate \/ InitializeRoot \/ PersistManifest \/ PersistFails
           \/ ReservePorts \/ ReserveFails \/ CreateSource
  BY <1>1
  DEF BeginCreate, InitializeRoot, PersistManifest, PersistFails, ReservePorts,
      ReserveFails, CreateSource
<1>2. CASE RemoveProbe \/ ExcludeGenerated \/ MakeGeneratedDir \/ SaveContract \/ Journal
           \/ PostCreate \/ SaveReady \/ JournalRepair
  BY <1>2
  DEF RemoveProbe, ExcludeGenerated, MakeGeneratedDir, SaveContract, Journal, PostCreate,
      SaveReady, JournalRepair
<1>7. CASE PlaceProbe BY <1>7 DEF PlaceProbe
<1>8. CASE WriteEnvironment \/ WriteContext \/ WriteOverride \/ WritePointer
  BY <1>8 DEF WriteEnvironment, WriteContext, WriteOverride, WritePointer, Generate
<1>3. CASE KeepPublished \/ RollBack \/ ReleaseLease \/ RemoveRootEntry
  BY <1>3 DEF KeepPublished, RollBack, ReleaseLease, RemoveRootEntry
<1>9. CASE RemovePartialContract \/ CleanFailedCreate \/ CleanFailedCreateFails
  BY <1>9 DEF RemovePartialContract, CleanFailedCreate, CleanFailedCreateFails
<1>4. CASE BeginUp \/ BeginRepair \/ EnsureClaim \/ ComposeUp \/ BeginDestroy
  BY <1>4
  DEF BeginUp, BeginRepair, EnsureClaim, ComposeUp, BeginDestroy
<1>5. CASE StartTeardown \/ PreDestroy \/ RecordTeardown
  BY <1>5 DEF StartTeardown, PreDestroy, RecordTeardown
<1>10. CASE RemoveRuntime \/ RecordRuntimeRemoved \/ RecordSourceRemoved \/ RemoveClaim
  BY <1>10 DEF RemoveRuntime, RecordRuntimeRemoved, RecordSourceRemoved, RemoveClaim
<1>11. CASE BeginSourceRemoval \/ GitRemove \/ GitRemoveFails
  BY <1>11 DEF BeginSourceRemoval, GitRemove, GitRemoveFails
<1>12. CASE RemoveLeftover \/ RemoveDirEntry
  BY <1>12 DEF RemoveLeftover, RemoveDirEntry
<1>6. CASE Edit \/ Commit \/ ExcludeElsewhere \/ Interrupt \/ Refuse \/ Calm
  BY <1>6
  DEF Edit, Commit, ExcludeElsewhere, Interrupt, Refuse, Calm
<1> QED
  BY <1>1, <1>2, <1>3, <1>4, <1>5, <1>6, <1>7, <1>8, <1>9, <1>10, <1>11, <1>12
  DEF Next, Step, Create, Undo, Destroy, Fault

LEMMA TypeStep == TypeOK /\ Next => TypeOK'
<1>1. TypeOK <=> PlaceTypes /\ FileTypes /\ FlagTypes
  BY DEF TypeOK, PlaceTypes, FileTypes, FlagTypes
<1>2. TypeOK' <=> PlaceTypes' /\ FileTypes' /\ FlagTypes'
  BY DEF TypeOK, PlaceTypes, FileTypes, FlagTypes
<1> QED BY <1>1, <1>2, PlaceTypeStep, FileTypeStep, FlagTypeStep

\* The strengthened invariant is kept by the making of an environment.
LEMMA MakingStep ==
  ASSUME IInv, BeginCreate \/ InitializeRoot \/ PersistManifest \/ PersistFails
               \/ ReservePorts \/ ReserveFails \/ CreateSource
  PROVE  (DurableInv /\ PlaceInv)'
<1> USE DEF IInv, TypeOK, DurableInv, PlaceInv, Clean, Rooted, Unclaimed, Owned, Bound,
            SourceComplete, Goto, Return, Start, Bare, Outputs, env, pointer, Without, Ungenerated,
            parameter, durable, checkout, runtime
<1> USE CustomOutputsAssumption
<1>1. CASE BeginCreate BY <1>1 DEF BeginCreate
<1>2. CASE InitializeRoot BY <1>2 DEF InitializeRoot
<1>3. CASE PersistManifest BY <1>3 DEF PersistManifest
<1>4. CASE PersistFails BY <1>4 DEF PersistFails
<1>5. CASE ReservePorts BY <1>5 DEF ReservePorts
<1>6. CASE ReserveFails BY <1>6 DEF ReserveFails
<1>7. CASE CreateSource BY <1>7 DEF CreateSource
<1> QED BY <1>1, <1>2, <1>3, <1>4, <1>5, <1>6, <1>7

\* The strengthened invariant is kept by the probes and the contract.
LEMMA ContractStep ==
  ASSUME IInv, PlaceProbe \/ RemoveProbe \/ ExcludeGenerated \/ MakeGeneratedDir
               \/ WriteEnvironment \/ WriteContext \/ WriteOverride
               \/ WritePointer \/ SaveContract \/ Journal \/ PostCreate
               \/ SaveReady \/ JournalRepair
  PROVE  (DurableInv /\ PlaceInv)'
<1> USE DEF IInv, TypeOK, DurableInv, PlaceInv, Clean, Rooted, Unclaimed, Owned, Bound,
            SourceComplete, Goto, Return, Start, Bare, Outputs, env, pointer, Without, Ungenerated,
            parameter, durable, checkout, runtime
<1> USE CustomOutputsAssumption
<1>1. CASE PlaceProbe
  <2>1. ASSUME NEW o \in Outputs, outputs[o] = "absent",
               outputs' = [outputs EXCEPT ![o] = "empty"], dir' = (dir \/ o \notin custom),
               probes' = probes \cup {o}, UNCHANGED <<pc, op>>
        PROVE  (DurableInv /\ PlaceInv)'
    <3>1. outputs'[o] = "empty" /\ \A p \in Outputs \ {o} : outputs'[p] = outputs[p]
      BY <2>1
    <3>2. pointer' = "valid" <=> pointer = "valid"
      BY <2>1, <3>1
    <3>3. /\ UNCHANGED <<parameter, durable, tree, dirty, excluded, runtime, calm>>
          /\ pc \in {"probe", "reprobe"}
      BY <1>1 DEF PlaceProbe
    <3>4. DurableInv' BY <2>1, <3>1, <3>2, <3>3
    <3>5. PlaceInv' BY <2>1, <3>1, <3>2, <3>3
    <3> QED BY <3>4, <3>5
  <2>2. CASE UNCHANGED <<dir, outputs>> BY <1>1, <2>2 DEF PlaceProbe
  <2> QED BY <1>1, <2>1, <2>2 DEF PlaceProbe, First
<1>2. CASE RemoveProbe BY <1>2 DEF RemoveProbe, First
<1>3. CASE MakeGeneratedDir BY <1>3 DEF MakeGeneratedDir
<1>4. CASE WriteEnvironment BY <1>4 DEF WriteEnvironment, Generate
<1>5. CASE WritePointer BY <1>5 DEF WritePointer, Generate
<1>6. CASE SaveContract BY <1>6 DEF SaveContract
<1>7. CASE Journal BY <1>7 DEF Journal
<1>8. CASE PostCreate BY <1>8 DEF PostCreate
<1>9. CASE SaveReady BY <1>9 DEF SaveReady
<1>10. CASE JournalRepair BY <1>10 DEF JournalRepair
<1>11. CASE ExcludeGenerated BY <1>11 DEF ExcludeGenerated
<1>12. CASE WriteContext BY <1>12 DEF WriteContext, Generate
<1>13. CASE WriteOverride BY <1>13 DEF WriteOverride, Generate
<1> QED
  BY <1>1, <1>2, <1>3, <1>4, <1>5, <1>6, <1>7, <1>8, <1>9, <1>10, <1>11, <1>12, <1>13

\* The strengthened invariant is kept by rollback.
LEMMA RollbackStep ==
  ASSUME IInv, KeepPublished \/ RollBack \/ RemovePartialContract
               \/ ReleaseLease \/ CleanFailedCreate \/ CleanFailedCreateFails
               \/ RemoveRootEntry
  PROVE  (DurableInv /\ PlaceInv)'
<1> USE DEF IInv, TypeOK, DurableInv, PlaceInv, Clean, Rooted, Unclaimed, Owned, Bound,
            SourceComplete, Goto, Return, Start, Bare, Outputs, env, pointer, Without, Ungenerated,
            parameter, durable, checkout, runtime
<1> USE CustomOutputsAssumption
<1>1. CASE KeepPublished BY <1>1 DEF KeepPublished
<1>2. CASE RollBack BY <1>2 DEF RollBack
<1>3. CASE RemovePartialContract BY <1>3 DEF RemovePartialContract
<1>4. CASE ReleaseLease BY <1>4 DEF ReleaseLease
<1>5. CASE CleanFailedCreate BY <1>5 DEF CleanFailedCreate, SourceClean
<1>6. CASE CleanFailedCreateFails BY <1>6 DEF CleanFailedCreateFails, SourceClean
<1>7. CASE RemoveRootEntry BY <1>7 DEF RemoveRootEntry, RootFiles
<1> QED BY <1>1, <1>2, <1>3, <1>4, <1>5, <1>6, <1>7

\* The strengthened invariant is kept by the start of the other commands, and up.
LEMMA UpStep ==
  ASSUME IInv, BeginUp \/ BeginRepair \/ EnsureClaim \/ ComposeUp
               \/ BeginDestroy
  PROVE  (DurableInv /\ PlaceInv)'
<1> USE DEF IInv, TypeOK, DurableInv, PlaceInv, Clean, Rooted, Unclaimed, Owned, Bound,
            SourceComplete, Goto, Return, Start, Bare, Outputs, env, pointer, Without, Ungenerated,
            parameter, durable, checkout, runtime
<1> USE CustomOutputsAssumption
<1>1. CASE BeginUp BY <1>1 DEF BeginUp, LocksExist, NoTeardown
<1>2. CASE BeginRepair BY <1>2 DEF BeginRepair, LocksExist, NoTeardown
<1>3. CASE EnsureClaim BY <1>3 DEF EnsureClaim
<1>4. CASE ComposeUp BY <1>4 DEF ComposeUp
<1>5. CASE BeginDestroy BY <1>5 DEF BeginDestroy, LocksExist, LeaseVerified, DestroyResolves, Pending
<1> QED BY <1>1, <1>2, <1>3, <1>4, <1>5

\* The strengthened invariant is kept by destroy.
LEMMA DestroyStep ==
  ASSUME IInv, StartTeardown \/ PreDestroy \/ RecordTeardown \/ RemoveRuntime
               \/ RecordRuntimeRemoved \/ BeginSourceRemoval \/ GitRemove
               \/ GitRemoveFails \/ RemoveLeftover \/ RemoveDirEntry
               \/ RecordSourceRemoved \/ RemoveClaim
  PROVE  (DurableInv /\ PlaceInv)'
<1> USE DEF IInv, TypeOK, DurableInv, PlaceInv, Clean, Rooted, Unclaimed, Owned, Bound,
            SourceComplete, Goto, Return, Start, Bare, Outputs, env, pointer, Without, Ungenerated,
            parameter, durable, checkout, runtime
<1> USE CustomOutputsAssumption
<1>1. CASE StartTeardown BY <1>1 DEF StartTeardown
<1>2. CASE PreDestroy BY <1>2 DEF PreDestroy
<1>3. CASE RecordTeardown BY <1>3 DEF RecordTeardown
<1>4. CASE RemoveRuntime BY <1>4 DEF RemoveRuntime
<1>5. CASE RecordRuntimeRemoved BY <1>5 DEF RecordRuntimeRemoved
<1>6. CASE BeginSourceRemoval
  <2>1. CASE SourceComplete /\ Goto("recordSource") /\ UNCHANGED outputs
    BY <1>6, <2>1 DEF BeginSourceRemoval
  <2>3. CASE Owned /\ tree # "registered" /\ Goto("removeLeftover") /\ UNCHANGED outputs
    BY <1>6, <2>3 DEF BeginSourceRemoval
  <2>2. CASE outputs' = Without(custom) /\ Bound
    <3>1. pointer' = pointer /\ phase = "source_remove" /\ probes = {}
      BY <1>6, <2>2 DEF BeginSourceRemoval
    <3>2. \A o \in Outputs : outputs'[o] = outputs[o] \/ outputs'[o] = "absent"
      BY <2>2
    <3>3. DurableInv' BY <1>6, <2>2, <3>1, <3>2 DEF BeginSourceRemoval
    <3>4. PlaceInv' BY <1>6, <2>2, <3>1, <3>2 DEF BeginSourceRemoval
    <3> QED BY <3>3, <3>4
  <2> QED BY <1>6, <2>1, <2>2, <2>3 DEF BeginSourceRemoval
<1>7. CASE GitRemove BY <1>7 DEF GitRemove, SourceClean
<1>8. CASE GitRemoveFails BY <1>8 DEF GitRemoveFails, SourceClean
<1>9. CASE RemoveLeftover BY <1>9 DEF RemoveLeftover
<1>10. CASE RemoveDirEntry
  <2>1. ASSUME NEW o \in Outputs, outputs' = Without({o}), pc = "removeDir",
               UNCHANGED <<parameter, durable, tree, dirty, excluded, runtime, calm>>,
               UNCHANGED <<pc, op, probes, dir>>
        PROVE  (DurableInv /\ PlaceInv)'
    <3>1. /\ \A p \in Outputs : outputs'[p] = outputs[p] \/ outputs'[p] = "absent"
          /\ pointer' = pointer \/ pointer' = "absent"
          /\ phase = "source_remove" /\ probes = {}
      BY <2>1
    <3>2. DurableInv' BY <2>1, <3>1
    <3>3. PlaceInv' BY <2>1, <3>1
    <3> QED BY <3>2, <3>3
  <2>2. CASE /\ \A o \in Outputs : outputs[o] = "absent"
             /\ dir' = FALSE
             /\ Goto("recordSource")
             /\ UNCHANGED outputs
    BY <1>10, <2>2 DEF RemoveDirEntry
  <2> QED BY <1>10, <2>1, <2>2 DEF RemoveDirEntry
<1>11. CASE RecordSourceRemoved BY <1>11 DEF RecordSourceRemoved
<1>12. CASE RemoveClaim BY <1>12 DEF RemoveClaim
<1> QED BY <1>1, <1>2, <1>3, <1>4, <1>5, <1>6, <1>7, <1>8, <1>9, <1>10, <1>11, <1>12

\* The strengthened invariant is kept by the user, the faults and the end of a command.
LEMMA OtherStep ==
  ASSUME IInv, Edit \/ Commit \/ ExcludeElsewhere \/ Interrupt \/ Refuse \/ Calm
  PROVE  (DurableInv /\ PlaceInv)'
<1> USE DEF IInv, TypeOK, DurableInv, PlaceInv, Clean, Rooted, Unclaimed, Owned, Bound,
            SourceComplete, Goto, Return, Start, Bare, Outputs, env, pointer, Without, Ungenerated,
            parameter, durable, checkout, runtime
<1> USE CustomOutputsAssumption
<1>1. CASE Edit BY <1>1 DEF Edit
<1>2. CASE Commit BY <1>2 DEF Commit
<1>3. CASE Interrupt BY <1>3 DEF Interrupt
<1>4. CASE Refuse BY <1>4 DEF Refuse
<1>5. CASE Calm BY <1>5 DEF Calm
<1>6. CASE ExcludeElsewhere BY <1>6 DEF ExcludeElsewhere
<1> QED BY <1>1, <1>2, <1>3, <1>4, <1>5, <1>6

-----------------------------------------------------------------------------
\* The strengthened invariant holds in every reachable state.
THEOREM Inductive == Spec => []IInv
<1>1. IInv /\ UNCHANGED vars => IInv'
  BY DEF vars, parameter, durable, checkout, runtime, IInv, TypeOK, DurableInv, PlaceInv, Clean,
         Rooted, Unclaimed, Owned, Bound, SourceComplete, Bare, Outputs, env, pointer
<1>2. IInv /\ Next => IInv'
  <2> SUFFICES ASSUME IInv, Next PROVE IInv' OBVIOUS
  <2>1. TypeOK' BY TypeStep DEF IInv
  <2>2. (DurableInv /\ PlaceInv)'
    BY MakingStep, ContractStep, RollbackStep, UpStep, DestroyStep, OtherStep
    DEF Next, Step, Create, Undo, Destroy, Fault
  <2> QED BY <2>1, <2>2 DEF IInv
<1> QED BY <1>1, <1>2, IInvInit, PTL DEF Spec

\* Every variable keeps its type; a recorded phase is one of the three.
THEOREM TypeCorrect == Spec => []TypeOK
<1>1. IInv => TypeOK BY DEF IInv
<1> QED BY <1>1, Inductive, PTL

\* Wherever create, up, repair or destroy died or failed, whatever exists can be found
\* and removed by a later command.
THEOREM NothingGetsLost == Spec => []NothingIsLost
<1>1. IInv => NothingIsLost
  BY DEF IInv, TypeOK, DurableInv, Clean, Bare, Rooted, NothingIsLost, RuntimeAnchored,
         NothingOrphaned, PublishedIsBacked, LocksExist, Exposed
<1> QED BY <1>1, Inductive, PTL

\* The phase in teardown.json never runs ahead of what is gone.
THEOREM PhasesAreTrue == Spec => []PhaseIsTrue
<1>1. IInv => PhaseIsTrue
  BY DEF IInv, DurableInv, Rooted, PhaseIsTrue
<1> QED BY <1>1, Inductive, PTL

\* No step removes a checkout with uncommitted work or an adopted one, nor the claim
\* before the source is gone.
THEOREM WorkGetsKept == Spec => WorkIsKept
<1> DEFINE Kept == /\ tree = "registered" /\ tree' # "registered" => Owned /\ ~dirty
                   /\ claim /\ ~claim' => SourceComplete
<1>1. IInv /\ Next => Kept
  <2> SUFFICES ASSUME IInv, Next PROVE Kept OBVIOUS
  <2> USE DEF IInv, PlaceInv, SourceClean
  <2>1. CASE CleanFailedCreate \/ CleanFailedCreateFails
    BY <2>1 DEF CleanFailedCreate, CleanFailedCreateFails, runtime
  <2>2. CASE GitRemove \/ GitRemoveFails \/ RemoveLeftover
    BY <2>2 DEF GitRemove, GitRemoveFails, RemoveLeftover, runtime
  <2>3. CASE RemoveClaim BY <2>3 DEF RemoveClaim, checkout
  <2>4. CASE UNCHANGED <<tree, claim>> BY <2>4
  <2>5. CASE EnsureClaim BY <2>5 DEF EnsureClaim, checkout
  <2>6. CASE CreateSource BY <2>6 DEF CreateSource, runtime
  <2> QED
    BY <2>1, <2>2, <2>3, <2>4, <2>5, <2>6
    DEF Next, Step, Create, Undo, Destroy, Fault, checkout, runtime,
        BeginCreate, InitializeRoot, PersistManifest, PersistFails, ReservePorts,
        ReserveFails, PlaceProbe, RemoveProbe, ExcludeGenerated, MakeGeneratedDir, Generate,
        WriteEnvironment, WriteContext, WriteOverride, WritePointer, SaveContract, Journal, PostCreate,
        SaveReady, JournalRepair, KeepPublished, RollBack, RemovePartialContract,
        ReleaseLease, RemoveRootEntry, BeginUp, BeginRepair, ComposeUp,
        BeginDestroy, StartTeardown, PreDestroy, RecordTeardown, RemoveRuntime,
        RecordRuntimeRemoved, BeginSourceRemoval, RemoveDirEntry,
        RecordSourceRemoved, Edit, Commit, ExcludeElsewhere, Interrupt, Refuse, Calm
<1>2. IInv /\ [Next]_vars => [Kept]_vars BY <1>1
<1> QED BY <1>2, Inductive, PTL DEF Spec, WorkIsKept

=============================================================================
