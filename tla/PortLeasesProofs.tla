--------------------------- MODULE PortLeasesProofs ---------------------------
(* The safety properties of PortLeases for any environments, projects, ports *)
(* and slots.                                                                *)
EXTENDS PortLeases, TLAPS

\* Who is inside a transaction holds the registry lock.
InTransaction(e) == pc[e] \in {"look", "make", "read", "mark", "act", "reserve"}

LockInv ==
  \A e \in Envs : InTransaction(e) <=> registryLock = e

\* The initialization marker is there before anything can be leased.
MarkerInv ==
  /\ registry # {} => initialized
  /\ \A e \in Envs : pc[e] \in {"act", "reserve"} => initialized

\* Past the first look a registry is missing only if there never was one.
LookInv ==
  intact => \A e \in Envs : pc[e] \in {"make", "read"} /\ initialized => exists

\* The purpose of a command fits the stage of its environment.
Asking(e) == pc[e] \in {"registry", "look", "make", "read", "mark", "act"}

GoalFits(e) ==
  /\ ports[e] = {} <=> stage[e] = "none"
  /\ pc[e] \in {"unborn", "project", "scan", "gone"} => stage[e] = "none"
  /\ pc[e] \in {"project", "scan"} => goal[e] = "create"
  /\ Asking(e) =>
       /\ goal[e] = "create" => stage[e] = "none"
       /\ goal[e] = "repair" => stage[e] \in {"pending", "published"}
       /\ goal[e] \in {"up", "teardown"} => stage[e] = "published"
       /\ goal[e] = "release" => stage[e] \in {"pending", "finalize"}
       /\ goal[e] # "none"
  /\ pc[e] \in {"reserve", "source"} => stage[e] = "pending"
  /\ pc[e] = "remove" => stage[e] \in {"pending", "finalize"}
  /\ e \in running => stage[e] = "published"

GoalInv == \A e \in Envs : GoalFits(e)

\* The pcs of create and of the release tell which leases there are.
LeaseFits(e) ==
  /\ pc[e] = "reserve" => PortsOf(registry, e) = {}
  /\ pc[e] = "source"  => PortsOf(registry, e) = ports[e]
  /\ pc[e] = "remove"  => PortsOf(registry, e) = {}

LeaseInv == intact => \A e \in Envs : LeaseFits(e)

\* No port twice, in the file and in what a transaction has read of it.
Once(leases) == \A l, m \in leases : l[1] = m[1] => l = m

OnceInv == Once(registry) /\ \A e \in Envs : Once(loaded[e])

\* create keeps its project's lock from the look at the manifests on.
Creating(e) ==
  \/ pc[e] = "scan"
  \/ goal[e] = "create" /\ (Asking(e) \/ pc[e] = "reserve")

ProjectInv == \A e \in Envs : Creating(e) => projectLock[Project[e]] = e

\* A manifest of the project is still to be read or among those found; after the
\* check of the name, all are among those found, and none has it.
Holds(e)  == [ports |-> ports[e], name |-> name[e]]
Looked(e) == goal[e] = "create" /\ Asking(e)

ScanFits(e) ==
  /\ \A f \in Envs \ {e} :
       Project[f] = Project[e] /\ ports[f] # {} =>
         /\ pc[e] = "scan" => f \in unread[e] \/ Holds(f) \in found[e]
         /\ Looked(e) => Holds(f) \in found[e]
  /\ Looked(e) => \A m \in found[e] : m.name # name[e]

ScanInv == \A e \in Envs : ScanFits(e)

\* Whatever becomes of the registry, no two manifests of a project share a port.
PortsApart ==
  \A e, f \in Envs : e # f /\ Project[e] = Project[f] => ports[e] \cap ports[f] = {}

IInv ==
  /\ TypeOK
  /\ LockInv
  /\ MarkerInv
  /\ LookInv
  /\ GoalInv
  /\ LeaseInv
  /\ OnceInv
  /\ ProjectInv
  /\ ScanInv
  /\ NamesUnique
  /\ PortsApart
  /\ LeasesTraceable
  /\ TransactionCurrent
  /\ PublishedStaysLeased

-----------------------------------------------------------------------------
\* The initial state satisfies the strengthened invariant.
LEMMA IInvInit == Init => IInv
<1> SUFFICES ASSUME Init PROVE IInv OBVIOUS
<1>1. TypeOK /\ LockInv /\ MarkerInv /\ LookInv
  BY NoneAssumption
  DEF Init, TypeOK, LockInv, InTransaction, MarkerInv, LookInv, PCs, Goals, Stages
<1>2. GoalInv /\ LeaseInv /\ OnceInv
  BY DEF Init, GoalInv, GoalFits, Asking, LeaseInv, LeaseFits, OnceInv, Once, PortsOf
<1>3. ProjectInv /\ ScanInv /\ NamesUnique /\ PortsApart
  BY DEF Init, ProjectInv, Creating, Asking, ScanInv, ScanFits, Looked, NamesUnique, PortsApart
<1>4. LeasesTraceable /\ TransactionCurrent /\ PublishedStaysLeased
  BY DEF Init, LeasesTraceable, TransactionCurrent, PublishedStaysLeased
<1> QED BY <1>1, <1>2, <1>3, <1>4 DEF IInv

\* Every step keeps the types; create writes a slot of its project.
LEMMA TypeStep == TypeOK /\ Next => TypeOK'
<1> SUFFICES ASSUME TypeOK, Next PROVE TypeOK' OBVIOUS
<1>0. intact' \in BOOLEAN BY DEF TypeOK, Next, LoseRegistry, RestoreRegistry
<1> USE <1>0, NoneAssumption DEF TypeOK, PCs, Goals, Stages, locks, files, scan, manifest, Goto, Unlock
<1>1. ASSUME NEW e \in Envs, LockProject(e) PROVE TypeOK'
  <2>2. Project[e] \in Projects BY ProjectAssumption
  <2>3. unread' \in [Envs -> SUBSET Envs] BY <1>1 DEF LockProject
  <2>4. projectLock' \in [Projects -> Envs \cup {None}] BY <1>1, <2>2 DEF LockProject
  <2>5. pc' \in [Envs -> PCs] BY <1>1 DEF LockProject
  <2> QED BY <1>1, <2>3, <2>4, <2>5 DEF LockProject
<1>2. ASSUME NEW e \in Envs, PersistManifest(e) PROVE TypeOK'
  <2>1. PICK slot \in Slots[Project[e]] : ports' = [ports EXCEPT ![e] = slot]
    BY <1>2 DEF PersistManifest
  <2>2. slot \in SUBSET Ports BY ProjectAssumption, SlotsAssumption
  <2>3. ports' \in [Envs -> SUBSET Ports] BY <2>1, <2>2
  <2> QED BY <1>2, <2>3 DEF PersistManifest
<1>3. ASSUME NEW e \in Envs, BeginCreate(e) \/ ValidateName(e) \/ (\E g \in Goals : Begin(e, g))
      PROVE  TypeOK'
  BY <1>3 DEF BeginCreate, ValidateName, Begin
<1>9. ASSUME NEW e \in Envs, ReadManifest(e) PROVE TypeOK'
  <2>1. PICK f \in unread[e] :
          /\ unread' = [unread EXCEPT ![e] = @ \ {f}]
          /\ found' = IF ports[f] = {} THEN found
                      ELSE [found EXCEPT ![e] = @ \cup {[ports |-> ports[f], name |-> name[f]]}]
    BY <1>9 DEF ReadManifest
  <2>2. f \in Envs OBVIOUS
  <2>3. [ports |-> ports[f], name |-> name[f]] \in Manifests BY <2>2 DEF Manifests
  <2>4. found' \in [Envs -> SUBSET Manifests] BY <2>1, <2>3
  <2>5. unread' \in [Envs -> SUBSET Envs] BY <2>1
  <2> QED BY <1>9, <2>4, <2>5 DEF ReadManifest
<1>4. ASSUME NEW e \in Envs,
             LockRegistry(e) \/ LookForRegistry(e) \/ MakeRegistry(e) \/ ReadRegistry(e)
             \/ MarkInitialized(e)
      PROVE  TypeOK'
  <2>1. CASE LockRegistry(e) BY <2>1 DEF LockRegistry
  <2>2. CASE LookForRegistry(e) BY <2>2 DEF LookForRegistry
  <2>3. CASE MakeRegistry(e)
    <3>1. registry' \in SUBSET Leases BY <2>3 DEF MakeRegistry
    <3> QED BY <2>3, <3>1 DEF MakeRegistry
  <2>4. CASE ReadRegistry(e) BY <2>4 DEF ReadRegistry
  <2>5. CASE MarkInitialized(e) BY <2>5 DEF MarkInitialized
  <2> QED BY <1>4, <2>1, <2>2, <2>3, <2>4, <2>5
<1>5. ASSUME NEW e \in Envs, Reserve(e) \/ ReserveFails(e) \/ Release(e) PROVE TypeOK'
  <2>1. registry' \in SUBSET Leases
    BY <1>5 DEF Reserve, ReserveFails, Release, Leases
  <2>2. CASE Reserve(e) BY <2>1, <2>2 DEF Reserve
  <2>3. CASE ReserveFails(e) BY <2>1, <2>3 DEF ReserveFails
  <2>4. CASE Release(e) BY <2>1, <2>4 DEF Release
  <2> QED BY <1>5, <2>2, <2>3, <2>4
<1>6. ASSUME NEW e \in Envs, SourceFails(e) \/ Teardown(e) PROVE TypeOK'
  BY <1>6 DEF SourceFails, Teardown
<1>7. ASSUME NEW e \in Envs, PublishSource(e) \/ Verify(e) \/ RemoveManifest(e) \/ Stop(e)
      PROVE  TypeOK'
  BY <1>7 DEF PublishSource, Verify, RemoveManifest, Stop, End
<1>8. CASE LoseRegistry \/ RestoreRegistry
  BY <1>8 DEF LoseRegistry, RestoreRegistry
<1> QED BY <1>1, <1>2, <1>3, <1>4, <1>5, <1>6, <1>7, <1>8, <1>9 DEF Next, Step

\* The registry lock is taken at the start of a transaction and dropped with it.
LEMMA LockStep == TypeOK /\ LockInv /\ Next => LockInv'
<1> SUFFICES ASSUME TypeOK, LockInv, Next PROVE LockInv' OBVIOUS
<1> USE NoneAssumption DEF TypeOK, LockInv, InTransaction, locks, files, scan, manifest, Goto, Unlock
<1>1. CASE \E e \in Envs :
             BeginCreate(e) \/ LockProject(e) \/ ReadManifest(e) \/ ValidateName(e)
             \/ (\E g \in Goals : Begin(e, g))
  BY <1>1 DEF BeginCreate, LockProject, ReadManifest, ValidateName, Begin
<1>2. CASE \E e \in Envs :
             LockRegistry(e) \/ LookForRegistry(e) \/ MakeRegistry(e) \/ ReadRegistry(e)
             \/ MarkInitialized(e)
  BY <1>2 DEF LockRegistry, LookForRegistry, MakeRegistry, ReadRegistry, MarkInitialized
<1>3. CASE \E e \in Envs :
             PersistManifest(e) \/ Reserve(e) \/ ReserveFails(e) \/ Release(e) \/ SourceFails(e)
             \/ Teardown(e)
  BY <1>3 DEF PersistManifest, Reserve, ReserveFails, Release, SourceFails, Teardown
<1>4. CASE \E e \in Envs :
             PublishSource(e) \/ Verify(e) \/ RemoveManifest(e) \/ Stop(e)
  BY <1>4 DEF PublishSource, Verify, RemoveManifest, Stop, End
<1>5. CASE LoseRegistry \/ RestoreRegistry
  BY <1>5 DEF LoseRegistry, RestoreRegistry
<1> QED BY <1>1, <1>2, <1>3, <1>4, <1>5 DEF Next, Step

\* Nobody else is inside a transaction, so what was read stays what is stored;
\* and nobody reaches the leases before the marker is written.
LEMMA TransactionStep ==
  TypeOK /\ LockInv /\ MarkerInv /\ LookInv /\ TransactionCurrent /\ Next
    => MarkerInv' /\ LookInv' /\ TransactionCurrent'
<1> SUFFICES ASSUME TypeOK, LockInv, MarkerInv, LookInv, TransactionCurrent, Next
             PROVE  MarkerInv' /\ LookInv' /\ TransactionCurrent'
  OBVIOUS
<1> USE NoneAssumption DEF TypeOK, LockInv, InTransaction, MarkerInv, LookInv, TransactionCurrent,
                           locks, files, scan, manifest, Goto, Unlock
<1>1. ASSUME NEW e \in Envs, UNCHANGED intact,
             BeginCreate(e) \/ LockProject(e) \/ ReadManifest(e) \/ ValidateName(e)
             \/ (\E g \in Goals : Begin(e, g))
      PROVE  MarkerInv' /\ LookInv' /\ TransactionCurrent'
  BY <1>1 DEF BeginCreate, LockProject, ReadManifest, ValidateName, Begin
<1>2. ASSUME NEW e \in Envs, UNCHANGED intact,
             LockRegistry(e) \/ LookForRegistry(e) \/ MakeRegistry(e) \/ ReadRegistry(e)
             \/ MarkInitialized(e)
      PROVE  MarkerInv' /\ LookInv' /\ TransactionCurrent'
  <2>1. CASE LockRegistry(e) \/ LookForRegistry(e) BY <1>2, <2>1 DEF LockRegistry, LookForRegistry
  <2>2. CASE MakeRegistry(e) BY <1>2, <2>2 DEF MakeRegistry
  <2>3. CASE ReadRegistry(e) BY <1>2, <2>3 DEF ReadRegistry
  <2>4. CASE MarkInitialized(e) BY <1>2, <2>4 DEF MarkInitialized
  <2> QED BY <1>2, <2>1, <2>2, <2>3, <2>4
<1>3. ASSUME NEW e \in Envs, UNCHANGED intact,
             PersistManifest(e) \/ Reserve(e) \/ ReserveFails(e) \/ Release(e) \/ SourceFails(e)
             \/ Teardown(e)
      PROVE  MarkerInv' /\ LookInv' /\ TransactionCurrent'
  BY <1>3 DEF PersistManifest, Reserve, ReserveFails, Release, SourceFails, Teardown
<1>4. ASSUME NEW e \in Envs, UNCHANGED intact,
             PublishSource(e) \/ Verify(e) \/ RemoveManifest(e) \/ Stop(e)
      PROVE  MarkerInv' /\ LookInv' /\ TransactionCurrent'
  BY <1>4 DEF PublishSource, Verify, RemoveManifest, Stop, End
<1>5. CASE LoseRegistry
  <2>1. intact' => intact /\ ~(initialized /\ \E e \in Envs : pc[e] \in {"make", "read"})
    BY <1>5 DEF LoseRegistry
  <2> QED BY <1>5, <2>1 DEF LoseRegistry
<1>6. CASE RestoreRegistry
  BY <1>6 DEF RestoreRegistry
<1> QED BY <1>1, <1>2, <1>3, <1>4, <1>5, <1>6 DEF Next, Step

\* Once a lost registry may have been taken for an empty one, it stays so.
LEMMA IntactStep == Next /\ intact' => intact
BY DEF Next, LoseRegistry, RestoreRegistry

\* While that has not come about, a registry is made only where nothing was leased.
LEMMA MakeKeeps ==
  ASSUME IInv, intact, NEW e \in Envs, MakeRegistry(e) PROVE registry' = registry
BY DEF IInv, MakeRegistry, MarkerInv, LookInv

\* A reservation takes ports that no lease it has read names.
LEMMA ReserveOnce ==
  ASSUME NEW leases \in SUBSET Leases, Once(leases), NEW some \in SUBSET Ports, NEW e \in Envs,
         some \cap UsedPorts(leases) = {}
  PROVE  Once(leases \cup (some \X {e}))
<1>1. ASSUME NEW l \in leases PROVE l[1] \notin some
  <2>1. l[1] \in Ports /\ l[2] \in Envs /\ l = <<l[1], l[2]>> BY DEF Leases
  <2> QED BY <2>1 DEF UsedPorts
<1>2. \A l \in some \X {e} : l[1] \in some /\ l[2] = e /\ l = <<l[1], l[2]>>
  OBVIOUS
<1>3. ASSUME NEW l \in leases \cup (some \X {e}), NEW m \in leases \cup (some \X {e}), l[1] = m[1]
      PROVE  l = m
  <2>1. CASE l \in leases /\ m \in leases BY <1>3, <2>1 DEF Once
  <2>2. CASE l \in some \X {e} /\ m \in some \X {e} BY <1>3, <1>2, <2>2
  <2>3. CASE (l \in leases) # (m \in leases) BY <1>1, <1>2, <1>3, <2>3
  <2> QED BY <2>1, <2>2, <2>3
<1> QED BY <1>3 DEF Once

\* No port is leased twice, even by a transaction that takes the registry for empty.
LEMMA OnceStep == IInv /\ Next => OnceInv'
<1> SUFFICES ASSUME IInv, Next PROVE OnceInv' OBVIOUS
<1> USE DEF IInv, TypeOK, OnceInv, locks, files, scan, manifest
<1>1. CASE UNCHANGED <<registry, loaded>> BY <1>1 DEF Once
<1>2. ASSUME NEW e \in Envs, MakeRegistry(e) PROVE OnceInv'
  BY <1>2 DEF MakeRegistry, Once
<1>3. ASSUME NEW e \in Envs, ReadRegistry(e) PROVE OnceInv'
  <2>1. Once({}) BY DEF Once
  <2>2. Once(registry') BY <1>3 DEF ReadRegistry
  <2>3. \A f \in Envs : loaded'[f] \in {loaded[f], registry, {}} BY <1>3 DEF ReadRegistry
  <2>4. ASSUME NEW f \in Envs PROVE Once(loaded'[f])
    <3>1. loaded'[f] = loaded[f] \/ loaded'[f] = registry \/ loaded'[f] = {} BY <2>3
    <3> QED BY <2>1, <3>1
  <2> QED BY <2>2, <2>4
<1>4. ASSUME NEW e \in Envs, Unlock(e), Once(registry') PROVE OnceInv'
  <2>1. Once({}) BY DEF Once
  <2>2. \A f \in Envs : loaded'[f] = loaded[f] \/ loaded'[f] = {} BY <1>4 DEF Unlock
  <2>3. ASSUME NEW f \in Envs PROVE Once(loaded'[f])
    <3>1. loaded'[f] = loaded[f] \/ loaded'[f] = {} BY <2>2
    <3> QED BY <2>1, <3>1
  <2> QED BY <1>4, <2>3
<1>5. ASSUME NEW e \in Envs, Reserve(e) \/ ReserveFails(e) PROVE OnceInv'
  <2>1. Unlock(e) BY <1>5 DEF Reserve, ReserveFails
  <2>2. \/ registry' = registry
        \/ /\ ports[e] \cap UsedPorts(loaded[e]) = {}
           /\ registry' = loaded[e] \cup (ports[e] \X {e})
    BY <1>5 DEF Reserve, ReserveFails
  <2>3. Once(registry')
    <3>1. loaded[e] \in SUBSET Leases /\ Once(loaded[e]) /\ ports[e] \in SUBSET Ports OBVIOUS
    <3>2. CASE registry' = registry BY <3>2
    <3>3. CASE ports[e] \cap UsedPorts(loaded[e]) = {}
               /\ registry' = loaded[e] \cup (ports[e] \X {e})
      <4>1. Once(loaded[e] \cup (ports[e] \X {e})) BY <3>1, <3>3, ReserveOnce
      <4> QED BY <3>3, <4>1
    <3> QED BY <2>2, <3>2, <3>3
  <2> QED BY <1>4, <2>1, <2>3
<1>6. ASSUME NEW e \in Envs, Release(e) PROVE OnceInv'
  <2>1. Unlock(e) BY <1>6 DEF Release
  <2>2. registry' = registry \/ registry' \subseteq loaded[e] BY <1>6 DEF Release
  <2>3. Once(loaded[e]) /\ Once(registry) OBVIOUS
  <2>4. Once(registry') BY <2>2, <2>3 DEF Once
  <2> QED BY <1>4, <2>1, <2>4
<1>7. ASSUME NEW e \in Envs, PublishSource(e) \/ Verify(e) \/ Teardown(e) \/ RemoveManifest(e) \/ Stop(e)
      PROVE  OnceInv'
  <2>1. Unlock(e) /\ registry' = registry
    BY <1>7 DEF PublishSource, Verify, Teardown, RemoveManifest, Stop, End
  <2> QED BY <1>4, <2>1
<1> QED
  BY <1>1, <1>2, <1>3, <1>5, <1>6, <1>7
  DEF Next, Step, BeginCreate, LockProject, ReadManifest, ValidateName, Begin, LockRegistry,
      LookForRegistry, MarkInitialized, PersistManifest, SourceFails, LoseRegistry, RestoreRegistry

\* The leases of a reservation are new, and the leases that go are the
\* releasing environment's own.
LEMMA LeaseStep == IInv /\ Next => LeasesTraceable'
<1> SUFFICES ASSUME IInv, Next, intact' PROVE (\A l \in registry : l[1] \in ports[l[2]])'
  BY OnceStep DEF LeasesTraceable, OnceInv, Once
<1> DEFINE Traced == \A l \in registry : l[1] \in ports[l[2]]
<1>0. intact BY IntactStep
<1> USE <1>0 DEF IInv, TypeOK, Leases, locks, files, scan, manifest
<1>8. Traced BY DEF LeasesTraceable
<1>1. CASE UNCHANGED <<registry, ports>>
  BY <1>1, <1>8
<1>2. CASE \E e \in Envs : MakeRegistry(e)
  BY <1>2, <1>8, MakeKeeps DEF MakeRegistry
<1>3. ASSUME NEW e \in Envs, PersistManifest(e) PROVE Traced'
  <2>1. ports[e] = {} BY <1>3 DEF PersistManifest, GoalInv, GoalFits, Asking
  <2>2. \A l \in registry : l[2] # e BY <1>8, <2>1
  <2> QED BY <1>3, <1>8, <2>2 DEF PersistManifest
<1>4. ASSUME NEW e \in Envs, pc[e] = "reserve", ports' = ports,
             registry' = loaded[e] \cup (ports[e] \X {e})
      PROVE  Traced'
  <2>1. loaded[e] = registry BY <1>4 DEF TransactionCurrent
  <2>2. \A l \in ports[e] \X {e} : l[1] \in ports[e] /\ l[2] = e
    OBVIOUS
  <2> QED BY <1>4, <1>8, <2>1, <2>2
<1>5. ASSUME NEW e \in Envs, Release(e) PROVE Traced'
  <2>1. registry' \subseteq registry BY <1>5 DEF Release, TransactionCurrent
  <2> QED BY <1>5, <1>8, <2>1 DEF Release
<1>6. ASSUME NEW e \in Envs, RemoveManifest(e) PROVE Traced'
  <2>1. PortsOf(registry, e) = {} BY <1>6 DEF RemoveManifest, LeaseInv, LeaseFits
  <2>2. \A l \in registry : l[2] # e BY <2>1 DEF PortsOf
  <2> QED BY <1>6, <1>8, <2>2 DEF RemoveManifest
<1> QED
  BY <1>1, <1>2, <1>3, <1>4, <1>5, <1>6
  DEF Next, Step, BeginCreate, LockProject, ReadManifest, ValidateName, Begin, LockRegistry,
      LookForRegistry, ReadRegistry, MarkInitialized, Reserve, ReserveFails, PublishSource,
      SourceFails, Verify, Teardown, Stop, LoseRegistry, RestoreRegistry

\* The leases of an environment change only by its own steps.
LEMMA OtherLeasesStay ==
  ASSUME IInv, intact, NEW e \in Envs, NEW f \in Envs \ {e}, Step(e)
  PROVE  PortsOf(registry', f) = PortsOf(registry, f)
<1> USE DEF IInv, TypeOK, files, manifest, locks, PortsOf, TransactionCurrent
<1>1. CASE UNCHANGED registry BY <1>1
<1>2. CASE MakeRegistry(e) BY <1>2, MakeKeeps
<1>3. CASE pc[e] = "reserve" /\ registry' = loaded[e] \cup (ports[e] \X {e}) BY <1>3
<1>4. CASE Release(e) BY <1>4 DEF Release
<1> QED
  BY <1>1, <1>2, <1>3, <1>4
  DEF Step, BeginCreate, LockProject, ReadManifest, ValidateName, Begin, LockRegistry,
      LookForRegistry, ReadRegistry, MarkInitialized, PersistManifest, Reserve, ReserveFails, PublishSource, SourceFails, Verify, Teardown,
      RemoveManifest, Stop

\* A step of one environment leaves the command and the manifest of the others
\* alone.
LEMMA OthersStay ==
  ASSUME TypeOK, NEW e \in Envs, NEW f \in Envs \ {e}, Step(e)
  PROVE  /\ pc'[f] = pc[f] /\ goal'[f] = goal[f]
         /\ ports'[f] = ports[f] /\ stage'[f] = stage[f]
         /\ unread'[f] = unread[f] /\ found'[f] = found[f] /\ name' = name
         /\ (f \in running' <=> f \in running)
<1> USE DEF TypeOK, files, locks, scan, manifest, Goto, Unlock
<1>1. CASE BeginCreate(e) \/ LockProject(e) \/ ReadManifest(e) \/ ValidateName(e)
           \/ (\E g \in Goals : Begin(e, g))
  BY <1>1 DEF BeginCreate, LockProject, ReadManifest, ValidateName, Begin
<1>2. CASE LockRegistry(e) \/ LookForRegistry(e) \/ MakeRegistry(e) \/ ReadRegistry(e)
             \/ MarkInitialized(e)
  BY <1>2 DEF LockRegistry, LookForRegistry, MakeRegistry, ReadRegistry, MarkInitialized
<1>3. CASE PersistManifest(e) \/ Reserve(e) \/ ReserveFails(e) \/ SourceFails(e) \/ Teardown(e)
           \/ Release(e)
  BY <1>3 DEF PersistManifest, Reserve, ReserveFails, SourceFails, Teardown, Release
<1>4. CASE PublishSource(e) \/ Verify(e) \/ RemoveManifest(e) \/ Stop(e)
  BY <1>4 DEF PublishSource, Verify, RemoveManifest, Stop, End
<1> QED BY <1>1, <1>2, <1>3, <1>4 DEF Step

\* Every command stays fit for its environment.
LEMMA GoalStep == IInv /\ Next => GoalInv'
<1> SUFFICES ASSUME IInv, Next PROVE GoalInv' OBVIOUS
<1>1. ASSUME NEW e \in Envs, NEW f \in Envs \ {e}, Step(e) PROVE GoalFits(f)'
  <2>1. GoalFits(f) /\ TypeOK BY DEF IInv, GoalInv
  <2> QED BY <1>1, <2>1, OthersStay DEF GoalFits, Asking
<1>2. ASSUME NEW e \in Envs, Step(e) PROVE GoalFits(e)'
  <2> USE DEF IInv, TypeOK, GoalInv, GoalFits, Asking, locks, files, scan, manifest, Goto, Unlock
  <2>1. CASE BeginCreate(e) \/ LockProject(e) \/ ReadManifest(e) \/ ValidateName(e)
             \/ (\E g \in Goals : Begin(e, g))
    BY <2>1 DEF BeginCreate, LockProject, ReadManifest, ValidateName, Begin
  <2>2. CASE LockRegistry(e) \/ LookForRegistry(e) \/ MakeRegistry(e) \/ ReadRegistry(e)
             \/ MarkInitialized(e)
    BY <2>2 DEF LockRegistry, LookForRegistry, MakeRegistry, ReadRegistry, MarkInitialized
  <2>4. CASE PersistManifest(e)
    <3>1. PICK slot \in Slots[Project[e]] : ports' = [ports EXCEPT ![e] = slot]
      BY <2>4 DEF PersistManifest
    <3>2. Project[e] \in Projects BY ProjectAssumption
    <3>3. slot # {}
      <4>1. {} \notin Slots[Project[e]] BY <3>2, SlotsAssumption
      <4> QED BY <4>1
    <3>4. GoalFits(e) /\ pc[e] = "act" /\ goal[e] = "create" BY <2>4 DEF PersistManifest
    <3>5. ports[e] = {} /\ stage[e] = "none" BY <3>4
    <3> QED BY <2>4, <3>1, <3>3, <3>5 DEF PersistManifest
  <2>6. CASE Reserve(e) \/ ReserveFails(e) \/ SourceFails(e) \/ Teardown(e) \/ Release(e)
    BY <2>6 DEF Reserve, ReserveFails, SourceFails, Teardown, Release
  <2>7. CASE PublishSource(e) \/ Verify(e) \/ RemoveManifest(e) \/ Stop(e)
    BY <2>7 DEF PublishSource, Verify, RemoveManifest, Stop, End
  <2> QED BY <1>2, <2>1, <2>2, <2>4, <2>6, <2>7 DEF Step
<1>3. CASE LoseRegistry \/ RestoreRegistry
  BY <1>3 DEF LoseRegistry, RestoreRegistry, IInv, GoalInv, GoalFits, Asking, locks, manifest
<1> QED BY <1>1, <1>2, <1>3 DEF Next, GoalInv

\* A reservation and a release leave the leases that their next step counts on.
LEMMA LeaseFitsStep == IInv /\ Next => LeaseInv'
<1> SUFFICES ASSUME IInv, Next, intact' PROVE \A e \in Envs : LeaseFits(e)'
  BY DEF LeaseInv
<1>0. intact BY IntactStep
<1>1. ASSUME NEW e \in Envs, NEW f \in Envs \ {e}, Step(e) PROVE LeaseFits(f)'
  <2>1. LeaseFits(f) /\ TypeOK BY <1>0 DEF IInv, LeaseInv
  <2>2. PortsOf(registry', f) = PortsOf(registry, f) BY <1>0, <1>1, OtherLeasesStay
  <2> QED BY <1>1, <2>1, <2>2, OthersStay DEF LeaseFits
<1>2. ASSUME NEW e \in Envs, Step(e) PROVE LeaseFits(e)'
  <2> USE <1>0 DEF IInv, TypeOK, LeaseInv, LeaseFits, TransactionCurrent, locks, files, scan,
              manifest, Goto, Unlock
  <2>1. CASE BeginCreate(e) \/ LockProject(e) \/ ReadManifest(e) \/ ValidateName(e)
             \/ (\E g \in Goals : Begin(e, g))
    BY <2>1 DEF BeginCreate, LockProject, ReadManifest, ValidateName, Begin
  <2>2. CASE LockRegistry(e) \/ LookForRegistry(e) \/ MakeRegistry(e) \/ ReadRegistry(e)
             \/ MarkInitialized(e)
    BY <2>2 DEF LockRegistry, LookForRegistry, MakeRegistry, ReadRegistry, MarkInitialized
  <2>4. CASE PersistManifest(e)
    <3>1. ports[e] = {} BY <2>4 DEF PersistManifest, GoalInv, GoalFits, Asking
    <3>2. PortsOf(registry, e) = {} BY <3>1 DEF LeasesTraceable, PortsOf
    <3> QED BY <2>4, <3>2 DEF PersistManifest
  <2>5. CASE Reserve(e)
    <3>1. PortsOf(registry', e) = ports[e] BY <2>5 DEF Reserve, PortsOf
    <3> QED BY <2>5, <3>1 DEF Reserve
  <2>6. CASE ReserveFails(e) \/ SourceFails(e) \/ Teardown(e)
    BY <2>6 DEF ReserveFails, SourceFails, Teardown
  <2>7. CASE PublishSource(e) \/ Verify(e) \/ RemoveManifest(e) \/ Stop(e)
    BY <2>7 DEF PublishSource, Verify, RemoveManifest, Stop, End
  <2>8. CASE Release(e)
    <3>1. PortsOf(registry', e) = {} BY <2>8 DEF Release, PortsOf
    <3> QED BY <2>8, <3>1 DEF Release
  <2> QED BY <1>2, <2>1, <2>2, <2>4, <2>5, <2>6, <2>7, <2>8 DEF Step
<1>3. CASE LoseRegistry \/ RestoreRegistry
  BY <1>0, <1>3 DEF LoseRegistry, RestoreRegistry, IInv, LeaseInv, LeaseFits, manifest, PortsOf
<1> QED BY <1>1, <1>2, <1>3 DEF Next

\* A published environment got there with its leases, and gives none up.
LEMMA PublishStep == IInv /\ Next => PublishedStaysLeased'
<1> SUFFICES ASSUME IInv, Next, intact', NEW f \in Envs, stage'[f] = "published"
             PROVE  PortsOf(registry', f) = ports'[f]
  BY DEF PublishedStaysLeased
<1>0. intact BY IntactStep
<1>1. ASSUME NEW e \in Envs, e # f, Step(e)
      PROVE  PortsOf(registry', f) = ports'[f]
  <2>1. TypeOK BY DEF IInv
  <2>2. ports'[f] = ports[f] /\ stage[f] = "published" BY <1>1, <2>1, OthersStay
  <2>3. PortsOf(registry', f) = PortsOf(registry, f) BY <1>0, <1>1, OtherLeasesStay
  <2> QED BY <1>0, <2>2, <2>3 DEF IInv, PublishedStaysLeased
<1>2. ASSUME Step(f)
      PROVE  PortsOf(registry', f) = ports'[f]
  <2> USE <1>0 DEF IInv, TypeOK, GoalInv, GoalFits, Asking, TransactionCurrent, locks, files, scan,
              manifest
  <2>1. CASE UNCHANGED <<registry, ports, stage>>
    BY <1>2, <2>1 DEF PublishedStaysLeased
  <2>2. CASE MakeRegistry(f)
    BY <1>2, <2>2, MakeKeeps DEF MakeRegistry, PublishedStaysLeased
  <2>3. CASE PersistManifest(f) \/ Reserve(f) \/ ReserveFails(f) \/ Teardown(f) \/ Release(f)
             \/ RemoveManifest(f)
    BY <1>2, <2>3
    DEF PersistManifest, Reserve, ReserveFails, Teardown, Release, RemoveManifest
  <2>4. CASE PublishSource(f) BY <2>4 DEF PublishSource, LeaseInv, LeaseFits
  <2>5. CASE Verify(f) BY <2>5 DEF Verify, Verified
  <2> QED
    BY <1>2, <2>1, <2>2, <2>3, <2>4, <2>5
    DEF Step, BeginCreate, LockProject, ReadManifest, ValidateName, Begin, LockRegistry,
        LookForRegistry, ReadRegistry, MarkInitialized, SourceFails, Stop
<1>3. CASE LoseRegistry \/ RestoreRegistry
  BY <1>0, <1>3 DEF LoseRegistry, RestoreRegistry, IInv, PublishedStaysLeased, manifest
<1> QED BY <1>1, <1>2, <1>3 DEF Next

\* create keeps the project lock until it ends, and nobody takes it meanwhile.
LEMMA ProjectStep == IInv /\ Next => ProjectInv'
<1> SUFFICES ASSUME IInv, Next PROVE ProjectInv' OBVIOUS
<1> USE DEF IInv, TypeOK
<1>1. ASSUME NEW e \in Envs, NEW f \in Envs \ {e}, Step(e), Creating(f)'
      PROVE  projectLock'[Project[f]] = f
  <2>1. Creating(f) BY <1>1, OthersStay DEF Creating, Asking
  <2>2. projectLock[Project[f]] = f BY <2>1 DEF ProjectInv
  <2>3. Project[f] \in Projects BY ProjectAssumption
  <2>4. f # None BY NoneAssumption
  <2> QED
    BY <1>1, <2>2, <2>3, <2>4
    DEF Step, BeginCreate, LockProject, ReadManifest, ValidateName, Begin, LockRegistry,
        LookForRegistry, MakeRegistry, ReadRegistry, MarkInitialized, PersistManifest, Reserve, ReserveFails,
        PublishSource, SourceFails, Verify, Teardown, Release, RemoveManifest, Stop, End, Unlock,
        locks
<1>2. ASSUME NEW e \in Envs, Step(e), Creating(e)' PROVE projectLock'[Project[e]] = e
  <2>1. Project[e] \in Projects BY ProjectAssumption
  <2>2. CASE LockProject(e) BY <2>1, <2>2 DEF LockProject
  <2>3. ~LockProject(e) => Creating(e) /\ projectLock' = projectLock
    BY <1>2
    DEF Creating, Asking, Step, BeginCreate, ReadManifest, ValidateName, Begin, LockRegistry,
        LookForRegistry, MakeRegistry, ReadRegistry, MarkInitialized, PersistManifest, Reserve, ReserveFails,
        PublishSource, SourceFails, Verify, Teardown, Release, RemoveManifest, Stop, End, Goto,
        locks
  <2> QED BY <2>2, <2>3 DEF ProjectInv
<1>3. CASE LoseRegistry \/ RestoreRegistry
  BY <1>3 DEF LoseRegistry, RestoreRegistry, ProjectInv, Creating, Asking, locks
<1> QED BY <1>1, <1>2, <1>3 DEF Next, ProjectInv

\* A manifest appears only under the project lock, so that none escapes the scan.
LEMMA OnlyCreateAdds ==
  ASSUME IInv, NEW e \in Envs, NEW f \in Envs \ {e}, Step(e), Project[e] = Project[f],
         ports[e] = {}, ports'[e] # {}
  PROVE  Creating(e) /\ ~Creating(f)
<1> USE DEF IInv, TypeOK
<1>1. PersistManifest(e)
  BY DEF Step, BeginCreate, LockProject, ReadManifest, ValidateName, Begin, LockRegistry,
         LookForRegistry, MakeRegistry, ReadRegistry, MarkInitialized, Reserve, ReserveFails, PublishSource,
         SourceFails, Verify, Teardown, Release, RemoveManifest, Stop, manifest
<1>2. Creating(e) BY <1>1 DEF PersistManifest, Creating, Asking
<1> QED BY <1>2 DEF ProjectInv

\* Who looks at the manifests has read, or has still to read, every one there is.
LEMMA ScanStep == IInv /\ Next => ScanInv'
<1> SUFFICES ASSUME IInv, Next PROVE ScanInv' OBVIOUS
<1> USE DEF IInv, TypeOK
<1>1. ASSUME NEW e \in Envs, NEW g \in Envs, e # g, Step(e) PROVE ScanFits(g)'
  <2>1. ScanFits(g) BY DEF ScanInv
  <2>2. /\ pc'[g] = pc[g] /\ goal'[g] = goal[g] /\ unread'[g] = unread[g]
        /\ found'[g] = found[g] /\ name' = name
    BY <1>1, OthersStay
  <2>3. Looked(g)' <=> Looked(g) BY <2>2 DEF Looked, Asking
  <2>4. ASSUME NEW f \in Envs \ {g}, Project[f] = Project[g], ports'[f] # {},
               pc[g] = "scan" \/ Looked(g)
        PROVE  ports'[f] = ports[f]
    <3>1. CASE f # e BY <1>1, <3>1, OthersStay
    <3>2. CASE f = e /\ ports[f] = {}
      <4>1. ~Creating(g) BY <1>1, <2>4, <3>2, OnlyCreateAdds
      <4> QED BY <2>4, <4>1 DEF Creating, Looked
    <3>3. CASE f = e /\ ports[f] # {}
      <4>1. PersistManifest(e) => ports[e] = {}
        BY DEF PersistManifest, GoalInv, GoalFits, Asking
      <4> QED
        BY <1>1, <2>4, <3>3, <4>1
        DEF Step, BeginCreate, LockProject, ReadManifest, ValidateName, Begin, LockRegistry,
            LookForRegistry, MakeRegistry, ReadRegistry, MarkInitialized, Reserve, ReserveFails,
            PublishSource, SourceFails, Verify, Teardown, Release, RemoveManifest, Stop, manifest
    <3> QED BY <3>1, <3>2, <3>3
  <2>5. ASSUME NEW f \in Envs \ {g}, Project[f] = Project[g], ports'[f] # {}
        PROVE  /\ pc'[g] = "scan" => f \in unread'[g] \/ Holds(f)' \in found'[g]
               /\ Looked(g)' => Holds(f)' \in found'[g]
    <3>1. pc[g] = "scan" \/ Looked(g) => Holds(f)' = Holds(f) /\ ports[f] # {}
      BY <2>2, <2>4, <2>5 DEF Holds
    <3> QED BY <2>1, <2>2, <2>3, <2>5, <3>1 DEF ScanFits
  <2>6. Looked(g)' => \A m \in found'[g] : m.name # name'[g]
    BY <2>1, <2>2, <2>3 DEF ScanFits
  <2> QED BY <2>5, <2>6 DEF ScanFits
<1>2. ASSUME NEW g \in Envs, Step(g) PROVE ScanFits(g)'
  <2>1. ScanFits(g) BY DEF ScanInv
  <2>2. \A f \in Envs \ {g} : Holds(f)' = Holds(f) /\ ports'[f] = ports[f]
    BY <1>2, OthersStay DEF Holds
  <2>3. CASE LockProject(g)
    <3>1. pc'[g] = "scan" /\ \A f \in Envs : Project[f] = Project[g] /\ ports[f] # {} => f \in unread'[g]
      BY <2>3 DEF LockProject, Goto
    <3> QED BY <2>2, <3>1 DEF ScanFits, Looked, Asking
  <2>4. CASE ReadManifest(g)
    <3>1. PICK h \in unread[g] :
            /\ unread' = [unread EXCEPT ![g] = @ \ {h}]
            /\ found' = IF ports[h] = {} THEN found
                        ELSE [found EXCEPT ![g] = @ \cup {Holds(h)}]
      BY <2>4 DEF ReadManifest, Holds
    <3>2. pc'[g] = "scan" /\ pc[g] = "scan" BY <2>4 DEF ReadManifest
    <3>3. found[g] \subseteq found'[g] BY <3>1
    <3>4. ASSUME NEW f \in Envs \ {g}, Project[f] = Project[g], ports[f] # {}
          PROVE  f \in unread'[g] \/ Holds(f) \in found'[g]
      <4>1. f \in unread[g] \/ Holds(f) \in found[g] BY <2>1, <3>2, <3>4 DEF ScanFits
      <4>2. CASE f = h BY <3>1, <3>4, <4>2
      <4>3. CASE f # h BY <3>1, <3>3, <4>1, <4>3
      <4> QED BY <4>2, <4>3
    <3> QED BY <2>2, <3>2, <3>4 DEF ScanFits, Looked, Asking
  <2>5. CASE ValidateName(g)
    <3>1. /\ unread[g] = {} /\ pc[g] = "scan" /\ found' = found /\ name' = name /\ pc'[g] # "scan"
          /\ \A m \in found[g] : m.name # name[g]
      BY <2>5 DEF ValidateName, scan, manifest, Goto
    <3> QED BY <2>1, <2>2, <3>1 DEF ScanFits
  <2>6. CASE \E o \in Goals : Begin(g, o)
    <3>1. pc'[g] # "scan" /\ ~Looked(g)' BY <2>6 DEF Begin, Goto, Looked
    <3> QED BY <3>1 DEF ScanFits
  <2>7. CASE ~(LockProject(g) \/ ReadManifest(g) \/ ValidateName(g) \/ (\E o \in Goals : Begin(g, o)))
    <3>1. pc'[g] # "scan" /\ (Looked(g)' => Looked(g) /\ found'[g] = found[g] /\ name' = name)
      BY <1>2, <2>7
      DEF Step, BeginCreate, LockRegistry, LookForRegistry, MakeRegistry, ReadRegistry,
          MarkInitialized, PersistManifest, Reserve, ReserveFails, PublishSource, SourceFails,
          Verify, Teardown, Release, RemoveManifest, Stop, End, Goto, Looked, Asking, scan, manifest
    <3> QED BY <2>1, <2>2, <3>1 DEF ScanFits
  <2> QED BY <2>3, <2>4, <2>5, <2>6, <2>7
<1>3. CASE LoseRegistry \/ RestoreRegistry
  BY <1>3
  DEF LoseRegistry, RestoreRegistry, ScanInv, ScanFits, Looked, Asking, Holds, scan, manifest
<1> QED BY <1>1, <1>2, <1>3 DEF Next, ScanInv

\* A manifest is written with a name, and with ports, that none of its project has.
LEMMA ManifestStep == IInv /\ Next => NamesUnique' /\ PortsApart'
<1> SUFFICES ASSUME IInv, Next PROVE NamesUnique' /\ PortsApart' OBVIOUS
<1> USE DEF IInv, TypeOK
<1>1. ASSUME NEW a \in Envs, Step(a) PROVE NamesUnique' /\ PortsApart'
  <2>1. name' = name
    BY <1>1
    DEF Step, BeginCreate, LockProject, ReadManifest, ValidateName, Begin, LockRegistry,
        LookForRegistry, MakeRegistry, ReadRegistry, MarkInitialized, PersistManifest, Reserve,
        ReserveFails, PublishSource, SourceFails, Verify, Teardown, Release, RemoveManifest, Stop,
        manifest
  <2>2. CASE PersistManifest(a)
    <3>1. PICK slot \in Slots[Project[a]] :
            slot \cap FoundPorts(a) = {} /\ ports' = [ports EXCEPT ![a] = slot]
      BY <2>2 DEF PersistManifest
    <3>2. Looked(a) BY <2>2 DEF PersistManifest, Looked, Asking
    <3>3. ASSUME NEW f \in Envs \ {a}, Project[f] = Project[a], ports[f] # {}
          PROVE  name[f] # name[a] /\ ports[f] \cap slot = {}
      <4>1. Holds(f) \in found[a] BY <3>2, <3>3 DEF ScanInv, ScanFits
      <4>2. Holds(f).name # name[a] BY <3>2, <4>1 DEF ScanInv, ScanFits
      <4>3. Holds(f).ports \subseteq FoundPorts(a) BY <4>1 DEF FoundPorts
      <4> QED BY <3>1, <4>2, <4>3 DEF Holds
    <3>4. \A f \in Envs \ {a} : ports'[f] = ports[f] BY <3>1
    <3>5. ports'[a] = slot BY <3>1
    <3>6. NamesUnique' BY <2>1, <3>3, <3>4 DEF NamesUnique
    <3>7. PortsApart' BY <3>3, <3>4, <3>5 DEF PortsApart
    <3> QED BY <3>6, <3>7
  <2>3. ~PersistManifest(a) => \A f \in Envs : ports'[f] = ports[f] \/ ports'[f] = {}
    BY <1>1
    DEF Step, BeginCreate, LockProject, ReadManifest, ValidateName, Begin, LockRegistry,
        LookForRegistry, MakeRegistry, ReadRegistry, MarkInitialized, Reserve, ReserveFails,
        PublishSource, SourceFails, Verify, Teardown, Release, RemoveManifest, Stop, manifest
  <2>4. CASE ~PersistManifest(a) BY <2>1, <2>3, <2>4 DEF NamesUnique, PortsApart
  <2> QED BY <2>2, <2>4
<1>2. CASE LoseRegistry \/ RestoreRegistry
  BY <1>2 DEF LoseRegistry, RestoreRegistry, NamesUnique, PortsApart, manifest
<1> QED BY <1>1, <1>2 DEF Next

-----------------------------------------------------------------------------
\* The strengthened invariant holds in every reachable state.
THEOREM Inductive == Spec => []IInv
<1>1. IInv /\ UNCHANGED vars => IInv'
  <2> SUFFICES ASSUME IInv, UNCHANGED vars PROVE IInv' OBVIOUS
  <2> USE DEF vars, locks, files, scan, manifest
  <2>1. TypeOK' /\ LockInv' /\ MarkerInv' /\ LookInv' /\ OnceInv'
    BY DEF IInv, TypeOK, LockInv, InTransaction, MarkerInv, LookInv, OnceInv, Once
  <2>2. GoalInv' /\ LeaseInv' /\ ProjectInv' /\ ScanInv'
    BY DEF IInv, GoalInv, GoalFits, Asking, LeaseInv, LeaseFits, PortsOf, ProjectInv, Creating,
           ScanInv, ScanFits, Looked, Holds
  <2>3. /\ NamesUnique' /\ PortsApart' /\ LeasesTraceable' /\ TransactionCurrent'
        /\ PublishedStaysLeased'
    BY DEF IInv, NamesUnique, PortsApart, LeasesTraceable, TransactionCurrent,
           PublishedStaysLeased, PortsOf
  <2> QED BY <2>1, <2>2, <2>3 DEF IInv
<1>2. IInv /\ Next => IInv'
  BY TypeStep, LockStep, TransactionStep, OnceStep, LeaseStep, GoalStep, LeaseFitsStep,
     PublishStep, ProjectStep, ScanStep, ManifestStep
  DEF IInv
<1> QED BY <1>1, <1>2, IInvInit, PTL DEF Spec

\* Every variable keeps its type.
THEOREM TypeCorrect == Spec => []TypeOK
<1>1. IInv => TypeOK BY DEF IInv
<1> QED BY <1>1, Inductive, PTL

\* No port has two owners; and as long as no lost registry was taken for an empty one,
\* no lease is without its manifest, whatever is interrupted, fails or gets lost.
THEOREM LeasesAreTraceable == Spec => []LeasesTraceable
<1>1. IInv => LeasesTraceable BY DEF IInv
<1> QED BY <1>1, Inductive, PTL

\* The registry lock makes transactions atomic: none works on a stale copy, unless the
\* registry got lost between two of its own looks at the file.
THEOREM TransactionsAreCurrent == Spec => []TransactionCurrent
<1>1. IInv => TransactionCurrent BY DEF IInv
<1> QED BY <1>1, Inductive, PTL

\* A published environment holds the leases of its manifest until destroy has recorded
\* its finalize phase, unless a lost registry was taken for an empty one.
THEOREM PublishedKeepsLeases == Spec => []PublishedStaysLeased
<1>1. IInv => PublishedStaysLeased BY DEF IInv
<1> QED BY <1>1, Inductive, PTL

\* No two running environments of one user, of whatever projects, share a port as long
\* as no lost registry was taken for an empty one; those of one project never do.
THEOREM RunningAreDisjoint == Spec => []RunningDisjoint
<1>1. IInv => RunningDisjoint
  <2> SUFFICES ASSUME IInv, NEW e \in running, NEW f \in running
               PROVE  /\ ports[e] # {} /\ (intact => PortsOf(registry, e) = ports[e])
                      /\ e # f /\ (intact \/ Project[e] = Project[f]) =>
                           ports[e] \cap ports[f] = {}
    BY DEF RunningDisjoint
  <2> USE DEF IInv, TypeOK
  <2>1. stage[e] = "published" /\ stage[f] = "published" BY DEF GoalInv, GoalFits
  <2>2. intact => PortsOf(registry, e) = ports[e] /\ PortsOf(registry, f) = ports[f]
    BY <2>1 DEF PublishedStaysLeased
  <2>3. ports[e] # {} BY <2>1 DEF GoalInv, GoalFits
  <2>4. ASSUME intact, NEW p \in ports[e] \cap ports[f] PROVE e = f
    <3>1. <<p, e>> \in registry /\ <<p, f>> \in registry BY <2>2, <2>4 DEF PortsOf
    <3> QED BY <3>1 DEF OnceInv, Once
  <2>5. e # f /\ Project[e] = Project[f] => ports[e] \cap ports[f] = {} BY DEF PortsApart
  <2> QED BY <2>2, <2>3, <2>4, <2>5
<1> QED BY <1>1, Inductive, PTL

\* Only a release gives leases up: its environment's, and only once that is rolled back
\* or torn down and has nothing running; until a lost registry is taken for an empty one.
THEOREM ReleasesAreFinal == Spec => ReleaseIsFinal
<1> DEFINE Final == intact' => \A l \in registry \ registry' :
                      stage[l[2]] \in {"pending", "finalize"} /\ l[2] \notin running
<1>1. IInv /\ Next => Final
  <2> SUFFICES ASSUME IInv, Next, intact', NEW l \in registry, l \notin registry'
               PROVE  stage[l[2]] \in {"pending", "finalize"} /\ l[2] \notin running
    OBVIOUS
  <2>0. intact BY IntactStep
  <2> USE <2>0 DEF IInv, TypeOK, TransactionCurrent, files
  <2>1. ASSUME NEW e \in Envs, MakeRegistry(e) PROVE FALSE
    BY <2>1, MakeKeeps
  <2>2. ASSUME NEW e \in Envs, Release(e) PROVE stage[l[2]] \in {"pending", "finalize"}
    <3>1. l[2] = e BY <2>2 DEF Release
    <3>2. stage[e] \in {"pending", "finalize"} BY <2>2 DEF Release, GoalInv, GoalFits, Asking
    <3> QED BY <3>1, <3>2
  <2>3. ASSUME NEW e \in Envs, Step(e) PROVE Release(e)
    BY <2>1, <2>3
    DEF Step, BeginCreate, LockProject, ReadManifest, ValidateName, Begin, LockRegistry,
        LookForRegistry, ReadRegistry, MarkInitialized, PersistManifest, Reserve, ReserveFails,
        PublishSource, SourceFails, Verify, Teardown, RemoveManifest, Stop
  <2>4. stage[l[2]] \in {"pending", "finalize"}
    BY <2>2, <2>3 DEF Next, LoseRegistry, RestoreRegistry
  <2> QED BY <2>4 DEF GoalInv, GoalFits
<1>2. IInv /\ [Next]_vars => [Final]_vars BY <1>1
<1> QED BY <1>2, Inductive, PTL DEF Spec, ReleaseIsFinal

\* The registry and the manifests agree at every moment, although each is written
\* by itself and the process that writes them may die in between, until a lost
\* registry is taken for an empty one; and no port is leased twice even then.
THEOREM LeasesAndManifestsAgree == Spec => []LeasesMatchManifests
<1> QED BY LeasesAreTraceable, PublishedKeepsLeases, PTL DEF LeasesMatchManifests

-----------------------------------------------------------------------------
\* An environment has no leases here as there.
LEMMA LeaseIs ==
  ASSUME TypeOK, NEW e \in Envs
  PROVE  (PortsOf(registry, e) = {}) <=> (Registry!Of(e) = {})
BY DEF TypeOK, Leases, PortsOf, Registry!Of

\* What is bound is published, and what is published leased, here as there.
LEMMA BoundHolds == IInv => Registry!NoPortTwice /\ Registry!BoundIsLeased
<1> SUFFICES ASSUME IInv PROVE Registry!NoPortTwice /\ Registry!BoundIsLeased OBVIOUS
<1> USE DEF IInv
<1>1. Registry!NoPortTwice BY DEF OnceInv, Once, Registry!NoPortTwice
<1>2. running \subseteq {e \in Envs : stage[e] = "published"}
  BY DEF TypeOK, GoalInv, GoalFits
<1>3. ASSUME intact, NEW e \in Envs, stage[e] = "published" PROVE Registry!Of(e) # {}
  <2>1. ports[e] # {} BY <1>3 DEF GoalInv, GoalFits
  <2>2. PortsOf(registry, e) # {} BY <1>3, <2>1 DEF PublishedStaysLeased
  <2> QED BY <2>2, LeaseIs
<1> QED BY <1>1, <1>2, <1>3 DEF Registry!BoundIsLeased

\* Each step of a command is one of the registry or none.
LEMMA RegistryStep ==
  IInv /\ Registry!NoPortTwice' /\ Registry!BoundIsLeased' /\ [Next]_vars
    => [Registry!Next]_(Registry!vars)
<1> SUFFICES ASSUME IInv, Registry!NoPortTwice', Registry!BoundIsLeased', [Next]_vars
             PROVE  [Registry!Next]_(Registry!vars)
  OBVIOUS
<1>1. CASE ~intact'
  BY <1>1 DEF Registry!Next, Registry!Lose
<1>2. CASE UNCHANGED vars
  BY <1>2 DEF vars, files, manifest, Registry!vars
<1>3. CASE intact' /\ Next
  <2>0. intact BY <1>3, IntactStep
  <2> USE <1>3, <2>0 DEF IInv, TypeOK, TransactionCurrent
  <2> DEFINE Goal == [Registry!Next]_(Registry!vars)
  <2>1. ASSUME registry' = registry, running' = running,
               {e \in Envs : stage'[e] = "published"} = {e \in Envs : stage[e] = "published"}
        PROVE  Goal
    BY <2>1 DEF Registry!vars
  <2>2. ASSUME NEW e \in Envs, Registry!Reserve(e) \/ Registry!Publish(e) \/ Registry!Bind(e)
                               \/ Registry!Withdraw(e) \/ Registry!Release(e)
        PROVE  Goal
    BY <2>2 DEF Registry!Next, Registry!Keep
  <2> HIDE DEF Goal
  <2>3. ASSUME NEW e \in Envs, pc[e] = "reserve", ports[e] \cap UsedPorts(loaded[e]) = {},
               registry' = loaded[e] \cup (ports[e] \X {e}), running' = running, stage' = stage
        PROVE  Goal
    <3>1. loaded[e] = registry BY <2>3
    <3>2. PortsOf(registry, e) = {} /\ stage[e] = "pending"
      BY <2>3 DEF GoalInv, GoalFits, LeaseInv, LeaseFits
    <3>3. Registry!Of(e) = {} BY <3>2, LeaseIs
    <3>4. ports[e] \in SUBSET {p \in Ports : Registry!Free(p)}
      BY <2>3, <3>1 DEF UsedPorts, Registry!Free
    <3>5. Registry!Reserve(e) BY <2>3, <3>1, <3>2, <3>3, <3>4 DEF Registry!Reserve
    <3> QED BY <2>2, <3>5
  <2>4. ASSUME NEW e \in Envs, PublishSource(e) PROVE Goal
    <3>1. stage[e] = "pending" /\ PortsOf(registry, e) = ports[e] /\ ports[e] # {}
      BY <2>4 DEF PublishSource, GoalInv, GoalFits, LeaseInv, LeaseFits
    <3>2. Registry!Of(e) # {} BY <3>1, LeaseIs
    <3>3. {f \in Envs : stage'[f] = "published"} = {f \in Envs : stage[f] = "published"} \cup {e}
      BY <2>4 DEF PublishSource
    <3>4. Registry!Publish(e) BY <2>4, <3>2, <3>3 DEF PublishSource, files, Registry!Publish
    <3> QED BY <2>2, <3>4
  <2>5. ASSUME NEW e \in Envs, Verify(e) PROVE Goal
    <3>1. stage[e] \in {"pending", "published"} BY <2>5 DEF Verify, GoalInv, GoalFits, Asking
    <3>2. ports[e] # {} BY <3>1 DEF GoalInv, GoalFits
    <3>3. PortsOf(registry, e) = ports[e] BY <2>5 DEF Verify, Verified
    <3>4. Registry!Of(e) # {} BY <3>2, <3>3, LeaseIs
    <3>5. {f \in Envs : stage'[f] = "published"} = {f \in Envs : stage[f] = "published"} \cup {e}
      BY <2>5 DEF Verify
    <3>6. CASE goal[e] = "repair"
      <4>1. Registry!Publish(e) BY <2>5, <3>4, <3>5, <3>6 DEF Verify, files, Registry!Publish
      <4> QED BY <2>2, <4>1
    <3>7. CASE goal[e] = "up"
      <4>1. stage[e] = "published" BY <2>5, <3>7 DEF Verify, GoalInv, GoalFits, Asking
      <4>2. Registry!Bind(e) BY <2>5, <3>5, <3>7, <4>1 DEF Verify, files, Registry!Bind
      <4> QED BY <2>2, <4>2
    <3> QED BY <2>5, <3>6, <3>7 DEF Verify
  <2>6. ASSUME NEW e \in Envs, Teardown(e) PROVE Goal
    <3>1. {f \in Envs : stage'[f] = "published"} = {f \in Envs : stage[f] = "published"} \ {e}
      BY <2>6 DEF Teardown
    <3>2. Registry!Withdraw(e) BY <2>6, <3>1 DEF Teardown, files, Registry!Withdraw
    <3> QED BY <2>2, <3>2
  <2>7. ASSUME NEW e \in Envs, Release(e) PROVE Goal
    <3>1. CASE registry' = registry BY <2>1, <2>7, <3>1 DEF Release, manifest
    <3>2. CASE registry' = {l \in loaded[e] : l[2] # e}
      <4>1. stage[e] \in {"pending", "finalize"} BY <2>7 DEF Release, GoalInv, GoalFits, Asking
      <4>2. e \notin running BY <4>1 DEF GoalInv, GoalFits
      <4>3. loaded[e] = registry BY <2>7 DEF Release
      <4>4. registry' = registry \ Registry!Of(e) BY <3>2, <4>3 DEF Registry!Of
      <4>5. Registry!Release(e)
        BY <2>7, <4>1, <4>2, <4>4 DEF Release, manifest, Registry!Release
      <4> QED BY <2>2, <4>5
    <3> QED BY <2>7, <3>1, <3>2 DEF Release
  <2>8. ASSUME NEW e \in Envs, PersistManifest(e) \/ RemoveManifest(e) PROVE Goal
    <3>1. stage[e] # "published"
      BY <2>8 DEF PersistManifest, RemoveManifest, GoalInv, GoalFits, Asking
    <3>2. /\ registry' = registry /\ running' = running
          /\ \A f \in Envs : stage'[f] = "published" <=> stage[f] = "published"
      BY <2>8, <3>1 DEF PersistManifest, RemoveManifest, files
    <3> QED BY <2>1, <3>2
  <2>9. ASSUME NEW e \in Envs, MakeRegistry(e) PROVE Goal
    BY <2>1, <2>9, MakeKeeps DEF MakeRegistry, manifest
  <2>10. ASSUME UNCHANGED <<registry, running, stage>> PROVE Goal
    <3>1. /\ registry' = registry /\ running' = running
          /\ \A f \in Envs : stage'[f] = "published" <=> stage[f] = "published"
      BY <2>10
    <3> QED BY <2>1, <3>1
  <2> QED
    BY <2>3, <2>4, <2>5, <2>6, <2>7, <2>8, <2>9, <2>10
    DEF Goal, Next, Step, BeginCreate, LockProject, ReadManifest, ValidateName, Begin, LockRegistry,
        LookForRegistry, ReadRegistry, MarkInitialized, Reserve, ReserveFails, SourceFails, Stop,
        LoseRegistry, RestoreRegistry, files, manifest
<1> QED BY <1>1, <1>2, <1>3

\* A registry that is read, changed in memory and written back, beside manifests that
\* are written one by one, is as good as one whose steps are atomic, which may lose its
\* leases to a loss of the file in the middle of a transaction.
THEOREM TransactionsImplementRegistry == Spec => ImplementsRegistry
<1>1. Init => Registry!Init BY DEF Init, Registry!Init
<1> QED BY <1>1, BoundHolds, RegistryStep, Inductive, PTL DEF Spec, ImplementsRegistry, Registry!Spec

\* No two environments of a project have one name, although names are looked up while
\* other commands remove manifests.
THEOREM NamesAreUnique == Spec => []NamesUnique
<1>1. IInv => NamesUnique BY DEF IInv
<1> QED BY <1>1, Inductive, PTL

\* What PortRegistry promises, it keeps, and the transactions with it: no port has two
\* holders, and an environment that binds ports is published, and has leases until a
\* lost registry is taken for an empty one.
THEOREM PortsAreHeldOnce == Spec => [](Registry!NoPortTwice /\ Registry!BoundIsLeased)
<1> DEFINE Inv == Registry!NoPortTwice /\ Registry!BoundIsLeased
<1>1. Registry!Init => Inv
  BY DEF Registry!Init, Registry!NoPortTwice, Registry!BoundIsLeased, Registry!Of
<1>2. TypeOK /\ Inv /\ [Registry!Next]_(Registry!vars) => Inv'
  <2> SUFFICES ASSUME TypeOK, Inv, [Registry!Next]_(Registry!vars) PROVE Inv'
    OBVIOUS
  <2>0. registry \in SUBSET (Ports \X Envs) BY DEF TypeOK, Leases
  <2>1. CASE UNCHANGED Registry!vars
    BY <2>1 DEF Registry!vars, Registry!NoPortTwice, Registry!BoundIsLeased, Registry!Of
  <2>2. CASE Registry!Lose BY <2>2 DEF Registry!Lose
  <2>3. ASSUME NEW e \in Envs, intact, intact', Registry!Reserve(e) PROVE Inv'
    <3> USE DEF Registry!NoPortTwice, Registry!BoundIsLeased, Registry!Of
    <3>1. PICK some \in SUBSET {p \in Ports : Registry!Free(p)} :
            registry' = registry \cup (some \X {e})
      BY <2>3 DEF Registry!Reserve
    <3>2. Registry!NoPortTwice' BY <2>0, <3>1 DEF Registry!Free
    <3>3. Registry!BoundIsLeased' BY <2>3, <3>1 DEF Registry!Reserve
    <3> QED BY <3>2, <3>3
  <2>4. ASSUME NEW e \in Envs, intact, intact',
               Registry!Publish(e) \/ Registry!Bind(e) \/ Registry!Withdraw(e) \/ Registry!Release(e)
        PROVE  Inv'
    <3> USE <2>4 DEF Registry!NoPortTwice, Registry!BoundIsLeased, Registry!Of
    <3>1. CASE Registry!Publish(e) BY <3>1 DEF Registry!Publish
    <3>2. CASE Registry!Bind(e) BY <3>2 DEF Registry!Bind
    <3>3. CASE Registry!Withdraw(e) BY <3>3 DEF Registry!Withdraw
    <3>4. CASE Registry!Release(e) BY <3>4 DEF Registry!Release
    <3> QED BY <3>1, <3>2, <3>3, <3>4
  <2> QED BY <2>1, <2>2, <2>3, <2>4 DEF Registry!Next, Registry!Keep
<1>3. Registry!Spec /\ []TypeOK => []Inv BY <1>1, <1>2, PTL DEF Registry!Spec
<1> QED BY <1>3, TransactionsImplementRegistry, TypeCorrect, PTL DEF ImplementsRegistry
=============================================================================
