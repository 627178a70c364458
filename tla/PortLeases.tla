----------------------------- MODULE PortLeases -----------------------------
(***************************************************************************)
(* The host-wide port lease registry of one user, shared by the            *)
(* environments of all projects.  A command reads and writes the registry  *)
(* in a transaction under the registry lock; create also holds its         *)
(* project's lock from before it looks at the manifests to its end.  What  *)
(* survives a crash is the registry file, its initialization marker, the   *)
(* manifests and what Compose runs.  The manifests of the project are read *)
(* one by one, while commands of other environments remove theirs.         *)
(*                                                                         *)
(* A transaction looks at the registry file three times: whether it is     *)
(* missing although the marker says that there was one, whether it is to   *)
(* be made, and what is in it.  The last two take a file that is lost in   *)
(* between for one that never was.  `intact` remembers whether that came   *)
(* about: only the first look refuses a registry that was lost.            *)
(*                                                                         *)
(* Each environment runs at most one command at a time (EnvironmentAccess) *)
(* and its runtime token is the environment itself: tokens are random, so  *)
(* the registry's identity checks never see two environments under one     *)
(* token.  Environments without services have no ports and no lease and    *)
(* are left out.                                                           *)
(***************************************************************************)
EXTENDS Naturals

CONSTANTS Envs,      \* environments, one create each
          Projects,
          Ports,
          Names,     \* slugs
          Project,   \* the project of each environment
          Slots,     \* the sets of ports a project may be given
          None

ASSUME ProjectAssumption == Project \in [Envs -> Projects]
ASSUME SlotsAssumption ==
  Slots \in [Projects -> SUBSET SUBSET Ports] /\ \A j \in Projects : {} \notin Slots[j]
ASSUME NoneAssumption == None \notin Envs

VARIABLES
  pc, goal,      \* where the command of each environment is, and what it is for
  projectLock,   \* holder of each project.lock
  registryLock,  \* holder of port-leases.lock
  registry,      \* the leases: pairs of a port and its owner
  exists,        \* port-leases.json is there
  initialized,   \* port-leases.initialized is there
  loaded,        \* the registry as each command's transaction read it
  unread,        \* environments whose manifests create has still to look at
  found,         \* the manifests create found in its project
  ports,         \* the ports in each manifest, {} where there is none
  name,          \* the slug of each environment, from its create on
  stage,         \* how far each environment is
  running,       \* environments whose containers publish their ports
  intact         \* kept for the properties: the registry was not lost between the
                 \* first look of a transaction and the last

locks    == <<projectLock, registryLock>>
files    == <<registry, exists, initialized>>
scan     == <<unread, found>>
manifest == <<ports, name, stage>>
vars == <<pc, goal, locks, files, loaded, scan, manifest, running, intact>>

Leases == Ports \X Envs
Manifests == [ports : SUBSET Ports, name : Names]
Goals  == {"none", "create", "repair", "up", "teardown", "release"}
PCs    == {"unborn", "project", "scan", "registry", "look", "make", "read", "mark", "act",
           "reserve", "source", "remove", "rest", "gone"}
Stages == {"none", "pending", "published", "finalize"}

TypeOK ==
  /\ pc \in [Envs -> PCs]
  /\ goal \in [Envs -> Goals]
  /\ projectLock \in [Projects -> Envs \cup {None}]
  /\ registryLock \in Envs \cup {None}
  /\ registry \in SUBSET Leases
  /\ exists \in BOOLEAN /\ initialized \in BOOLEAN
  /\ loaded \in [Envs -> SUBSET Leases]
  /\ unread \in [Envs -> SUBSET Envs] /\ found \in [Envs -> SUBSET Manifests]
  /\ ports \in [Envs -> SUBSET Ports] /\ name \in [Envs -> Names]
  /\ stage \in [Envs -> Stages]
  /\ running \in SUBSET Envs
  /\ intact \in BOOLEAN

Init ==
  /\ pc = [e \in Envs |-> "unborn"]
  /\ goal = [e \in Envs |-> "none"]
  /\ projectLock = [j \in Projects |-> None]
  /\ registryLock = None
  /\ registry = {} /\ exists = FALSE /\ initialized = FALSE
  /\ loaded = [e \in Envs |-> {}]
  /\ unread = [e \in Envs |-> {}] /\ found = [e \in Envs |-> {}]
  /\ ports = [e \in Envs |-> {}] /\ name \in [Envs -> Names]
  /\ stage = [e \in Envs |-> "none"]
  /\ running = {} /\ intact = TRUE

-----------------------------------------------------------------------------
PortsOf(leases, e) == {p \in Ports : <<p, e>> \in leases}
UsedPorts(leases)  == {p \in Ports : \E e \in Envs : <<p, e>> \in leases}

FoundPorts(e)     == UNION {m.ports : m \in found[e]}

Goto(e, to) == pc' = [pc EXCEPT ![e] = to]

\* The transaction is dropped, and the lock with it.
Unlock(e) ==
  /\ registryLock' = IF registryLock = e THEN None ELSE registryLock
  /\ loaded' = [loaded EXCEPT ![e] = {}]

\* The end of a command: an environment without a manifest is not seen again.
End(e) ==
  /\ Goto(e, IF ports'[e] = {} THEN "gone" ELSE "rest")
  /\ goal' = [goal EXCEPT ![e] = "none"]
  /\ projectLock' = [j \in Projects |-> IF projectLock[j] = e THEN None ELSE projectLock[j]]
  /\ unread' = [unread EXCEPT ![e] = {}] /\ found' = [found EXCEPT ![e] = {}]
  /\ Unlock(e)

-----------------------------------------------------------------------------
BeginCreate(e) ==
  /\ pc[e] = "unborn"
  /\ goal' = [goal EXCEPT ![e] = "create"]
  /\ Goto(e, "project")
  /\ UNCHANGED <<locks, files, loaded, scan, manifest, running>>

\* Mutant: creates of a project run side by side.
LockProjectBeside(e) ==
  /\ pc[e] = "project"
  /\ projectLock' = [projectLock EXCEPT ![Project[e]] = e]
  /\ unread' = [unread EXCEPT ![e] = {f \in Envs : Project[f] = Project[e] /\ ports[f] # {}}]
  /\ Goto(e, "scan")
  /\ UNCHANGED <<goal, registryLock, files, loaded, found, manifest, running>>

\* provision: the project lock, then the directory of the project is opened.
LockProject(e) ==
  /\ pc[e] = "project"
  /\ projectLock[Project[e]] = None
  /\ projectLock' = [projectLock EXCEPT ![Project[e]] = e]
  /\ unread' = [unread EXCEPT ![e] = {f \in Envs : Project[f] = Project[e] /\ ports[f] # {}}]
  /\ Goto(e, "scan")
  /\ UNCHANGED <<goal, registryLock, files, loaded, found, manifest, running>>

\* load_manifests: a root whose manifest is gone is passed over.  (If it goes
\* between the look and the read, the command ends: Stop.)
ReadManifest(e) ==
  /\ pc[e] = "scan"
  /\ \E f \in unread[e] :
       /\ unread' = [unread EXCEPT ![e] = @ \ {f}]
       /\ found' = IF ports[f] = {} THEN found
                   ELSE [found EXCEPT ![e] = @ \cup {[ports |-> ports[f], name |-> name[f]]}]
  /\ UNCHANGED <<pc, goal, locks, files, loaded, manifest, running>>

\* validate_name
ValidateName(e) ==
  /\ pc[e] = "scan"
  /\ unread[e] = {}
  /\ \A m \in found[e] : m.name # name[e]
  /\ Goto(e, "registry")
  /\ UNCHANGED <<goal, locks, files, loaded, scan, manifest, running>>

\* The other commands come to the registry under the locks of the environment.
Begin(e, g) ==
  /\ pc[e] = "rest"
  /\ \/ g = "repair"   /\ stage[e] \in {"pending", "published"}
     \/ g = "up"       /\ stage[e] = "published"
     \/ g = "teardown" /\ stage[e] = "published"
     \/ g = "release"  /\ stage[e] \in {"pending", "finalize"}
  /\ goal' = [goal EXCEPT ![e] = g]
  /\ Goto(e, "registry")
  /\ UNCHANGED <<locks, files, loaded, scan, manifest, running>>

\* Mutant: transactions are not serialized.
LockRegistryUnguarded(e) ==
  /\ pc[e] = "registry"
  /\ registryLock' = e
  /\ Goto(e, "look")
  /\ UNCHANGED <<goal, projectLock, files, loaded, scan, manifest, running>>

\* PortLeaseStore::transaction
LockRegistry(e) ==
  /\ pc[e] = "registry"
  /\ registryLock = None
  /\ registryLock' = e
  /\ Goto(e, "look")
  /\ UNCHANGED <<goal, projectLock, files, loaded, scan, manifest, running>>

\* Mutant: a missing registry is not refused.
LookPastMissing(e) ==
  /\ pc[e] = "look"
  /\ Goto(e, "make")
  /\ UNCHANGED <<goal, locks, files, loaded, scan, manifest, running>>

\* A registry that was there, by its marker, and is missing is refused (Stop).
LookForRegistry(e) ==
  /\ pc[e] = "look"
  /\ initialized => exists
  /\ Goto(e, "make")
  /\ UNCHANGED <<goal, locks, files, loaded, scan, manifest, running>>

\* If there is none now, an empty one is saved, whatever the marker said.
MakeRegistry(e) ==
  /\ pc[e] = "make"
  /\ registry' = IF exists THEN registry ELSE {}
  /\ exists' = TRUE
  /\ Goto(e, "read")
  /\ UNCHANGED <<goal, locks, initialized, loaded, scan, manifest, running>>

\* Registry::read: no file is an empty registry.  (The marker, read with the first
\* look, changes under the lock only.)
ReadRegistry(e) ==
  /\ pc[e] = "read"
  /\ loaded' = [loaded EXCEPT ![e] = IF exists THEN registry ELSE {}]
  /\ Goto(e, IF initialized THEN "act" ELSE "mark")
  /\ UNCHANGED <<goal, locks, files, scan, manifest, running>>

MarkInitialized(e) ==
  /\ pc[e] = "mark"
  /\ initialized' = TRUE
  /\ Goto(e, "act")
  /\ UNCHANGED <<goal, locks, registry, exists, loaded, scan, manifest, running>>

-----------------------------------------------------------------------------
\* allocate_ports takes the first slot that is neither used nor, as its probe
\* sees it, bound by another process; then the manifest is persisted.
PersistManifest(e) ==
  /\ pc[e] = "act" /\ goal[e] = "create"
  /\ \E slot \in Slots[Project[e]] :
       /\ slot \cap (FoundPorts(e) \cup UsedPorts(loaded[e])) = {}
       /\ ports' = [ports EXCEPT ![e] = slot]
  /\ stage' = [stage EXCEPT ![e] = "pending"]
  /\ found' = [found EXCEPT ![e] = {}]  \* not used any more
  /\ Goto(e, "reserve")
  /\ UNCHANGED <<goal, locks, files, loaded, unread, name, running>>

\* reserve: the leases join those that were read, and the lock is dropped.
Reserve(e) ==
  /\ pc[e] = "reserve"
  /\ ports[e] \cap UsedPorts(loaded[e]) = {}
  /\ registry' = loaded[e] \cup (ports[e] \X {e})
  /\ exists' = TRUE
  /\ Unlock(e)
  /\ Goto(e, "source")
  /\ UNCHANGED <<goal, projectLock, initialized, scan, manifest, running>>

\* The save failed, before or after its rename: rollback asks the registry.
ReserveFails(e) ==
  /\ pc[e] = "reserve"
  /\ \/ UNCHANGED <<registry, exists>>
     \/ /\ ports[e] \cap UsedPorts(loaded[e]) = {}
        /\ registry' = loaded[e] \cup (ports[e] \X {e})
        /\ exists' = TRUE
  /\ Unlock(e)
  /\ goal' = [goal EXCEPT ![e] = "release"]
  /\ Goto(e, "registry")
  /\ UNCHANGED <<projectLock, initialized, scan, manifest, running>>

PublishSource(e) ==
  /\ pc[e] = "source"
  /\ stage' = [stage EXCEPT ![e] = "published"]
  /\ UNCHANGED <<ports, name>>
  /\ End(e)
  /\ UNCHANGED <<files, running>>

\* Mutant: rollback removes the manifest and forgets the lease.
SourceFailsUnreleased(e) ==
  /\ pc[e] = "source"
  /\ Goto(e, "remove")
  /\ UNCHANGED <<goal, locks, files, loaded, scan, manifest, running>>

\* rollback_failed_source
SourceFails(e) ==
  /\ pc[e] = "source"
  /\ goal' = [goal EXCEPT ![e] = "release"]
  /\ Goto(e, "registry")
  /\ UNCHANGED <<locks, files, loaded, scan, manifest, running>>

-----------------------------------------------------------------------------
Verified(e) == PortsOf(loaded[e], e) = ports[e]

\* verify_port_leases of repair and up.  repair may publish what an interrupted
\* create left; up goes on to bind the ports.
Verify(e) ==
  /\ pc[e] = "act" /\ goal[e] \in {"repair", "up"}
  /\ Verified(e)
  /\ stage' = [stage EXCEPT ![e] = "published"]
  /\ running' = IF goal[e] = "up" THEN running \cup {e} ELSE running
  /\ UNCHANGED <<ports, name>>
  /\ End(e)
  /\ UNCHANGED files

\* destroy: verified leases, then runtime and source removal up to the record
\* of the finalize phase.
Teardown(e) ==
  /\ pc[e] = "act" /\ goal[e] = "teardown"
  /\ Verified(e)
  /\ running' = running \ {e}
  /\ stage' = [stage EXCEPT ![e] = "finalize"]
  /\ Unlock(e)
  /\ goal' = [goal EXCEPT ![e] = "release"]
  /\ Goto(e, "registry")
  /\ UNCHANGED <<projectLock, files, scan, ports, name>>

\* release_if_owned_or_absent
Release(e) ==
  /\ pc[e] = "act" /\ goal[e] = "release"
  /\ \/ PortsOf(loaded[e], e) = {} /\ UNCHANGED <<registry, exists>>
     \/ /\ PortsOf(loaded[e], e) = ports[e]
        /\ registry' = {l \in loaded[e] : l[2] # e}
        /\ exists' = TRUE
  /\ Unlock(e)
  /\ Goto(e, "remove")
  /\ UNCHANGED <<goal, projectLock, initialized, scan, manifest, running>>

\* remove_stackstead_root
RemoveManifest(e) ==
  /\ pc[e] = "remove"
  /\ ports' = [ports EXCEPT ![e] = {}]
  /\ stage' = [stage EXCEPT ![e] = "none"]
  /\ End(e)
  /\ UNCHANGED <<files, name, running>>

-----------------------------------------------------------------------------
\* The command dies, times out on a lock, or ends with an error.
Stop(e) ==
  /\ pc[e] \notin {"unborn", "rest", "gone"}
  /\ UNCHANGED <<ports, name>>
  /\ End(e)
  /\ UNCHANGED <<files, stage, running>>

\* Somebody deletes the registry, or puts it back as it was.
LoseRegistry ==
  /\ exists
  /\ exists' = FALSE
  /\ intact' = (intact /\ ~(initialized /\ \E e \in Envs : pc[e] \in {"make", "read"}))
  /\ UNCHANGED <<pc, goal, locks, registry, initialized, loaded, scan, manifest, running>>

RestoreRegistry ==
  /\ ~exists /\ initialized
  /\ exists' = TRUE
  /\ UNCHANGED <<pc, goal, locks, registry, initialized, loaded, scan, manifest, running, intact>>

Step(e) ==
  \/ BeginCreate(e) \/ LockProject(e) \/ ReadManifest(e) \/ ValidateName(e)
  \/ (\E g \in Goals : Begin(e, g)) \/ LockRegistry(e) \/ LookForRegistry(e)
  \/ MakeRegistry(e) \/ ReadRegistry(e) \/ MarkInitialized(e)
  \/ PersistManifest(e) \/ Reserve(e) \/ ReserveFails(e) \/ PublishSource(e) \/ SourceFails(e)
  \/ Verify(e) \/ Teardown(e) \/ Release(e) \/ RemoveManifest(e) \/ Stop(e)

Next ==
  \/ \E e \in Envs : Step(e) /\ UNCHANGED intact
  \/ LoseRegistry \/ RestoreRegistry

Spec == Init /\ [][Next]_vars

-----------------------------------------------------------------------------
\* Two environments that run, of whatever projects, never share a port, and
\* each of them holds exactly the leases of its manifest.  Should the registry be
\* taken for empty, those of one project still share none: create also avoids
\* the ports of the manifests it found.
RunningDisjoint ==
  \A e, f \in running :
    /\ ports[e] # {} /\ (intact => PortsOf(registry, e) = ports[e])
    /\ e # f /\ (intact \/ Project[e] = Project[f]) => ports[e] \cap ports[f] = {}

\* No port has two owners, and no lease is left without the manifest through
\* which destroy finds and releases it.
LeasesTraceable ==
  /\ \A l, m \in registry : l[1] = m[1] => l = m
  /\ intact => \A l \in registry : l[1] \in ports[l[2]]

\* A transaction works on the registry as it is: no update is lost.
TransactionCurrent ==
  intact => \A e \in Envs : pc[e] \in {"mark", "act", "reserve"} => loaded[e] = registry

\* Once an environment is published, its leases stay until destroy reached
\* finalize, whatever other commands and projects do.
PublishedStaysLeased ==
  intact => \A e \in Envs : stage[e] = "published" => PortsOf(registry, e) = ports[e]

\* The leases and the manifests agree, although they are files written one after
\* the other: no port has two owners, and as long as no lost registry was taken for
\* an empty one, none is leased for an environment that is not there, and none of
\* a published environment is free for another.
LeasesMatchManifests == LeasesTraceable /\ PublishedStaysLeased

\* A step gives up only leases of an environment that is rolled back or torn
\* down and has nothing running.
ReleaseIsFinal ==
  [][intact' => \A l \in registry \ registry' :
       stage[l[2]] \in {"pending", "finalize"} /\ l[2] \notin running]_vars

\* No two environments of a project ever have one name, which is also the branch of
\* their checkout: a name is free as soon as a manifest is gone, and creates and
\* destroys overlap, but the manifests that validate_name did not read are gone.
NamesUnique ==
  \A e, f \in Envs :
    /\ e # f /\ Project[e] = Project[f]
    /\ ports[e] # {} /\ ports[f] # {}
    => name[e] # name[f]

Registry ==
  INSTANCE PortRegistry WITH
    leases <- registry,
    published <- {e \in Envs : stage[e] = "published"}

\* Transactions over a file, and manifests written before and removed after them,
\* amount to a registry whose steps are atomic: no update is lost or done by halves,
\* and no lease is taken from an environment that is published or runs, until a lost
\* registry is taken for an empty one.
ImplementsRegistry == Registry!Spec

=============================================================================
