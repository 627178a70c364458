# A verification of stackstead

`stackstead` is a command-line program that gives each agent or developer an
isolated *environment*: a Git worktree, a set of leased host ports, a Compose
project and a generated contract (`.stackstead/`).  There is no daemon.  Every
invocation is a process of its own; invocations meet only on the file system
(lock files, manifests, a port registry), in Git and in Docker.  That is where
the hard part of the program is: any number of processes, each of which may
wait, give up or die between any two of its steps, and durable state that the
next one must be able to continue from.

This directory holds TLA+ modules that model that part, TLC configurations
that check them on small instances, and proofs checked by TLAPS.  Paths below
are relative to `src/` of the repository (`src/lock.rs` is `src/src/lock.rs` in
`PROJECT.json`).

## 1. Inventory

| Component | State it keeps | Operations | What makes it correct |
|---|---|---|---|
| Environment locks (`lock.rs`, `lifecycle/access.rs`, `types.rs`, `stop.rs`, `agent.rs`) | `lock` and `run.lock` of each root, flock owners | acquire fresh, acquire existing, shared, downgrade, hand over to a child, release, time out | exclusive work is alone; a running child is never without its lease; what was checked under a lock stays true |
| Create, adopt, repair, destroy (`lifecycle/provision*.rs`, `contract.rs`, `generated.rs`, `destroy.rs`, `teardown.rs`, `repair.rs`, `manifest/persistence.rs`, `envfile.rs`, `context.rs`) | the root: `manifest.json`, `events.jsonl`, `teardown.json`; the checkout: worktree, generated files | provision with rollback, write the contract, repair it, three teardown phases | after a death at any point every leftover is found by a later command; a recorded phase is true; no uncommitted work is deleted |
| Port leases (`lease.rs`, `lease/registry.rs`) | one registry per user, its marker and lock | reserve, verify, release in a transaction | two environments that run share no port; a lease is never lost, leaked or overwritten |
| Runtime start (`lifecycle/up*.rs`, `database.rs`) | statuses and readiness in the manifest, containers | dependencies, hooks, Compose, database, readiness | readiness in the manifest is never of an older run or of another model |
| Compose ownership (`compose/claim.rs`, `resources.rs`, `ownership*.rs`, `runtime.rs`, `observations.rs`) | the claim volume, labelled containers, networks, volumes | ensure claim, verify, up, stop, down | nothing foreign is started, stopped or removed |
| Compose model (`compose/{model,apply,contract,planning,ports,requirements,services,snapshot,yaml}.rs`) | none | render, plan, override | the override says what the plan says |
| Run supervisor (`supervisor.rs`, `supervisor/*.rs`) | the direct child, adopted descendants, the control socket | wait, cancel, terminate, reap | the lease ends after the child; no signal to a reaped id; the status reported is the child's |
| Command runner (`command/*.rs`) | the child, an exit observer, a pipe drain | run to a deadline, kill the group, join | ends by its deadline; no thread or child is left |
| Inspection (`lifecycle/inspect*.rs`, `observe_runtime.rs`, `health.rs`) | none | observe, evaluate, detect a change | a report never mixes two versions of an environment |
| Readiness (`readiness/*.rs`) | none | evaluate evidence against requirements | unknown never becomes ready, failure is never hidden |
| Event log (`events.rs`) | `events.jsonl` | append, read | a torn tail neither blocks reading nor corrupts the next record |
| Port allocation (`ports.rs`) | none | choose a slot | distinct free ports within 16 bits |
| State directory (`state.rs`, `paths.rs`, `manifest.rs`, `lifecycle/{project,validation}.rs`) | the roots of a project | resolve, validate, remove | only a root of this project is ever removed |
| Git adapter (`git.rs`, `git/*.rs`) | worktrees, branches | create, clean check, remove | nothing uncommitted is removed |
| Generated environment (`envfile.rs`) | the generated `.env` | write, read back | host commands read the values that were written |
| Doctor (`doctor/*.rs`) | none | read-only diagnosis, also of the event log while others append | a healthy environment is not called broken |
| Configuration (`config.rs`, `config/*.rs`, `template.rs`) | `stackstead.yaml` | accept or refuse, render templates, resolve URLs, `init` | what was accepted renders when an environment is made |
| Variables of subprocesses (`manifest.rs`, `command/runner.rs`, `compose/docker.rs`) | none | set, remove, capture and pin variables | every program sees this environment's values and no other's |
| CLI, discovery, context, slug, output, open | none or read-only | parse, format | pure conversions |

They interact through calls inside one process (the CLI calls a lifecycle
operation, which calls Git, Compose, the registry and the event log) and
through shared files between processes.  Callbacks exist in two places only:
the database wait polls through a closure, and the command runner and the
supervisor have an observer thread each.

### What is hard

The full list is under "hazards" in `PROJECT.json`, each at its line.  In short:

- **Interleavings of processes** on the two lock files, on the user's port
  registry, on the Docker names that clones of a project share, and of an
  inspection or `doctor` (no lock) with a command that writes.
- **State read before a wait and used after it**: a manifest resolved before a
  lock wait of up to 30 s; a Compose model resolved before the containers start;
  a resource verified by one docker command and removed by the next.
- **Deaths between two durable steps** of create, adopt, destroy, `up` and an
  append to the event log, and the rollbacks of failed ones.
- **Process management**: exit, signal, reap and cancellation race; descendants
  leave the process group, keep pipes open, fork while they are being killed.
- **Deadlines**: one for the whole verification of a start, one for each command.
- **Evidence with holes**: Docker that does not tell a label or a health state,
  Compose files that are read by two functions with different questions.
- **One text, several readings**: a Compose file is read as YAML, as lines and by
  Compose; a generated value by this program, by a shell and by Compose; a
  template with placeholders and with the values.

## 2. Modules

Each module names the files it models at its head, and each of its definitions
keeps the name of the function where TLA+ allows it; `PROJECT.json` "map" has
the lines of every definition.

| Module | Models | State and actions | Proved about in |
|---|---|---|---|
| `EnvironmentUse` | what the locks of an environment promise | the stage and how each invocation uses the environment; an action per begin, move and end | `EnvironmentAccessProofs` |
| `EnvironmentAccess` | `lock.rs`, `lifecycle/access.rs`: the locks of one environment and every kind of command that takes them | flock owners (`mutex`, `exclusive`, `shared`), the durable stage, one `pc` per invocation; an action per open, lock, check, downgrade, spawn, release, time-out and death | `EnvironmentAccessProofs` |
| `Lifecycle` | create, adopt, repair, `up`, destroy: the durable state of one environment | the files of the root, the checkout with each generated file and the exclude entry of their directory, lease, claim, resources; an action per durable step, its failure, and `Interrupt` | `LifecycleProofs` |
| `PortRegistry` | what the port registry promises | leases, who is published, who runs; an action per reservation, publication, start, withdrawal and release, and `Lose`, after which only part of the promise is left | `PortLeasesProofs` |
| `PortLeases` | `lease.rs`, `lease/registry.rs`, `lifecycle/project.rs`, `state.rs`: the registry with several environments and projects, and the look at a project's manifests for the name | registry, marker, locks, manifests and names; an action per step of a transaction (each of its three looks at the file is one) and per manifest looked at, and the loss and return of the file between any two of them; the history variable `intact` | `PortLeasesProofs` |
| `RunSupervisor` | `supervisor/*.rs`: the supervisor of `run` against the command's processes | process table (`life`, `parent`, `group`, `dying`), observer thread, control socket; an action per system call or loop round | `RunSupervisorProofs` |
| `CapturedCommand` | `command/captured*`: one command run to a deadline | caller, output worker and exit observer with their notifications, pipes and processes | `CapturedCommandProofs` |
| `Startup` | `lifecycle/up*.rs`, `health.rs`, `compose/requirements.rs`, `observe_runtime.rs`: starts, and inspections beside them | the manifest on disk and in memory, Compose inputs that are edited, containers, captures of each resolution | `StartupProofs` |
| `RuntimeClaim` | `compose/claim.rs`, `resources.rs`, `runtime.rs`, `docker.rs`: commands of environments that share a Compose project name, beside other programs | claim volume, owner of each resource, the command of each environment; an action per docker command and per resource looked at | `RuntimeClaimProofs` |
| `DurableLog` | what the event log promises | events kept and acknowledged; append, acknowledge, lose the latest | `AlgorithmProofs` |
| `EventLog` | `events.rs`: append, repair of a torn tail, read, byte by byte | bytes of the file and how many are synced, one writer, one reader without a lock, power losses | `AlgorithmProofs` |
| `PortAllocation` | `ports.rs` | operators, and `Sound`, `Lowest`, `Disjoint` | `AlgorithmProofs` |
| `Readiness` | `readiness/*.rs` | operators, and a reference that quantifies over every world the evidence allows | `AlgorithmProofs` |
| `RuntimeModel` | `compose/ownership_model.rs`, `runtime_names.rs`, `resource_config.rs` | operators, and what Compose creates from the merged files as the reference | `AlgorithmProofs` |
| `Inspection` | `compose/snapshot.rs`, `database.rs`, `inspect_health.rs`, `inspect.rs` | operators, and the containers the evidence allows as the reference | `AlgorithmProofs` |
| `EnvFile` | `envfile.rs` | operators for writing and both ways of reading | `AlgorithmProofs` |
| `ComposeContract` | `compose/{model,planning,ports,yaml,apply,contract}.rs`, `lifecycle/project.rs`: what `plan` reads, `apply` writes, `init` configures and every later command demands of the ports | operators over files of ports and lines, and what Compose publishes as the reference | `AlgorithmProofs` |
| `Configuration` | `config/{validation,urls,helpers}.rs`, `template.rs`, `open.rs`: templates, URLs that refer to each other, loopback URLs | operators, and what the templates mean as the reference | `AlgorithmProofs` |
| `SubprocessEnvironment` | `manifest.rs`, `command/runner.rs`, `compose/{docker,requirements}.rs`: variables of the programs that are started | operators on environments, and what Compose then replaces | `AlgorithmProofs` |
| `MCAlgorithms` | | `EventLog`, and beside it one initial state for each input of the eight modules of operators | |
| `MC...` | | instances for TLC | |

### How the modules fit together

Three modules say what a component promises without how, and the detailed one is
shown to implement it, by TLC (the abstract specification is a property of a
run) and by proof:

- `EnvironmentAccess` implements `EnvironmentUse`: the stage is that of the root,
  and how an invocation uses the environment follows from the locks it holds, its
  command and its step (`UseOf`).  No lock, wait or time-out is left: opening a
  lock file, waiting and giving up are stutters.
- `PortLeases` implements `PortRegistry`: the leases are those of the registry
  file, the published environments those whose manifest says so.  Reading the
  registry, its marker and the locks are stutters, and what a transaction writes
  back is a step of one environment whatever it read before.  This is so until a
  registry that was initialized is lost between the first look of a transaction
  and its read (`intact` turns false): the code then takes it for an empty one,
  and `PortRegistry` promises only that no port is leased twice and that nothing
  runs that is not published.
- `EventLog` implements `DurableLog`: an event is kept when its newline is in the
  file.  Bytes, windows, syncs and readers are stutters; a power loss may lose
  unacknowledged events.

Otherwise the modules are not composed into one state space; each takes from
another what that one establishes, and says so at its head:

- `EnvironmentUse` has that one mutating command works on an environment at a
  time (`Compatible`), and `EnvironmentAccess` that its checks hold while it works
  (`CheckedStageHolds`).  `Lifecycle`, `PortLeases` (per environment), `Startup`
  (the holder), `RuntimeClaim` (one command per environment) and `EventLog` (one
  writer: all callers of `append` hold the exclusive lock) rely on this.
- `RunSupervisor` shows that the run lease outlives the command
  (`LeaseOutlivesCommand`), which `EnvironmentAccess` has as "a child keeps the
  shared lock to its end".
- `PortLeases` and `RuntimeClaim` open what `Lifecycle` has as one step each:
  reserving and releasing the lease, making and removing Compose resources.
- `PortAllocation` is the choice of a slot that `PortLeases` leaves open;
  `Readiness` is the evaluation that `Startup` has as "ready or not".
- `ComposeContract` takes the names of ports that `Configuration` has as
  services, and gives `Inspection` the contract whose endpoints it looks up;
  `SubprocessEnvironment` gives Compose the values that `EnvFile` writes.
- `CapturedCommand` is what "a docker or git command returns by its deadline"
  means in `Startup`, `RuntimeClaim` and `Lifecycle`.

### What is abstracted

- Git and Docker commands take effect in one step or fail, except `git worktree
  remove`, which can unregister a worktree and leave files, and `docker compose
  down` and `up`, which can do a part.  A file that is replaced through a
  temporary name and a rename is replaced in one step.
- Ids and runtime tokens are random and never come back.
- `Lifecycle`: Compose resources exist or not; which there are, and those of
  others, are in `RuntimeClaim`.  Of the repository's `info/exclude` there is
  whether it lists `.stackstead/`: create and repair add that, and any other
  create or repair in the repository may; nobody takes it out.  The entries of
  generated files outside that directory change no check and are left out.
- `PortLeases`: the registry file may be lost and put back as it was, its marker
  is never lost, and nobody edits either.
- `RunSupervisor`, `CapturedCommand`: SIGKILL ends a process sooner or later;
  SIGTERM does nothing a process could not do by itself; the supervisor itself is
  not killed, and SIGCHLD has the default policy the code demands.  In
  `CapturedCommand` the two notifications are taken in any order, and of all a
  process can do to its group only leaving it is modelled.
- `Startup`: every save has its own `updated_at`; a model stands for all that
  `docker compose config` resolves under the captured profiles; steps of the
  verification are cut off by its deadline; dependency and seed statuses, which
  no step reads, are left out.
- `RuntimeClaim`: nobody else removes a claim; a docker client dies with its
  command; the two passes of a verification, by name and by label, are looks at
  the resources in any order, which is more than the code does; the helper
  container removes itself.
- `EventLog`: the file system applies a truncation before later appends and keeps
  a synced prefix; the directory entry of a new log is durable; a line mixed of
  two records may parse or not.
- `RuntimeModel`: Compose merges later documents over earlier ones and `null`
  resets; only first replicas have names; anonymous volumes of an image are
  outside.  `PortAllocation`: names are numbers in name order; the limit is the
  real 65535.  `Inspection`: one look at the containers; a state that Docker does
  not tell may be any.  `EnvFile`: characters are the classes the code tells
  apart; keys, and Compose's own reading of the file, are outside.
- `ComposeContract`: a file is the ports of its services and the lines outside
  them that look like a fixed port; names are sequences of words and separators.
  `Configuration`: a template is a sequence of texts and keys of a kind.
  `SubprocessEnvironment`: of the identity variables and of the reserved names
  there are one or two of a kind; that Compose takes a variable from its process
  before the file it is given is how Compose works, and external.

## 3. Runs and bounds

Every run starts with `tlc -config <cfg> <module>`; the numbers are distinct
states.  `CHECK_DEADLOCK FALSE` stands in every configuration because each of
these systems may stop: all commands done, the environment gone, the
supervision over, an input evaluated.  For each property of a passing run,
`PROJECT.json` "mutants" has a change of a modelled definition, as a plausible
mistake in the code would make it, that violates the property in that run.

| Run | Instance | States | What it shows |
|---|---|---|---|
| `access` | 3 commands, each of any kind, fair | 58,720 | a child has its lease until it ends, also after its parent died (`ChildProtected`), what was checked under a lock stays true (`CheckedStageHolds`), the locks implement the uses of an environment (`ImplementsUse`), and no two commands wait for each other (`EveryCommandEnds`) |
| `lifecycle` | both ownerships, with each of the environment and the context file inside or outside `.stackstead` | 25,418 | wherever a command died or failed, what is left can be found and removed (`NothingIsLost`), a recorded teardown phase is true (`PhaseIsTrue`), no uncommitted work goes with a managed worktree (`WorkIsKept`), destroy ends (`DestroyFinishes`) |
| `leases` | 3 environments, 2 projects, 5 ports, overlapping slots, 2 names in the first project, its environments and names permuted | 1,381,142 | running environments share no port, also when the registry was lost and came back (`RunningDisjoint`), registry and manifests agree (`LeasesMatchManifests`), and the transactions implement a registry whose steps are atomic (`ImplementsRegistry`), each in full until a lost registry is taken for an empty one and in part after that; no two environments of a project have one name (`NamesUnique`) |
| `claim` | 2 environments, a service, a volume and the helper, 1 foreign resource, permuted environments | 2,893,360 | only the claimant's resources are touched (`NothingForeignTouched`), all its resources are under its claim (`ResourcesStayClaimed`), a recorded removal is complete (`RemovedIsDown`) |
| `supervisor` | the command and 2 descendants, 2 cleanup rounds, every system call may fail | 204,029 | `LeaseOutlivesCommand`, `CleanEndLeavesNothing`, `NoStraySignal`, `StatusIsOwn`, `SupervisionEnds` |
| `captured` | the command and 1 descendant, both modes, every system call may fail | 99,696 | `NoStraySignal`, `SuccessIsWhole`, `NothingIsLeft`, `CommandEnds` |
| `startup` | 2 models, 2 starts, 3 edits, all configurations | 1,289,344 | what the manifest says of the containers is what the start told its user (`OutcomeIsHonest`), containers are replaced only while no verdict is on disk (`StartsWithoutVerdicts`), a recorded resolution is of one model (`RecordIsOfOneModel`), the verification ends (`VerificationEnds`) |
| `startup_inspect` | 1 inspection beside 2 starts, 1 edit, permuted models | 2,144,860 | a ready report saw the containers while the manifest held what it reports (`InspectionIsAnchored`) |
| `algorithms` | a log of 3 records of up to 4 bytes, a window of 2; and one initial state per input of the functions | 464,027 | the log implements one of whole events (`ImplementsLog`), and readers report it as it is (`ReadersAreRight`); the functions agree with their references (`AllocationIsRight`, `ReadinessIsCertain`, `EverythingAttested`, `InspectionIsCertain`, `ValuesSurvive`, `AppliedMeetsContract`, `ContractBindsPorts`, `TemplatesResolve`, `EnvironmentsAgree`) |
| `pending_create`, `source_resume`, `finalize_resume` | the smallest instance of `Lifecycle` | | three findings, see section 7 |

### Why these bounds are enough to find mistakes

- `access`: exclusion is between two commands; a third is needed for one that
  waits behind a child whose parent died.  The environment may be in any stage
  at first, so what earlier commands left need not be reached by more of them.
  The proofs cover any number.
- `lifecycle`: the constants can only be sets of the two ownerships and of the
  four choices of files outside `.stackstead`, so the run with all of them is
  exhaustive.  There is one command at a time because the locks allow only one.
- `leases`: two environments of one project and one of another, whose slots
  overlap without being equal: the third can take a port of either.  The first
  project has two slots, so both can be taken, or neither be free; the second has
  one, which is free or not.  Names are
  compared within a project only, so the two environments of one have the same
  name or not, and the third has one of its own.
- `claim`: two clones are needed for a conflict.  The service stands for what is
  found by its name, the volume for what `down` sweeps after `docker compose
  down` has left it, the helper for what is neither; one foreign resource at a
  time is labelled or bare and comes and goes.
- `supervisor`: a descendant that dies with a child of its own gives it to the
  supervisor to adopt, which takes two; two cleanup rounds so that a second one
  can succeed and the last one can give up.
- `captured`: one descendant is enough to leave the group, to keep a pipe that
  the command closed, and to outlive it.
- `startup`: two models, since only "the same or another" is compared.
  `RecordIsOfOneModel` speaks of at most three edits, because that is all the
  code can detect: four edits, there and back twice, around the two captures can
  pair one model with the hash of another.  The run has all three.
- `startup_inspect`: the second start is the one that runs between the two
  reads; an edit makes its resolution another.
- `algorithms`: the window of the backwards search is smaller than a record, so
  a torn tail can be found in the first window, in the second, or not at all,
  and one of the records is too long.  The inputs of the functions: ports at
  both ends of the 16 bits; containers with each piece of evidence missing or
  wrong, alone and in pairs; Compose files of two documents, varied one
  declaration at a time; strings of every class of character;
  files of up to three ports that share a name, a variable or a number, and two
  files of one port each; three services whose URLs refer to each other in any
  way; callers with any subset of six variables, and files with a name too many
  or too few.

In the runs, counters are bounded by `MaxEdits`, `MaxStarts`, `MaxForeign`,
`MaxRecords` and `Passes`.  `Passes` is the constant of the code with a smaller
value; the others bound how often the environment acts or a user starts a
command.

## 4. Fairness

Nothing forces a fault, a time-out, a death or an edit in any of the
specifications; fairness is what the scheduler and the kernel give.

- `EveryCommandEnds` (`EnvironmentAccess`, run `access`): weak fairness of the next step of
  each command.  A child ends; a poll of a lock that stays free succeeds.  The
  code also bounds every wait by 30 s, but this property does not use it: it is
  about commands that never time out, where a wrong lock order would leave two
  waiting for each other.
- `DestroyFinishes` (`Lifecycle`): `calm` says that from here on there are no
  failures or interruptions and that only destroy is run; it is a step that may
  or may not be taken.  Then the steps of a command go on, and destroy is retried
  by its user while it is accepted.  `Recoverable` excludes the leftovers of
  section 7, a probe file that Git sees among them.
- `SupervisionEnds` (`RunSupervisor`): the supervisor's steps that do not fail,
  its observer thread, and the exit of each process that got SIGKILL.  Nothing is
  assumed of the command.
- `CommandEnds` (`CapturedCommand`): the caller and its two threads run, and a
  process that got SIGKILL dies.  The deadline is not forced: the property is
  about what happens after it.
- `VerificationEnds` (`Startup`): the steps of the verification, and its
  deadline, which is a timer in the code.

## 5. Proofs

The safety properties of nine modules are proved by TLAPS for every value of
their constants, along one pattern: an inductive invariant `IInv` with `Init =>
IInv` and `IInv /\ [Next]_vars => IInv'`, and from it each property.  The only
assumptions are those the modules state on their constants (`ASSUME`): that a
process is not its own descendant, that the special values are not ordinary
ones, that bounds are natural numbers.  No set of
processes, environments or ports is assumed finite.

| Module | Proved properties | What the invariant adds, and why it is needed |
|---|---|---|
| `EnvironmentAccessProofs` | `ChildProtected`, `ExclusiveWork`, `CheckedStageHolds`, `CreationPrivate`, `FreshLockUncontended`, `DowngradeUncontended`, `StageOnlyAdvances`, `ImplementsUse` | who holds which lock at which step (`MutexInv`, `LeaseInv`) and which steps can coexist with which stage of the environment (`StageInv`): a lock alone does not tell that the root under it is still the one that was resolved |
| `PortLeasesProofs` | `TransactionCurrent`, `LeasesTraceable`, `PublishedStaysLeased`, `LeasesMatchManifests`, `RunningDisjoint`, `ReleaseIsFinal`, `NamesUnique`, `ImplementsRegistry` | the registry lock is exactly a transaction (`LockInv`), the marker precedes every lease (`MarkerInv`), what a transaction may conclude after each look at the file (`LookInv`), and what each command is for fits the stage of its manifest (`GoalInv`) and, while nothing was lost in the middle, its leases (`LeaseInv`): manifest and registry are written one after the other, so each step must tell which of them is ahead; create holds its project's lock from its look at the manifests on, and whoever has its name was not there when it looked, or is yet to be looked at (`ScanInv`).  What is left when a lost registry was taken for an empty one needs invariants that do not rest on it: no port twice in the file or in what was read (`OnceInv`), and ports of one project apart because create also avoids those of the manifests it found |
| `RuntimeClaimProofs` | `NothingForeignTouched`, `ResourcesStayClaimed`, `RemovedIsDown` | what a command knows: after verification the claim is its own (`ClaimInv`), of what it has looked at all is its own, absent, or came later (`ForeignInv`), and if it found nothing there is nothing (`AbsentInv`); one docker command verifies and another acts |
| `RunSupervisorProofs` | `LeaseOutlivesCommand`, `CleanEndLeavesNothing`, `NoStraySignal`, `StatusIsOwn`, `StatusKept` | where signalling is open (`PhaseInv`), that only the supervisor reaps the leader (`LeaderInv`), and that every set of existing processes has one whose parent is outside it (`TreeInv`): without it the absence of children would not mean the absence of processes |
| `CapturedCommandProofs` | `NoStraySignal`, `SuccessIsWhole`, `GroupIsKilled`, `NothingIsDetached`, `NothingIsLeft` | when each thread runs (`ThreadInv`), that a pipe read to its end is held by nobody (`OutputInv`), that an exit seen in time is the command's own (`ExitInv`), that the group is dying once it was signalled (`GroupInv`) |
| `StartupProofs` | `SuccessIsVerified`, `FailureIsUnresolved`, `OutcomeIsHonest`, `InspectionIsAnchored`, `StartsWithoutVerdicts`, `RecordIsOfOneModel` | what each step of a resolution has captured (`ResolveInv`), when neither manifest has a verdict (`VerdictInv`), what a poll has seen (`PollInv`), and that an inspection whose manifest was not saved over still reads what it read (`InspectInv`); for `RecordIsOfOneModel` a second one, `TornInv`, see below |
| `AlgorithmProofs` | `LinesAreRecords`, `AcknowledgedStay`, `ReadersAreRight`, `ImplementsLog` | the log is a sequence of records in order, of which only the last can be torn (`Shape`), how the writer's position fits it (`Writer`), and that what is acknowledged is terminated within what is synced (`Durable`); for readers, that what comes after the reader's place still has every event it must report, unless the log was cut behind them (`LineInv`, `KnownInv`, `PlaceInv`) |
| `LifecycleProofs` | `NothingIsLost`, `PhaseIsTrue`, `WorkIsKept` | what holds wherever a command may have ended (`DurableInv`), and what the running one knows besides by the step it has come to (`PlaceInv`): each leftover points to the one made before it, from the resources to the manifest, and destroy removes them in the other order |

Each of them also proves its type invariant.

`RecordIsOfOneModel` says that a resolution pairs a model with the hash of another
only after more than three edits around its captures.  `TornInv` counts: for every
capture of a resolution it gives the edits that must have happened for what was
captured so far, and for the model that is on disk now, to be as they are.  To
record a foreign hash takes an edit between the capture of the model and that of
the hashes, another before the model is confirmed, and both once more in the
resolution that verifies the first: four, which do not fit into three.

The functions without state are proved about in `AlgorithmProofs` too, for inputs
of any size; `MCAlgorithms` states their properties of an `input`, and each
theorem says what it needs of one.  Nothing is needed for the environments of
processes, for inspections and for the contract.

| Theorem | Property | What it needs of its input | How it is proved |
|---|---|---|---|
| `AllocationsAreRight` | `AllocationIsRight` | numbers that are natural (`PortsTyped`; the code reads them as unsigned) | a slot is taken when its block is free, and the blocks that fit are the slots up to `MaxSlot`, so the least slot is the least block |
| `VerdictsAreCertain` | `ReadinessIsCertain` | finitely many containers, one for each id (`ServiceTyped`; `docker ps` lists a container once) | a world completes each row without changing what Docker told, so the note of a row decides what each completion of it does; too few instances are too few by counting |
| `EverythingIsAttested` | `EverythingAttested` | documents in an order, and no `external` in what is not a mapping (`FilesTyped`) | an accepted network or volume is declared by one document, so merging leaves it as it is; both readings of `container_name` take the last |
| `InspectionsAreCertain` | `InspectionIsCertain` | | each world keeps what inspect was told |
| `ContractsBind` | `ContractBindsPorts` | | an accepted contract is one to one from ports to names |
| `ApplicationsMeetTheContract` | `AppliedMeetsContract` | ports, lines and hosts as the parser makes them: names are not empty, a fixed port is not 0 (`ComposeTyped`) | what `apply` leaves is said port by port (`LeftBy`); names, variables and shapes follow, and the count of lines shows that no fixed port was missed |
| `FilesKeepValues` | `ValuesSurvive` | a text of any length over the characters `EnvFile` tells apart (`EnvTyped`) | a replacement works one character at a time and none touches what an earlier one wrote (`EscapeAppend`), so each escaped character is read back to one (`ReadAppend`), and the shortest beginning that is not read back cannot exist; quotes and blanks stay outside |
| `TemplatesAlwaysResolve` | `TemplatesResolve` | finitely many services; templates of any length over the texts and keys `Configuration` tells apart; ports that are ports (`ConfigTyped`) | what begins a URL with the placeholders begins one with any ports and values (`Follows`), piece by piece, since the placeholders read as a number and a word; so the rounds of validation and of create take the same URLs (`Matched`), and each round that does not fail settles one (`Settled`); what is left without a URL that is ready refers to itself in a circle |
| `EnvironmentsAlwaysAgree` | `EnvironmentsAgree` | | what each program finds by a name is put down in one predicate for each program |

The refinements are theorems too (`LocksImplementUse`,
`TransactionsImplementRegistry`, `BytesImplementLog`): the initial states map to
initial ones and each step to a step or a stutter of the abstract specification,
under the same inductive invariant.  What the abstract specifications promise is
proved of them once, and so holds of the detailed ones: the uses of an
environment are compatible (`UsesAreCompatible`), a port has one holder, only
published environments run and, while no lost registry was taken for an empty
one, they hold leases (`PortsAreHeldOnce`), acknowledged events are kept
(`AcknowledgedIsKept`).

Properties that are proved and follow from those a run checks, or from the
refinement, are in no run: `ExclusiveWork`, `CreationPrivate`,
`DowngradeUncontended`, `TransactionCurrent`, `ReleaseIsFinal`, `LinesAreRecords`,
`AcknowledgedStay` and others in the table.

## 6. Only model-checked

- Liveness under fairness, and everything with `ENABLED`, is out of the prover's
  reach: `EveryCommandEnds`, `DestroyFinishes`, `SupervisionEnds`, `CommandEnds`,
  `VerificationEnds`.
- Every safety property of a passing run is a theorem; the three runs of section 7
  end in a single behaviour each, which is a counterexample and needs no proof.

## 7. Findings

Three runs end in a violation; each checks what `docs/lifecycle.md` says.

- `pending_create`: `validate_output_aliases` (`lifecycle/generated.rs:96`)
  creates empty probe files at the paths of the generated files and removes them
  again.  A process that dies between leaves one of three things that no destroy
  accepts: a probe below `.stackstead/`, which Git sees because create lists that
  directory in `info/exclude` only afterwards
  (`lifecycle/provision_source.rs:34` and `:42`), so that `git/clean.rs:64`
  takes it for work; an empty pointer, which cannot be parsed; or an empty
  environment or context file outside `.stackstead`, which cannot be proven to be
  generated.  `repair` heals the first and the third, and for the first another
  create in the repository does, but destroy alone never ends.  The run shows the
  first.  `docs/lifecycle.md:23` says that an interruption leaves a
  "manager-resolvable pending manifest that `destroy` can finalize".
- `source_resume`: for an adopted checkout the source phase removes
  `.stackstead` with `remove_dir_all` (`paths.rs:138`), entry by entry.  A
  process that dies after the pointer is gone and before the directory is leaves
  a teardown whose every retry fails in `validate_recovery_source`.
  `docs/lifecycle.md:183` says "A retry resumes the recorded phase".
- `finalize_resume`: the last phase removes the root with `remove_dir_all` too
  (`paths.rs:152`).  A process that dies after a lock file is gone and before the
  manifest is leaves a root whose every later destroy fails at
  `LockGuard::acquire_existing` (`lifecycle/destroy.rs:30`), which does not create
  the file.  The same line of `docs/lifecycle.md` says otherwise.

`Lifecycle` states one more of the first kind, `PublishedCreateIsFinalizable`,
which no run has because it repeats `pending_create` at another step: a create
that dies after it published its pointer, before the keys or the environment
file are complete.

Observations that contradict nothing the repository says, or are too small for a
run of their own:

- `PortLeaseStore::transaction` refuses an initialized registry that is missing
  (`lease.rs:58`), but a file lost after that look is saved anew (`:64`) or read
  (`registry.rs:60`) as an empty registry.  `docs/config.md:161` says that the
  program "fails closed if an initialized registry disappears".  From then on two
  environments of different projects can be given one port, and published
  environments have no lease, so that their commands are refused.  What remains is
  that no port is leased twice and that the environments of one project stay
  apart.  `intact` in `PortLeases` tells the two situations apart, and the
  properties say what holds in each.
- With an owned container whose service Docker does not tell, readiness may say
  that an instance is missing although that container could be it.
  `ReadinessIsCertain` asks for certainty of the verdict about one service and
  the containers attributed to it; of the whole, that nothing unknown becomes
  ready and no failure is hidden.
- `compose apply` finds a fixed port by its line.  If the mapping of a service is
  inline and a line outside `services.*.ports`, say of an extension, looks like a
  fixed mapping of the same number, that line is rewritten and the port is not.
  `docs/compose.md:159` says that `apply` does not edit "arbitrary extensions".
  The contract refuses the file afterwards, which is why `AppliedMeetsContract`
  excepts files with such a line.
- A plan in which two ports get one name, or in which a port's variable is
  `STACKSTEAD_ID` or `DATABASE_URL`, gives a configuration that the contract
  refuses: it fails closed, but only after `init`.
- A variable of the identity that `env.generate` does not name reaches Compose as
  the caller has it, as `docs/agent-integration.md` says.  `EnvironmentsAgree` is
  about those that are generated.

## 8. Not modelled, and why

- CLI dispatch, discovery, context, slugs and output: conversions of one value
  into another without state.  The order of locks and checks in the dispatch is
  part of the commands of `EnvironmentAccess`.
- Parsing of `stackstead.yaml` and the checks of single values in it
  (identifiers, commands, paths, repository policies).
- Which of the candidate files of Compose is taken, and the syntax of YAML:
  `ComposeContract` begins with the ports that were read.
- The text of the Git exclude file, of docker's arguments and of redaction.
- The comparison of the paths in a manifest with those it must have
  (`validate_destroy_target` in `paths.rs`), which only refuses.
- Commands without a deadline (`command/runner.rs`): one call of the standard
  library.  Their variables are in `SubprocessEnvironment`.
- `doctor` beyond its reading of the event log and of published ports, and the
  browser that `open` starts: they change nothing.
- The macOS fallback of `run`, which has no supervisor.
- Collisions of random ids and runtime tokens.

## 9. Plan for further work

1. A composition of `EnvironmentAccess` with `RunSupervisor`, in which the lease
   that the supervisor holds is the shared lock of the orphaned child; today each
   states its half of the contract.
2. The redaction of messages, as a function on the variables of
   `SubprocessEnvironment` and the texts that contain their values.
3. Discovery of the project from a nested directory or a worktree, with the
   pointer that `Lifecycle` writes.
