------------------------ MODULE SubprocessEnvironment ------------------------
(***************************************************************************)
(* The environment variables of the programs that a command starts.  Host  *)
(* commands (hooks, dependencies, seeds, checks, run) get the generated    *)
(* values set by this program (StacksteadManifest::trusted_environment);   *)
(* Compose reads them from the generated file and must not find them       *)
(* elsewhere (compose/docker).  Both inherit the rest from the caller, who *)
(* may be a command of another environment.                                *)
(*                                                                         *)
(* An environment is a function from the names that are set to values.  Of *)
(* the identity variables and of the reserved names there is one of a kind.*)
(***************************************************************************)
EXTENDS FiniteSets, Functions

Id       == "STACKSTEAD_ID"
Project  == "COMPOSE_PROJECT_NAME"
Profiles == "COMPOSE_PROFILES"
Identity == {Id, Project}
Reserved == {Project, Profiles, "PATH"}   \* reserved_process_env

Own   == [name \in Identity |-> "own"]    \* what the manifest says of them
Error == [name \in {"error"} |-> "error"]

\* The variables of both, those of the first where both have one.
Over(first, second) ==
  [name \in DOMAIN first \cup DOMAIN second |->
     IF name \in DOMAIN first THEN first[name] ELSE second[name]]

Without(environment, names) == Restrict(environment, DOMAIN environment \ names)

\* validate: no reserved name is generated.
ValidNames(generate) == generate \cap Reserved = {}

\* validated_environment; keys are the manifest's.
ValidatedEnvironment(file, keys) == IF DOMAIN file = keys THEN file ELSE Error

TrustedEnvironment(generated) == Over(Own, Without(generated, Reserved))

OwnProject == Restrict(Own, {Project})

\* environment_for_generated; and run_docker_control, which goes by the manifest's keys
\* because it must work without the file.
Docker(generated) == [removed |-> DOMAIN generated \ Reserved, set |-> OwnProject]
Control(keys)     == [removed |-> keys \ Reserved, set |-> OwnProject]

\* Mutant: the caller's profiles stay if none were recorded.
PinRecorded(docker, profiles) ==
  [docker EXCEPT !.set = Over(profiles, @),
                 !.removed = @ \cup DOMAIN profiles]

\* pin_profiles; the recorded profiles are an environment of this name or of none.
PinProfiles(docker, profiles) ==
  [removed |-> docker.removed \cup {Profiles}, set |-> Over(profiles, Without(docker.set, {Profiles}))]

\* run_sanitized_with_stdin: what the program started finds.
Spawned(caller, docker) == Over(docker.set, Without(caller, docker.removed))

HostCommand(caller, generated) ==
  Spawned(caller, [removed |-> {}, set |-> TrustedEnvironment(generated)])

\* capture_profiles
CaptureProfiles(caller) == Restrict(caller, DOMAIN caller \cap {Profiles})

\* Compose takes a variable from its environment before its --env-file.
Interpolated(process, file) == Over(process, file)

-----------------------------------------------------------------------------
\* What Compose finds when a command of this caller runs it, and when it resolves
\* the model with the profiles that were recorded.
ComposeFinds(caller, file) == Interpolated(Spawned(caller, Docker(file)), file)
ModelFinds(caller, file, profiles) ==
  Interpolated(Spawned(caller, PinProfiles(Docker(file), profiles)), file)

Same(e, f, names) == Restrict(e, DOMAIN e \cap names) = Restrict(f, DOMAIN f \cap names)

\* Whatever variables the callers have, host commands and Compose find the generated
\* values of the environment they are about, their own project, and the caller's
\* PATH; Compose finds the caller's profiles.  A start resolves the model that its
\* Compose runs, and an inspection by anybody else looks at it with the same values
\* and profiles.  docker commands that do not need the file run like those that do.
Agree(starter, caller, generate, file) ==
  LET read     == ValidatedEnvironment(file, generate)
      profiles == CaptureProfiles(starter)
      host     == HostCommand(caller, read)
      compose  == ComposeFinds(caller, read)
  IN ValidNames(generate) /\ read # Error =>
       /\ Same(host, file, generate \ Identity) /\ Same(compose, file, generate)
       /\ Same(host, Own, Identity) /\ Same(compose, Own, {Project})
       /\ Same(host, caller, Reserved \ Identity) /\ Same(compose, caller, Reserved \ Identity)
       /\ ModelFinds(starter, read, profiles) = ComposeFinds(starter, read)
       /\ Same(ModelFinds(caller, read, profiles), ModelFinds(starter, read, profiles),
               generate \cup {Project, Profiles})
       /\ Spawned(caller, Control(generate)) = Spawned(caller, Docker(read))
=============================================================================
