------------------------------ MODULE Startup ------------------------------
(***************************************************************************)
(* What `up` records about an environment it starts, and what an           *)
(* inspection may conclude from it.  `up` withdraws the old verdicts,      *)
(* resolves the Compose model, starts the containers, waits for the        *)
(* database, resolves again, records the resolution and polls checks and   *)
(* containers to one deadline.  stop and repair write the same manifest.   *)
(* The holder of the environment is one process at a time (module          *)
(* EnvironmentAccess); inspections take no lock.                           *)
(*                                                                         *)
(* A model stands for everything `docker compose config` resolves under    *)
(* the profiles captured by the start; its user edits it at any time.      *)
(* Resolving is three separate captures.  Every save has a stamp of its    *)
(* own (updated_at), so "a stamp changed" is "something was saved".        *)
(* The status of the dependencies, which nothing reads, is left out.       *)
(***************************************************************************)
EXTENDS Naturals

CONSTANTS Models,      \* effective Compose models
          Hashes,      \* Compose's own configuration hashes
          ConfigHash,  \* the hash of each model; models may share one
          None,        \* not resolved, not available
          Inspectors,  \* processes that inspect the environment
          Configurations, \* which parts a configuration may declare
          MaxEdits,    \* edits of the inputs
          MaxStarts    \* invocations of up

ASSUME ConfigHashAssumption == ConfigHash \in [Models -> Hashes]
\* Requirements: the fingerprint of the model and the hashes of its services.
Requirements == [model : Models, hash : Hashes]
\* Containers: the model they were made from, whether one runs, and whether
\* every required one is as its role demands.
Containers == [made : Models \cup {None}, running : BOOLEAN, good : BOOLEAN]
ASSUME NoneAssumption == None \notin Models \cup Requirements \cup Containers
ASSUME ConfigurationsAssumption ==
  Configurations \subseteq [required : BOOLEAN, checks : BOOLEAN, database : BOOLEAN]
ASSUME BoundsAssumption == MaxEdits \in Nat /\ MaxStarts \in Nat

VARIABLES
  conf,      \* which parts the configuration declares
  inputs,    \* the effective Compose model
  edits,     \* edits so far
  cont,      \* the containers
  disk,      \* manifest.json
  pc,        \* next step of the holder
  mem,       \* the holder's manifest
  goal,      \* what the resolution under way is for
  got,       \* what it captured so far
  expected,  \* resolved before Compose was started
  ready,     \* the last evaluation was Ready
  expired,   \* the final deadline has passed
  outcome,   \* how the last operation ended
  starts,    \* starts so far
  current,   \* models the inputs had since the last application probes
  insp       \* each inspection: step, manifest read, saves since, captures, evidence

holder == <<pc, mem, goal, got, expected, ready, expired, outcome, starts, current>>
world  == <<conf, inputs, edits, cont>>
vars   == <<world, disk, holder, insp>>

Statuses  == {"unknown", "running", "stopped", "failed", "ready", "reachable", "unreachable"}
Manifests == [resolved : Requirements \cup {None}, runtime : Statuses,
              health : Statuses, database : Statuses]
Captures  == [model : Models \cup {None}, hash : Hashes \cup {None}]
NoCapture == [model |-> None, hash |-> None]

ResolvePCs == {"model", "hashes", "confirm"}
UpPCs      == {"prepare", "compose", "recordRuntime", "runtimeFailed", "database", "seed",
               "postUp", "record", "probe", "observe", "decide", "healthFailed", "final"}
PCs        == {"idle", "recordStop"} \cup ResolvePCs \cup UpPCs
InspectPCs == {"idle", "observe", "reread", "done"} \cup ResolvePCs

TypeOK ==
  /\ conf \in Configurations
  /\ inputs \in Models /\ edits \in 0..MaxEdits /\ cont \in Containers
  /\ disk \in Manifests /\ mem \in Manifests
  /\ pc \in PCs /\ goal \in {"start", "verify", "poll"}
  /\ got \in Captures /\ expected \in Captures \cup {None}
  /\ ready \in BOOLEAN /\ expired \in BOOLEAN
  /\ outcome \in {"none", "ok", "failed", "interrupted"}
  /\ starts \in 0..MaxStarts /\ current \subseteq Models
  /\ insp \in [Inspectors ->
                 [pc : InspectPCs, read : Requirements \cup {None}, saved : BOOLEAN,
                  got : Captures, evidence : Containers \cup {None},
                  anchored : BOOLEAN, ready : BOOLEAN]]

\* Mutant: only the resolution is withdrawn.
ResolutionOnly(m) == [m EXCEPT !.resolved = None]

NoVerdicts(m) ==
  [m EXCEPT !.resolved = None, !.health = "unknown", !.database = "unknown"]

Init ==
  /\ conf \in Configurations
  /\ inputs \in Models /\ edits = 0
  /\ cont = [made |-> None, running |-> FALSE, good |-> FALSE]
  /\ disk = [resolved |-> None, runtime |-> "unknown", health |-> "unknown",
             database |-> "unknown"]
  /\ mem = disk /\ pc = "idle" /\ goal = "start" /\ got = NoCapture /\ expected = None
  /\ ready = FALSE /\ expired = FALSE /\ outcome = "none" /\ starts = 0 /\ current = {}
  /\ insp = [i \in Inspectors |->
               [pc |-> "idle", read |-> None, saved |-> FALSE, got |-> NoCapture,
                evidence |-> None, anchored |-> TRUE, ready |-> FALSE]]

-----------------------------------------------------------------------------
\* evaluate: nothing but a matching resolution and satisfying containers of
\* that configuration is Ready.
Ready(resolved, now, evidence) ==
  /\ resolved # None
  /\ now = resolved
  /\ evidence # None
  /\ evidence.made # None
  /\ ConfigHash[evidence.made] = resolved.hash
  /\ evidence.good

\* RuntimeSnapshot::status; containers in a state Stackstead does not know are
\* neither running nor stopped.
RuntimeStatus(c) == IF c.running THEN {"running"} ELSE {"stopped", "unknown"}

\* save_atomic, which stamps the manifest.
Save(m) ==
  /\ disk' = m
  /\ insp' = [i \in Inspectors |-> [insp[i] EXCEPT !.saved = TRUE]]

End(result) == pc' = "idle" /\ outcome' = result

-----------------------------------------------------------------------------
\* begin: what an earlier start found is withdrawn first.
Begin ==
  /\ pc = "idle" /\ starts < MaxStarts
  /\ starts' = starts + 1
  /\ mem' = NoVerdicts(disk)
  /\ Save(mem')
  /\ pc' = "prepare"
  /\ outcome' = "none" /\ expected' = None /\ ready' = FALSE /\ expired' = FALSE
  /\ UNCHANGED <<world, goal, got, current>>

\* Dependencies and pre_up hooks; both failures of the dependencies and their
\* success save the manifest.
Prepare ==
  /\ pc = "prepare"
  /\ Save(mem)
  /\ \/ /\ pc' = IF conf.required THEN "model" ELSE "compose"
        /\ goal' = "start"
        /\ UNCHANGED outcome
     \/ End("failed") /\ UNCHANGED goal
  /\ UNCHANGED <<world, mem, got, expected, ready, expired, starts, current>>

CaptureModel ==
  /\ pc = "model"
  /\ got' = [model |-> inputs, hash |-> None]
  /\ pc' = "hashes"
  /\ UNCHANGED <<world, disk, mem, goal, expected, ready, expired, outcome, starts, current, insp>>

CaptureHashes ==
  /\ pc = "hashes"
  /\ got' = [got EXCEPT !.hash = ConfigHash[inputs]]
  /\ pc' = "confirm"
  /\ UNCHANGED <<world, disk, mem, goal, expected, ready, expired, outcome, starts, current, insp>>

\* resolve_requirements before Compose is started
ResolveStart ==
  /\ pc = "confirm" /\ goal = "start"
  /\ inputs = got.model
  /\ expected' = got
  /\ pc' = "compose"
  /\ UNCHANGED <<world, disk, mem, goal, got, ready, expired, outcome, starts, current, insp>>

\* Mutant: what was resolved after the hooks is not compared.
VerifyCurrentUnchecked ==
  /\ pc = "confirm" /\ goal # "start"
  /\ inputs = got.model
  /\ pc' = IF goal = "verify" THEN "record" ELSE "decide"
  /\ UNCHANGED <<world, disk, mem, goal, got, expected, ready, expired, outcome, starts, current, insp>>

\* verify_current, once before the record and after every observation
VerifyCurrent ==
  /\ pc = "confirm" /\ goal # "start"
  /\ inputs = got.model
  /\ got = expected
  /\ pc' = IF goal = "verify" THEN "record" ELSE "decide"
  /\ UNCHANGED <<world, disk, mem, goal, got, expected, ready, expired, outcome, starts, current, insp>>

\* A capture fails or is cut off by the deadline, or the inputs have changed.
ResolveFails ==
  /\ pc \in ResolvePCs
  /\ pc' = IF goal = "start" THEN "runtimeFailed" ELSE "healthFailed"
  /\ UNCHANGED <<world, disk, mem, goal, got, expected, ready, expired, outcome, starts, current, insp>>

\* compose::up; a failing one may have changed the containers.
ComposeUp ==
  /\ pc = "compose"
  /\ \E run \in BOOLEAN, good \in BOOLEAN :
       cont' = [made |-> inputs, running |-> run, good |-> good]
  /\ pc' \in {"recordRuntime", "runtimeFailed"}
  /\ UNCHANGED <<conf, inputs, edits, disk, mem, goal, got, expected, ready, expired, outcome,
                 starts, current, insp>>

ComposeRefuses ==
  /\ pc = "compose"
  /\ pc' = "runtimeFailed"
  /\ UNCHANGED <<world, disk, mem, goal, got, expected, ready, expired, outcome, starts, current, insp>>

RecordRuntime ==
  /\ pc = "recordRuntime"
  /\ mem' = [mem EXCEPT !.runtime = "running"]
  /\ Save(mem')
  /\ pc' = IF conf.database THEN "database" ELSE "postUp"
  /\ UNCHANGED <<world, goal, got, expected, ready, expired, outcome, starts, current>>

RuntimeFails ==
  /\ pc = "runtimeFailed"
  /\ mem' = [mem EXCEPT !.runtime = "failed"]
  /\ Save(mem')
  /\ End("failed")
  /\ UNCHANGED <<world, goal, got, expected, ready, expired, starts, current>>

\* wait_for_database: its probe runs in a container.
WaitForDatabase ==
  /\ pc = "database"
  /\ \/ /\ cont.running
        /\ mem' = [mem EXCEPT !.database = "reachable"]
        /\ pc' = "seed"
        /\ UNCHANGED outcome
     \/ /\ mem' = [mem EXCEPT !.database = "unreachable"]
        /\ End("failed")
  /\ Save(mem')
  /\ UNCHANGED <<world, goal, got, expected, ready, expired, starts, current>>

SeedDatabase ==
  /\ pc = "seed"
  /\ \/ pc' = "postUp" /\ UNCHANGED outcome
     \/ End("failed")
  /\ Save(mem)
  /\ UNCHANGED <<world, mem, goal, got, expected, ready, expired, starts, current>>

\* post_up hooks, then the deadline starts.
StartHealth ==
  /\ pc = "postUp"
  /\ pc' = IF conf.required THEN "model" ELSE IF conf.checks THEN "probe" ELSE "final"
  /\ goal' = "verify"
  /\ UNCHANGED <<world, disk, mem, got, expected, ready, expired, outcome, starts, current, insp>>

Record ==
  /\ pc = "record"
  /\ mem' = [mem EXCEPT !.resolved = expected]
  /\ Save(mem')
  /\ pc' = "probe"
  /\ UNCHANGED <<world, goal, got, expected, ready, expired, outcome, starts, current>>

\* The save of the resolution fails, before or after it is in place: a failure
\* of the verification like any other.
RecordFails ==
  /\ pc = "record"
  /\ mem' = [mem EXCEPT !.resolved = expected]
  /\ Save(mem') \/ UNCHANGED <<disk, insp>>
  /\ pc' = "healthFailed"
  /\ UNCHANGED <<world, goal, got, expected, ready, expired, outcome, starts, current>>

\* failed_checks: checks that start after the deadline fail; with readiness to
\* establish, nothing is asked any more after it.
Probe ==
  /\ pc = "probe"
  /\ ~(conf.required /\ expired)
  /\ \E passed \in BOOLEAN :
       /\ expired => ~passed
       /\ mem' = [mem EXCEPT !.health =
                    IF ~conf.checks THEN "unknown" ELSE IF passed THEN "ready" ELSE "failed"]
  /\ current' = {inputs}
  /\ pc' = IF conf.required THEN "observe" ELSE "decide"
  /\ UNCHANGED <<world, disk, goal, got, expected, ready, expired, outcome, starts, insp>>

ProbeExpired ==
  /\ pc = "probe"
  /\ conf.required /\ expired
  /\ pc' = "healthFailed"
  /\ UNCHANGED <<world, disk, mem, goal, got, expected, ready, expired, outcome, starts, current, insp>>

Observe ==
  /\ pc = "observe"
  /\ ready' = Ready(mem.resolved, expected, cont)
  /\ \E status \in RuntimeStatus(cont) : mem' = [mem EXCEPT !.runtime = status]
  /\ pc' = "model" /\ goal' = "poll"
  /\ UNCHANGED <<world, disk, got, expected, expired, outcome, starts, current, insp>>

ObserveFails ==
  /\ pc = "observe"
  /\ mem' = [mem EXCEPT !.runtime = "unknown"]
  /\ pc' = "healthFailed"
  /\ UNCHANGED <<world, disk, goal, got, expected, ready, expired, outcome, starts, current, insp>>

Passes == (conf.required => ready) /\ (conf.checks => mem.health = "ready")

\* Mutant: every round of polling starts the deadline anew.
DecideExtending ==
  /\ pc = "decide"
  /\ pc' = IF Passes THEN "final" ELSE "probe"
  /\ expired' = FALSE
  /\ UNCHANGED <<world, disk, mem, goal, got, expected, ready, outcome, starts, current, insp>>

\* The round passes, is the last one, or is followed by a pause.  Without
\* readiness to establish, a pass that came too late counts as failed.
Decide ==
  /\ pc = "decide"
  /\ pc' = IF expired THEN "healthFailed" ELSE IF Passes THEN "final" ELSE "probe"
  /\ mem' = IF expired /\ ~conf.required THEN [mem EXCEPT !.health = "failed"] ELSE mem
  /\ UNCHANGED <<world, disk, goal, got, expected, ready, expired, outcome, starts, current, insp>>

\* Mutant: the record of a failed verification stays.
HealthFailsUnsaved ==
  /\ pc = "healthFailed"
  /\ mem' = [mem EXCEPT !.resolved = None]
  /\ End("failed")
  /\ UNCHANGED <<world, disk, goal, got, expected, ready, expired, starts, current, insp>>

HealthFails ==
  /\ pc = "healthFailed"
  /\ mem' = [mem EXCEPT !.resolved = None]
  /\ Save(mem')
  /\ End("failed")
  /\ UNCHANGED <<world, goal, got, expected, ready, expired, starts, current>>

Final ==
  /\ pc = "final"
  /\ Save(mem)
  /\ End("ok")
  /\ UNCHANGED <<world, mem, goal, got, expected, ready, expired, starts, current>>

-----------------------------------------------------------------------------
\* stop: containers first, record after.
ComposeStop ==
  /\ pc = "idle"
  /\ \E good \in {FALSE, cont.good} : cont' = [cont EXCEPT !.running = FALSE, !.good = good]
  /\ mem' = disk
  /\ pc' = "recordStop" /\ outcome' = "none"
  /\ UNCHANGED <<conf, inputs, edits, disk, goal, got, expected, ready, expired, starts, current, insp>>

RecordStop ==
  /\ pc = "recordStop"
  /\ mem' = [mem EXCEPT !.runtime = "stopped", !.database = "unknown", !.health = "unknown"]
  /\ Save(mem')
  /\ End("none")
  /\ UNCHANGED <<world, goal, got, expected, ready, expired, starts, current>>

\* repair records what it finds running, or that it could not find out.
Repair ==
  /\ pc = "idle"
  /\ \E status \in {"unknown"} \cup RuntimeStatus(cont) :
       \E database \in IF status = "unknown" \/ ~conf.database THEN {"unknown"}
                       ELSE IF status = "stopped" THEN {"unreachable"}
                       ELSE {"reachable", "unreachable", "unknown"} :
         mem' = [disk EXCEPT !.runtime = status, !.database = database]
  /\ Save(mem')
  /\ End("none")
  /\ UNCHANGED <<world, goal, got, expected, ready, expired, starts, current>>

\* The process dies, a hook fails, or an event cannot be appended: nothing more
\* is written.
Interrupt ==
  /\ pc # "idle"
  /\ End("interrupted")
  /\ UNCHANGED <<world, disk, mem, goal, got, expected, ready, expired, starts, current, insp>>

\* The save of a success, of a failure or of a running runtime reports an
\* error; the manifest may be in place all the same.
SaveFails ==
  /\ pc \in {"final", "healthFailed", "recordRuntime"}
  /\ mem' = CASE pc = "healthFailed"  -> [mem EXCEPT !.resolved = None]
              [] pc = "recordRuntime" -> [mem EXCEPT !.runtime = "running"]
              [] pc = "final"         -> mem
  /\ Save(mem')
  /\ End("interrupted")
  /\ UNCHANGED <<world, goal, got, expected, ready, expired, starts, current>>

-----------------------------------------------------------------------------
\* A user, a hook or a probe changes what Compose resolves.
EditInputs ==
  /\ edits < MaxEdits
  /\ edits' = edits + 1
  /\ inputs' \in Models \ {inputs}
  /\ current' = current \cup {inputs'}
  /\ UNCHANGED <<conf, cont, disk, pc, mem, goal, got, expected, ready, expired, outcome, starts, insp>>

\* Containers start up, fail and recover by themselves.
ContainersChange ==
  /\ cont.made # None
  /\ \E run \in BOOLEAN, good \in BOOLEAN : cont' = [cont EXCEPT !.running = run, !.good = good]
  /\ UNCHANGED <<conf, inputs, edits, disk, holder, insp>>

Verifying ==
  \/ pc \in {"record", "probe", "observe", "decide"}
  \/ pc \in ResolvePCs /\ goal # "start"

Expire ==
  /\ Verifying /\ ~expired
  /\ expired' = TRUE
  /\ UNCHANGED <<world, disk, pc, mem, goal, got, expected, ready, outcome, starts, current, insp>>

-----------------------------------------------------------------------------
\* inspect and ps: the manifest, then the model, then the containers
Inspect(i, r) ==
  /\ insp' = [insp EXCEPT ![i] = r]
  /\ UNCHANGED <<world, disk, holder>>

InspectRead(i) ==
  /\ insp[i].pc = "idle"
  /\ Inspect(i, [insp[i] EXCEPT !.pc = IF disk.resolved = None THEN "observe" ELSE "model",
                                !.read = disk.resolved, !.saved = FALSE, !.got = NoCapture])

InspectCapture(i) ==
  \/ /\ insp[i].pc = "model"
     /\ Inspect(i, [insp[i] EXCEPT !.pc = "hashes", !.got = [NoCapture EXCEPT !.model = inputs]])
  \/ /\ insp[i].pc = "hashes"
     /\ Inspect(i, [insp[i] EXCEPT !.pc = "confirm",
                                   !.got = [@ EXCEPT !.hash = ConfigHash[inputs]]])
  \/ /\ insp[i].pc = "confirm"
     /\ inputs = insp[i].got.model
     /\ Inspect(i, [insp[i] EXCEPT !.pc = "observe"])

InspectCaptureFails(i) ==
  /\ insp[i].pc \in ResolvePCs
  /\ Inspect(i, [insp[i] EXCEPT !.pc = "observe", !.got = NoCapture])

InspectObserve(i) ==
  /\ insp[i].pc = "observe"
  /\ \E evidence \in {cont, None} :
       Inspect(i, [insp[i] EXCEPT !.pc = "reread", !.evidence = evidence,
                                  !.anchored = (disk.resolved = insp[i].read)])

\* Mutant: only the readiness record is compared, not the stamp.
InspectRereadUnstamped(i) ==
  /\ insp[i].pc = "reread"
  /\ LET now == IF disk.resolved = insp[i].read THEN insp[i].got ELSE None IN
       Inspect(i, [insp[i] EXCEPT !.pc = "done",
                                  !.ready = Ready(insp[i].read, now, insp[i].evidence)])

\* A manifest saved since the first read, or not readable any more, voids what
\* was captured.
InspectReread(i) ==
  /\ insp[i].pc = "reread"
  /\ \E now \in {None, insp[i].got} :
       /\ now # None => ~insp[i].saved /\ disk.resolved = insp[i].read
       /\ Inspect(i, [insp[i] EXCEPT !.pc = "done",
                                    !.ready = Ready(insp[i].read, now, insp[i].evidence)])

InspectReport(i) ==
  /\ insp[i].pc = "done"
  /\ Inspect(i, [insp[i] EXCEPT !.pc = "idle", !.ready = FALSE, !.evidence = None,
                                !.read = None, !.got = NoCapture, !.anchored = TRUE])

-----------------------------------------------------------------------------
\* The steps under the final deadline
Verify ==
  \/ CaptureModel \/ CaptureHashes \/ VerifyCurrent \/ ResolveFails
  \/ Record \/ RecordFails \/ Probe \/ ProbeExpired \/ Observe \/ ObserveFails \/ Decide
  \/ HealthFails \/ Final

Next ==
  \/ Begin \/ Prepare \/ ResolveStart \/ ComposeUp \/ ComposeRefuses
  \/ RecordRuntime \/ RuntimeFails \/ WaitForDatabase \/ SeedDatabase \/ StartHealth
  \/ Verify
  \/ ComposeStop \/ RecordStop \/ Repair
  \/ Interrupt \/ SaveFails
  \/ EditInputs \/ ContainersChange \/ Expire
  \/ \E i \in Inspectors :
       InspectRead(i) \/ InspectCapture(i) \/ InspectCaptureFails(i)
       \/ InspectObserve(i) \/ InspectReread(i) \/ InspectReport(i)

Spec == Init /\ [][Next]_vars

\* Each step under the deadline ends by itself or is cut off by it.
FairSpec == Spec /\ WF_vars(Verify) /\ WF_vars(Expire)

-----------------------------------------------------------------------------
\* Containers are made or replaced only while the manifest on disk claims no
\* resolution, no health and no database: whatever interrupts a start, no
\* verdict about the containers before it survives (begin's first save).
StartsWithoutVerdicts ==
  [][cont'.made # cont.made =>
       disk.resolved = None /\ disk.health = "unknown" /\ disk.database = "unknown"]_vars

\* A start that reports success has its resolution on disk, saw every required
\* container satisfied and every check pass, and the model it resolved before
\* Compose was in effect after the last probe (wait, verify_current).
SuccessIsVerified ==
  pc = "idle" /\ outcome = "ok" =>
    /\ conf.required => disk.resolved = expected /\ ready /\ expected.model \in current
    /\ conf.checks => disk.health = "ready"
    /\ conf.database => disk.database = "reachable"

\* A start that fails leaves requirements unresolved, also when it recorded
\* them before it failed.
FailureIsUnresolved == pc = "idle" /\ outcome = "failed" => disk.resolved = None

\* What a start leaves in the manifest is what it told its user.
OutcomeIsHonest == SuccessIsVerified /\ FailureIsUnresolved

\* One excursion of the inputs during the captures, there and back, cannot
\* leave a resolution that pairs one model with the hashes of another
\* (resolve's second model capture, verify_current's comparison).
RecordIsOfOneModel ==
  edits <= 3 /\ disk.resolved # None =>
    disk.resolved.hash = ConfigHash[disk.resolved.model]

\* An inspection that reports ready observed the containers at a moment when
\* the manifest held the very resolution it reports: never those of a start
\* that was under way between its two reads (observe_runtime).
InspectionIsAnchored ==
  \A i \in Inspectors : insp[i].pc = "done" /\ insp[i].ready => insp[i].anchored

\* Polling ends by the one deadline, whatever services and inputs do.
VerificationEnds == Verifying ~> pc = "idle"
=============================================================================
