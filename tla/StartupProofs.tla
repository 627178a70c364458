--------------------------- MODULE StartupProofs ---------------------------
(***************************************************************************)
(* Proofs about Startup: for any models, hashes, configurations, number of *)
(* starts, edits and inspections.                                          *)
(***************************************************************************)
EXTENDS Startup, TLAPS

-----------------------------------------------------------------------------
\* A resolution under way has captured what its step says, and only a declared
\* readiness is resolved, recorded and observed.
ResolveInv ==
  /\ pc = "hashes" => got.model \in Models
  /\ pc = "confirm" => got \in Requirements
  /\ pc \in ResolvePCs \cup {"record", "observe"} => conf.required
  /\ conf.required
     /\ (\/ pc \in {"compose", "recordRuntime", "database", "seed", "postUp", "record", "probe",
                    "observe", "decide", "final"}
         \/ pc \in ResolvePCs /\ goal # "start")
     => expected \in Requirements

\* Until the resolution is recorded, neither manifest has a verdict of its own.
Unverified ==
  \/ pc \in {"prepare", "compose", "recordRuntime", "runtimeFailed", "database", "seed",
             "postUp", "record"}
  \/ pc \in ResolvePCs /\ goal # "poll"

Starting ==
  \/ pc \in {"prepare", "compose"}
  \/ pc \in ResolvePCs /\ goal = "start"

VerdictInv ==
  /\ Unverified => /\ mem.resolved = None /\ disk.resolved = None
                   /\ mem.health = "unknown" /\ disk.health = "unknown"
  /\ Starting => mem.database = "unknown" /\ disk.database = "unknown"

\* From the database to the end it was reachable.
DatabaseInv ==
  conf.database
  /\ (\/ pc \in {"seed", "postUp", "record", "probe", "observe", "decide", "final"}
      \/ pc \in ResolvePCs /\ goal # "start")
  => mem.database = "reachable"

\* While polling, the recorded resolution is the one of the start, and what the
\* inputs are now they were at some time since the last probes.
PollInv ==
  /\ conf.required
     /\ (\/ pc \in {"probe", "observe", "decide", "final"}
         \/ pc \in ResolvePCs /\ goal = "poll")
     => mem.resolved = expected
  /\ (\/ pc \in {"observe", "decide"}
      \/ pc \in ResolvePCs /\ goal = "poll") => inputs \in current
  /\ conf.required /\ pc \in {"decide", "final"} => expected.model \in current
  /\ pc = "final" => Passes

\* An inspection whose manifest was not saved over still reads what it read.
InspectInv ==
  \A i \in Inspectors :
    /\ insp[i].pc \notin {"idle", "done"} /\ ~insp[i].saved => disk.resolved = insp[i].read
    /\ insp[i].pc = "reread" /\ ~insp[i].saved => insp[i].anchored

IInv ==
  /\ TypeOK /\ ResolveInv /\ VerdictInv /\ DatabaseInv /\ PollInv /\ InspectInv
  /\ SuccessIsVerified /\ FailureIsUnresolved /\ InspectionIsAnchored

-----------------------------------------------------------------------------
LEMMA IInvInit == Init => IInv
<1> SUFFICES ASSUME Init PROVE IInv OBVIOUS
<1> USE DEF Init
<1>1. TypeOK
  <2>1. conf \in [required : BOOLEAN, checks : BOOLEAN, database : BOOLEAN]
    BY ConfigurationsAssumption
  <2>2. cont \in Containers BY DEF Containers
  <2>3. disk \in Manifests /\ mem \in Manifests BY DEF Manifests, Statuses
  <2>4. edits \in 0..MaxEdits /\ starts \in 0..MaxStarts BY BoundsAssumption
  <2>5. NoCapture \in Captures BY DEF NoCapture, Captures
  <2>6. pc \in PCs BY DEF PCs
  <2> QED BY <2>1, <2>2, <2>3, <2>4, <2>5, <2>6 DEF TypeOK, InspectPCs
<1>2. ResolveInv /\ VerdictInv /\ DatabaseInv /\ PollInv
  BY DEF ResolveInv, VerdictInv, DatabaseInv, PollInv, Unverified, Starting, ResolvePCs
<1>3. InspectInv /\ SuccessIsVerified /\ FailureIsUnresolved /\ InspectionIsAnchored
  BY DEF InspectInv, SuccessIsVerified, FailureIsUnresolved, InspectionIsAnchored
<1> QED BY <1>1, <1>2, <1>3 DEF IInv

-----------------------------------------------------------------------------
LEMMA InspectTypes ==
  ASSUME TypeOK, NEW i \in Inspectors,
         InspectRead(i) \/ InspectCapture(i) \/ InspectCaptureFails(i) \/ InspectObserve(i)
         \/ InspectReread(i) \/ InspectReport(i)
  PROVE  TypeOK'
<1> DEFINE R == [pc : InspectPCs, read : Requirements \cup {None}, saved : BOOLEAN,
                 got : Captures, evidence : Containers \cup {None},
                 anchored : BOOLEAN, ready : BOOLEAN]
<1>1. insp[i] \in R BY DEF TypeOK
<1>2. ASSUME NEW r \in R, Inspect(i, r) PROVE TypeOK'
  BY <1>2 DEF TypeOK, Inspect, world, holder
<1>3. CASE InspectRead(i)
  <2>1. disk.resolved \in Requirements \cup {None} BY DEF TypeOK, Manifests
  <2> QED BY <1>1, <1>2, <1>3, <2>1 DEF InspectRead, InspectPCs, ResolvePCs, NoCapture, Captures
<1>4. CASE InspectCapture(i)
  <2>1. inputs \in Models /\ ConfigHash[inputs] \in Hashes BY ConfigHashAssumption DEF TypeOK
  <2> QED
    BY <1>1, <1>2, <1>4, <2>1 DEF InspectCapture, InspectPCs, ResolvePCs, NoCapture, Captures
<1>5. CASE InspectCaptureFails(i)
  BY <1>1, <1>2, <1>5 DEF InspectCaptureFails, InspectPCs, NoCapture, Captures
<1>6. CASE InspectObserve(i)
  BY <1>1, <1>2, <1>6 DEF InspectObserve, InspectPCs, TypeOK
<1>7. CASE InspectReread(i)
  <2>1. \A now : Ready(insp[i].read, now, insp[i].evidence) \in BOOLEAN BY <1>1 DEF Ready, Containers
  <2> QED BY <1>1, <1>2, <1>7, <2>1 DEF InspectReread, InspectPCs
<1>8. CASE InspectReport(i)
  BY <1>1, <1>2, <1>8 DEF InspectReport, InspectPCs, NoCapture, Captures
<1> QED BY <1>3, <1>4, <1>5, <1>6, <1>7, <1>8

\* The manifests a holder's step leaves are well formed.
LEMMA ManifestStep ==
  ASSUME IInv, Next
  PROVE  disk' \in Manifests /\ mem' \in Manifests
<1>1. disk \in Manifests /\ mem \in Manifests BY DEF IInv, TypeOK
<1>2. pc = "record" => expected \in Requirements BY DEF IInv, ResolveInv
<1> USE <1>1 DEF Manifests, Statuses
<1>3. CASE Begin
  BY <1>3 DEF Begin, NoVerdicts, Save
<1>4. CASE Prepare \/ SeedDatabase \/ Final
  BY <1>4 DEF Prepare, SeedDatabase, Final, Save
<1>5. CASE RecordRuntime \/ RuntimeFails
  <2>1. [mem EXCEPT !.runtime = "running"] \in Manifests OBVIOUS
  <2>2. [mem EXCEPT !.runtime = "failed"] \in Manifests OBVIOUS
  <2> QED BY <1>5, <2>1, <2>2 DEF RecordRuntime, RuntimeFails, Save
<1>6. CASE RecordStop \/ HealthFails
  <2>1. [mem EXCEPT !.runtime = "stopped", !.database = "unknown", !.health = "unknown"]
          \in Manifests
    OBVIOUS
  <2>2. [mem EXCEPT !.resolved = None] \in Manifests OBVIOUS
  <2> QED BY <1>6, <2>1, <2>2 DEF RecordStop, HealthFails, Save
<1>7. CASE WaitForDatabase
  BY <1>7 DEF WaitForDatabase, Save
<1>8. CASE Record \/ RecordFails
  BY <1>2, <1>8 DEF Record, RecordFails, Save
<1>9. CASE Probe \/ Observe \/ ObserveFails \/ Decide
  BY <1>9 DEF Probe, Observe, ObserveFails, Decide, RuntimeStatus
<1>10. CASE Repair
  BY <1>10 DEF Repair, RuntimeStatus, Save
<1>11. CASE SaveFails
  BY <1>11 DEF SaveFails, Save
<1>12. CASE ComposeStop
  BY <1>12 DEF ComposeStop
<1>13. CASE UNCHANGED <<disk, mem>>
  BY <1>13
<1> QED
  BY <1>3, <1>4, <1>5, <1>6, <1>7, <1>8, <1>9, <1>10, <1>11, <1>12, <1>13
  DEF Next, Verify, CaptureModel, CaptureHashes, ResolveStart, VerifyCurrent, ResolveFails,
      ComposeUp, ComposeRefuses, StartHealth, ProbeExpired, Interrupt, EditInputs,
      ContainersChange, Expire, InspectRead, InspectCapture, InspectCaptureFails,
      InspectObserve, InspectReread, InspectReport, Inspect, holder

Inspections ==
  [Inspectors -> [pc : InspectPCs, read : Requirements \cup {None}, saved : BOOLEAN,
                  got : Captures, evidence : Containers \cup {None},
                  anchored : BOOLEAN, ready : BOOLEAN]]

\* A save leaves the inspections well formed.
LEMMA SavedTypes ==
  ASSUME insp \in Inspections, NEW m, Save(m)
  PROVE  insp' \in Inspections
BY DEF Inspections, Save

LEMMA TypeStep == IInv /\ Next => TypeOK'
<1> SUFFICES ASSUME IInv, Next PROVE TypeOK' OBVIOUS
<1>1. TypeOK BY DEF IInv
<1>2. disk' \in Manifests /\ mem' \in Manifests BY ManifestStep
<1>s. ASSUME NEW m, Save(m) PROVE insp' \in Inspections
  BY <1>1, <1>s, SavedTypes DEF TypeOK, Inspections
<1> USE DEF world, holder, PCs, UpPCs, ResolvePCs, End
<1>3. CASE Begin
  <2>1. starts' \in 0..MaxStarts BY <1>1, <1>3, BoundsAssumption DEF Begin, TypeOK
  <2> QED BY <1>1, <1>2, <1>s, <1>3, <2>1 DEF Begin, TypeOK, Inspections
<1>4. CASE Prepare \/ SeedDatabase \/ Final
  BY <1>1, <1>2, <1>s, <1>4 DEF Prepare, SeedDatabase, Final, TypeOK, Inspections
<1>5. CASE RecordRuntime \/ RuntimeFails \/ RecordStop \/ HealthFails
  BY <1>1, <1>2, <1>s, <1>5
  DEF RecordRuntime, RuntimeFails, RecordStop, HealthFails, TypeOK, Inspections
<1>6. CASE WaitForDatabase \/ Record \/ RecordFails \/ Repair \/ SaveFails
  BY <1>1, <1>2, <1>s, <1>6
  DEF WaitForDatabase, Record, RecordFails, Repair, SaveFails, TypeOK, Inspections
<1>7. CASE CaptureModel \/ CaptureHashes
  <2>1. inputs \in Models /\ ConfigHash[inputs] \in Hashes
    BY <1>1, ConfigHashAssumption DEF TypeOK
  <2> QED BY <1>1, <1>7, <2>1 DEF CaptureModel, CaptureHashes, TypeOK, Captures
<1>8. CASE ResolveStart \/ VerifyCurrent \/ ResolveFails
  BY <1>1, <1>8 DEF ResolveStart, VerifyCurrent, ResolveFails, TypeOK
<1>9. CASE ComposeUp \/ ComposeRefuses \/ ComposeStop \/ ContainersChange
  <2>1. cont \in Containers /\ inputs \in Models BY <1>1 DEF TypeOK
  <2>2. cont' \in Containers
    <3>1. \A run \in BOOLEAN, good \in BOOLEAN :
            /\ [made |-> inputs, running |-> run, good |-> good] \in Containers
            /\ [cont EXCEPT !.running = run, !.good = good] \in Containers
      BY <2>1 DEF Containers
    <3>2. cont.good \in BOOLEAN BY <2>1 DEF Containers
    <3> QED
      BY <1>9, <2>1, <3>1, <3>2 DEF ComposeUp, ComposeRefuses, ComposeStop, ContainersChange
  <2> QED
    BY <1>1, <1>2, <1>9, <2>2 DEF ComposeUp, ComposeRefuses, ComposeStop, ContainersChange, TypeOK
<1>10. CASE StartHealth \/ ProbeExpired \/ Decide \/ Interrupt \/ Expire
  BY <1>1, <1>2, <1>10 DEF StartHealth, ProbeExpired, Decide, Interrupt, Expire, TypeOK
<1>11. CASE Probe \/ ObserveFails
  BY <1>1, <1>2, <1>11 DEF Probe, ObserveFails, TypeOK
<1>12. CASE Observe
  <2>1. Ready(mem.resolved, expected, cont) \in BOOLEAN
    BY <1>1 DEF Ready, TypeOK, Containers
  <2> QED BY <1>1, <1>2, <1>12, <2>1 DEF Observe, TypeOK
<1>13. CASE EditInputs
  BY <1>1, <1>13, BoundsAssumption DEF EditInputs, TypeOK
<1>14. CASE \E i \in Inspectors :
              InspectRead(i) \/ InspectCapture(i) \/ InspectCaptureFails(i)
              \/ InspectObserve(i) \/ InspectReread(i) \/ InspectReport(i)
  BY <1>1, <1>14, InspectTypes
<1> QED
  BY <1>3, <1>4, <1>5, <1>6, <1>7, <1>8, <1>9, <1>10, <1>11, <1>12, <1>13, <1>14
  DEF Next, Verify

-----------------------------------------------------------------------------
\* A step of a user, a container or an inspection.
Outside ==
  EditInputs \/ ContainersChange
  \/ \E i \in Inspectors :
       InspectRead(i) \/ InspectCapture(i) \/ InspectCaptureFails(i)
       \/ InspectObserve(i) \/ InspectReread(i) \/ InspectReport(i)

LEMMA OutsideStep ==
  ASSUME TypeOK, Outside
  PROVE  /\ UNCHANGED <<conf, disk, pc, mem, goal, got, expected, ready, expired, outcome, starts>>
         /\ UNCHANGED <<inputs, current>> \/ EditInputs
         /\ cont'.made = cont.made
<1>1. CASE EditInputs BY <1>1 DEF EditInputs
<1>2. CASE ContainersChange
  <2>1. \A run \in BOOLEAN, good \in BOOLEAN :
          [cont EXCEPT !.running = run, !.good = good].made = cont.made
    BY DEF TypeOK, Containers
  <2> QED BY <1>2, <2>1 DEF ContainersChange, holder
<1>3. ASSUME NEW i \in Inspectors, NEW r, Inspect(i, r)
      PROVE  UNCHANGED <<world, disk, holder>>
  BY <1>3 DEF Inspect
<1>4. CASE \E i \in Inspectors :
             InspectRead(i) \/ InspectCapture(i) \/ InspectCaptureFails(i)
             \/ InspectObserve(i) \/ InspectReread(i) \/ InspectReport(i)
  <2>1. UNCHANGED <<world, disk, holder>>
    BY <1>3, <1>4 DEF InspectRead, InspectCapture, InspectCaptureFails, InspectObserve,
                      InspectReread, InspectReport
  <2> QED BY <2>1 DEF world, holder
<1> QED BY <1>1, <1>2, <1>4 DEF Outside

LEMMA ResolveStep == IInv /\ Next => ResolveInv'
<1> SUFFICES ASSUME IInv, Next PROVE ResolveInv' OBVIOUS
<1>1. TypeOK /\ ResolveInv BY DEF IInv
<1> USE <1>1 DEF ResolveInv, ResolvePCs, world, End
<1>2. CASE Outside
  BY <1>2, OutsideStep
<1>3. CASE CaptureModel
  <2>1. inputs \in Models BY DEF TypeOK
  <2> QED BY <1>3, <2>1 DEF CaptureModel
<1>4. CASE CaptureHashes
  <2>1. inputs \in Models /\ ConfigHash[inputs] \in Hashes BY ConfigHashAssumption DEF TypeOK
  <2>2. got' \in Requirements BY <1>4, <2>1 DEF CaptureHashes, Requirements, TypeOK, Captures
  <2> QED BY <1>4, <2>2 DEF CaptureHashes
<1>5. CASE ResolveStart \/ VerifyCurrent \/ ResolveFails
  BY <1>5 DEF ResolveStart, VerifyCurrent, ResolveFails
<1>6. CASE Begin \/ Prepare \/ ComposeUp \/ ComposeRefuses \/ RecordRuntime \/ RuntimeFails
  BY <1>6 DEF Begin, Prepare, ComposeUp, ComposeRefuses, RecordRuntime, RuntimeFails
<1>7. CASE WaitForDatabase \/ SeedDatabase \/ StartHealth \/ Record \/ RecordFails \/ Probe
          \/ ProbeExpired
  BY <1>7 DEF WaitForDatabase, SeedDatabase, StartHealth, Record, RecordFails, Probe, ProbeExpired
<1>8. CASE Observe \/ ObserveFails \/ Decide \/ HealthFails \/ Final
  BY <1>8 DEF Observe, ObserveFails, Decide, HealthFails, Final
<1>9. CASE ComposeStop \/ RecordStop \/ Repair \/ Interrupt \/ SaveFails \/ Expire
  BY <1>9 DEF ComposeStop, RecordStop, Repair, Interrupt, SaveFails, Expire
<1> QED
  BY <1>2, <1>3, <1>4, <1>5, <1>6, <1>7, <1>8, <1>9 DEF Next, Verify, Outside

LEMMA VerdictStep == IInv /\ Next => VerdictInv'
<1> SUFFICES ASSUME IInv, Next PROVE VerdictInv' OBVIOUS
<1>1. TypeOK /\ VerdictInv /\ goal \in {"start", "verify", "poll"}
  BY DEF IInv, TypeOK
<1>2. mem \in Manifests /\ disk \in Manifests BY DEF IInv, TypeOK
<1> USE <1>1, <1>2 DEF VerdictInv, Unverified, Starting, ResolvePCs, world, End
<1>3. CASE Outside
  BY <1>3, OutsideStep
<1>4. CASE Begin
  BY <1>4 DEF Begin, NoVerdicts, Save, Manifests
<1>5. CASE Prepare
  <2>1. pc' \in {"model", "compose", "idle"} /\ disk' = mem /\ mem' = mem
    BY <1>5 DEF Prepare, Save
  <2>2. pc' = "model" => goal' = "start" BY <1>5 DEF Prepare
  <2> QED BY <1>5, <2>1, <2>2 DEF Prepare
<1>12. CASE ComposeUp \/ ComposeRefuses
  BY <1>12 DEF ComposeUp, ComposeRefuses
<1>6. CASE CaptureModel \/ CaptureHashes \/ ResolveStart \/ VerifyCurrent \/ ResolveFails
  BY <1>6 DEF CaptureModel, CaptureHashes, ResolveStart, VerifyCurrent, ResolveFails
<1>7. CASE RecordRuntime \/ RuntimeFails \/ WaitForDatabase
  BY <1>7 DEF RecordRuntime, RuntimeFails, WaitForDatabase, Save, Manifests
<1>8. CASE SeedDatabase \/ StartHealth
  BY <1>8 DEF SeedDatabase, StartHealth, Save
<1>9. CASE Record \/ RecordFails \/ Probe \/ ProbeExpired \/ Observe \/ ObserveFails \/ Decide
  BY <1>9 DEF Record, RecordFails, Probe, ProbeExpired, Observe, ObserveFails, Decide
<1>10. CASE HealthFails \/ Final \/ ComposeStop \/ RecordStop \/ Repair
  BY <1>10 DEF HealthFails, Final, ComposeStop, RecordStop, Repair
<1>11. CASE Interrupt \/ SaveFails \/ Expire
  BY <1>11 DEF Interrupt, SaveFails, Expire
<1> QED
  BY <1>3, <1>4, <1>5, <1>6, <1>7, <1>8, <1>9, <1>10, <1>11, <1>12 DEF Next, Verify, Outside

LEMMA DatabaseStep == IInv /\ Next => DatabaseInv'
<1> SUFFICES ASSUME IInv, Next PROVE DatabaseInv' OBVIOUS
<1>1. TypeOK /\ DatabaseInv /\ goal \in {"start", "verify", "poll"} /\ mem \in Manifests
  BY DEF IInv, TypeOK
<1> USE <1>1 DEF DatabaseInv, ResolvePCs, world, End
<1>3. CASE Outside
  BY <1>3, OutsideStep
<1>4. CASE Begin \/ Prepare \/ ComposeUp \/ ComposeRefuses
  BY <1>4 DEF Begin, Prepare, ComposeUp, ComposeRefuses
<1>5. CASE CaptureModel \/ CaptureHashes \/ ResolveStart \/ VerifyCurrent \/ ResolveFails
  BY <1>5 DEF CaptureModel, CaptureHashes, ResolveStart, VerifyCurrent, ResolveFails
<1>6. CASE RecordRuntime \/ RuntimeFails \/ WaitForDatabase \/ SeedDatabase
  BY <1>6 DEF RecordRuntime, RuntimeFails, WaitForDatabase, SeedDatabase, Manifests
<1>7. CASE StartHealth \/ Record \/ RecordFails \/ Probe \/ ProbeExpired \/ Observe \/ ObserveFails
  BY <1>7 DEF StartHealth, Record, RecordFails, Probe, ProbeExpired, Observe, ObserveFails, Manifests
<1>8. CASE Decide \/ HealthFails \/ Final \/ ComposeStop \/ RecordStop \/ Repair
  BY <1>8 DEF Decide, HealthFails, Final, ComposeStop, RecordStop, Repair
<1>9. CASE Interrupt \/ SaveFails \/ Expire
  BY <1>9 DEF Interrupt, SaveFails, Expire
<1> QED
  BY <1>3, <1>4, <1>5, <1>6, <1>7, <1>8, <1>9 DEF Next, Verify, Outside

LEMMA PassesKept ==
  ASSUME UNCHANGED <<conf, mem, ready>> PROVE Passes' = Passes
BY DEF Passes

LEMMA PollStep == IInv /\ Next => PollInv'
<1> SUFFICES ASSUME IInv, Next PROVE PollInv' OBVIOUS
<1>1. TypeOK /\ PollInv /\ ResolveInv /\ goal \in {"start", "verify", "poll"} /\ mem \in Manifests
  BY DEF IInv, TypeOK
<1>2. conf.required \in BOOLEAN /\ conf.checks \in BOOLEAN
  <2>1. conf \in [required : BOOLEAN, checks : BOOLEAN, database : BOOLEAN]
    BY <1>1, ConfigurationsAssumption DEF TypeOK
  <2> QED BY <2>1
<1> USE <1>1 DEF PollInv, ResolvePCs, world, End
<1>3. CASE Outside
  <2>1. CASE EditInputs BY <2>1, PassesKept DEF EditInputs
  <2>2. CASE UNCHANGED <<inputs, current>> BY <1>3, <2>2, OutsideStep, PassesKept
  <2> QED BY <1>3, <2>1, <2>2, OutsideStep
<1>4. CASE Begin \/ Prepare \/ ComposeUp \/ ComposeRefuses
  BY <1>4 DEF Begin, Prepare, ComposeUp, ComposeRefuses
<1>5. CASE CaptureModel \/ CaptureHashes \/ ResolveFails
  BY <1>5 DEF CaptureModel, CaptureHashes, ResolveFails
<1>6. CASE ResolveStart \/ VerifyCurrent
  BY <1>6 DEF ResolveStart, VerifyCurrent
<1>7. CASE RecordRuntime \/ RuntimeFails \/ WaitForDatabase \/ SeedDatabase
  BY <1>7 DEF RecordRuntime, RuntimeFails, WaitForDatabase, SeedDatabase
<1>13. CASE StartHealth
  <2>1. UNCHANGED <<conf, mem, ready>> BY <1>13 DEF StartHealth
  <2>2. pc' = "final" => ~conf.required /\ Passes'
    <3>2. ASSUME conf.required PROVE pc' # "final" BY <1>13, <3>2 DEF StartHealth
    <3>3. ASSUME ~conf.required, conf.checks PROVE pc' # "final" BY <1>13, <3>3 DEF StartHealth
    <3>4. ~conf.required /\ ~conf.checks => Passes BY DEF Passes
    <3> QED BY <1>2, <2>1, <3>2, <3>3, <3>4, PassesKept
  <2>3. pc' \in {"model", "probe", "final"} /\ goal' = "verify" BY <1>13 DEF StartHealth
  <2>4. ASSUME conf.required PROVE pc' = "model" BY <1>13, <2>4 DEF StartHealth
  <2> QED BY <2>1, <2>2, <2>3, <2>4
<1>8. CASE Record \/ RecordFails \/ Probe \/ ProbeExpired
  BY <1>8 DEF Record, RecordFails, Probe, ProbeExpired, Manifests
<1>9. CASE Observe \/ ObserveFails
  BY <1>9 DEF Observe, ObserveFails, Manifests
<1>12. CASE Decide
  <2>1. pc' \in {"healthFailed", "probe", "final"} /\ (pc' = "final" => Passes) BY <1>12 DEF Decide
  <2>2. pc = "decide" /\ UNCHANGED <<conf, inputs, goal, expected, ready, current>>
    BY <1>12 DEF Decide
  <2>3. mem'.resolved = mem.resolved BY <1>12 DEF Decide, Manifests
  <2>4. pc' = "final" => UNCHANGED mem BY <1>12 DEF Decide
  <2>5. pc' = "final" => Passes' BY <2>1, <2>2, <2>4, PassesKept
  <2> QED BY <2>1, <2>2, <2>3, <2>5
<1>10. CASE HealthFails \/ Final \/ ComposeStop \/ RecordStop \/ Repair
  BY <1>10 DEF HealthFails, Final, ComposeStop, RecordStop, Repair
<1>11. CASE Interrupt \/ SaveFails \/ Expire
  BY <1>11 DEF Interrupt, SaveFails, Expire, Verifying
<1> QED
  BY <1>3, <1>4, <1>5, <1>6, <1>7, <1>8, <1>9, <1>10, <1>11, <1>12, <1>13 DEF Next, Verify, Outside

-----------------------------------------------------------------------------
LEMMA InspectStep == IInv /\ Next => (InspectInv /\ InspectionIsAnchored)'
<1> SUFFICES ASSUME IInv, Next, NEW i \in Inspectors
             PROVE  /\ insp'[i].pc \notin {"idle", "done"} /\ ~insp'[i].saved
                       => disk'.resolved = insp'[i].read
                    /\ insp'[i].pc = "reread" /\ ~insp'[i].saved => insp'[i].anchored
                    /\ insp'[i].pc = "done" /\ insp'[i].ready => insp'[i].anchored
  BY DEF InspectInv, InspectionIsAnchored
<1>1. insp \in Inspections BY DEF IInv, TypeOK, Inspections
<1>2. /\ insp[i].pc \notin {"idle", "done"} /\ ~insp[i].saved => disk.resolved = insp[i].read
      /\ insp[i].pc = "reread" /\ ~insp[i].saved => insp[i].anchored
      /\ insp[i].pc = "done" /\ insp[i].ready => insp[i].anchored
  BY DEF IInv, InspectInv, InspectionIsAnchored
<1>3. CASE UNCHANGED <<disk, insp>> BY <1>2, <1>3
<1>4. ASSUME NEW m, Save(m) PROVE insp'[i] = [insp[i] EXCEPT !.saved = TRUE]
  BY <1>4 DEF Save
<1>5. CASE insp'[i] = [insp[i] EXCEPT !.saved = TRUE]
  BY <1>1, <1>2, <1>5 DEF Inspections
<1>6. ASSUME NEW j \in Inspectors, NEW r, Inspect(j, r)
      PROVE  disk' = disk /\ insp'[i] = IF i = j THEN r ELSE insp[i]
  BY <1>1, <1>6 DEF Inspect, Inspections
<1>7. ASSUME NEW j \in Inspectors \ {i}, NEW r, Inspect(j, r)
      PROVE  disk' = disk /\ insp'[i] = insp[i]
  BY <1>6, <1>7
<1>8. CASE InspectRead(i)
  <2> DEFINE r == [insp[i] EXCEPT !.pc = IF disk.resolved = None THEN "observe" ELSE "model",
                                  !.read = disk.resolved, !.saved = FALSE, !.got = NoCapture]
  <2>1. disk' = disk /\ insp'[i] = r BY <1>6, <1>8 DEF InspectRead
  <2>2. r.pc \in {"observe", "model"} /\ r.read = disk.resolved BY <1>1 DEF Inspections
  <2> QED BY <2>1, <2>2
<1>9. CASE InspectCapture(i)
  <2>1. /\ disk' = disk /\ insp[i].pc \in ResolvePCs
        /\ insp'[i].pc \in {"hashes", "confirm", "observe"}
        /\ insp'[i].saved = insp[i].saved /\ insp'[i].read = insp[i].read
    <3>2. CASE insp[i].pc = "model"
      <4> DEFINE r == [insp[i] EXCEPT !.pc = "hashes",
                                      !.got = [NoCapture EXCEPT !.model = inputs]]
      <4>1. disk' = disk /\ insp'[i] = r BY <1>6, <1>9, <3>2 DEF InspectCapture
      <4>2. r.pc = "hashes" /\ r.saved = insp[i].saved /\ r.read = insp[i].read
        BY <1>1 DEF Inspections
      <4> QED BY <3>2, <4>1, <4>2 DEF ResolvePCs
    <3>3. CASE insp[i].pc = "hashes"
      <4> DEFINE r == [insp[i] EXCEPT !.pc = "confirm",
                                      !.got = [@ EXCEPT !.hash = ConfigHash[inputs]]]
      <4>1. disk' = disk /\ insp'[i] = r BY <1>6, <1>9, <3>3 DEF InspectCapture
      <4>2. r.pc = "confirm" /\ r.saved = insp[i].saved /\ r.read = insp[i].read
        BY <1>1 DEF Inspections
      <4> QED BY <3>3, <4>1, <4>2 DEF ResolvePCs
    <3>4. CASE insp[i].pc = "confirm"
      <4> DEFINE r == [insp[i] EXCEPT !.pc = "observe"]
      <4>1. disk' = disk /\ insp'[i] = r BY <1>6, <1>9, <3>4 DEF InspectCapture
      <4>2. r.pc = "observe" /\ r.saved = insp[i].saved /\ r.read = insp[i].read
        BY <1>1 DEF Inspections
      <4> QED BY <3>4, <4>1, <4>2 DEF ResolvePCs
    <3> QED BY <1>9, <3>2, <3>3, <3>4 DEF InspectCapture
  <2> QED BY <1>2, <2>1 DEF ResolvePCs
<1>10. CASE InspectCaptureFails(i)
  <2> DEFINE r == [insp[i] EXCEPT !.pc = "observe", !.got = NoCapture]
  <2>1. disk' = disk /\ insp'[i] = r BY <1>6, <1>10 DEF InspectCaptureFails
  <2>2. r.pc = "observe" /\ r.saved = insp[i].saved /\ r.read = insp[i].read
    BY <1>1 DEF Inspections
  <2>3. insp[i].pc \in ResolvePCs BY <1>10 DEF InspectCaptureFails
  <2> QED BY <1>2, <2>1, <2>2, <2>3 DEF ResolvePCs
<1>11. CASE InspectObserve(i)
  <2> DEFINE r(evidence) == [insp[i] EXCEPT !.pc = "reread", !.evidence = evidence,
                                            !.anchored = (disk.resolved = insp[i].read)]
  <2>1. PICK evidence \in {cont, None} : disk' = disk /\ insp'[i] = r(evidence)
    BY <1>6, <1>11 DEF InspectObserve
  <2>2. /\ r(evidence).pc = "reread" /\ r(evidence).read = insp[i].read
        /\ r(evidence).saved = insp[i].saved
        /\ r(evidence).anchored = (disk.resolved = insp[i].read)
    BY <1>1 DEF Inspections
  <2>3. insp[i].pc = "observe" BY <1>11 DEF InspectObserve
  <2> QED BY <1>2, <2>1, <2>2, <2>3
<1>12. CASE InspectReread(i)
  <2> DEFINE r(now) == [insp[i] EXCEPT !.pc = "done",
                          !.ready = Ready(insp[i].read, now, insp[i].evidence)]
  <2>1. PICK now \in {None, insp[i].got} :
          /\ now # None => ~insp[i].saved /\ disk.resolved = insp[i].read
          /\ insp'[i] = r(now)
    BY <1>6, <1>12 DEF InspectReread
  <2>2. r(now).pc = "done" /\ r(now).anchored = insp[i].anchored BY <1>1 DEF Inspections
  <2>3. r(now).ready => now # None
    <3>1. r(now).ready = Ready(insp[i].read, now, insp[i].evidence)
      BY <1>1 DEF Inspections
    <3>2. ~Ready(insp[i].read, None, insp[i].evidence)
      BY NoneAssumption DEF Ready
    <3> QED BY <3>1, <3>2
  <2>4. insp[i].pc = "reread" BY <1>12 DEF InspectReread
  <2> QED BY <1>2, <2>1, <2>2, <2>3, <2>4
<1>13. CASE InspectReport(i)
  <2> DEFINE r == [insp[i] EXCEPT !.pc = "idle", !.ready = FALSE, !.evidence = None,
                                  !.read = None, !.got = NoCapture, !.anchored = TRUE]
  <2>1. insp'[i].pc = "idle"
    <3>1. insp'[i] = r BY <1>6, <1>13 DEF InspectReport
    <3>2. r.pc = "idle" BY <1>1 DEF Inspections
    <3> QED BY <3>1, <3>2
  <2> QED BY <2>1
<1>14. CASE \E j \in Inspectors \ {i} :
              InspectRead(j) \/ InspectCapture(j) \/ InspectCaptureFails(j)
              \/ InspectObserve(j) \/ InspectReread(j) \/ InspectReport(j)
  <2>1. disk' = disk /\ insp'[i] = insp[i]
    BY <1>7, <1>14 DEF InspectRead, InspectCapture, InspectCaptureFails, InspectObserve,
                       InspectReread, InspectReport
  <2> QED BY <1>2, <2>1
<1>15. CASE \/ CaptureModel \/ CaptureHashes \/ ResolveStart \/ VerifyCurrent \/ ResolveFails
            \/ ComposeUp \/ ComposeRefuses \/ StartHealth \/ Probe \/ ProbeExpired \/ Observe
            \/ ObserveFails \/ Decide \/ ComposeStop \/ Interrupt \/ EditInputs
            \/ ContainersChange \/ Expire
  BY <1>3, <1>15
  DEF CaptureModel, CaptureHashes, ResolveStart, VerifyCurrent, ResolveFails, ComposeUp,
      ComposeRefuses, StartHealth, Probe, ProbeExpired, Observe, ObserveFails, Decide,
      ComposeStop, Interrupt, EditInputs, ContainersChange, Expire
<1>16. CASE \/ Begin \/ Prepare \/ RecordRuntime \/ RuntimeFails \/ WaitForDatabase
            \/ SeedDatabase \/ Record \/ HealthFails \/ Final \/ RecordStop \/ Repair \/ SaveFails
  BY <1>4, <1>5, <1>16
  DEF Begin, Prepare, RecordRuntime, RuntimeFails, WaitForDatabase, SeedDatabase, Record,
      HealthFails, Final, RecordStop, Repair, SaveFails
<1>17. CASE RecordFails
  <2>1. CASE UNCHANGED <<disk, insp>> BY <1>3, <2>1
  <2>2. CASE Save(mem') BY <1>4, <1>5, <2>2
  <2> QED BY <1>17, <2>1, <2>2 DEF RecordFails
<1> QED
  BY <1>8, <1>9, <1>10, <1>11, <1>12, <1>13, <1>14, <1>15, <1>16, <1>17 DEF Next, Verify

LEMMA OutcomeStep == IInv /\ Next => (SuccessIsVerified /\ FailureIsUnresolved)'
<1> SUFFICES ASSUME IInv, Next PROVE (SuccessIsVerified /\ FailureIsUnresolved)' OBVIOUS
<1>1. /\ TypeOK /\ ResolveInv /\ VerdictInv /\ DatabaseInv /\ PollInv
      /\ SuccessIsVerified /\ FailureIsUnresolved
  BY DEF IInv
<1>2. CASE Outside
  <2>1. CASE EditInputs
    BY <1>1, <2>1 DEF EditInputs, SuccessIsVerified, FailureIsUnresolved
  <2>2. CASE UNCHANGED <<inputs, current>>
    BY <1>1, <1>2, <2>2, OutsideStep DEF SuccessIsVerified, FailureIsUnresolved
  <2> QED BY <1>1, <1>2, <2>1, <2>2, OutsideStep
<1>3. CASE pc' # "idle"
  BY <1>3 DEF SuccessIsVerified, FailureIsUnresolved
<1>4. CASE pc' = "idle" /\ outcome' \in {"none", "interrupted"}
  BY <1>4 DEF SuccessIsVerified, FailureIsUnresolved
<1>5. CASE pc' = "idle" /\ outcome' = "failed" /\ disk'.resolved = None
  BY <1>5 DEF SuccessIsVerified, FailureIsUnresolved
<1>6. CASE Begin \/ ComposeStop
  BY <1>3, <1>6 DEF Begin, ComposeStop
<1>7. CASE RecordStop \/ Repair \/ Interrupt \/ SaveFails
  BY <1>4, <1>7 DEF RecordStop, Repair, Interrupt, SaveFails, End
<1>8. CASE Prepare \/ RuntimeFails \/ WaitForDatabase \/ SeedDatabase \/ HealthFails
  <2>1. pc # "healthFailed" => mem.resolved = None
    BY <1>1, <1>8 DEF Prepare, RuntimeFails, WaitForDatabase, SeedDatabase, HealthFails,
                      VerdictInv, Unverified
  <2>2. mem \in Manifests BY <1>1 DEF TypeOK
  <2>3. mem'.resolved = None /\ disk' = mem'
    BY <1>8, <2>1, <2>2 DEF Prepare, RuntimeFails, WaitForDatabase, SeedDatabase, HealthFails,
                            Save, Manifests
  <2>4. pc' = "idle" => outcome' = "failed"
    <3>1. CASE Prepare
      <4>1. (IF conf.required THEN "model" ELSE "compose") # "idle" OBVIOUS
      <4> QED BY <3>1, <4>1 DEF Prepare, End
    <3>2. CASE RuntimeFails \/ WaitForDatabase \/ SeedDatabase \/ HealthFails
      BY <3>2 DEF RuntimeFails, WaitForDatabase, SeedDatabase, HealthFails, End
    <3> QED BY <1>8, <3>1, <3>2
  <2> QED BY <1>3, <1>5, <2>3, <2>4
<1>9. CASE Final
  <2>1. Passes /\ (conf.required => mem.resolved = expected /\ expected.model \in current)
    BY <1>1, <1>9 DEF Final, PollInv
  <2>2. conf.database => mem.database = "reachable" BY <1>1, <1>9 DEF Final, DatabaseInv
  <2>3. outcome' = "ok" /\ disk' = mem BY <1>9 DEF Final, Save, End
  <2>4. UNCHANGED <<conf, expected, ready, current>> BY <1>9 DEF Final, world
  <2> QED BY <2>1, <2>2, <2>3, <2>4 DEF SuccessIsVerified, FailureIsUnresolved, Passes
<1>10. CASE Expire
  BY <1>10, <1>3 DEF Expire, Verifying, ResolvePCs
<1>11. CASE \/ CaptureModel \/ CaptureHashes \/ ResolveStart \/ VerifyCurrent \/ ResolveFails
            \/ ComposeUp \/ ComposeRefuses \/ RecordRuntime \/ StartHealth \/ Record \/ RecordFails \/ Probe
            \/ ProbeExpired \/ Observe \/ ObserveFails \/ Decide
  BY <1>3, <1>11
  DEF CaptureModel, CaptureHashes, ResolveStart, VerifyCurrent, ResolveFails, ComposeUp,
      ComposeRefuses, RecordRuntime, StartHealth, Record, RecordFails, Probe, ProbeExpired, Observe,
      ObserveFails, Decide
<1> QED
  BY <1>2, <1>6, <1>7, <1>8, <1>9, <1>10, <1>11 DEF Next, Verify, Outside

-----------------------------------------------------------------------------
\* The hash of a resolution is not that of its model.
Torn(c) == c.hash # ConfigHash[c.model]

\* What it takes to tear a resolution: an edit between the capture of the model and
\* that of the hashes, one before the model is confirmed, and both again in the
\* resolution that verifies it.
TornInv ==
  /\ expected # None /\ Torn(expected) => edits >= 2
  /\ \A resolved \in {disk.resolved, mem.resolved} :
       resolved # None /\ Torn(resolved) => edits >= 4
  /\ pc = "hashes" /\ goal = "start" /\ got.model # inputs => edits >= 1
  /\ pc = "hashes" /\ goal = "verify" /\ Torn(expected) /\ got.model # inputs => edits >= 3
  /\ pc = "confirm" /\ goal = "start" /\ Torn(got) =>
       edits >= 1 /\ (inputs = got.model => edits >= 2)
  /\ pc = "confirm" /\ goal = "verify" /\ Torn(expected) /\ Torn(got) =>
       edits >= 3 /\ (inputs = got.model => edits >= 4)
  /\ pc = "record" /\ Torn(expected) => edits >= 4

LEMMA TornInit == Init => TornInv
BY DEF Init, TornInv

\* What a manifest has resolved is nothing, what it had, or what is recorded.
LEMMA ResolvedStep ==
  ASSUME IInv, Next, NEW resolved \in {disk'.resolved, mem'.resolved}
  PROVE  \/ resolved \in {None, disk.resolved, mem.resolved}
         \/ pc = "record" /\ resolved = expected
<1>1. TypeOK /\ mem \in Manifests /\ disk \in Manifests BY DEF IInv, TypeOK
<1>2. CASE Outside BY <1>1, <1>2, OutsideStep
<1>3. CASE Begin BY <1>1, <1>3 DEF Begin, NoVerdicts, Save, Manifests
<1>4. CASE Prepare \/ SeedDatabase \/ Final
  BY <1>4 DEF Prepare, SeedDatabase, Final, Save
<1>5. CASE RecordRuntime \/ RuntimeFails \/ WaitForDatabase \/ RecordStop \/ Repair \/ SaveFails
  BY <1>1, <1>5
  DEF RecordRuntime, RuntimeFails, WaitForDatabase, RecordStop, Repair, SaveFails, Save, Manifests
<1>6. CASE Record \/ RecordFails
  BY <1>1, <1>6 DEF Record, RecordFails, Save, Manifests
<1>7. CASE Probe \/ Observe \/ ObserveFails \/ Decide \/ HealthFails
  BY <1>1, <1>7 DEF Probe, Observe, ObserveFails, Decide, HealthFails, Save, Manifests
<1>8. CASE ComposeStop BY <1>8 DEF ComposeStop
<1>9. CASE UNCHANGED <<disk, mem>> BY <1>9
<1> QED
  BY <1>2, <1>3, <1>4, <1>5, <1>6, <1>7, <1>8, <1>9
  DEF Next, Verify, Outside, CaptureModel, CaptureHashes, ResolveStart, VerifyCurrent,
      ResolveFails, ComposeUp, ComposeRefuses, StartHealth, ProbeExpired, Interrupt, Expire

LEMMA TornStep == IInv /\ TornInv /\ Next => TornInv'
<1> SUFFICES ASSUME IInv, TornInv, Next PROVE TornInv' OBVIOUS
<1>1. /\ TypeOK /\ edits \in Nat /\ goal \in {"start", "verify", "poll"}
      /\ inputs \in Models /\ got \in Captures
  BY BoundsAssumption DEF IInv, TypeOK
<1>2. /\ (pc \in ResolvePCs /\ goal # "start") \/ pc = "record" => expected \in Requirements
      /\ pc = "confirm" => got \in Requirements
  BY DEF IInv, ResolveInv, ResolvePCs
<1>3. None \notin Requirements BY NoneAssumption
<1>5. edits' >= edits /\ edits' \in Nat
  <2>1. CASE EditInputs BY <1>1, <2>1 DEF EditInputs
  <2>2. CASE UNCHANGED edits BY <1>1, <2>2
  <2> QED
    BY <2>1, <2>2
    DEF Next, Verify, world, Begin, Prepare, CaptureModel, CaptureHashes, ResolveStart,
        VerifyCurrent, ResolveFails, ComposeUp, ComposeRefuses, RecordRuntime, RuntimeFails,
        WaitForDatabase, SeedDatabase, StartHealth, Record, RecordFails, Probe, ProbeExpired,
        Observe, ObserveFails, Decide, HealthFails, Final, ComposeStop, RecordStop, Repair,
        Interrupt, SaveFails, ContainersChange, Expire, InspectRead, InspectCapture,
        InspectCaptureFails, InspectObserve, InspectReread, InspectReport, Inspect
<1>6. \A resolved \in {disk'.resolved, mem'.resolved} :
        resolved # None /\ resolved.hash # ConfigHash[resolved.model] => edits' >= 4
  <2> SUFFICES ASSUME NEW resolved \in {disk'.resolved, mem'.resolved},
                      resolved # None, resolved.hash # ConfigHash[resolved.model]
               PROVE  edits >= 4
    BY <1>1, <1>5
  <2>1. CASE resolved \in {disk.resolved, mem.resolved} BY <2>1 DEF TornInv, Torn
  <2>2. CASE pc = "record" /\ resolved = expected BY <2>2 DEF TornInv, Torn
  <2> QED BY <2>1, <2>2, ResolvedStep
<1> USE <1>1, <1>2, <1>3, <1>5, <1>6 DEF TornInv, Torn, ResolvePCs, world, End
<1>7. CASE EditInputs BY <1>7 DEF EditInputs
<1>8. CASE Outside /\ ~EditInputs BY <1>8, OutsideStep
<1>9. CASE CaptureModel BY <1>9 DEF CaptureModel
<1>10. CASE CaptureHashes
  <2>1. got' = [got EXCEPT !.hash = ConfigHash[inputs]] /\ pc = "hashes" /\ pc' = "confirm"
        /\ UNCHANGED <<inputs, edits, goal, expected>>
    BY <1>10 DEF CaptureHashes
  <2>2. got'.model = got.model /\ got'.hash = ConfigHash[inputs] BY <2>1 DEF Captures
  <2> QED BY <2>1, <2>2
<1>11. CASE ResolveStart BY <1>11 DEF ResolveStart
<1>12. CASE VerifyCurrent BY <1>12 DEF VerifyCurrent
<1>13. CASE ResolveFails \/ ComposeUp \/ ComposeRefuses \/ StartHealth \/ ProbeExpired
            \/ Interrupt \/ Expire \/ ComposeStop
  BY <1>13
  DEF ResolveFails, ComposeUp, ComposeRefuses, StartHealth, ProbeExpired, Interrupt, Expire,
      ComposeStop
<1>14. CASE Begin \/ RecordRuntime \/ RuntimeFails \/ WaitForDatabase \/ SeedDatabase
            \/ Record \/ RecordFails
  BY <1>14
  DEF Begin, RecordRuntime, RuntimeFails, WaitForDatabase, SeedDatabase, Record, RecordFails
<1>15. CASE Prepare
  <2>1. pc' \in {"model", "compose", "idle"} /\ UNCHANGED <<inputs, edits, expected, got>>
    BY <1>15 DEF Prepare
  <2> QED BY <2>1
<1>16. CASE Probe \/ Observe \/ ObserveFails \/ Decide \/ HealthFails \/ Final
  BY <1>16 DEF Probe, Observe, ObserveFails, Decide, HealthFails, Final
<1>17. CASE RecordStop \/ Repair \/ SaveFails
  BY <1>17 DEF RecordStop, Repair, SaveFails
<1> QED
  BY <1>7, <1>8, <1>9, <1>10, <1>11, <1>12, <1>13, <1>14, <1>15, <1>16, <1>17
  DEF Next, Verify, Outside

-----------------------------------------------------------------------------
\* The inductive invariant holds, for any constants.
THEOREM Inductive == Spec => []IInv
<1>1. IInv /\ [Next]_vars => IInv'
  <2>1. CASE Next
    BY <2>1, TypeStep, ResolveStep, VerdictStep, DatabaseStep, PollStep, InspectStep, OutcomeStep
    DEF IInv
  <2>2. CASE UNCHANGED vars
    BY <2>2
    DEF vars, world, holder, IInv, TypeOK, ResolveInv, VerdictInv, DatabaseInv, PollInv,
        InspectInv, Unverified, Starting, Passes, SuccessIsVerified, FailureIsUnresolved,
        InspectionIsAnchored
  <2> QED BY <2>1, <2>2
<1> QED BY IInvInit, <1>1, PTL DEF Spec

\* The variables keep their types.
THEOREM TypeCorrect == Spec => []TypeOK
<1>1. IInv => TypeOK BY DEF IInv
<1> QED BY Inductive, <1>1, PTL

\* A start that reports success was verified against the model it resolved
\* before Compose (wait, verify_current).
THEOREM SuccessesAreVerified == Spec => []SuccessIsVerified
<1>1. IInv => SuccessIsVerified BY DEF IInv
<1> QED BY Inductive, <1>1, PTL

\* A failed start leaves no resolution behind (health_phase).
THEOREM FailuresAreUnresolved == Spec => []FailureIsUnresolved
<1>1. IInv => FailureIsUnresolved BY DEF IInv
<1> QED BY Inductive, <1>1, PTL

\* A ready inspection observed the containers under the resolution it reports,
\* however many inspections and starts overlap (observe_runtime).
THEOREM InspectionsAreAnchored == Spec => []InspectionIsAnchored
<1>1. IInv => InspectionIsAnchored BY DEF IInv
<1> QED BY Inductive, <1>1, PTL

\* No verdict about earlier containers survives into a start (begin).
THEOREM StartsAreWithoutVerdicts == Spec => StartsWithoutVerdicts
<1>1. IInv /\ [Next]_vars =>
        [cont'.made # cont.made =>
           disk.resolved = None /\ disk.health = "unknown" /\ disk.database = "unknown"]_vars
  <2> SUFFICES ASSUME IInv, Next, cont'.made # cont.made
               PROVE  disk.resolved = None /\ disk.health = "unknown"
                      /\ disk.database = "unknown"
    OBVIOUS
  <2>1. TypeOK /\ VerdictInv BY DEF IInv
  <2>2. CASE ComposeUp
    BY <2>1, <2>2 DEF ComposeUp, VerdictInv, Unverified, Starting
  <2>3. CASE ComposeStop
    <3>1. \A good : [cont EXCEPT !.running = FALSE, !.good = good].made = cont.made
      BY <2>1 DEF TypeOK, Containers
    <3> QED BY <2>3, <3>1 DEF ComposeStop
  <2>4. CASE Outside BY <2>1, <2>4, OutsideStep
  <2>5. CASE UNCHANGED cont BY <2>5
  <2> QED
    BY <2>2, <2>3, <2>4, <2>5
    DEF Next, Verify, Outside, world, Begin, Prepare, CaptureModel, CaptureHashes, ResolveStart,
        VerifyCurrent, ResolveFails, ComposeRefuses, RecordRuntime, RuntimeFails,
        WaitForDatabase, SeedDatabase, StartHealth, Record, RecordFails, Probe, ProbeExpired, Observe,
        ObserveFails, Decide, HealthFails, Final, RecordStop, Repair, Interrupt, SaveFails,
        Expire
<1> QED BY Inductive, <1>1, PTL DEF Spec, StartsWithoutVerdicts

\* What a start leaves in the manifest is what it told its user, also when it failed
\* after it had saved its resolution (wait, health_phase).
THEOREM OutcomesAreHonest == Spec => []OutcomeIsHonest
<1> QED BY SuccessesAreVerified, FailuresAreUnresolved, PTL DEF OutcomeIsHonest
\* One excursion of the inputs during the captures, there and back, cannot pair one
\* model with the hashes of another: tearing what is recorded takes four edits, two
\* of them around either capture (resolve, verify_current).
THEOREM RecordsAreOfOneModel == Spec => []RecordIsOfOneModel
<1>1. Init => TornInv BY TornInit
<1>2. IInv /\ TornInv /\ [Next]_vars => TornInv'
  <2>1. CASE Next BY <2>1, TornStep
  <2>2. CASE UNCHANGED vars
    BY <2>2 DEF vars, world, holder, TornInv, Torn
  <2> QED BY <2>1, <2>2
<1>3. IInv /\ TornInv => RecordIsOfOneModel
  BY BoundsAssumption DEF IInv, TypeOK, TornInv, Torn, RecordIsOfOneModel
<1> QED BY Inductive, <1>1, <1>2, <1>3, PTL DEF Spec

=============================================================================
