----------------------------- MODULE Readiness -----------------------------
(***************************************************************************)
(* The readiness of the services an environment requires (readiness).      *)
(* Missing metadata is None.  A row is one container: its service, whether *)
(* it is a one-off, its instance number, whether its configuration hash is *)
(* the one resolved at startup, its state and the evidence of its health.  *)
(***************************************************************************)
EXTENDS Integers, FiniteSets

None == "none"

States == {"running", "created", "exited", "restarting", "paused", "dead", "removing"}

\* ReadinessStatus::combine over any number of notes; unconfigured is never noted.
Combine(S) ==
  IF "not_ready" \in S THEN "not_ready" ELSE IF S \subseteq {"ready"} THEN "ready" ELSE "unknown"

\* What one container proves of the role of its service.
Satisfaction(role, row) ==
  LET ended == role = "job" /\ row.state = "exited"
      up    == role # "job" /\ row.state = "running"
  IN CASE ended -> (CASE row.exit = "zero" -> "ready" [] row.exit = None -> "unknown" [] OTHER -> "not_ready")
       [] ~ended /\ row.state \notin States -> "unknown"
       [] up /\ <<row.healthcheck, row.health>> \in {<<"no", None>>, <<"yes", "healthy">>} -> "ready"
       [] up /\ row.healthcheck = "yes" /\ row.health \in {"unhealthy", "starting"} -> "not_ready"
       [] up /\ <<row.healthcheck, row.health>> \notin
            ({<<"no", None>>} \cup {"yes"} \X {"healthy", "unhealthy", "starting"}) -> "unknown"
       [] OTHER -> "not_ready"

\* What a row counts as: an instance number, or the container itself.
Key(row)      == IF row.number = 0 THEN <<"container", row.id>> ELSE <<"number", row.number>>
Provable(row) == row.oneoff = "no" /\ row.number # 0 /\ row.hash = "current"

Unknown(b)  == IF b THEN {"unknown"} ELSE {}
NotReady(b) == IF b THEN {"not_ready"} ELSE {}

\* Mutant: an instance that is not provable is not there.
EvaluateProvable(role, replicas, rows) ==
  LET current == {row \in rows : Provable(row)}
      count   == Cardinality({Key(row) : row \in current})
  IN Combine(Unknown(rows # current \/ count > replicas) \cup NotReady(count < replicas)
             \cup {Satisfaction(role, row) : row \in current})

\* evaluate_service for a service whose requirement is current.
EvaluateService(role, replicas, rows) ==
  LET current    == {row \in rows : Provable(row)}
      count      == Cardinality({Key(row) : row \in {row \in rows : row.hash # "other"}})
      alone(row) == \A other \in current \ {row} : other.number # row.number
  IN Combine(Unknown(rows # current \/ count > replicas) \cup NotReady(count < replicas)
             \cup {IF alone(row) THEN Satisfaction(role, row) ELSE "unknown" : row \in current})

Candidates(service, rows) == {row \in rows : row.service = service /\ row.oneoff # "yes"}

\* Contract::validate
Valid(contract) ==
  /\ DOMAIN contract.required # {}
  /\ contract.resolution # None =>
       /\ DOMAIN contract.resolved = DOMAIN contract.required
       /\ \A s \in DOMAIN contract.resolved : contract.resolved[s] > 0

\* evaluate: the resolution of the contract is None, current or stale; listed
\* says whether the containers could be listed at all.
Evaluate(contract, listed, rows) ==
  LET current == contract.resolution = "current"
      unattributed == \E row \in rows : row.service = "" /\ row.oneoff # "yes"
  IN IF ~contract.declared THEN "unconfigured"
     ELSE IF ~Valid(contract) THEN "unknown"
     ELSE Combine(
            Unknown(~current \/ ~listed \/ unattributed)
            \cup {IF current /\ listed
                  THEN EvaluateService(contract.required[s], contract.resolved[s], Candidates(s, rows))
                  ELSE "unknown" : s \in DOMAIN contract.required})

-----------------------------------------------------------------------------
\* The containers that Docker may really have when it shows a row.
Completions(row) ==
  LET either(value, missing, S) == IF value = missing THEN S ELSE {value}
  IN [id          : {row.id},
      service     : {row.service},
      oneoff      : either(row.oneoff, None, {"yes", "no"}),
      number      : either(row.number, 0, 1..2),
      hash        : either(row.hash, None, {"current", "other"}),
      state       : IF row.state \in States THEN {row.state} ELSE {"running", "exited"},
      exit        : either(row.exit, None, {"zero", "failed"}),
      healthcheck : either(row.healthcheck, None, {"yes", "no"}),
      health      : either(row.health, None, {"healthy", "unhealthy"})]

\* A container that does what its service is required to do.
Works(role, row) ==
  IF role = "job" THEN row.state = "exited" /\ row.exit = "zero"
  ELSE row.state = "running" /\ (row.healthcheck = "yes" => row.health = "healthy")

\* The service as required: so many instances by their numbers, each working.
Serves(role, replicas, rows) ==
  LET instances == {row \in rows : row.oneoff = "no" /\ row.hash = "current"}
  IN /\ Cardinality({row.number : row \in instances}) = replicas
     /\ \A row \in instances : Works(role, row)

Worlds(rows) ==
  LET all == UNION {Completions(row) : row \in rows}
  IN {{W[row] : row \in rows} :
        W \in {f \in [rows -> all] : \A row \in rows : f[row] \in Completions(row)}}

\* Readiness is never claimed on missing evidence: whatever the missing metadata
\* is, a service found ready has its instances and each of them works.  A failure
\* is not claimed on it either: a service found not ready has an instance too few,
\* or one that does not work, in every case (evaluate_service).
VerdictIsCertain(role, replicas, rows) ==
  /\ EvaluateService(role, replicas, rows) = "ready" =>
       \A W \in Worlds(rows) : Serves(role, replicas, W)
  /\ EvaluateService(role, replicas, rows) = "not_ready" =>
       \A W \in Worlds(rows) : ~Serves(role, replicas, W)

\* A known failure of one service is not hidden by what is unknown of another
\* or of unattributed containers, and nothing unknown becomes ready (evaluate).
NothingHidden(contract, listed, rows) ==
  LET verdict == Evaluate(contract, listed, rows)
      current == contract.declared /\ Valid(contract) /\ contract.resolution = "current" /\ listed
      Of(s)   == EvaluateService(contract.required[s], contract.resolved[s], Candidates(s, rows))
  IN /\ verdict = "ready" =>
          /\ current /\ \A s \in DOMAIN contract.required : Of(s) = "ready"
          /\ \A row \in rows : row.service = "" => row.oneoff = "yes"
     /\ current /\ (\E s \in DOMAIN contract.required : Of(s) = "not_ready") => verdict = "not_ready"
=============================================================================
