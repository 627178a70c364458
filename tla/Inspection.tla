----------------------------- MODULE Inspection -----------------------------
(***************************************************************************)
(* What inspect says of a runtime from one look at its containers          *)
(* (compose::snapshot, database, lifecycle::inspect).  A container is what *)
(* Docker tells of it: whether both ownership labels are right, and its    *)
(* service, state and one-off label, None where Docker does not tell.      *)
(***************************************************************************)
EXTENDS Integers, FiniteSets, Sequences

None == "none"

Ended  == {"created", "exited", "dead"}
Active == {"running", "paused", "restarting"}

\* One container of another owner refutes the whole look.
Snapshot(containers) ==
  IF \E c \in containers : ~c.owned THEN [available |-> FALSE, services |-> {}]
  ELSE [available |-> TRUE, services |-> containers]

Activity(snapshot) ==
  CASE ~snapshot.available                          -> "unknown"
    [] \E s \in snapshot.services : s.state \in Active -> "active"
    [] OTHER -> IF \A s \in snapshot.services : s.state \in Ended THEN "inactive" ELSE "unknown"

\* RuntimeObservation::running and status
Status(snapshot) ==
  CASE ~snapshot.available                             -> "unknown"
    [] \E s \in snapshot.services : s.state = "running" -> "running"
    [] OTHER -> IF \A s \in snapshot.services : s.state \in Ended \cup Active THEN "stopped" ELSE "unknown"

Regular(snapshot, name) == {s \in snapshot.services : s.service = name /\ s.oneoff = "no"}
Unattributed(snapshot, name) ==
  {s \in snapshot.services : s.oneoff # "yes" /\ (s.service = None \/ (s.service = name /\ s.oneoff = None))}

ServiceStatus(snapshot, name) ==
  CASE \E s \in Regular(snapshot, name) : s.state = "running" -> "running"
    [] /\ snapshot.available
       /\ \A s \in Regular(snapshot, name) : s.state \in Ended \cup (Active \ {"running"})
       /\ Unattributed(snapshot, name) = {}                   -> "stopped"
    [] OTHER -> "unknown"

-----------------------------------------------------------------------------
(* An endpoint is an address of the manifest: who listens there, whether   *)
(* Docker can be asked whose it is, and whether what listens answers as    *)
(* the check expects.                                                      *)

Reachable(endpoint) == endpoint.holder # "nobody"
Published(endpoint) == endpoint.holder = "ours"

\* database::live_status for a database service with a container port
DatabaseStatus(serviceStatus, endpoint) ==
  CASE serviceStatus = "unknown"  -> "unknown"
    [] serviceStatus = "stopped"  -> "unreachable"
    [] OTHER -> IF endpoint.dockerFails THEN "unknown"
                ELSE IF Published(endpoint) /\ Reachable(endpoint) THEN "reachable" ELSE "unreachable"

HasCommand(checks) == \E i \in DOMAIN checks : checks[i].command

\* Mutant: an endpoint whose owner Docker cannot tell is not correlated.
CorrelateLeniently(snapshot, check) ==
  CASE check.target \in {None, "broken"} \/ check.dockerFails -> "uncorrelated"
    [] ~Published(check) -> "failed"
    [] OTHER -> "passed"

\* What is known of a check before its endpoint is asked.
Correlate(snapshot, check) ==
  CASE check.target = None     -> "uncorrelated"
    [] check.target = "broken" -> "error"
    [] ~\E s \in snapshot.services : s.service = check.target /\ s.state = "running" -> "failed"
    [] OTHER -> CASE check.dockerFails -> "error" [] Published(check) -> "passed" [] OTHER -> "failed"

\* health::healthy_passive
HealthyPassive(checks) ==
  IF \A i \in DOMAIN checks : Reachable(checks[i]) /\ checks[i].answers THEN "ready" ELSE "failed"

\* observed_passive_health: the first check that fails or cannot be correlated decides.
PassiveHealth(snapshot, checks) ==
  LET found   == [i \in DOMAIN checks |-> Correlate(snapshot, checks[i])]
      decides == {i \in DOMAIN checks : found[i] \in {"error", "failed"}}
  IN CASE checks = <<>> \/ HasCommand(checks) -> None
       [] OTHER ->
            IF decides = {} THEN HealthyPassive(checks)
            ELSE LET first == CHOOSE i \in decides : \A j \in decides : i <= j
                 IN IF found[first] = "error" THEN None ELSE "failed"

\* observe_live
ObservedHealth(snapshot, checks) ==
  IF Status(snapshot) = "running" THEN PassiveHealth(snapshot, checks) ELSE None

EffectiveHealth(snapshot, checks, recorded) ==
  LET status == ObservedHealth(snapshot, checks)
  IN CASE checks = <<>>                   -> [status |-> "unknown", basis |-> "unconfigured"]
       [] checks # <<>> /\ status # None  -> [status |-> status, basis |-> "live"]
       [] OTHER -> IF Status(snapshot) = "running" /\ HasCommand(checks)
                   THEN [status |-> recorded, basis |-> "recorded"]
                   ELSE [status |-> "unknown", basis |-> "lifecycle"]

-----------------------------------------------------------------------------
\* What containers may really be: a state Docker does not tell, or one this
\* version does not know, is any; so are a service and a one-off it does not tell.
Truths(c) ==
  [state   : IF c.state \in Ended \cup Active THEN {c.state} ELSE {"exited", "paused", "running"},
   service : IF c.service = None THEN {"web", "db"} ELSE {c.service},
   oneoff  : IF c.oneoff = None THEN {"yes", "no"} ELSE {c.oneoff}]

Holds(claim, positive, negative, truth) == claim \notin {positive, negative} \/ (claim = positive) = truth

\* inspect says of a runtime or a service that it is active, inactive, running or
\* stopped only if it is so whatever the metadata it did not get is: of all its
\* containers, and of none of another owner.
StatusIsCertain(containers) ==
  LET snapshot == Snapshot(containers)
  IN /\ snapshot.available \/ {Activity(snapshot), Status(snapshot), ServiceStatus(snapshot, "web")} = {"unknown"}
     /\ \A w \in {f \in [containers -> UNION {Truths(c) : c \in containers}] :
                    \A c \in containers : f[c] \in Truths(c)} :
          snapshot.available =>
            /\ Holds(Activity(snapshot), "active", "inactive", \E c \in containers : w[c].state \in Active)
            /\ Holds(Status(snapshot), "running", "stopped", \E c \in containers : w[c].state = "running")
            /\ Holds(ServiceStatus(snapshot, "web"), "running", "stopped",
                     \E c \in containers : w[c].service = "web" /\ w[c].oneoff = "no" /\ w[c].state = "running")

\* Another program on a port of the environment never makes its database reachable
\* or its health ready: what a live verdict rests on is published by a running
\* container of the service, wherever the address is one of the manifest's.
AnswersAreItsOwn(containers, checks, recorded) ==
  LET snapshot == Snapshot(containers)
      health   == EffectiveHealth(snapshot, checks, recorded)
  IN /\ health = [status |-> "ready", basis |-> "live"] =>
          \A i \in DOMAIN checks : checks[i].answers /\ (checks[i].target = None \/ checks[i].holder = "ours")
     /\ health.basis \in {"live", "recorded"} => Status(snapshot) = "running"
     /\ \A i \in DOMAIN checks :
          DatabaseStatus(ServiceStatus(snapshot, "web"), checks[i]) = "reachable" => checks[i].holder = "ours"
=============================================================================
