---------------------------- MODULE RuntimeClaim ----------------------------
(***************************************************************************)
(* Commands of several environments that share a Docker daemon and a       *)
(* Compose project name: clones of a project have the same names, and only *)
(* the runtime token tells their environments apart.  A labelled volume,   *)
(* the claim, reserves the name.                                           *)
(*                                                                         *)
(* Every docker command is one step; other programs create and remove      *)
(* resources between them.  What a verification lists and inspects is      *)
(* looked at one resource at a time, in any order.  The claim itself is    *)
(* removed by nobody else.                                                 *)
(***************************************************************************)
EXTENDS FiniteSets, Naturals

CONSTANTS Tokens,     \* the environments, one command of each at a time
          Resources,  \* containers, networks and volumes the name can have
          Expected,   \* those the Compose files name
          Volumes,    \* those that are removed by name, not by immutable ID
          Helper,     \* the container that repairs the owner of the source
          MaxForeign  \* bound on the resources of other programs at a time

ASSUME TokensAssumption == Tokens \cap {"absent", "foreign", "labelled", "bare"} = {}
ASSUME ResourcesAssumption ==
  /\ Expected \subseteq Resources /\ Volumes \subseteq Resources
  /\ Helper \in Resources \ (Expected \cup Volumes)

VARIABLES
  claim,    \* the token of the claim's volume
  at,       \* who each resource belongs to; foreign ones have the project's
            \* label or only an expected name
  stage,    \* teardown phase of each environment
  op, pc,   \* the command of each environment and its next step
  round,    \* which verification of the command this is
  todo,     \* resources it has yet to look at
  present,  \* it has found resources of its own
  target,   \* what it is about to remove
  fresh,    \* foreign resources that came after the command looked there
  result,   \* how the last command ended
  lost      \* a command touched something foreign it should have known of

docker  == <<claim, at, lost>>
command == <<op, pc, round, todo, present, target, result>>
vars    == <<docker, stage, command, fresh>>

Foreign == {"labelled", "bare"}
None    == "none"

TypeOK ==
  /\ claim \in {"absent", "foreign"} \cup Tokens
  /\ at \in [Resources -> {"absent"} \cup Foreign \cup Tokens]
  /\ \A r \in Resources : at[r] = "bare" => r \in Expected
  /\ stage \in [Tokens -> {"live", "teardown", "removed", "gone"}]
  /\ op \in [Tokens -> {None, "up", "stop", "down", "exec", "repair", "release"}]
  /\ pc \in [Tokens -> {"idle", "scan", "claim", "create", "verify", "act", "sweep", "remove", "drop"}]
  /\ round \in [Tokens -> {1, 2, 3}]
  /\ todo \in [Tokens -> SUBSET Resources]
  /\ present \in [Tokens -> BOOLEAN]
  /\ target \in [Tokens -> Resources \cup {None}]
  /\ fresh \in [Tokens -> SUBSET Resources]
  /\ result \in [Tokens -> {None, "ok", "refused", "unclaimed", "failed"}]
  /\ lost \in BOOLEAN

Init ==
  /\ claim = "absent" /\ at = [r \in Resources |-> "absent"] /\ lost = FALSE
  /\ stage = [c \in Tokens |-> "live"]
  /\ op = [c \in Tokens |-> None] /\ pc = [c \in Tokens |-> "idle"]
  /\ round = [c \in Tokens |-> 1] /\ todo = [c \in Tokens |-> {}]
  /\ present = [c \in Tokens |-> FALSE] /\ target = [c \in Tokens |-> None]
  /\ fresh = [c \in Tokens |-> {}] /\ result = [c \in Tokens |-> None]

-----------------------------------------------------------------------------
Set(f, c, v) == f' = [f EXCEPT ![c] = v]

End(c, outcome) ==
  /\ Set(pc, c, "idle") /\ Set(op, c, None) /\ Set(result, c, outcome)
  /\ Set(todo, c, {}) /\ Set(present, c, FALSE) /\ Set(target, c, None) /\ Set(round, c, 1)

Goto(c, step) ==
  Set(pc, c, step) /\ UNCHANGED <<op, round, todo, present, target, result>>

\* verify_runtime_resources, or for the claim's removal only the labelled ones
Scan(c, n) ==
  /\ Set(pc, c, "scan") /\ Set(round, c, n)
  /\ Set(todo, c, Resources) /\ Set(present, c, FALSE)
  /\ UNCHANGED <<op, target, result>>

\* A command is finished.  The stop of a destroy goes on with down.
Done(c) ==
  IF op[c] = "stop" /\ stage[c] = "teardown"
  THEN /\ Set(op, c, "down") /\ Set(pc, c, "scan") /\ Set(round, c, 1)
       /\ Set(todo, c, Resources) /\ Set(present, c, FALSE)
       /\ UNCHANGED <<target, result, stage>>
  ELSE /\ End(c, "ok")
       /\ stage' = [stage EXCEPT ![c] = CASE op[c] = "down"    -> "removed"
                                          [] op[c] = "release" -> "gone"
                                          [] OTHER             -> @]

\* Which commands the teardown phase admits, and the step each starts with.
Begin(c) ==
  /\ pc[c] = "idle"
  /\ \E o \in {"up", "stop", "exec", "repair", "release"} :
       /\ \/ stage[c] = "live" /\ o \in {"up", "stop", "exec"} /\ UNCHANGED stage
          \/ stage[c] \in {"live", "teardown"} /\ o = "stop" /\ Set(stage, c, "teardown")
          \/ stage[c] = "removed" /\ o \in {"repair", "release"} /\ UNCHANGED stage
       /\ Set(op, c, o)
       /\ IF o \in {"up", "stop"}
          THEN Set(pc, c, "scan") /\ Set(todo, c, Resources)
          ELSE Set(pc, c, "claim") /\ Set(todo, c, {})
  /\ Set(fresh, c, {}) /\ Set(result, c, None)
  /\ UNCHANGED <<docker, round, present, target>>

\* The command is killed, or docker fails.
Abort(c) ==
  /\ pc[c] # "idle"
  /\ End(c, "failed")
  /\ UNCHANGED <<docker, stage, fresh>>

-----------------------------------------------------------------------------
\* One look at one resource.  A name alone means nothing where only labels are
\* listed.
Look(c) ==
  /\ pc[c] = "scan"
  /\ \E r \in todo[c] :
       IF at[r] \in {"absent", c} \/ (at[r] = "bare" /\ op[c] = "release")
       THEN /\ Set(todo, c, todo[c] \ {r})
            /\ Set(present, c, (present[c] \/ at[r] = c))
            /\ Set(fresh, c, fresh[c] \ {r})
            /\ UNCHANGED <<op, pc, round, target, result>>
       ELSE End(c, "refused") /\ UNCHANGED fresh
  /\ UNCHANGED <<docker, stage>>

\* Mutant: what Compose's down leaves behind is left.
ScannedOnce(c) ==
  /\ pc[c] = "scan" /\ todo[c] = {}
  /\ CASE op[c] \in {"up", "stop", "down"} /\ round[c] = 1 -> Goto(c, "claim") /\ UNCHANGED stage
       [] op[c] = "up" /\ round[c] = 2                     -> Goto(c, "act") /\ UNCHANGED stage
       [] op[c] = "exec"                                   -> Goto(c, "act") /\ UNCHANGED stage
       [] op[c] = "up" /\ round[c] = 3                     -> Done(c)
       [] op[c] = "down" /\ round[c] \in {2, 3}            -> Done(c)
       [] op[c] = "release" /\ present[c]                  -> End(c, "failed") /\ UNCHANGED stage
       [] op[c] = "release" /\ ~present[c]                 -> Goto(c, "drop") /\ UNCHANGED stage
  /\ UNCHANGED <<docker, fresh>>

\* The end of a verification.
Scanned(c) ==
  /\ pc[c] = "scan" /\ todo[c] = {}
  /\ CASE op[c] \in {"up", "stop", "down"} /\ round[c] = 1 -> Goto(c, "claim") /\ UNCHANGED stage
       [] op[c] = "up" /\ round[c] = 2                     -> Goto(c, "act") /\ UNCHANGED stage
       [] op[c] = "exec"                                   -> Goto(c, "act") /\ UNCHANGED stage
       [] op[c] = "up" /\ round[c] = 3                     -> Done(c)
       [] op[c] = "down" /\ round[c] = 2 /\ present[c]     ->
            /\ Set(pc, c, "sweep") /\ Set(todo, c, Resources)
            /\ UNCHANGED <<op, round, present, target, result, stage>>
       [] op[c] = "down" /\ round[c] = 2 /\ ~present[c]    -> Scan(c, 3) /\ UNCHANGED stage
       [] op[c] = "down" /\ round[c] = 3 /\ ~present[c]    -> Done(c)
       [] op[c] = "down" /\ round[c] = 3 /\ present[c]     -> End(c, "failed") /\ UNCHANGED stage
       [] op[c] = "release" /\ present[c]                  -> End(c, "failed") /\ UNCHANGED stage
       [] op[c] = "release" /\ ~present[c]                 -> Goto(c, "drop") /\ UNCHANGED stage
  /\ UNCHANGED <<docker, fresh>>

\* runtime_claim_exists, and what each command makes of a missing claim
FindClaim(c) ==
  /\ pc[c] = "claim"
  /\ CASE claim # "absent" -> Goto(c, "verify") /\ UNCHANGED stage
       [] claim = "absent" /\ op[c] \in {"up", "stop", "down"} /\ present[c] ->
            End(c, "unclaimed") /\ UNCHANGED stage
       [] claim = "absent" /\ op[c] = "up" /\ ~present[c] -> Goto(c, "create") /\ UNCHANGED stage
       [] claim = "absent" /\ op[c] = "exec" -> End(c, "failed") /\ UNCHANGED stage
       [] OTHER -> Done(c)
  /\ UNCHANGED <<docker, fresh>>

\* Mutant: a claim that can be created is ours.
CreateClaimTrusted(c) ==
  /\ pc[c] = "create"
  /\ claim' = IF claim = "absent" THEN c ELSE claim
  /\ Scan(c, 2)
  /\ UNCHANGED <<at, lost, stage, fresh>>

\* docker volume create succeeds for a volume that exists, and leaves it alone.
CreateClaim(c) ==
  /\ pc[c] = "create"
  /\ claim' = IF claim = "absent" THEN c ELSE claim
  /\ Goto(c, "verify")
  /\ UNCHANGED <<at, lost, stage, fresh>>

VerifyClaim(c) ==
  /\ pc[c] = "verify"
  /\ CASE claim # c -> End(c, "refused") /\ UNCHANGED stage
       [] claim = c /\ op[c] = "up" -> Scan(c, 2) /\ UNCHANGED stage
       [] claim = c /\ op[c] \in {"exec", "release"} -> Scan(c, 1) /\ UNCHANGED stage
       [] claim = c /\ (op[c] = "repair" \/ (op[c] \in {"stop", "down"} /\ present[c])) ->
            Goto(c, "act") /\ UNCHANGED stage
       [] OTHER -> Done(c)
  /\ UNCHANGED <<docker, fresh>>

-----------------------------------------------------------------------------
\* What a command that reaches resources S does to those that are not its own.
Touch(c, S) ==
  lost' = (lost \/ \E r \in S : at[r] \in Tokens \ {c} \/ (at[r] \in Foreign /\ r \notin fresh[c]))

Own(c, S) == at' = [r \in Resources |-> IF r \in S THEN c ELSE at[r]]
Drop(S)   == at' = [r \in Resources |-> IF r \in S THEN "absent" ELSE at[r]]

There == {r \in Resources : at[r] # "absent"}

\* Compose takes over what is in the project, and creates some of the rest.
ComposeUp(c) ==
  /\ pc[c] = "act" /\ op[c] = "up"
  /\ \E S \in SUBSET {r \in Resources : at[r] = "absent" /\ r # Helper} : Own(c, S)
  /\ Touch(c, There)
  /\ Scan(c, 3)
  /\ UNCHANGED <<claim, stage, fresh>>

\* stop reaches the containers of the project, exec one of them.
ComposeReach(c) ==
  /\ pc[c] = "act" /\ op[c] \in {"stop", "exec"}
  /\ Touch(c, {r \in There : at[r] # "bare"})
  /\ Done(c)
  /\ UNCHANGED <<claim, at, fresh>>

\* down -v --remove-orphans removes all or a part.
ComposeDown(c) ==
  /\ pc[c] = "act" /\ op[c] = "down"
  /\ \E S \in SUBSET There : Drop(S) /\ Touch(c, S)
  /\ Scan(c, 2)
  /\ UNCHANGED <<claim, stage, fresh>>

\* Mutant: what has the project's label is removed.
SweepUnverified(c) ==
  /\ pc[c] = "sweep"
  /\ \E r \in todo[c] :
       IF at[r] \in {"absent", "bare"}
       THEN /\ Set(todo, c, todo[c] \ {r})
            /\ UNCHANGED <<op, pc, round, present, target, result, fresh>>
       ELSE /\ Set(todo, c, todo[c] \ {r}) /\ Set(target, c, r) /\ Set(pc, c, "remove")
            /\ Set(fresh, c, fresh[c] \ {r})
            /\ UNCHANGED <<op, round, present, result>>
  /\ UNCHANGED <<docker, stage>>

\* remove_labeled_runtime_resources: the label of each is verified again.
Sweep(c) ==
  /\ pc[c] = "sweep"
  /\ \E r \in todo[c] :
       CASE at[r] \in {"absent", "bare"} ->
              /\ Set(todo, c, todo[c] \ {r})
              /\ Set(fresh, c, fresh[c] \ {r})
              /\ UNCHANGED <<op, pc, round, present, target, result>>
         [] at[r] = c ->
              /\ Set(todo, c, todo[c] \ {r}) /\ Set(target, c, r) /\ Set(pc, c, "remove")
              /\ Set(fresh, c, fresh[c] \ {r})
              /\ UNCHANGED <<op, round, present, result>>
         [] OTHER -> End(c, "refused") /\ UNCHANGED fresh
  /\ UNCHANGED <<docker, stage>>

\* By ID only the one that was verified, by name whatever has the name now.
Remove(c) ==
  /\ pc[c] = "remove"
  /\ IF at[target[c]] = c \/ (at[target[c]] # "absent" /\ target[c] \in Volumes)
     THEN /\ Drop({target[c]}) /\ Touch(c, {target[c]})
          /\ Set(pc, c, "sweep") /\ Set(target, c, None)
          /\ UNCHANGED <<op, round, todo, present, result>>
     ELSE End(c, "failed") /\ UNCHANGED <<at, lost>>
  /\ UNCHANGED <<claim, stage, fresh>>

Swept(c) ==
  /\ pc[c] = "sweep" /\ todo[c] = {}
  /\ Scan(c, 3)
  /\ UNCHANGED <<docker, stage, fresh>>

\* A helper that was left is replaced; the new one removes itself unless its
\* command dies first.
RepairSource(c) ==
  /\ pc[c] = "act" /\ op[c] = "repair"
  /\ IF at[Helper] \in {"absent", c}
     THEN Own(c, {Helper}) /\ Done(c)
     ELSE End(c, "failed") /\ UNCHANGED <<at, stage>>
  /\ UNCHANGED <<claim, lost, fresh>>

HelperExits ==
  /\ at[Helper] \in Tokens
  /\ Drop({Helper})
  /\ UNCHANGED <<claim, lost, stage, command, fresh>>

DropClaim(c) ==
  /\ pc[c] = "drop"
  /\ claim' = "absent"
  /\ lost' = (lost \/ claim \notin {"absent", c})
  /\ Done(c)
  /\ UNCHANGED <<at, fresh>>

-----------------------------------------------------------------------------
\* Other programs: they know no claims, but do not remove one.
Intrude ==
  /\ \E r \in Resources, k \in Foreign :
       /\ Cardinality({x \in Resources : at[x] \in Foreign}) < MaxForeign
       /\ at[r] = "absent" /\ (k = "bare" => r \in Expected)
       /\ at' = [at EXCEPT ![r] = k]
       /\ fresh' = [c \in Tokens |-> IF pc[c] = "idle" THEN {} ELSE fresh[c] \cup {r}]
  /\ UNCHANGED <<claim, lost, stage, command>>

Retreat ==
  /\ \E r \in There : Drop({r})
  /\ UNCHANGED <<claim, lost, stage, command, fresh>>

IntrudeClaim ==
  /\ claim = "absent" /\ claim' = "foreign"
  /\ UNCHANGED <<at, lost, stage, command, fresh>>

RetreatClaim ==
  /\ claim = "foreign" /\ claim' = "absent"
  /\ UNCHANGED <<at, lost, stage, command, fresh>>

Next ==
  \/ \E c \in Tokens :
       \/ Begin(c) \/ Abort(c) \/ Look(c) \/ Scanned(c)
       \/ FindClaim(c) \/ CreateClaim(c) \/ VerifyClaim(c)
       \/ ComposeUp(c) \/ ComposeReach(c) \/ ComposeDown(c)
       \/ Sweep(c) \/ Remove(c) \/ Swept(c)
       \/ RepairSource(c) \/ DropClaim(c)
  \/ HelperExits \/ Intrude \/ Retreat \/ IntrudeClaim \/ RetreatClaim

Spec == Init /\ [][Next]_vars

-----------------------------------------------------------------------------
\* No command starts, stops, changes or removes a resource or a claim of another
\* environment, nor one of another program that was there when the command last
\* looked (compose::up, stop, down_volumes, remove_runtime_claim).
NothingForeignTouched == ~lost

\* Whatever a command was doing when it died, the resources of an environment
\* are under its claim, so that two environments never share the project.
ResourcesAreClaimed == \A r \in Resources : at[r] \in Tokens => claim = at[r]

\* Once the removal of the runtime is recorded nothing of it is left but the
\* helper of the source's removal, and in the end neither that nor the claim.
RemovedIsDown ==
  \A c \in Tokens :
    /\ stage[c] \in {"removed", "gone"} => \A r \in Resources \ {Helper} : at[r] # c
    /\ stage[c] = "gone" => at[Helper] # c /\ claim # c

\* An environment is never refused its own resources for want of a claim: it
\* could neither stop nor destroy them again.
NeverUnclaimed == \A c \in Tokens : result[c] # "unclaimed"

\* The claim comes before the first resource and goes after the last one, whatever
\* command died in between, and no command mistakes it.
ResourcesStayClaimed == ResourcesAreClaimed /\ NeverUnclaimed
=============================================================================
