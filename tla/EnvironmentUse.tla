--------------------------- MODULE EnvironmentUse ---------------------------
(***************************************************************************)
(* What the locks of an environment promise to those who use it, without   *)
(* any lock: each invocation either does not use the environment or uses   *)
(* it in one way, begins to use it only when all the others allow that,    *)
(* and only who creates it or has it alone moves it to another stage.      *)
(* EnvironmentAccess implements this with two flock(2) files.              *)
(***************************************************************************)
CONSTANT Procs   \* invocations of the CLI

VARIABLES
  stage,  \* durable stage of the environment
  use     \* how each invocation uses it

vars == <<stage, use>>

Stages == {"absent", "bare", "pending", "published", "teardown", "removed"}

\* create: from the new root to the end of post_create hooks (for launch, until
\* it starts the runtime).  alone: up, stop, repair, destroy.  run: run and exec
\* up to their child, and the child after them, with or without its parent.
\* look: open and db status.
Uses == {"none", "create", "alone", "run", "look"}

\* The uses that may go on beside each one.
Beside ==
  [create |-> {"none", "look"},
   alone  |-> {"none"},
   run    |-> {"none", "run", "look"},
   look   |-> {"none", "create", "run", "look"}]

\* The stages in which each use may begin.
Admitted ==
  [create |-> {"absent"},
   alone  |-> {"pending", "published", "teardown"},
   run    |-> {"published"},
   look   |-> {"published"}]

\* The stages each use may move the environment to.
Moves ==
  [create |-> [absent |-> {}, bare |-> {"pending", "removed"}, pending |-> {"published", "removed"},
               published |-> {}, teardown |-> {}, removed |-> {}],
   alone  |-> [absent |-> {}, bare |-> {}, pending |-> {"published", "removed"},
               published |-> {"teardown"}, teardown |-> {"removed"}, removed |-> {}]]

Init ==
  /\ stage \in {"absent", "pending", "published", "teardown"}
  /\ use = [p \in Procs |-> "none"]

AllowedBy(p, u) == \A q \in Procs \ {p} : use[q] \in Beside[u]

Become(p, u) == use' = [use EXCEPT ![p] = u]

Create(p) ==
  /\ use[p] = "none" /\ stage = "absent" /\ AllowedBy(p, "create")
  /\ stage' = "bare"
  /\ Become(p, "create")

Enter(p, u) ==
  /\ use[p] = "none" /\ u \in {"alone", "run", "look"}
  /\ stage \in Admitted[u] /\ AllowedBy(p, u)
  /\ Become(p, u)
  /\ UNCHANGED stage

\* launch goes on to start what it created, and then to run the agent in it,
\* without letting anybody in between.
Promote(p) ==
  /\ use[p] = "create" /\ stage = "published" /\ AllowedBy(p, "alone")
  /\ Become(p, "alone")
  /\ UNCHANGED stage

Downgrade(p) ==
  /\ use[p] = "alone" /\ stage = "published"
  /\ Become(p, "run")
  /\ UNCHANGED stage

Move(p) ==
  /\ use[p] \in {"create", "alone"}
  /\ stage' \in Moves[use[p]][stage]

Work(p) == Move(p) /\ stage' # "removed" /\ UNCHANGED use

\* A use ends, at any time, and may move the stage with its last step.
Leave(p) ==
  /\ use[p] # "none"
  /\ Become(p, "none")
  /\ Move(p) \/ UNCHANGED stage

Next ==
  \E p \in Procs :
    \/ Create(p) \/ (\E u \in Uses : Enter(p, u)) \/ Promote(p) \/ Downgrade(p)
    \/ Work(p) \/ Leave(p)

Spec == Init /\ [][Next]_vars

-----------------------------------------------------------------------------
TypeOK == stage \in Stages /\ use \in [Procs -> Uses]

\* At any time the uses of any two invocations may go on beside each other.
Compatible ==
  \A p, q \in Procs : p # q /\ use[p] # "none" => use[q] \in Beside[use[p]]

\* Whoever runs or looks does so in a published environment.
UsedIsPublished == \A p \in Procs : use[p] \in {"run", "look"} => stage = "published"
=============================================================================
