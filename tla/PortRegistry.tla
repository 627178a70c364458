---------------------------- MODULE PortRegistry ----------------------------
(***************************************************************************)
(* What the port lease registry promises to the environments of a user,    *)
(* without files, transactions or locks: each step takes all ports of an   *)
(* environment or gives them all up, no port is taken twice, and they are  *)
(* taken for good while the environment is published.  PortLeases          *)
(* implements this with a registry file that is read, changed in memory    *)
(* and written back, beside a manifest of each environment.                *)
(*                                                                         *)
(* A registry that is lost in the middle of a transaction may be taken for *)
(* an empty one.  From then on only what NoPortTwice says of the new leases*)
(* is promised, and that nothing runs but what is published.               *)
(***************************************************************************)
CONSTANTS Envs, Ports

VARIABLES
  leases,     \* pairs of a port and its holder
  published,  \* environments that are complete and not being torn down
  running,    \* environments whose ports are bound
  intact      \* the registry was never lost in the middle of a transaction

vars == <<leases, published, running, intact>>

Init == leases = {} /\ published = {} /\ running = {} /\ intact = TRUE

Of(e)     == {l \in leases : l[2] = e}
Free(p)   == \A e \in Envs : <<p, e>> \notin leases

Reserve(e) ==
  /\ Of(e) = {} /\ e \notin published
  /\ \E some \in SUBSET {p \in Ports : Free(p)} : leases' = leases \cup (some \X {e})
  /\ UNCHANGED <<published, running>>

Publish(e) ==
  /\ Of(e) # {}
  /\ published' = published \cup {e}
  /\ UNCHANGED <<leases, running>>

Bind(e) ==
  /\ e \in published
  /\ running' = running \cup {e}
  /\ UNCHANGED <<leases, published>>

Withdraw(e) ==
  /\ published' = published \ {e}
  /\ running' = running \ {e}
  /\ UNCHANGED leases

Release(e) ==
  /\ e \notin published \cup running
  /\ leases' = leases \ Of(e)
  /\ UNCHANGED <<published, running>>

\* No port has two holders, and what is bound is published and leased.
NoPortTwice   == \A l, m \in leases : l[1] = m[1] => l = m
BoundIsLeased ==
  /\ running \subseteq published
  /\ intact => \A e \in published : Of(e) # {}

Keep ==
  /\ intact /\ intact'
  /\ \E e \in Envs : Reserve(e) \/ Publish(e) \/ Bind(e) \/ Withdraw(e) \/ Release(e)

Lose == ~intact' /\ NoPortTwice' /\ BoundIsLeased'

Next == Keep \/ Lose

Spec == Init /\ [][Next]_vars
=============================================================================
