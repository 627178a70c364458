------------------------- MODULE RuntimeClaimProofs -------------------------
(***************************************************************************)
(* Proofs about the claim of a Compose project name.  The inductive        *)
(* invariant says what a command knows at each of its steps: that the      *)
(* claim is its own once it was verified, that what it has looked at is    *)
(* its own, absent or came later, and whether it has found something.      *)
(***************************************************************************)
EXTENDS RuntimeClaim, TLAPS

\* The teardown phase under which each command was admitted.
Admitted(c) ==
  /\ op[c] \in {"up", "exec"} => stage[c] = "live"
  /\ op[c] = "stop" => stage[c] \in {"live", "teardown"}
  /\ op[c] = "down" => stage[c] = "teardown"
  /\ op[c] \in {"repair", "release"} => stage[c] = "removed"

\* Which step a command can be at, in which round.
ControlInv(c) ==
  /\ pc[c] = "idle" <=> op[c] = None
  /\ pc[c] = "idle" => round[c] = 1 /\ ~present[c]
  /\ pc[c] = "scan" => \/ round[c] = 1 /\ op[c] \in {"up", "stop", "down", "exec", "release"}
                       \/ round[c] \in {2, 3} /\ op[c] \in {"up", "down"}
  /\ pc[c] \in {"claim", "create", "verify"} => round[c] = 1
  /\ pc[c] = "create" => op[c] = "up"
  /\ pc[c] = "act" => op[c] \in {"up", "stop", "down", "exec", "repair"}
  /\ pc[c] \in {"sweep", "remove"} => op[c] = "down"
  /\ pc[c] = "remove" => target[c] \in Resources
  /\ pc[c] = "drop" => op[c] = "release" /\ ~present[c]
  /\ pc[c] \in {"claim", "create", "verify", "act", "drop"} => todo[c] = {}

\* A command at one of these steps has verified the claim.
Verified(c) ==
  \/ pc[c] \in {"act", "sweep", "remove", "drop"}
  \/ pc[c] = "scan" /\ (round[c] # 1 \/ op[c] \in {"exec", "release"})

\* Verified, or with resources of its own found, the claim is the command's.
ClaimInv(c) == Verified(c) \/ present[c] => claim = c

\* A command at one of these steps has looked at all resources but those to do.
Looked(c) ==
  \/ pc[c] = "scan"
  \/ pc[c] \in {"claim", "create", "verify"} /\ op[c] \in {"up", "stop", "down"}
  \/ pc[c] = "drop"

\* What is foreign where a command has looked came after it looked.
ForeignInv(c) ==
  /\ pc[c] = "remove" /\ at[target[c]] \in Foreign => target[c] \in fresh[c]
  /\ (Looked(c) \/ pc[c] = "act") /\ op[c] \notin {"repair", "release"} =>
       \A r \in Resources \ todo[c] : at[r] \in Foreign => r \in fresh[c]

\* A command that has found nothing of its own has nothing where it has looked.
AbsentInv(c) ==
  Looked(c) /\ ~present[c] => \A r \in Resources \ todo[c] : at[r] # c

Known(c) == Admitted(c) /\ ControlInv(c) /\ ClaimInv(c) /\ ForeignInv(c) /\ AbsentInv(c)

\* The inductive invariant.
IInv ==
  /\ TypeOK
  /\ ResourcesAreClaimed /\ RemovedIsDown /\ NeverUnclaimed /\ NothingForeignTouched
  /\ \A c \in Tokens : Known(c)

-----------------------------------------------------------------------------
\* The steps of one command.
Step(c) ==
  \/ Begin(c) \/ Abort(c) \/ Look(c) \/ Scanned(c)
  \/ FindClaim(c) \/ CreateClaim(c) \/ VerifyClaim(c)
  \/ ComposeUp(c) \/ ComposeReach(c) \/ ComposeDown(c)
  \/ Sweep(c) \/ Remove(c) \/ Swept(c)
  \/ RepairSource(c) \/ DropClaim(c)

\* The parts of the type invariant, one for each kind of variable.
CommandType ==
  /\ op \in [Tokens -> {None, "up", "stop", "down", "exec", "repair", "release"}]
  /\ pc \in [Tokens -> {"idle", "scan", "claim", "create", "verify", "act", "sweep", "remove", "drop"}]
  /\ round \in [Tokens -> {1, 2, 3}]
  /\ todo \in [Tokens -> SUBSET Resources]
  /\ present \in [Tokens -> BOOLEAN]
  /\ target \in [Tokens -> Resources \cup {None}]
  /\ result \in [Tokens -> {None, "ok", "refused", "unclaimed", "failed"}]

StageType == stage \in [Tokens -> {"live", "teardown", "removed", "gone"}]

DockerType ==
  /\ claim \in {"absent", "foreign"} \cup Tokens
  /\ at \in [Resources -> {"absent"} \cup Foreign \cup Tokens]
  /\ \A r \in Resources : at[r] = "bare" => r \in Expected
  /\ lost \in BOOLEAN

FreshType == fresh \in [Tokens -> SUBSET Resources]

\* The type invariant is the conjunction of its parts, before a step ...
LEMMA TypeParts == TypeOK <=> CommandType /\ StageType /\ DockerType /\ FreshType
BY DEF TypeOK, CommandType, StageType, DockerType, FreshType

\* ... and after it.
LEMMA TypePartsNext ==
  ASSUME CommandType', StageType', DockerType', FreshType' PROVE TypeOK'
BY DEF TypeOK, CommandType, StageType, DockerType, FreshType

\* The ways a command moves on keep the types of its variables.
LEMMA EndType ==
  ASSUME TypeOK, NEW c \in Tokens, NEW outcome \in {None, "ok", "refused", "unclaimed", "failed"},
         End(c, outcome)
  PROVE  CommandType'
BY DEF TypeOK, CommandType, End, Set, None

LEMMA GotoType ==
  ASSUME TypeOK, NEW c \in Tokens,
         NEW step \in {"claim", "create", "verify", "act", "drop"}, Goto(c, step)
  PROVE  CommandType'
BY DEF TypeOK, CommandType, Goto, Set

LEMMA ScanType ==
  ASSUME TypeOK, NEW c \in Tokens, NEW n \in {1, 2, 3}, Scan(c, n)
  PROVE  CommandType'
BY DEF TypeOK, CommandType, Scan, Set

LEMMA DoneType ==
  ASSUME TypeOK, NEW c \in Tokens, Done(c)
  PROVE  CommandType' /\ StageType'
<1>1. CASE op[c] = "stop" /\ stage[c] = "teardown"
  <2>1. /\ Set(op, c, "down") /\ Set(pc, c, "scan") /\ Set(round, c, 1)
        /\ Set(todo, c, Resources) /\ Set(present, c, FALSE)
        /\ UNCHANGED <<target, result, stage>>
    BY <1>1 DEF Done
  <2>2. StageType' BY <2>1 DEF TypeOK, StageType
  <2>3. present' \in [Tokens -> BOOLEAN] BY <2>1 DEF TypeOK, Set
  <2>4. CommandType' BY <2>1, <2>3 DEF TypeOK, CommandType, Set
  <2> QED BY <2>2, <2>4
<1>2. CASE ~(op[c] = "stop" /\ stage[c] = "teardown")
  <2>1. CommandType' BY <1>2, EndType DEF Done
  <2>2. stage' = [stage EXCEPT ![c] = CASE op[c] = "down"    -> "removed"
                                          [] op[c] = "release" -> "gone"
                                          [] OTHER             -> @]
    BY <1>2 DEF Done
  <2>3. StageType' BY <2>2 DEF TypeOK, StageType
  <2> QED BY <2>1, <2>3
<1> QED BY <1>1, <1>2

\* The ways a verification ends.
LEMMA ScannedWays ==
  ASSUME TypeOK, NEW c \in Tokens, ControlInv(c), Scanned(c)
  PROVE  /\ pc[c] = "scan" /\ todo[c] = {} /\ UNCHANGED <<docker, fresh>>
         /\ \/ /\ op[c] \in {"up", "stop", "down"} /\ round[c] = 1
               /\ Goto(c, "claim") /\ UNCHANGED stage
            \/ /\ (op[c] = "up" /\ round[c] = 2) \/ op[c] = "exec"
               /\ Goto(c, "act") /\ UNCHANGED stage
            \/ op[c] = "up" /\ Done(c)
            \/ /\ op[c] = "down" /\ round[c] = 2 /\ present[c]
               /\ Set(pc, c, "sweep") /\ Set(todo, c, Resources)
               /\ UNCHANGED <<op, round, present, target, result, stage>>
            \/ op[c] = "down" /\ round[c] = 2 /\ Scan(c, 3) /\ UNCHANGED stage
            \/ op[c] = "down" /\ ~present[c] /\ Done(c)
            \/ End(c, "failed") /\ UNCHANGED stage
            \/ op[c] = "release" /\ ~present[c] /\ Goto(c, "drop") /\ UNCHANGED stage
<1>1. op[c] \in {"up", "stop", "down", "exec", "release"} /\ round[c] \in {1, 2, 3}
  BY DEF TypeOK, ControlInv, Scanned
<1>2. present[c] \in BOOLEAN BY DEF TypeOK
<1> QED BY <1>1, <1>2 DEF Scanned, ControlInv

\* A step of a command keeps the types.
LEMMA TypeStep ==
  ASSUME TypeOK, NEW c \in Tokens, Step(c), ControlInv(c) PROVE TypeOK'
<1>0. CommandType /\ StageType /\ DockerType /\ FreshType BY TypeParts
<1> USE DEF docker, command
<1>1. CASE Look(c)
  <2>1. UNCHANGED <<docker, stage>> BY <1>1 DEF Look
  <2>2. PICK r \in todo[c] :
          \/ /\ Set(todo, c, todo[c] \ {r})
             /\ Set(present, c, (present[c] \/ at[r] = c))
             /\ Set(fresh, c, fresh[c] \ {r})
             /\ UNCHANGED <<op, pc, round, target, result>>
          \/ End(c, "refused") /\ UNCHANGED fresh
    BY <1>1 DEF Look
  <2>3. CASE End(c, "refused") /\ UNCHANGED fresh
    BY <1>0, <2>1, <2>3, EndType, TypePartsNext DEF StageType, DockerType, FreshType
  <2>4. CASE /\ Set(todo, c, todo[c] \ {r})
             /\ Set(present, c, (present[c] \/ at[r] = c))
             /\ Set(fresh, c, fresh[c] \ {r})
             /\ UNCHANGED <<op, pc, round, target, result>>
    <3>1. present' \in [Tokens -> BOOLEAN] BY <2>4, <1>0 DEF CommandType, Set
    <3>2. todo' \in [Tokens -> SUBSET Resources] /\ FreshType' BY <2>4, <1>0 DEF CommandType, FreshType, Set
    <3> QED BY <1>0, <2>1, <2>4, <3>1, <3>2, TypePartsNext DEF CommandType, StageType, DockerType
  <2> QED BY <2>2, <2>3, <2>4
<1>2. CASE Scanned(c)
  <2>1. UNCHANGED <<docker, fresh>> BY <1>2, ScannedWays
  <2>2. CASE /\ Set(pc, c, "sweep") /\ Set(todo, c, Resources)
             /\ UNCHANGED <<op, round, present, target, result, stage>>
    BY <2>1, <2>2, <1>0, TypePartsNext DEF CommandType, Set, StageType, DockerType, FreshType
  <2>3. CASE \/ (Goto(c, "claim") \/ Goto(c, "act") \/ Goto(c, "drop")) /\ UNCHANGED stage
             \/ Scan(c, 3) /\ UNCHANGED stage
             \/ End(c, "failed") /\ UNCHANGED stage
             \/ Done(c)
    <3>1. CommandType' /\ StageType' BY <2>3, <1>0, EndType, GotoType, ScanType, DoneType DEF StageType
    <3> QED BY <1>0, <2>1, <3>1, TypePartsNext DEF DockerType, FreshType
  <2> QED BY <1>2, <2>2, <2>3, ScannedWays
<1>3. CASE FindClaim(c)
  <2>1. \/ (Goto(c, "verify") \/ Goto(c, "create") \/ End(c, "unclaimed") \/ End(c, "failed")) /\ UNCHANGED stage
        \/ Done(c)
    BY <1>3 DEF FindClaim
  <2>2. CommandType' /\ StageType' BY <2>1, <1>0, EndType, GotoType, DoneType DEF StageType
  <2>3. UNCHANGED <<docker, fresh>> BY <1>3 DEF FindClaim
  <2> QED BY <1>0, <2>2, <2>3, TypePartsNext DEF DockerType, FreshType
<1>4. CASE VerifyClaim(c)
  <2>1. \/ (Goto(c, "act") \/ Scan(c, 1) \/ Scan(c, 2) \/ End(c, "refused")) /\ UNCHANGED stage
        \/ Done(c)
    BY <1>4 DEF VerifyClaim
  <2>2. CommandType' /\ StageType' BY <2>1, <1>0, EndType, GotoType, ScanType, DoneType DEF StageType
  <2>3. UNCHANGED <<docker, fresh>> BY <1>4 DEF VerifyClaim
  <2> QED BY <1>0, <2>2, <2>3, TypePartsNext DEF DockerType, FreshType
<1>5. CASE ComposeReach(c)
  <2>1. CommandType' /\ StageType' BY <1>5, DoneType DEF ComposeReach
  <2>2. lost' \in BOOLEAN BY <1>5, <1>0 DEF ComposeReach, Touch, DockerType
  <2>3. UNCHANGED <<claim, at, fresh>> BY <1>5 DEF ComposeReach
  <2> QED BY <1>0, <2>1, <2>2, <2>3, TypePartsNext DEF DockerType, FreshType
<1>6. CASE Sweep(c)
  <2>1. UNCHANGED <<docker, stage>> BY <1>6 DEF Sweep
  <2>2. PICK r \in todo[c] :
          \/ /\ Set(todo, c, todo[c] \ {r})
             /\ Set(fresh, c, fresh[c] \ {r})
             /\ UNCHANGED <<op, pc, round, present, target, result>>
          \/ /\ Set(todo, c, todo[c] \ {r}) /\ Set(target, c, r) /\ Set(pc, c, "remove")
             /\ Set(fresh, c, fresh[c] \ {r})
             /\ UNCHANGED <<op, round, present, result>>
          \/ End(c, "refused") /\ UNCHANGED fresh
    BY <1>6 DEF Sweep
  <2>3. r \in Resources BY <1>0, <2>2 DEF CommandType
  <2>4. CASE End(c, "refused") /\ UNCHANGED fresh
    BY <1>0, <2>1, <2>4, EndType, TypePartsNext DEF StageType, DockerType, FreshType
  <2>5. CASE ~(End(c, "refused") /\ UNCHANGED fresh)
    BY <1>0, <2>1, <2>2, <2>3, <2>5, TypePartsNext DEF CommandType, StageType, DockerType, FreshType, Set
  <2> QED BY <2>4, <2>5
<1>7. CASE Remove(c)
  <2>1. UNCHANGED <<claim, stage, fresh>> BY <1>7 DEF Remove
  <2>2. \/ /\ Drop({target[c]}) /\ Touch(c, {target[c]})
           /\ Set(pc, c, "sweep") /\ Set(target, c, None)
           /\ UNCHANGED <<op, round, todo, present, result>>
        \/ End(c, "failed") /\ UNCHANGED <<at, lost>>
    BY <1>7 DEF Remove
  <2>3. CASE End(c, "failed") /\ UNCHANGED <<at, lost>>
    BY <1>0, <2>1, <2>3, EndType, TypePartsNext DEF StageType, DockerType, FreshType
  <2>4. CASE /\ Drop({target[c]}) /\ Touch(c, {target[c]})
             /\ Set(pc, c, "sweep") /\ Set(target, c, None)
             /\ UNCHANGED <<op, round, todo, present, result>>
    <3>1. CommandType' BY <2>4, <1>0 DEF CommandType, Set
    <3>2. lost' \in BOOLEAN BY <2>4, <1>0 DEF Touch, DockerType
    <3>3. DockerType' BY <2>1, <2>4, <3>2, <1>0 DEF Drop, DockerType
    <3> QED BY <1>0, <2>1, <3>1, <3>3, TypePartsNext DEF StageType, FreshType
  <2> QED BY <2>2, <2>3, <2>4
<1>8. CASE RepairSource(c)
  <2>1. CASE Own(c, {Helper}) /\ Done(c)
    <3>1. UNCHANGED <<claim, lost, fresh>> BY <1>8 DEF RepairSource
    <3>2. DockerType' BY <2>1, <3>1, <1>0, ResourcesAssumption, TokensAssumption DEF Own, DockerType
    <3> QED BY <2>1, <3>1, <3>2, <1>0, DoneType, TypePartsNext DEF FreshType
  <2>2. CASE ~(Own(c, {Helper}) /\ Done(c))
    BY <2>2, <1>8, <1>0, EndType, TypePartsNext DEF RepairSource, StageType, DockerType, FreshType
  <2> QED BY <2>1, <2>2
<1>9. CASE DropClaim(c)
  <2>1. CommandType' /\ StageType' BY <1>9, DoneType DEF DropClaim
  <2>2. lost' \in BOOLEAN BY <1>9, <1>0 DEF DropClaim, DockerType
  <2>3. claim' = "absent" /\ UNCHANGED <<at, fresh>> BY <1>9 DEF DropClaim
  <2> QED BY <1>0, <2>1, <2>2, <2>3, TypePartsNext DEF DockerType, FreshType
<1>10. CASE Begin(c)
  BY <1>0, <1>10, TypePartsNext DEF Begin, CommandType, StageType, DockerType, FreshType, Set, None
<1>11. CASE Abort(c)
  BY <1>0, <1>11, EndType, TypePartsNext DEF Abort, StageType, DockerType, FreshType
<1>12. CASE CreateClaim(c)
  BY <1>0, <1>12, GotoType, TypePartsNext DEF CreateClaim, StageType, DockerType, FreshType
<1>13. CASE ComposeUp(c)
  <2>1. PICK S \in SUBSET {r \in Resources : at[r] = "absent" /\ r # Helper} : Own(c, S)
    BY <1>13 DEF ComposeUp
  <2>2. lost' \in BOOLEAN BY <1>13, <1>0 DEF ComposeUp, Touch, DockerType
  <2>3. DockerType' BY <2>1, <2>2, <1>0, <1>13, TokensAssumption DEF ComposeUp, Own, DockerType
  <2> QED BY <1>0, <1>13, <2>3, ScanType, TypePartsNext DEF ComposeUp, StageType, FreshType
<1>14. CASE ComposeDown(c)
  <2>1. PICK S \in SUBSET There : Drop(S) /\ Touch(c, S) BY <1>14 DEF ComposeDown
  <2>2. lost' \in BOOLEAN BY <2>1, <1>0 DEF Touch, DockerType
  <2>3. DockerType' BY <2>1, <2>2, <1>0, <1>14 DEF ComposeDown, Drop, DockerType
  <2> QED BY <1>0, <1>14, <2>3, ScanType, TypePartsNext DEF ComposeDown, StageType, FreshType
<1>15. CASE Swept(c)
  BY <1>0, <1>15, ScanType, TypePartsNext DEF Swept, StageType, DockerType, FreshType
<1> QED
  BY <1>1, <1>2, <1>3, <1>4, <1>5, <1>6, <1>7, <1>8, <1>9, <1>10, <1>11, <1>12, <1>13, <1>14, <1>15
  DEF Step

-----------------------------------------------------------------------------
\* What a step of another command, or of another program, keeps for command d.
Keeps(d) ==
  /\ op'[d] = op[d] /\ pc'[d] = pc[d] /\ round'[d] = round[d] /\ todo'[d] = todo[d]
  /\ present'[d] = present[d] /\ target'[d] = target[d] /\ result'[d] = result[d]
  /\ stage'[d] = stage[d]
  /\ pc[d] # "idle" => fresh[d] \subseteq fresh'[d]
  /\ claim = d => claim' = d
  /\ \A r \in Resources : at'[r] = d => at[r] = d
  /\ \A r \in Resources : at'[r] \in Foreign => at[r] = at'[r] \/ pc[d] = "idle" \/ r \in fresh'[d]

\* What a command knows survives the steps of the others.
LEMMA KnownKept ==
  ASSUME TypeOK, NEW d \in Tokens, Known(d), Keeps(d) PROVE Known(d)'
<1>1. Admitted(d)' BY DEF Known, Admitted, Keeps
<1>2. ControlInv(d)' BY DEF Known, ControlInv, Keeps
<1>3. ClaimInv(d)' BY DEF Known, ClaimInv, Verified, Keeps
<1>4. ForeignInv(d)'
  <2>1. pc[d] = "remove" => target[d] \in Resources BY DEF Known, ControlInv
  <2> QED BY <2>1 DEF Known, ForeignInv, Looked, Keeps
<1>5. AbsentInv(d)' BY DEF Known, AbsentInv, Looked, Keeps
<1> QED BY <1>1, <1>2, <1>3, <1>4, <1>5 DEF Known

\* A step of one command keeps all of every other.
LEMMA OtherStep ==
  ASSUME IInv, NEW c \in Tokens, Step(c), NEW d \in Tokens, d # c PROVE Keeps(d)
<1> USE TokensAssumption, ResourcesAssumption DEF IInv, TypeOK, Set, End, Goto, Scan, Done, docker, command, Keeps
<1>1. CASE Begin(c) BY <1>1 DEF Begin
<1>2. CASE Abort(c) BY <1>2 DEF Abort
<1>3. CASE Look(c) BY <1>3 DEF Look
<1>4. CASE Scanned(c)
  <2>1. ControlInv(c) BY DEF Known
  <2> QED BY <1>4, <2>1, ScannedWays
<1>5. CASE FindClaim(c) BY <1>5 DEF FindClaim
<1>6. CASE CreateClaim(c) BY <1>6 DEF CreateClaim
<1>7. CASE VerifyClaim(c) BY <1>7 DEF VerifyClaim
<1>8. CASE ComposeUp(c) BY <1>8 DEF ComposeUp, Own, Foreign
<1>9. CASE ComposeReach(c) BY <1>9 DEF ComposeReach
<1>10. CASE ComposeDown(c) BY <1>10 DEF ComposeDown, Drop, Foreign
<1>11. CASE Sweep(c) BY <1>11 DEF Sweep
<1>12. CASE Remove(c) BY <1>12 DEF Remove, Drop, Foreign
<1>13. CASE Swept(c) BY <1>13 DEF Swept
<1>14. CASE RepairSource(c) BY <1>14 DEF RepairSource, Own, Foreign
<1>15. CASE DropClaim(c) BY <1>15 DEF DropClaim, Known, ClaimInv, Verified
<1> QED BY <1>1, <1>2, <1>3, <1>4, <1>5, <1>6, <1>7, <1>8, <1>9, <1>10, <1>11, <1>12, <1>13, <1>14, <1>15 DEF Step

\* So does a step of another program or of the helper.
LEMMA WorldStep ==
  ASSUME IInv, HelperExits \/ Intrude \/ Retreat \/ IntrudeClaim \/ RetreatClaim, NEW d \in Tokens
  PROVE  Keeps(d)
<1> USE TokensAssumption, ResourcesAssumption DEF IInv, TypeOK, docker, command, Keeps
<1>1. CASE HelperExits BY <1>1 DEF HelperExits, Drop, Foreign
<1>2. CASE Intrude BY <1>2 DEF Intrude, Foreign
<1>3. CASE Retreat BY <1>3 DEF Retreat, Drop, Foreign
<1>4. CASE IntrudeClaim BY <1>4 DEF IntrudeClaim
<1>5. CASE RetreatClaim BY <1>5 DEF RetreatClaim
<1> QED BY <1>1, <1>2, <1>3, <1>4, <1>5

-----------------------------------------------------------------------------
\* After its own step a command knows what its next step relies on.
LEMMA KnownStep ==
  ASSUME IInv, NEW c \in Tokens, Step(c) PROVE Known(c)'
<1> USE TokensAssumption, ResourcesAssumption
    DEF IInv, TypeOK, None, Foreign, Set, End, Goto, Scan, Done, docker, command,
        Known, Admitted, ControlInv, ClaimInv, ForeignInv, AbsentInv, Looked, Verified, ResourcesAreClaimed, RemovedIsDown
<1>1. CASE Begin(c) BY <1>1 DEF Begin
<1>2. CASE Abort(c) BY <1>2 DEF Abort
<1>3. CASE Look(c)
  <2>1. pc[c] = "scan" /\ UNCHANGED <<docker, stage>> BY <1>3 DEF Look
  <2>2. PICK r \in todo[c] :
          \/ /\ at[r] \in {"absent", c} \/ (at[r] = "bare" /\ op[c] = "release")
             /\ Set(todo, c, todo[c] \ {r})
             /\ Set(present, c, (present[c] \/ at[r] = c))
             /\ Set(fresh, c, fresh[c] \ {r})
             /\ UNCHANGED <<op, pc, round, target, result>>
          \/ End(c, "refused") /\ UNCHANGED fresh
    BY <1>3 DEF Look
  <2>3. CASE End(c, "refused") /\ UNCHANGED fresh BY <2>1, <2>3
  <2>4. CASE /\ at[r] \in {"absent", c} \/ (at[r] = "bare" /\ op[c] = "release")
             /\ Set(todo, c, todo[c] \ {r})
             /\ Set(present, c, (present[c] \/ at[r] = c))
             /\ Set(fresh, c, fresh[c] \ {r})
             /\ UNCHANGED <<op, pc, round, target, result>>
    <3>1. present'[c] = (present[c] \/ at[r] = c) BY <2>4
    <3>2. todo'[c] = todo[c] \ {r} /\ fresh'[c] = fresh[c] \ {r} BY <2>4
    <3>3. ClaimInv(c)' BY <2>1, <2>2, <2>4, <3>1
    <3>4. AbsentInv(c)'
      <4>1. SUFFICES ASSUME ~present'[c], NEW q \in Resources \ todo'[c] PROVE at[q] # c
        BY <2>1 DEF AbsentInv
      <4>2. ~present[c] /\ at[r] # c BY <3>1, <4>1
      <4>3. q \in Resources \ todo[c] \/ q = r BY <3>2, <4>1
      <4>4. AbsentInv(c) /\ Looked(c) BY <2>1
      <4> QED BY <4>2, <4>3, <4>4 DEF AbsentInv
    <3>5. ForeignInv(c)' BY <2>1, <2>4, <3>2
    <3>6. Admitted(c)' /\ ControlInv(c)' BY <2>1, <2>4, <3>2
    <3> QED BY <3>3, <3>4, <3>5, <3>6
  <2> QED BY <2>2, <2>3, <2>4
<1>4. CASE Scanned(c)
  <2>1. ControlInv(c) BY DEF Known
  <2> QED BY <1>4, <2>1, ScannedWays
<1>5. CASE FindClaim(c) BY <1>5 DEF FindClaim
<1>6. CASE CreateClaim(c)
  <2>1. pc'[c] = "verify" /\ UNCHANGED <<op, round, todo, present, target, at, stage, fresh>> /\ pc[c] = "create"
    BY <1>6 DEF CreateClaim
  <2>2. ClaimInv(c)' BY <1>6, <2>1 DEF CreateClaim
  <2>3. Admitted(c)' /\ ControlInv(c)' BY <2>1
  <2>4. ForeignInv(c)' /\ AbsentInv(c)' BY <2>1
  <2> QED BY <2>2, <2>3, <2>4
<1>7. CASE VerifyClaim(c) BY <1>7 DEF VerifyClaim
<1>8. CASE ComposeUp(c) BY <1>8 DEF ComposeUp, Own
<1>9. CASE ComposeReach(c) BY <1>9 DEF ComposeReach
<1>10. CASE ComposeDown(c) BY <1>10 DEF ComposeDown, Drop
<1>11. CASE Sweep(c) BY <1>11 DEF Sweep
<1>12. CASE Remove(c) BY <1>12 DEF Remove, Drop
<1>13. CASE Swept(c) BY <1>13 DEF Swept
<1>14. CASE RepairSource(c) BY <1>14 DEF RepairSource, Own
<1>15. CASE DropClaim(c) BY <1>15 DEF DropClaim
<1> QED
  BY <1>1, <1>2, <1>3, <1>4, <1>5, <1>6, <1>7, <1>8, <1>9, <1>10, <1>11, <1>12, <1>13, <1>14, <1>15
  DEF Step

\* Only a verified command makes resources, only an empty one drops the claim.
LEMMA ClaimedStep ==
  ASSUME IInv, NEW c \in Tokens, Step(c) PROVE ResourcesAreClaimed'
<1> USE TokensAssumption, ResourcesAssumption
    DEF IInv, TypeOK, None, Foreign, Set, End, Goto, Scan, Done, docker, command,
        Known, ClaimInv, AbsentInv, Looked, Verified, ResourcesAreClaimed, ControlInv
<1>1. CASE Begin(c) BY <1>1 DEF Begin
<1>2. CASE Abort(c) BY <1>2 DEF Abort
<1>3. CASE Look(c) BY <1>3 DEF Look
<1>4. CASE Scanned(c)
  <2>1. ControlInv(c) BY DEF Known
  <2> QED BY <1>4, <2>1, ScannedWays
<1>5. CASE FindClaim(c) BY <1>5 DEF FindClaim
<1>6. CASE CreateClaim(c) BY <1>6 DEF CreateClaim
<1>7. CASE VerifyClaim(c) BY <1>7 DEF VerifyClaim
<1>8. CASE ComposeUp(c) BY <1>8 DEF ComposeUp, Own
<1>9. CASE ComposeReach(c) BY <1>9 DEF ComposeReach
<1>10. CASE ComposeDown(c) BY <1>10 DEF ComposeDown, Drop
<1>11. CASE Sweep(c) BY <1>11 DEF Sweep
<1>12. CASE Remove(c) BY <1>12 DEF Remove, Drop
<1>13. CASE Swept(c) BY <1>13 DEF Swept
<1>14. CASE RepairSource(c) BY <1>14 DEF RepairSource, Own
<1>15. CASE DropClaim(c) BY <1>15 DEF DropClaim
<1> QED
  BY <1>1, <1>2, <1>3, <1>4, <1>5, <1>6, <1>7, <1>8, <1>9, <1>10, <1>11, <1>12, <1>13, <1>14, <1>15
  DEF Step

\* A removal is recorded only after nothing was found.
LEMMA RemovedStep ==
  ASSUME IInv, NEW c \in Tokens, Step(c) PROVE RemovedIsDown'
<1> USE TokensAssumption, ResourcesAssumption
    DEF IInv, TypeOK, None, Foreign, Set, End, Goto, Scan, Done, docker, command,
        Known, Admitted, ControlInv, ClaimInv, AbsentInv, Looked, Verified, ResourcesAreClaimed, RemovedIsDown
<1>1. CASE Begin(c) BY <1>1 DEF Begin
<1>2. CASE Abort(c) BY <1>2 DEF Abort
<1>3. CASE Look(c) BY <1>3 DEF Look
<1>4. CASE Scanned(c)
  <2>1. ControlInv(c) BY DEF Known
  <2> QED BY <1>4, <2>1, ScannedWays
<1>5. CASE FindClaim(c) BY <1>5 DEF FindClaim
<1>6. CASE CreateClaim(c) BY <1>6 DEF CreateClaim
<1>7. CASE VerifyClaim(c) BY <1>7 DEF VerifyClaim
<1>8. CASE ComposeUp(c) BY <1>8 DEF ComposeUp, Own
<1>9. CASE ComposeReach(c) BY <1>9 DEF ComposeReach
<1>10. CASE ComposeDown(c) BY <1>10 DEF ComposeDown, Drop
<1>11. CASE Sweep(c) BY <1>11 DEF Sweep
<1>12. CASE Remove(c) BY <1>12 DEF Remove, Drop
<1>13. CASE Swept(c) BY <1>13 DEF Swept
<1>14. CASE RepairSource(c) BY <1>14 DEF RepairSource, Own
<1>15. CASE DropClaim(c) BY <1>15 DEF DropClaim
<1> QED
  BY <1>1, <1>2, <1>3, <1>4, <1>5, <1>6, <1>7, <1>8, <1>9, <1>10, <1>11, <1>12, <1>13, <1>14, <1>15
  DEF Step

\* A command that found resources of its own finds its claim.
LEMMA ResultStep ==
  ASSUME IInv, NEW c \in Tokens, Step(c) PROVE NeverUnclaimed'
<1> USE TokensAssumption, ResourcesAssumption
    DEF IInv, TypeOK, None, Foreign, Set, End, Goto, Scan, Done, docker, command,
        Known, ClaimInv, NeverUnclaimed
<1>1. CASE Begin(c) BY <1>1 DEF Begin
<1>2. CASE Abort(c) BY <1>2 DEF Abort
<1>3. CASE Look(c) BY <1>3 DEF Look
<1>4. CASE Scanned(c)
  <2>1. ControlInv(c) BY DEF Known
  <2> QED BY <1>4, <2>1, ScannedWays
<1>5. CASE FindClaim(c) BY <1>5 DEF FindClaim
<1>6. CASE CreateClaim(c) BY <1>6 DEF CreateClaim
<1>7. CASE VerifyClaim(c) BY <1>7 DEF VerifyClaim
<1>8. CASE ComposeUp(c) BY <1>8 DEF ComposeUp, Own
<1>9. CASE ComposeReach(c) BY <1>9 DEF ComposeReach
<1>10. CASE ComposeDown(c) BY <1>10 DEF ComposeDown, Drop
<1>11. CASE Sweep(c) BY <1>11 DEF Sweep
<1>12. CASE Remove(c) BY <1>12 DEF Remove, Drop
<1>13. CASE Swept(c) BY <1>13 DEF Swept
<1>14. CASE RepairSource(c) BY <1>14 DEF RepairSource, Own
<1>15. CASE DropClaim(c) BY <1>15 DEF DropClaim
<1> QED
  BY <1>1, <1>2, <1>3, <1>4, <1>5, <1>6, <1>7, <1>8, <1>9, <1>10, <1>11, <1>12, <1>13, <1>14, <1>15
  DEF Step

\* Under its own claim a command touches nothing it should have known of.
LEMMA TouchStep ==
  ASSUME IInv, NEW c \in Tokens, Step(c) PROVE NothingForeignTouched'
<1>1. lost = FALSE BY DEF IInv, NothingForeignTouched
<1>2. CASE UNCHANGED lost BY <1>1, <1>2 DEF NothingForeignTouched
<1>3. ASSUME NEW S \in SUBSET Resources, Touch(c, S), claim = c,
             \A r \in S : at[r] \in Foreign => r \in fresh[c]
      PROVE  NothingForeignTouched'
  <2>1. \A r \in S : at[r] \notin Tokens \ {c}
    BY <1>3, TokensAssumption DEF IInv, ResourcesAreClaimed
  <2> QED BY <1>1, <1>3, <2>1 DEF Touch, NothingForeignTouched
<1>4. Known(c) /\ TypeOK BY DEF IInv
<1>5. There \subseteq Resources BY DEF There
<1>6. pc[c] = "act" => claim = c BY <1>4 DEF Known, ClaimInv, Verified
<1>7. pc[c] = "act" /\ op[c] \in {"up", "stop", "down", "exec"} =>
        \A r \in Resources : at[r] \in Foreign => r \in fresh[c]
  BY <1>4 DEF Known, ForeignInv, ControlInv
<1>8. CASE ComposeUp(c) BY <1>3, <1>5, <1>6, <1>7, <1>8 DEF ComposeUp, There
<1>9. CASE ComposeReach(c)
  <2>1. {r \in There : at[r] # "bare"} \in SUBSET Resources BY <1>5
  <2> QED BY <1>3, <1>6, <1>7, <1>9, <2>1 DEF ComposeReach
<1>10. CASE ComposeDown(c)
  <2>1. PICK S \in SUBSET There : Touch(c, S) BY <1>10 DEF ComposeDown
  <2> QED BY <1>3, <1>5, <1>6, <1>7, <1>10, <2>1 DEF ComposeDown
<1>11. CASE Remove(c) /\ Touch(c, {target[c]})
  <2>1. pc[c] = "remove" BY <1>11 DEF Remove
  <2>2. claim = c /\ target[c] \in Resources BY <1>4, <2>1 DEF Known, ClaimInv, Verified, ControlInv
  <2>3. at[target[c]] \in Foreign => target[c] \in fresh[c] BY <1>4, <2>1 DEF Known, ForeignInv
  <2> QED BY <1>3, <1>11, <2>2, <2>3
<1>12. CASE DropClaim(c)
  <2>1. pc[c] = "drop" BY <1>12 DEF DropClaim
  <2>2. claim = c BY <1>4, <2>1 DEF Known, ClaimInv, Verified
  <2> QED BY <1>1, <1>12, <2>2 DEF DropClaim, NothingForeignTouched
<1> QED
  BY <1>2, <1>8, <1>9, <1>10, <1>11, <1>12
  DEF Step, docker, Begin, Abort, Look, Scanned, FindClaim, CreateClaim, VerifyClaim, Sweep, Remove,
      Swept, RepairSource

-----------------------------------------------------------------------------
\* Other programs break none of the properties.
LEMMA WorldSafe ==
  ASSUME IInv, HelperExits \/ Intrude \/ Retreat \/ IntrudeClaim \/ RetreatClaim
  PROVE  /\ TypeOK' /\ ResourcesAreClaimed' /\ RemovedIsDown'
         /\ NeverUnclaimed' /\ NothingForeignTouched'
<1> USE TokensAssumption, ResourcesAssumption
    DEF IInv, TypeOK, docker, command, Foreign, ResourcesAreClaimed, RemovedIsDown, NeverUnclaimed,
        NothingForeignTouched
<1>1. CASE HelperExits BY <1>1 DEF HelperExits, Drop
<1>2. CASE Intrude
  <2>1. UNCHANGED <<claim, lost, stage, command>> BY <1>2 DEF Intrude
  <2>2. FreshType'
    BY <1>2 DEF Intrude, FreshType
  <2>3. PICK r \in Resources, k \in Foreign :
          at[r] = "absent" /\ (k = "bare" => r \in Expected) /\ at' = [at EXCEPT ![r] = k]
    BY <1>2 DEF Intrude
  <2> QED BY <2>1, <2>2, <2>3 DEF FreshType
<1>3. CASE Retreat BY <1>3 DEF Retreat, Drop
<1>4. CASE IntrudeClaim BY <1>4 DEF IntrudeClaim
<1>5. CASE RetreatClaim BY <1>5 DEF RetreatClaim
<1> QED BY <1>1, <1>2, <1>3, <1>4, <1>5

\* The invariant is inductive.
LEMMA StepSafe == IInv /\ [Next]_vars => IInv'
<1> SUFFICES ASSUME IInv, [Next]_vars PROVE IInv' OBVIOUS
<1>1. CASE UNCHANGED vars
  BY <1>1
  DEF vars, docker, command, IInv, TypeOK, ResourcesAreClaimed, RemovedIsDown, NeverUnclaimed,
      NothingForeignTouched, Known, Admitted, ControlInv, ClaimInv, ForeignInv, AbsentInv, Looked,
      Verified
<1>2. CASE \E c \in Tokens : Step(c)
  <2>1. PICK c \in Tokens : Step(c) BY <1>2
  <2>2. \A d \in Tokens : Known(d)'
    BY <2>1, KnownStep, OtherStep, KnownKept DEF IInv
  <2>3. TypeOK' BY <2>1, TypeStep DEF IInv, Known
  <2> QED BY <2>1, <2>2, <2>3, ClaimedStep, RemovedStep, ResultStep, TouchStep DEF IInv
<1>3. CASE HelperExits \/ Intrude \/ Retreat \/ IntrudeClaim \/ RetreatClaim
  <2>1. \A d \in Tokens : Known(d)' BY <1>3, WorldStep, KnownKept DEF IInv
  <2> QED BY <1>3, <2>1, WorldSafe DEF IInv
<1> QED BY <1>1, <1>2, <1>3 DEF Next, Step

-----------------------------------------------------------------------------
\* What every command knows at each of its steps, whatever the others and other
\* programs do.
THEOREM Inductive == Spec => []IInv
<1>1. Init => IInv
  <2> SUFFICES ASSUME Init PROVE IInv OBVIOUS
  <2>1. TypeOK BY DEF Init, TypeOK, None, Foreign
  <2>2. ResourcesAreClaimed /\ RemovedIsDown /\ NeverUnclaimed /\ NothingForeignTouched
    BY TokensAssumption
    DEF Init, ResourcesAreClaimed, RemovedIsDown, NeverUnclaimed, NothingForeignTouched, None
  <2>3. ASSUME NEW c \in Tokens PROVE Known(c)
    BY <2>3
    DEF Init, Known, Admitted, ControlInv, ClaimInv, ForeignInv, AbsentInv, Looked, Verified, None
  <2> QED BY <2>1, <2>2, <2>3 DEF IInv
<1> QED BY <1>1, StepSafe, PTL DEF Spec

\* The variables keep their types.
THEOREM TypeCorrect == Spec => []TypeOK
<1>1. IInv => TypeOK BY DEF IInv
<1> QED BY <1>1, Inductive, PTL

\* Of any number of environments with the same names none touches what belongs to
\* another one, or to a program that was there when it looked (compose/runtime.rs).
THEOREM NothingForeignIsTouched == Spec => []NothingForeignTouched
<1>1. IInv => NothingForeignTouched BY DEF IInv
<1> QED BY <1>1, Inductive, PTL

\* Wherever commands die, resources are under the claim of their environment, and
\* none is refused for want of it (ensure_runtime_claim, remove_runtime_claim).
THEOREM ResourcesKeepClaim == Spec => []ResourcesStayClaimed
<1>1. IInv => ResourcesStayClaimed BY DEF IInv, ResourcesStayClaimed
<1> QED BY <1>1, Inductive, PTL

\* A removal that is recorded is complete (down_volumes, remove_runtime_claim).
THEOREM RemovedStaysDown == Spec => []RemovedIsDown
<1>1. IInv => RemovedIsDown BY DEF IInv
<1> QED BY <1>1, Inductive, PTL
=============================================================================
