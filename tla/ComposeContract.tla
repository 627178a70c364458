--------------------------- MODULE ComposeContract ---------------------------
(***************************************************************************)
(* The published ports of the Compose files: what `compose plan` reads of  *)
(* a file, what `compose apply` makes of its lines, the configuration that *)
(* `init` writes from the plan, and the contract every later command holds *)
(* the files to.  Three readings of one text meet here: the YAML values,   *)
(* the lines, and the variables Compose replaces.                          *)
(*                                                                         *)
(* A file has the ports of its services in order, and the lines outside    *)
(* them that look like a fixed mapping, by their host port.  A name is a   *)
(* sequence of words and separators, in one case of letters.  A port has   *)
(*   service, container  - a name, and the word of the container's port    *)
(*   host                - a fixed port, a variable, missing, or other     *)
(*   ip                  - the address it binds, None if it names none     *)
(*   form, own           - short or long, and on lines of its own or not   *)
(***************************************************************************)
EXTENDS Integers, Sequences, FiniteSets

None == "none"
Addresses == {None, "localhost", "127.0.0.1", "::1", "0.0.0.0", "192.0.2.1"}

Fixed(port)    == [kind |-> "fixed", port |-> port, variable |-> <<>>]
Variable(name) == [kind |-> "variable", port |-> 0, variable |-> name]
Missing        == [kind |-> "missing", port |-> 0, variable |-> <<>>]
Other          == [kind |-> "other", port |-> 0, variable |-> <<>>]  \* a range, an expression

Loopback(ip)   == ip \in {"localhost", "127.0.0.1", "::1"}
SafeHostIp(ip) == Loopback(ip) \/ ip = "0.0.0.0"

\* port_declarations: the ports of a file, with their names, if it can be read.
Readable(file) ==
  /\ ~file.include
  /\ \A i \in DOMAIN file.ports :
       LET p == file.ports[i]
       IN p.host # Other /\ (p.ip = None \/ SafeHostIp(p.ip)) /\ p.protocol = "tcp"

Name(file, i) ==
  LET p == file.ports[i]
  IN IF \E j \in 1..(i - 1) : file.ports[j].service = p.service
     THEN p.service \o <<"-", p.container>> ELSE p.service

EnvName(name) == [k \in DOMAIN name |-> IF name[k] \in {"-", "."} THEN "_" ELSE name[k]]

-----------------------------------------------------------------------------
\* The variable of a port: its own, or one made from its name.
Env(file, i) ==
  LET p == file.ports[i]
  IN IF p.host.kind = "variable" THEN p.host.variable ELSE EnvName(Name(file, i)) \o <<"_", "PORT">>

PlanOk(file) ==
  /\ Readable(file)
  /\ \A i \in DOMAIN file.ports :
       LET p == file.ports[i]
       IN /\ p.host # Missing
          /\ p.ip # None => Loopback(p.ip)
          /\ p.host.kind = "variable" => Loopback(p.ip)
          /\ \A j \in 1..(i - 1) : Env(file, i) # Env(file, j)

Plan(file) ==
  [i \in DOMAIN file.ports |->
     LET p == file.ports[i]
     IN [name |-> Name(file, i), service |-> p.service, container |-> p.container,
         env |-> Env(file, i), host |-> IF p.ip = None THEN "127.0.0.1" ELSE p.ip,
         current |-> IF p.host.kind = "fixed" THEN p.host.port ELSE 0]]

-----------------------------------------------------------------------------
\* What the search through the text sees: a short mapping or a published line
\* with a line of its own; an IPv6 address has too many colons for it.
SeenInText(p) ==
  p.host.kind = "fixed" /\ p.own /\ (p.form = "short" => p.ip # "::1")

DetectFixedHostPorts(file) ==
  {[at |-> "port", index |-> i, port |-> file.ports[i].host.port] :
     i \in {k \in DOMAIN file.ports : SeenInText(file.ports[k])}}
  \cup {[at |-> "stray", index |-> i, port |-> file.strays[i]] : i \in DOMAIN file.strays}

\* The planned ports that a line may be of.
Matching(plan, port) == {i \in DOMAIN plan : plan[i].current = port}

ApplyOk(file) ==
  LET plan  == Plan(file)
      lines == DetectFixedHostPorts(file)
  IN /\ PlanOk(file)
     /\ Cardinality(lines) = Cardinality({i \in DOMAIN plan : plan[i].current # 0})
     /\ \A l \in lines : Cardinality(Matching(plan, l.port)) = 1

\* Mutant: the long form gets its variable but no address.
RewriteLeavingAddress(file, p) ==
  LET q == Plan(file)[CHOOSE i \in Matching(Plan(file), p.host.port) : TRUE]
  IN IF p.form = "short"
     THEN [p EXCEPT !.host = Variable(q.env), !.ip = q.host, !.container = q.container]
     ELSE [p EXCEPT !.host = Variable(q.env)]

\* One line: the short form is written anew from the plan, the long one gets
\* the variable, and an address if a port of that number names none.
Rewrite(file, p) ==
  LET q == Plan(file)[CHOOSE i \in Matching(Plan(file), p.host.port) : TRUE]
  IN IF p.form = "short"
     THEN [p EXCEPT !.host = Variable(q.env), !.ip = q.host, !.container = q.container]
     ELSE [p EXCEPT !.host = Variable(q.env),
                    !.ip = IF \E i \in DOMAIN file.ports :
                                /\ file.ports[i].host = p.host /\ file.ports[i].ip = None
                           THEN "127.0.0.1" ELSE @]

\* The file after apply, if `now` is what it holds when it is to be replaced.
Applied(file, now) ==
  IF ~ApplyOk(file) \/ now # file THEN now
  ELSE [file EXCEPT
          !.ports = [i \in DOMAIN file.ports |->
                       IF SeenInText(file.ports[i]) THEN Rewrite(file, file.ports[i])
                       ELSE file.ports[i]],
          !.strays = <<>>]

-----------------------------------------------------------------------------
\* default_config: what the ports publish, and the variables that are generated;
\* the variables of its own come last.
StacksteadId == <<"STACKSTEAD_ID">>
DatabaseUrl  == <<"DATABASE_URL">>

OwnVariables(plan) ==
  {StacksteadId} \cup
  (IF \E i \in DOMAIN plan : plan[i].container = "5432" /\ plan[i].name = plan[i].service
   THEN {DatabaseUrl} ELSE {})

LastOf(plan, I) == plan[CHOOSE i \in I : \A j \in I : j <= i]

Exposed(plan) ==
  [n \in {plan[i].name : i \in DOMAIN plan} |->
     LastOf(plan, {i \in DOMAIN plan : plan[i].name = n}).container]

Generated(plan) ==
  [v \in {plan[i].env : i \in DOMAIN plan} \cup OwnVariables(plan) |->
     IF v \in OwnVariables(plan) THEN <<>>  \* no port
     ELSE LastOf(plan, {i \in DOMAIN plan : plan[i].env = v}).name]

-----------------------------------------------------------------------------
Declared(files) == UNION {{<<f, i>> : i \in DOMAIN files[f].ports} : f \in DOMAIN files}
At(files, d)    == files[d[1]].ports[d[2]]

\* Mutant: two ports may use one allocation under different variables.
ContractIgnoringRepeats(files, expected, generate) ==
  LET Host(d)     == At(files, d).host
      Contract(d) == generate[Host(d).variable]
  IN /\ \A f \in DOMAIN files : Readable(files[f])
     /\ \A d \in Declared(files) :
          /\ Host(d).kind = "variable" /\ Loopback(At(files, d).ip)
          /\ Host(d).variable \in DOMAIN generate /\ Contract(d) # <<>>
     /\ \A d, e \in Declared(files) : Host(d) = Host(e) => d = e
     /\ {Contract(d) : d \in Declared(files)} = DOMAIN expected
     /\ \A d \in Declared(files) : At(files, d).container = expected[Contract(d)]

\* validate_port_contract; generate gives the port a variable is an allocation
\* of, or no name if it is anything else.
ContractOk(files, expected, generate) ==
  LET Host(d)     == At(files, d).host
      Contract(d) == generate[Host(d).variable]
  IN /\ \A f \in DOMAIN files : Readable(files[f])
     /\ \A d \in Declared(files) :
          /\ Host(d).kind = "variable" /\ Loopback(At(files, d).ip)
          /\ Host(d).variable \in DOMAIN generate /\ Contract(d) # <<>>
     /\ \A d, e \in Declared(files) :
          Host(d) = Host(e) \/ Contract(d) = Contract(e) => d = e
     /\ {Contract(d) : d \in Declared(files)} = DOMAIN expected
     /\ \A d \in Declared(files) : At(files, d).container = expected[Contract(d)]

\* resolve_port_target: what serves a port of the contract.
Targets(files, generate, key) ==
  {d \in Declared(files) :
     /\ At(files, d).host.kind = "variable"
     /\ At(files, d).host.variable \in DOMAIN generate
     /\ generate[At(files, d).host.variable] = key}

TargetOk(files, expected, generate, key) ==
  /\ key \in DOMAIN expected
  /\ ContractOk(files, expected, generate)
  /\ Cardinality(Targets(files, generate, key)) = 1
  /\ \A d \in Targets(files, generate, key) : At(files, d).container = expected[key]

\* What doctor reports of a file, each by a reading of its own.
UnboundPorts(file)      == {i \in DOMAIN file.ports : file.ports[i].host = Missing}
AllInterfacePorts(file) == {i \in DOMAIN file.ports : file.ports[i].ip \in {None, "0.0.0.0"}}

-----------------------------------------------------------------------------
\* Compose publishes a port on its address, every interface if there is none,
\* under its fixed number or the value of its variable, which is an allocation
\* the environment has for itself or anything at all.
Interface(p) == IF p.ip = None THEN "0.0.0.0" ELSE p.ip
Endpoint(p, generate) ==
  IF p.host.kind = "variable" /\ p.host.variable \in DOMAIN generate
     /\ generate[p.host.variable] # <<>>
  THEN [kind |-> "allocated", of |-> generate[p.host.variable]]
  ELSE [kind |-> p.host.kind, of |-> p.host]

\* Files the contract accepts publish what the manifest says and nothing else:
\* every port on loopback under an allocation, no allocation twice, each of them
\* with the container port of the contract, and a target for each (what health
\* checks and open go by).  doctor then has nothing to say of them.
ContractBindsPorts(files, expected, generate) ==
  LET E(d) == Endpoint(At(files, d), generate)
  IN ContractOk(files, expected, generate) =>
       /\ \A d \in Declared(files) :
            /\ Loopback(Interface(At(files, d)))
            /\ E(d).kind = "allocated" /\ E(d).of \in DOMAIN expected
            /\ At(files, d).container = expected[E(d).of]
            /\ \A e \in Declared(files) : E(d) = E(e) => d = e
       /\ \A n \in DOMAIN expected :
            /\ TargetOk(files, expected, generate, n)
            /\ \A d \in Targets(files, generate, n) : E(d).of = n
       /\ \A f \in DOMAIN files :
            UnboundPorts(files[f]) = {} /\ AllInterfacePorts(files[f]) = {}

\* A file that apply rewrote is planned as before, port for port, and leaves no
\* fixed port unless a line outside the ports was taken for one.  The
\* configuration that init makes of the old file or the new then passes the
\* contract, unless two ports have one name or a port's variable is one that init
\* sets itself: these fail closed.
AppliedMeetsContract(file) ==
  LET plan  == Plan(file)
      new   == Applied(file, file)
      again == Plan(new)
      Shape(q) == [q EXCEPT !.current = 0]
      left     == \E i \in DOMAIN new.ports : new.ports[i].host.kind = "fixed"
      distinct == \A i, j \in DOMAIN plan : plan[i].name = plan[j].name => i = j
      own      == \E i \in DOMAIN plan : plan[i].env \in OwnVariables(plan)
  IN ApplyOk(file) =>
       /\ PlanOk(new) /\ DOMAIN again = DOMAIN plan
       /\ \A i \in DOMAIN plan : Shape(again[i]) = Shape(plan[i])
       /\ file.strays = <<>> => ~left
       /\ ContractOk(<<new>>, Exposed(plan), Generated(plan)) <=> (~left /\ distinct /\ ~own)
=============================================================================
