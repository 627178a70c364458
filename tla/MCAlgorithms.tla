---------------------------- MODULE MCAlgorithms ----------------------------
(***************************************************************************)
(* The event log, and beside it the functions without state: each other    *)
(* initial state is one input for one of them.                             *)
(***************************************************************************)
EXTENDS EventLog

Ports     == INSTANCE PortAllocation
Readiness == INSTANCE Readiness
Model     == INSTANCE RuntimeModel
Inspect   == INSTANCE Inspection
Env       == INSTANCE EnvFile
Compose   == INSTANCE ComposeContract
Config    == INSTANCE Configuration
Process   == INSTANCE SubprocessEnvironment

VARIABLE input  \* what is checked in this behaviour

-----------------------------------------------------------------------------
\* Ports: bases at both ends of the range, with every state of the ports there.
PortStates == {"free", "leased", "busy", "error"}
ServiceNames == {<<>>, <<1>>, <<0>>, <<1, 2>>, <<2, 1>>, <<2, 2>>, <<1, 0>>, <<3, 1, 2>>}

PortInputs ==
  {[kind |-> "ports", base |-> b, stride |-> s, names |-> n, state |-> f] :
     b \in {0} \cup 65532..65535, s \in {0, 1, 2, 3, 65535}, n \in ServiceNames,
     f \in [65532..65535 -> PortStates]}
  \cup
  {[kind |-> "ports", base |-> b, stride |-> s, names |-> n, state |-> f] :
     b \in {1, 2}, s \in {32767, 65535}, n \in ServiceNames,
     f \in [{1, 2, 32768, 65535} -> PortStates]}

StateOf(p)  == IF p \in DOMAIN input.state THEN input.state[p] ELSE "free"
Used        == {p \in DOMAIN input.state : input.state[p] = "leased"}
Probe       == [p \in 0..70000 |-> IF StateOf(p) = "leased" THEN "free" ELSE StateOf(p)]

-----------------------------------------------------------------------------
\* Readiness: containers of which each has one piece of evidence missing or
\* wrong, one or two of the same service, or of two services.
Row == [id |-> 1, service |-> "web", oneoff |-> "no", number |-> 1, hash |-> "current",
        state |-> "running", exit |-> "zero", healthcheck |-> "yes", health |-> "healthy"]

Rows ==
  {[Row EXCEPT !.oneoff = o] : o \in {"yes", Readiness!None}}
  \cup {[Row EXCEPT !.number = n, !.hash = h] : n \in 0..2, h \in {"current", "other", Readiness!None}}
  \cup {[Row EXCEPT !.state = s, !.exit = e] :
          s \in {"running", "exited", "dead", "strange"}, e \in {"zero", "failed", Readiness!None}}
  \cup {[Row EXCEPT !.healthcheck = c, !.health = h] :
          c \in {"yes", "no", Readiness!None}, h \in {"healthy", "unhealthy", "starting", Readiness!None}}
  \cup {[Row EXCEPT !.number = 2, !.state = "exited"], [Row EXCEPT !.number = 0, !.state = "exited"]}

RowSets ==
  {{}} \cup {{r} : r \in Rows} \cup {{r, [q EXCEPT !.id = 2]} : r, q \in Rows}

ServiceInputs ==
  {[kind |-> "service", role |-> r, replicas |-> n, rows |-> R] :
     r \in {"job", "long-running"}, n \in {1, 2}, R \in RowSets}

OneEach == {[Row EXCEPT !.state = s, !.hash = h] : s \in {"running", "exited"},
                                                   h \in {"current", Readiness!None}}
Attributed ==
  {{[r EXCEPT !.service = s], [q EXCEPT !.id = 2, !.service = t, !.oneoff = o]} :
     r, q \in OneEach, s \in {"web", "db"}, t \in {"db", "other", ""}, o \in {"yes", "no", Readiness!None}}

ContractInputs ==
  {[kind |-> "contract", contract |-> [declared |-> d, required |-> q, resolution |-> n, resolved |-> v],
    listed |-> l, rows |-> R] :
     d \in BOOLEAN, n \in {Readiness!None, "current", "stale"}, l \in BOOLEAN,
     q \in {<<>>, [web |-> "long-running"], [web |-> "long-running", db |-> "job"]},
     v \in {<<>>, [web |-> 1], [web |-> 1, db |-> 1], [web |-> 0, db |-> 1]},
     R \in Attributed \cup {{}}}

-----------------------------------------------------------------------------
\* Compose files: one or two documents, varied one kind of declaration at a time.
Scalar == [scalar |-> TRUE, mapping |-> FALSE, external |-> "absent", name |-> "absent"]
Null   == [Scalar EXCEPT !.scalar = FALSE]
Resource == {Scalar, Null} \cup
  [scalar : {FALSE}, mapping : {TRUE}, external : {"absent", "true", "false", "other"},
   name : {"absent", "null", "literal", "interpolated", "other"}]

Uses == {{}, {[kind |-> "bind", source |-> ""]}, {[kind |-> "anonymous", source |-> ""]},
         {[kind |-> "named", source |-> "data"]}, {[kind |-> "unsupported", source |-> ""]}}
Plain    == [scalar |-> FALSE, container_name |-> "absent", extends |-> FALSE, volumes |-> {}]
Services == {[Plain EXCEPT !.scalar = TRUE], [Plain EXCEPT !.extends = TRUE]} \cup
  [scalar : {FALSE}, extends : {FALSE}, volumes : Uses,
   container_name : {"absent", "null", "one", "two", "interpolated", "other"}]

Empty == [include |-> FALSE, services |-> <<>>, networks |-> <<>>, volumes |-> <<>>]
With(field, name, S) == {Empty} \cup {[Empty EXCEPT ![field] = [n \in {name} |-> v]] : v \in S}
Pairs(S) == {<<d>> : d \in S} \cup {<<d, e>> : d, e \in S}

Files ==
  Pairs({[d EXCEPT !.volumes = v] : d \in With("services", "web", Services),
                                    v \in {<<>>, [data |-> Null]}})
  \cup Pairs({[d EXCEPT !.services = s] : d \in With("networks", "default", Resource),
                                          s \in {<<>>, [web |-> Plain]}})
  \cup Pairs(With("networks", "inner", Resource) \cup {[Empty EXCEPT !.include = TRUE]})
  \cup Pairs(With("volumes", "data", Resource) \cup With("services", "db", {Plain}))

FileInputs == {[kind |-> "files", files |-> f] : f \in Files}

-----------------------------------------------------------------------------
\* Inspection: two containers with any evidence missing, and one or two checks
\* with every holder of their endpoints.
Container(i) ==
  [id : {i}, owned : {TRUE}, state : {"running", "paused", "exited", "strange", Inspect!None},
   service : {"web", "db", Inspect!None}, oneoff : {"yes", "no", Inspect!None}]
Foreign == [id |-> 3, owned |-> FALSE, state |-> "running", service |-> "web", oneoff |-> "no"]

ContainerSets ==
  {{}} \cup {{c} : c \in Container(1)} \cup {{c, Foreign} : c \in Container(1)}
  \cup {{c, d} : c \in Container(1), d \in Container(2)}

Checks ==
  {[command |-> TRUE, target |-> Inspect!None, holder |-> "nobody", dockerFails |-> FALSE, answers |-> FALSE]}
  \cup {c \in [command : {FALSE}, target : {"web", "broken", Inspect!None},
                holder : {"ours", "another", "nobody"}, dockerFails : BOOLEAN, answers : BOOLEAN] :
          c.answers => c.holder # "nobody"}

StatusInputs == {[kind |-> "status", containers |-> C] : C \in ContainerSets}

HealthInputs ==
  {[kind |-> "health", containers |-> C, checks |-> c, recorded |-> r] :
     C \in {D \in ContainerSets : Cardinality(D) = 1 \/ Foreign \in D},
     c \in {<<>>} \cup {<<a>> : a \in Checks}, r \in {"ready", "failed", "unknown"}}
  \cup
  {[kind |-> "health", containers |-> C, checks |-> <<a, b>>, recorded |-> "ready"] :
     C \in {{}} \cup {{c} : c \in {d \in Container(1) : d.service = "web"}}, a, b \in Checks}

-----------------------------------------------------------------------------
\* The environment file: one value, or one line, of any characters.
Character == {"plain", "space", "tab", "LF", "\"", "\\", "$", "t"}
Text      == UNION {[1..n -> Character] : n \in 0..4}
EnvInputs == {[kind |-> "env", text |-> s] : s \in Text}

-----------------------------------------------------------------------------
\* Published ports: one of every kind, two and three that may share a name, a
\* variable or a number, and a line elsewhere with the number of the first.
Web   == <<"web">>
Web80 == <<"web", "-", "80">>
Db    == <<"db">>
Publish(s, c, h, a) ==
  [service |-> s, container |-> c, host |-> h, ip |-> a, form |-> "short", own |-> TRUE, protocol |-> "tcp"]
ComposeFile(ports) == [include |-> FALSE, strays |-> <<>>, ports |-> ports]

Hosts == {Compose!Fixed(8080), Compose!Fixed(8081), Compose!Missing, Compose!Other} \cup
  {Compose!Variable(v) : v \in {<<"A">>, <<"web", "_", "PORT">>, Compose!StacksteadId, Compose!DatabaseUrl}}

Single ==
  {[Publish(Web, c, h, a) EXCEPT !.form = f, !.own = o, !.protocol = p] :
     c \in {"80", "5432"}, h \in Hosts, a \in Compose!Addresses, f \in {"short", "long"},
     o \in BOOLEAN, p \in {"tcp", "udp"}}
First ==
  {p \in Single : p.container = "80" /\ p.protocol = "tcp" /\ p.host # Compose!Other
                  /\ p.ip \in {Compose!None, "localhost", "::1"}}
Few == {Publish(Web, "80", h, a) : a \in {Compose!None, "127.0.0.1"},
          h \in {Compose!Fixed(8080), Compose!Fixed(8081), Compose!Variable(<<"A">>),
                 Compose!Variable(<<"B">>), Compose!Variable(Compose!DatabaseUrl)}}

PortSequences ==
  {<<>>} \cup {<<p>> : p \in Single}
  \cup {<<p, [q EXCEPT !.service = s, !.container = c]>> :
          p, q \in First, s \in {Web, Web80}, c \in {"80", "5432"}}
  \cup {<<p, [q EXCEPT !.container = c], [r EXCEPT !.service = s]>> :
          p, q, r \in Few, s \in {Web, Web80}, c \in {"80", "5432"}}

ComposeInputs ==
  {[kind |-> "compose", file |-> [ComposeFile(p) EXCEPT !.strays = s]] :
     p \in PortSequences, s \in {<<>>, <<8080>>}}
  \cup {[kind |-> "compose", file |-> [ComposeFile(<<>>) EXCEPT !.include = TRUE]]}

Bindings == {Publish(s, c, h, a) : s \in {Web, Db}, c \in {"80", "5432"},
  h \in {Compose!Variable(<<"A">>), Compose!Variable(<<"B">>), Compose!Fixed(8080)},
  a \in {"127.0.0.1", Compose!None}}
Generations ==
  {[v \in {<<"A">>} |-> n] : n \in {<<>>, Web}}
  \cup [{<<"A">>, <<"B">>} -> {<<>>, Web, Db}]
Contracts ==
  {[n \in {} |-> "80"], [n \in {Web} |-> "80"]} \cup [{Web, Db} -> {"80", "5432"}]

BindingInputs ==
  {[kind |-> "binding", files |-> f, generate |-> g, expected |-> e] :
     g \in Generations, e \in Contracts,
     f \in {<<ComposeFile(<<p>>)>> : p \in Bindings}
           \cup {<<ComposeFile(<<p, q>>)>> : p, q \in Bindings}
           \cup {<<ComposeFile(<<p>>), ComposeFile(<<q>>)>> : p, q \in Bindings}}

-----------------------------------------------------------------------------
\* Configurations: three services with any URLs, or one with any templates.
Address(s) == <<Config!Text("http"), Config!Port(s)>>
Path       == Config!Text("path")
Word       == Config!Text("word")
Space      == Config!Text("space")
Unknown    == [kind |-> "unknown", of |-> 0]
Broken     == [kind |-> "broken", of |-> 0]

Templates ==
  {Address(1), Address(3), Address(1) \o <<Path, Config!Value>>, <<Config!Text("http"), Config!Value>>,
   Address(2) \o <<Word>>, Address(2) \o <<Path, Space>>, <<Word>>, <<Broken>>, Address(4),
   Address(2) \o <<Path, Unknown>>, Address(2) \o <<Path, Config!Url(1), Config!Url(3)>>}
  \cup {<<Config!Url(s)>> : s \in 1..3}
  \cup {<<Config!Url(s), a>> : s \in 1..3, a \in {Path, Word}}
  \cup {Address(1) \o <<Path, Config!Url(s)>> : s \in 1..3}

UrlSets == UNION {[S -> Templates] : S \in SUBSET (1..3)}

Configs ==
  {[services |-> 1..3, urls |-> u, generate |-> Address(1), check |-> Address(2)] : u \in UrlSets}
  \cup
  {[services |-> 1..3, urls |-> [s \in {1} |-> u], generate |-> g, check |-> c] :
     u, g \in Templates, c \in {Address(2), Address(2) \o <<Path, Config!Url(1)>>, <<Config!Url(1)>>}}

ConfigInputs ==
  {[kind |-> "config", config |-> c, ports |-> [s \in 1..3 |-> 39000 + s], value |-> v] :
     c \in Configs, v \in {<<Word>>, <<Word, Space>>}}

-----------------------------------------------------------------------------
\* Environments: a caller with any of the variables, one who started with few or
\* all, and the file as it was written, or with a name too many or too few.
Variables == {"WEB_PORT", "OTHER", Process!Id, Process!Project, Process!Profiles, "PATH"}

Edits(names) == {names} \cup {names \ {n} : n \in names} \cup {names \cup {n} : n \in Variables}

ProcessInput ==
  \E g \in SUBSET (Variables \ {"PATH", Process!Project}), c \in SUBSET Variables,
     s \in {{}, {Process!Profiles}, Variables, Variables \ {Process!Profiles}} :
    \E f \in Edits(g) :
      input = [kind |-> "process", generate |-> g, file |-> [n \in f |-> "file"],
               starter |-> [n \in s |-> "starter"], caller |-> [n \in c |-> "caller"]]

-----------------------------------------------------------------------------
MCInit ==
  /\ Init
  /\ \/ input = [kind |-> "log"]
     \/ input \in PortInputs
     \/ input \in ServiceInputs
     \/ input \in ContractInputs
     \/ input \in FileInputs
     \/ input \in StatusInputs
     \/ input \in HealthInputs
     \/ input \in EnvInputs
     \/ input \in ComposeInputs
     \/ input \in BindingInputs
     \/ input \in ConfigInputs
     \/ ProcessInput

MCNext == input.kind = "log" /\ Next /\ UNCHANGED input

MCSpec == MCInit /\ [][MCNext]_<<vars, input>>

\* For bases and strides at both ends of the 16 bits, the ports allocated are free
\* TCP ports, one for each service; they are the lowest there are, and none or an
\* overflow is reported only if there are none; and two slots of one project share
\* no port (PortAllocation: Sound, Lowest, Disjoint).  What the configuration's own
\* check accepts is never refused for its base, its stride or an overflow.
AllocationIsRight ==
  input.kind = "ports" =>
    /\ Ports!Sound(input.base, input.stride, input.names, Used, Probe)
    /\ Ports!Lowest(input.base, input.stride, input.names, Used, Probe)
    /\ Ports!Disjoint(input.base, input.stride, input.names)
    /\ Config!ValidatePorts(input.base, input.stride, input.names) =>
         Ports!AllocatePorts(input.base, input.stride, input.names, Used, Probe).kind
           \notin {"base", "stride", "small", "overflow"}

\* A service is found ready or not ready only if it is so whatever the missing
\* metadata is, and the failure of one required service is not hidden by what is
\* unknown of others (Readiness: VerdictIsCertain, NothingHidden).
ReadinessIsCertain ==
  /\ input.kind = "service" => Readiness!VerdictIsCertain(input.role, input.replicas, input.rows)
  /\ input.kind = "contract" => Readiness!NothingHidden(input.contract, input.listed, input.rows)

\* What Compose creates from files that are accepted is labelled and looked up by
\* name (RuntimeModel: EverythingAttested).
EverythingAttested ==
  input.kind = "files" => Model!EverythingAttested(input.files)

\* inspect claims of activity and status only what is so whatever the metadata it
\* did not get is, and a live verdict of health or of the database never rests on
\* another program that answers on a port of the environment (Inspection:
\* StatusIsCertain, AnswersAreItsOwn).
InspectionIsCertain ==
  /\ input.kind = "status" => Inspect!StatusIsCertain(input.containers)
  /\ input.kind = "health" => Inspect!AnswersAreItsOwn(input.containers, input.checks, input.recorded)

\* The values that host commands read from the generated environment, or that env
\* prints, are those that were written (EnvFile: RoundTrip, PrintedIsRead).
ValuesSurvive ==
  input.kind = "env" =>
    /\ Env!RoundTrip([NAME |-> input.text])
    /\ Env!PrintedIsRead([NAME |-> input.text])

\* apply keeps the plan of a file and the file it leaves meets the contract that
\* init made of the plan, or fails closed (ComposeContract: AppliedMeetsContract).
AppliedMeetsContract ==
  input.kind = "compose" => Compose!AppliedMeetsContract(input.file)

\* What Compose publishes from files that meet the contract is, port for port, what
\* the manifest says (ComposeContract: ContractBindsPorts).
ContractBindsPorts ==
  input.kind = "binding" =>
    Compose!ContractBindsPorts(input.files, input.expected, input.generate)

\* The templates of an accepted configuration render for every environment, and no
\* URLs are refused but for themselves or a circle (Configuration: AcceptedRenders,
\* OnlyCirclesRefused).
TemplatesResolve ==
  input.kind = "config" =>
    /\ Config!AcceptedRenders(input.config, input.ports, input.value)
    /\ Config!OnlyCirclesRefused(input.config)

\* Host commands and Compose are given the same generated values and the same
\* identity, and a model is resolved as it was started, whatever variables the
\* callers have (SubprocessEnvironment: Agree).
EnvironmentsAgree ==
  input.kind = "process" =>
    Process!Agree(input.starter, input.caller, input.generate, input.file)
=============================================================================
