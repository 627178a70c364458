---------------------------- MODULE Configuration ----------------------------
(***************************************************************************)
(* What stackstead.yaml promises about ports and templates when it is      *)
(* accepted, and what create makes of it later.  Validation renders the    *)
(* templates with placeholders, create with the ports it allocated and the *)
(* paths of the environment; both resolve the URLs, which may refer to     *)
(* each other, by the same rounds.                                         *)
(*                                                                         *)
(* A template is a sequence of texts and keys.  The texts are a loopback   *)
(* scheme, host and colon ("http"), the beginning of a path ("path"), a    *)
(* space and any other word; a number is a rendered port.  The keys are a  *)
(* port or URL of a service, a value (the project, the environment, its    *)
(* paths) and one nobody defines.  "broken" has a brace too few.           *)
(***************************************************************************)
EXTENDS Integers, Sequences, FiniteSets, SequencesExt

Text(kind)  == [kind |-> kind, of |-> 0]
Port(s)     == [kind |-> "port", of |-> s]
Url(s)      == [kind |-> "url", of |-> s]
Number(n)   == [kind |-> "number", of |-> n]
Value       == [kind |-> "value", of |-> 0]
TextKinds   == {"http", "path", "space", "word", "number"}
KeyKinds    == {"port", "url", "value", "unknown"}

Keys(t)   == {a \in {t[i] : i \in DOMAIN t} : a.kind \in KeyKinds}
Broken(t) == \E i \in DOMAIN t : t[i].kind = "broken"

\* A context: the ports of the services, the URLs resolved so far, and how a
\* value reads.
Defined(key, context) ==
  \/ key.kind = "port" /\ key.of \in DOMAIN context.ports
  \/ key.kind = "url" /\ key.of \in DOMAIN context.urls
  \/ key.kind = "value"

ValueOf(key, context) ==
  CASE key.kind = "port"  -> <<Number(context.ports[key.of])>>
    [] key.kind = "url"   -> context.urls[key.of]
    [] key.kind = "value" -> context.value

Renders(t, context) == ~Broken(t) /\ \A k \in Keys(t) : Defined(k, context)

Render(t, context) ==
  FlattenSeq([i \in DOMAIN t |->
    IF t[i].kind \in TextKinds THEN <<t[i]>> ELSE ValueOf(t[i], context)])

PortNumbers == {n \in Nat : n <= 65535}

\* is_loopback_url, and no white space
IsLoopbackUrl(r) ==
  /\ Len(r) >= 2 /\ r[1].kind = "http" /\ r[2].kind = "number" /\ r[2].of \in PortNumbers
  /\ Len(r) > 2 => r[3].kind = "path"
  /\ \A i \in DOMAIN r : r[i].kind # "space"

-----------------------------------------------------------------------------
\* Mutant: a URL waits for the ports only.
ReadyWithPorts(urls, context) ==
  {s \in DOMAIN urls \ DOMAIN context.urls :
     \A k \in Keys(urls[s]) : k.kind = "url" \/ Defined(k, context)}

\* The URLs that can be rendered next.
Ready(urls, context) ==
  {s \in DOMAIN urls \ DOMAIN context.urls : \A k \in Keys(urls[s]) : Defined(k, context)}

First(S) == CHOOSE s \in S : \A t \in S : s <= t

\* One round of resolve_urls: the first URL that is ready, into the context.
Round(urls, was) ==
  LET ready == Ready(urls, was)
      s     == First(ready)
      url   == Render(urls[s], was)
  IN IF ready = {} \/ ~Renders(urls[s], was) \/ ~IsLoopbackUrl(url)
     THEN [ok |-> FALSE, context |-> was]
     ELSE [ok |-> TRUE,
           context |-> [was EXCEPT !.urls = [t \in {s} \cup DOMAIN was.urls |->
                                               IF t = s THEN url ELSE was.urls[t]]]]

\* resolve_urls: as many rounds as there are URLs, until one fails.
ResolveUrls(urls, context) ==
  LET After[n \in 0..Cardinality(DOMAIN urls)] ==
        IF n = 0 THEN [ok |-> \A s \in DOMAIN urls : ~Broken(urls[s]), context |-> context]
        ELSE IF After[n - 1].ok THEN Round(urls, After[n - 1].context) ELSE After[n - 1]
  IN After[Cardinality(DOMAIN urls)]

-----------------------------------------------------------------------------
\* A configuration: the services it exposes, the URL templates of some of them,
\* a generated variable and the URL of a health check.
Placeholders(config) ==
  [ports |-> [s \in config.services |-> 12345], urls |-> <<>>, value |-> <<Text("word")>>]

\* validate_url_template: every URL is one by itself.
CheckPlaceholders(config) ==
  [Placeholders(config) EXCEPT
     !.urls = [s \in DOMAIN config.urls |-> <<Text("http"), Number(12345)>>]]

\* Keys that exist, whether or not they can be resolved.
Allowed(t, config) == Renders(t, CheckPlaceholders(config))

ValidateTemplates(config) ==
  /\ \A s \in DOMAIN config.urls : Allowed(config.urls[s], config)
  /\ Allowed(config.generate, config)
  /\ Allowed(config.check, config)
  /\ IsLoopbackUrl(Render(config.check, CheckPlaceholders(config)))
  /\ ResolveUrls(config.urls, Placeholders(config)).ok

\* validate_ports; services are the keys of a map, so their names differ.
ValidatePorts(base, stride, names) ==
  /\ base > 0 /\ stride > 0 /\ stride >= Len(names)
  /\ base + (IF names = <<>> THEN 0 ELSE Len(names) - 1) <= 65535

-----------------------------------------------------------------------------
\* Some of the URLs refer to one another in a circle.
Circular(urls) ==
  \E S \in SUBSET DOMAIN urls : S # {} /\ \A s \in S : \E t \in S : Url(t) \in Keys(urls[s])

HasSpace(r) == \E i \in DOMAIN r : r[i].kind = "space"

\* What is accepted renders: with any ports, the URLs of an accepted
\* configuration resolve, unless a value in one of them has a space in this
\* environment, which create refuses before it makes anything.  Each URL is then
\* its template under all of them, whatever the order of the rounds, and the
\* variable renders too (build, generated_environment).
AcceptedRenders(config, ports, value) ==
  LET context == [ports |-> ports, urls |-> <<>>, value |-> value]
      r       == ResolveUrls(config.urls, context)
  IN ValidateTemplates(config) =>
       /\ r.ok \/ (HasSpace(value) /\ \E s \in DOMAIN config.urls : Value \in Keys(config.urls[s]))
       /\ r.ok =>
            /\ DOMAIN r.context.urls = DOMAIN config.urls
            /\ \A s \in DOMAIN config.urls :
                 r.context.urls[s] = Render(config.urls[s], r.context)
            /\ Renders(config.generate, r.context)
            /\ Renders(config.check, r.context)

\* URLs in a circle are refused, and URLs that are good each by itself are refused
\* for nothing else.
OnlyCirclesRefused(config) ==
  LET alone(s) == /\ Allowed(config.urls[s], config)
                  /\ IsLoopbackUrl(Render(config.urls[s], CheckPlaceholders(config)))
      r        == ResolveUrls(config.urls, Placeholders(config))
  IN /\ Circular(config.urls) => ~r.ok
     /\ (\A s \in DOMAIN config.urls : alone(s)) /\ ~Circular(config.urls) => r.ok
=============================================================================
