---------------------------- MODULE RuntimeModel ----------------------------
(***************************************************************************)
(* The resources the Compose files of an environment name.  Two functions  *)
(* read the files for themselves: ownership_model makes the override that  *)
(* labels what Compose creates, expected_runtime_names says which Docker   *)
(* names are looked up before anything is started, stopped or removed.     *)
(*                                                                         *)
(* A document has a flag for include, and functions from the names it      *)
(* declares to services, networks and volumes.  A service is a scalar or a *)
(* mapping with container_name, extends and the volumes it uses; a network *)
(* or volume is null, a scalar or a mapping with external and name.  A     *)
(* value in them is absent, null, a literal, interpolated or other (not a  *)
(* string).                                                                *)
(***************************************************************************)
EXTENDS Integers, Sequences, FiniteSets

Fields == {"networks", "volumes"}

\* Names declared by any of the documents, and the documents that declare one.
DeclaredIn(files, field) == UNION {DOMAIN files[i][field] : i \in DOMAIN files}
Declaring(files, field, name) == {i \in DOMAIN files : name \in DOMAIN files[i][field]}

-----------------------------------------------------------------------------
\* resource_is_external and the checks of a network or volume, which
\* collect_resource_states and collect_runtime_names each have.
External(r) == r.mapping /\ r.external = "true"

ResourceRefused(r) ==
  \/ r.scalar
  \/ r.mapping /\ r.external = "other"
  \/ r.mapping /\ r.name \in {"interpolated", "other"}
  \/ r.mapping /\ r.external # "true" /\ r.name = "literal"

ResourcesRefused(files, field) ==
  \/ \E i \in DOMAIN files : \E n \in DOMAIN files[i][field] : ResourceRefused(files[i][field][n])
  \/ \E n \in DeclaredIn(files, field) : Cardinality(Declaring(files, field, n)) > 1

Managed(files, field) ==
  {n \in DeclaredIn(files, field) :
     \A i \in Declaring(files, field, n) : ~External(files[i][field][n])}

ContainerNameRefused(s) == s.scalar \/ s.container_name \in {"interpolated", "other"}

\* validate_service_volumes, for one entry
VolumeRefused(v, declared) ==
  v.kind \in {"unsupported", "anonymous"} \/ (v.kind = "named" /\ v.source \notin declared)

\* Compose makes a default network unless a document declares its own.
DefaultNetwork(files) ==
  IF DeclaredIn(files, "services") # {} /\ "default" \notin DeclaredIn(files, "networks")
  THEN {"default"} ELSE {}

\* The names ownership_model labels, or its refusal of the files.
OwnershipModel(files) ==
  LET declared == DeclaredIn(files, "volumes")
      bad(s)   == \/ ContainerNameRefused(s) \/ s.extends
                  \/ \E v \in s.volumes : VolumeRefused(v, declared)
  IN [accepted |->
        /\ \A i \in DOMAIN files : ~files[i].include
        /\ \A field \in Fields : ~ResourcesRefused(files, field)
        /\ \A i \in DOMAIN files : \A n \in DOMAIN files[i].services : ~bad(files[i].services[n]),
      services |-> DeclaredIn(files, "services"),
      networks |-> Managed(files, "networks") \cup DefaultNetwork(files),
      volumes  |-> Managed(files, "volumes")]

-----------------------------------------------------------------------------
Latest(S) == CHOOSE i \in S : \A j \in S : j <= i

\* Mutant: a document that says nothing of the name takes it back.
CustomNameLast(files, name) ==
  LET value == files[Latest(Declaring(files, "services", name))].services[name].container_name
  IN IF value \in {"absent", "null"} THEN "scoped" ELSE value

\* The container_name of a service after all documents: null takes it back, a
\* document that does not mention it leaves it.
CustomName(files, name) ==
  LET says == {i \in Declaring(files, "services", name) :
                 files[i].services[name].container_name # "absent"}
      value == files[Latest(says)].services[name].container_name
  IN IF says = {} \/ value = "null" THEN "scoped" ELSE value

\* expected_runtime_names.  The project's prefix is left out of scoped names.
ExpectedNames(files) ==
  [accepted |->
     /\ \A field \in Fields : ~ResourcesRefused(files, field)
     /\ \A i \in DOMAIN files : \A n \in DOMAIN files[i].services :
          ~ContainerNameRefused(files[i].services[n]),
   containers |-> {<<CustomName(files, n), n>> : n \in DeclaredIn(files, "services")},
   networks |-> {"default"} \cup Managed(files, "networks"),
   volumes  |-> Managed(files, "volumes")]

-----------------------------------------------------------------------------
\* What Compose creates for the merged files: for a key both have the later
\* document's value counts.
Merged(files, field, n, key) ==
  LET S == {i \in Declaring(files, field, n) :
              ~files[i][field][n].scalar /\ files[i][field][n][key] # "absent"}
  IN IF S = {} THEN "absent" ELSE files[Latest(S)][field][n][key]

Created(files) ==
  LET services == DeclaredIn(files, "services")
      Own(field) == {n \in DeclaredIn(files, field) : Merged(files, field, n, "external") # "true"}
      Name(n) == Merged(files, "services", n, "container_name")
  IN [containers |-> {<<IF Name(n) \in {"absent", "null"} THEN "scoped" ELSE Name(n), n>> : n \in services},
      networks |-> Own("networks") \cup DefaultNetwork(files),
      volumes  |-> Own("volumes"),
      unnamed  |-> \E i \in DOMAIN files : \E n \in DOMAIN files[i].services :
                     \E v \in files[i].services[n].volumes : v.kind = "anonymous"]

\* For files that ownership_model accepts the other reading accepts them too, and
\* everything Compose creates from them is both labelled by the override and
\* looked up by its name, and nothing external is labelled: no global name, no
\* anonymous volume and no later document hides from one of the two readings.
EverythingAttested(files) ==
  LET model == OwnershipModel(files)
      names == ExpectedNames(files)
      made  == Created(files)
  IN model.accepted =>
       /\ names.accepted
       /\ made.containers \subseteq names.containers
       /\ made.networks = model.networks /\ made.networks \subseteq names.networks
       /\ made.volumes = model.volumes /\ made.volumes = names.volumes
       /\ {c[2] : c \in made.containers} \subseteq model.services
       /\ ~made.unnamed
=============================================================================
