---------------------------- MODULE ComposeDocument ----------------------------
(***************************************************************************)
(* Code generation for a whole program (hl-codegen's generate): the        *)
(* services in order, each rendered by generate_service with the networks  *)
(* and volumes it brings into the document, the default network of a       *)
(* program of several services, the `raw` entries that replace built-in    *)
(* keys, and the warnings about what the document leaves out.              *)
(*                                                                         *)
(* A value of the document is a sequence or a record; Absent is a key that *)
(* is not printed.  Text is FieldBags' sequence of words and holes.        *)
(***************************************************************************)
EXTENDS FieldBags

CONSTANT Programs  \* the composed programs to generate documents for

(* What composition and the linker leave no program without: services with *)
(* names of their own, and lists of networks without repeats.              *)
ASSUME ProgramsAssumption ==
  \A p \in Programs :
    /\ p.services \in Seq(ToSet(p.services))
    /\ \A i, j \in DOMAIN p.services : p.services[i].name = p.services[j].name => i = j
    /\ \A i \in DOMAIN p.services :
         /\ p.services[i].labels \in Seq(ToSet(p.services[i].labels))
         /\ p.services[i].volumes \in Seq(ToSet(p.services[i].volumes))
         /\ p.services[i].networks \in Seq(ToSet(p.services[i].networks))
         /\ \A j, k \in DOMAIN p.services[i].networks :
              p.services[i].networks[j].text[1].word = p.services[i].networks[k].text[1].word => j = k
    /\ IsFiniteSet(DOMAIN p.networks)

Absent  == <<>>
Default == "default"  \* IMPLICIT_DEFAULT_NETWORK

(* The built-in keys of a service, by what is written under them.          *)
Scalars   == {"image", "container_name", "restart"}
Arguments == {"command", "entrypoint"}
Arrows    == {"ports", "devices"}
Verbatim  == {"dns", "env_file"}
BuiltIns  == Scalars \cup Arguments \cup Arrows \cup Verbatim \cup
             {"build", "privileged", "healthcheck", "environment", "volumes",
              "networks", "expose", "depends_on", "labels"}

(* A command, entrypoint or healthcheck test: one string for a shell or a  *)
(* list for exec.                                                          *)
NoArgument   == [form |-> "none", items |-> <<>>]
Shell(lit)   == [form |-> "shell", items |-> <<lit>>]
Exec(items)  == [form |-> "exec", items |-> items]

NoBuild       == [present |-> FALSE, context |-> Unset, dockerfile |-> Unset]
NoHealthcheck == [test |-> NoArgument, interval |-> Unset, retries |-> Unset, disable |-> FALSE]

(* A volume entry mounts a declared volume or a path of the host.          *)
Named(v, container, ro)    == [named |-> TRUE, host |-> Ident(v), container |-> container, readOnly |-> ro]
BindMount(h, container, ro) == [named |-> FALSE, host |-> h, container |-> container, readOnly |-> ro]

(* A mapping under a raw key; the values in a list or a mapping are        *)
(* literals here.                                                          *)
Mapping(entries)     == [kind |-> "map", text |-> <<>>, entries |-> entries]
RawEntry(key, value) == [key |-> key, value |-> value]

NoService ==
  [name |-> "web", scalars |-> [k \in Scalars |-> Unset], build |-> NoBuild,
   arguments |-> [k \in Arguments |-> NoArgument], healthcheck |-> NoHealthcheck,
   privileged |-> FALSE, env |-> <<>>, volumes |-> <<>>, arrows |-> [k \in Arrows |-> <<>>],
   networks |-> <<>>, verbatim |-> [k \in Verbatim |-> <<>>], expose |-> Unset,
   dependsOn |-> <<>>, labels |-> <<>>, raw |-> <<>>]

VARIABLES
  program,   \* the program: its services, networks and volumes
  services,  \* the rendered services, in order
  networks,  \* the document's top-level networks
  volumes,   \* the document's top-level volumes
  warnings,  \* the warnings raised so far, in order
  outcome    \* "running", "ok" or the error that ended it

vars == <<program, services, networks, volumes, warnings, outcome>>

Init ==
  /\ program \in Programs
  /\ services = <<>> /\ warnings = <<>>
  /\ networks = <<>> /\ volumes = <<>>
  /\ outcome = "running"

Service == program.services[Len(services) + 1]

-------------------------------------------------------------------------------
(* Networks.  A program of two or more services is one stack whose         *)
(* services are all on the default network; a lone one is left to Compose. *)
AutoAttach == Len(program.services) >= 2

NamesOf(refs) == [i \in DOMAIN refs |-> refs[i].text[1].word]

(* Mutant: like Compose, only a service that names no network is on it.    *)
AttachedWhenSilent(s) ==
  IF AutoAttach /\ s.networks = <<>> THEN <<Default>> ELSE NamesOf(s.networks)

Attached(s) ==
  IF AutoAttach /\ ~Contains(NamesOf(s.networks), Default)
  THEN Append(NamesOf(s.networks), Default) ELSE NamesOf(s.networks)

NetworkError(s) ==
  IF ToSet(NamesOf(s.networks)) \subseteq DOMAIN program.networks \cup {Default}
  THEN None ELSE "UnknownNetwork"

(* Mutant: the default network is attached without its declaration.        *)
NamedNetworkDocs(s) ==
  [n \in ToSet(NamesOf(s.networks)) \cap DOMAIN program.networks |-> program.networks[n]]

(* Mutant: the default network is declared where the program did not.      *)
SynthesizedNetworkDocs(s) ==
  [n \in ToSet(Attached(s)) |->
     IF n \in DOMAIN program.networks THEN program.networks[n] ELSE [real |-> n, external |-> FALSE]]

NetworkDocs(s) ==
  [n \in ToSet(Attached(s)) \cap DOMAIN program.networks |-> program.networks[n]]

(* The names UnusedNetwork is not raised for.  Mutant: the references that *)
(* are written, only.                                                      *)
WrittenReferences ==
  UNION {ToSet(NamesOf(program.services[i].networks)) : i \in DOMAIN program.services}

ReferencedNetworks ==
  (UNION {ToSet(NamesOf(program.services[i].networks)) : i \in DOMAIN program.services})
    \cup (IF AutoAttach THEN {Default} ELSE {})

UnusedNetworks ==
  LET unused == SetToSeq(DOMAIN program.networks \ ReferencedNetworks)
  IN  [i \in DOMAIN unused |-> <<"UnusedNetwork", unused[i]>>]

(* Volumes.                                                                *)
MountedBy(entry) == entry.host.text[1].word

Mounted(s) == {MountedBy(s.volumes[i]) : i \in {j \in DOMAIN s.volumes : s.volumes[j].named}}

VolumeDocs(s) == [v \in Mounted(s) |-> program.volumes[v]]

-------------------------------------------------------------------------------
(* The rendering of one service.  Every string is interpolated once more,  *)
(* with the name of the service; numbers, references and paths are not.    *)
HoleError(lits) == IF \E lit \in lits : Unknown(lit) THEN "UnknownInterpolation" ELSE None

Argument(a, name) ==
  IF a.form = "none" THEN Absent
  ELSE [form |-> a.form, items |-> [i \in DOMAIN a.items |-> Rendered(a.items[i].text, name)]]

(* The short form is the context alone.                                    *)
BuildError(s) ==
  IF ~s.build.present THEN None
  ELSE IF s.build.context = Unset THEN "BuildWithoutContext"
  ELSE HoleError({s.build.context, s.build.dockerfile})

BuildDoc(s) ==
  IF ~s.build.present THEN Absent
  ELSE [context |-> Rendered(s.build.context.text, s.name),
        dockerfile |-> Rendered(s.build.dockerfile.text, s.name)]

(* A healthcheck that sets nothing is not printed.                         *)
HealthcheckDoc(s) ==
  IF s.healthcheck = NoHealthcheck THEN Absent
  ELSE [test |-> Argument(s.healthcheck.test, s.name),
        interval |-> Rendered(s.healthcheck.interval.text, s.name),
        retries |-> s.healthcheck.retries.text,
        disable |-> s.healthcheck.disable]

VolumeError(s) ==
  FirstError([i \in DOMAIN s.volumes |->
    FirstError(
      <<IF s.volumes[i].named
        THEN IF MountedBy(s.volumes[i]) \in DOMAIN program.volumes THEN None ELSE "UnknownVolume"
        ELSE HoleError({s.volumes[i].host}),
        HoleError({s.volumes[i].container})>>)])

VolumeEntries(s) ==
  [i \in DOMAIN s.volumes |->
     [host |-> IF s.volumes[i].named THEN s.volumes[i].host.text
                                     ELSE Rendered(s.volumes[i].host.text, s.name),
      container |-> Rendered(s.volumes[i].container.text, s.name),
      readOnly |-> s.volumes[i].readOnly]]

Pairs(entries, name) ==
  [i \in DOMAIN entries |-> <<Rendered(entries[i].key.text, name), Rendered(entries[i].value.text, name)>>]

PairsError(entries) ==
  HoleError({entries[i].key : i \in DOMAIN entries} \cup {entries[i].value : i \in DOMAIN entries})

(* A key with `=` in it (or a control character, which is not told apart   *)
(* from it here) would name another label than it says.                    *)
LabelsError(s) ==
  LET keys == LabelKeys(s, s.name)
  IN  FirstError([i \in DOMAIN s.labels |->
        FirstError(
          <<HoleError({s.labels[i].key} \cup ToSet(s.labels[i].items)),
            IF Contains(keys[i], Word("=")) THEN "UnsafeLabelKey" ELSE None,
            IF \E j \in 1..(i - 1) : keys[j] = keys[i] THEN "DuplicateLabelKey" ELSE None>>)])

LabelsDoc(s) ==
  [i \in DOMAIN s.labels |->
     <<LabelKeys(s, s.name)[i], Rendered(Joined(Texts(s.labels[i].items)), s.name)>>]

-------------------------------------------------------------------------------
(* Raw entries.  The bare words true and false are booleans; the last of   *)
(* two entries whose keys render alike stays.                              *)
Scalar(lit, name) ==
  [type |-> IF lit.kind = "number" THEN "number"
            ELSE IF lit.kind = "ident" /\ lit.text[1].word \in {"true", "false"} THEN "bool"
            ELSE "string",
   text |-> Rendered(lit.text, name)]

LastEntries(entries, name, Value(_)) ==
  LET keys(i) == Rendered(entries[i].key.text, name)
      last(k) == CHOOSE i \in DOMAIN entries : keys(i) = k /\ \A j \in DOMAIN entries : keys(j) = k => j <= i
  IN  [k \in {keys(i) : i \in DOMAIN entries} |-> Value(entries[last(k)].value)]

Yaml(value, name) ==
  CASE value.kind = "list" -> [type |-> "sequence", text |-> <<>>,
                               items |-> [i \in DOMAIN value.items |-> Scalar(value.items[i], name)]]
    [] value.kind = "map"  -> [type |-> "mapping", text |-> <<>>,
                               items |-> LastEntries(value.entries, name, LAMBDA v : Scalar(v, name))]
    [] OTHER               -> Scalar(value, name)

RawDoc(s) == LastEntries(s.raw, s.name, LAMBDA v : Yaml(v, s.name))

RawLiterals(entry) ==
  {entry.key} \cup
  (CASE entry.value.kind = "list" -> ToSet(entry.value.items)
     [] entry.value.kind = "map"  -> {entry.value.entries[i].key : i \in DOMAIN entry.value.entries} \cup
                                     {entry.value.entries[i].value : i \in DOMAIN entry.value.entries}
     [] OTHER -> {entry.value})

RawError(s) == HoleError(UNION {RawLiterals(s.raw[i]) : i \in DOMAIN s.raw})

RawNames(s, key) == <<Word(key)>> \in DOMAIN RawDoc(s)

(* RawLabelsReplaceGenerated.  Mutant: raised for a key that is written    *)
(* `labels`, not for one that is printed so.                               *)
WrittenLabelsReplaced(s) ==
  s.labels # <<>> /\ \E i \in DOMAIN s.raw : s.raw[i].key.text = <<Word("labels")>>

LabelsReplaced(s) == s.labels # <<>> /\ RawNames(s, "labels")

(* Every built-in key before the overrides.                                *)
Generated(s) ==
  [k \in BuiltIns |->
     CASE k \in Scalars      -> Rendered(s.scalars[k].text, s.name)
       [] k = "build"        -> BuildDoc(s)
       [] k \in Arguments    -> Argument(s.arguments[k], s.name)
       [] k = "privileged"   -> IF s.privileged THEN <<TRUE>> ELSE Absent
       [] k = "healthcheck"  -> HealthcheckDoc(s)
       [] k = "environment"  -> Pairs(s.env, s.name)
       [] k = "volumes"      -> VolumeEntries(s)
       [] k \in Arrows       -> Pairs(s.arrows[k], s.name)
       [] k = "networks"     -> Attached(s)
       [] k \in Verbatim     -> Texts(s.verbatim[k])
       [] k = "expose"       -> s.expose.text
       [] k = "depends_on"   -> IF s.dependsOn = <<>> THEN Absent ELSE DependsOnDocument(s.dependsOn)
       [] k = "labels"       -> LabelsDoc(s)]

(* apply_raw_overrides.                                                    *)
Overridden(s) == [k \in BuiltIns |-> IF RawNames(s, k) THEN Absent ELSE Generated(s)[k]]

ServiceDoc(s) == [name |-> s.name, builtIn |-> Overridden(s), raw |-> RawDoc(s)]

(* Nothing to run.  Mutant: asked before the overrides.                    *)
UnsetImageAndBuild(s) == Generated(s)["image"] = Absent /\ Generated(s)["build"] = Absent

NothingToRun(s) ==
  /\ Overridden(s)["image"] = Absent /\ Overridden(s)["build"] = Absent
  /\ ~RawNames(s, "image") /\ ~RawNames(s, "build")

(* The first error of generate_service, in its order.                      *)
ServiceError(s) ==
  LET error ==
        FirstError(
          <<HoleError({s.scalars["image"]}), BuildError(s), HoleError({s.scalars["container_name"]}),
            HoleError(ToSet(s.arguments["command"].items)), HoleError(ToSet(s.arguments["entrypoint"].items)),
            HoleError({s.scalars["restart"]}),
            HoleError(ToSet(s.healthcheck.test.items) \cup {s.healthcheck.interval}),
            PairsError(s.env), VolumeError(s), PairsError(s.arrows["ports"]), PairsError(s.arrows["devices"]),
            NetworkError(s), LabelsError(s), RawError(s)>>)
  IN  IF error # None THEN error
      ELSE IF NothingToRun(s) THEN "MissingImageOrBuild" ELSE None

-------------------------------------------------------------------------------
(* What several services bring is entered once.                            *)
OrInserted(entries, more) ==
  [n \in DOMAIN entries \cup DOMAIN more |-> IF n \in DOMAIN entries THEN entries[n] ELSE more[n]]

GenerateService ==
  /\ outcome = "running" /\ Len(services) < Len(program.services)
  /\ ServiceError(Service) = None
  /\ services' = Append(services, ServiceDoc(Service))
  /\ networks' = OrInserted(networks, NetworkDocs(Service))
  /\ volumes' = OrInserted(volumes, VolumeDocs(Service))
  /\ warnings' = IF LabelsReplaced(Service)
                 THEN Append(warnings, <<"RawLabelsReplaceGenerated", Service.name>>) ELSE warnings
  /\ UNCHANGED <<program, outcome>>

RejectService ==
  /\ outcome = "running" /\ Len(services) < Len(program.services)
  /\ ServiceError(Service) # None
  /\ outcome' = ServiceError(Service)
  /\ UNCHANGED <<program, services, networks, volumes, warnings>>

FinishDocument ==
  /\ outcome = "running" /\ Len(services) = Len(program.services)
  /\ warnings' = warnings \o UnusedNetworks
  /\ outcome' = "ok"
  /\ UNCHANGED <<program, services, networks, volumes>>

Next ==
  \/ GenerateService
  \/ RejectService
  \/ FinishDocument

Spec == Init /\ [][Next]_vars
-------------------------------------------------------------------------------
(* Properties.                                                             *)

(* Services are rendered in order, and the top-level sections hold nothing *)
(* but declarations, as they were made.                                    *)
TypeOK ==
  /\ Len(services) <= Len(program.services)
  /\ \A i \in DOMAIN services : services[i].name = program.services[i].name
  /\ \A n \in DOMAIN networks : n \in DOMAIN program.networks /\ networks[n] = program.networks[n]
  /\ \A v \in DOMAIN volumes : v \in DOMAIN program.volumes /\ volumes[v] = program.volumes[v]

(* Whatever a service says it joins or mounts, the document declares:      *)
(* every declared network on its list and every named volume it mounts has *)
(* its top-level entry, so `docker compose` never meets an undefined name  *)
(* or gives a declared network the settings of an undeclared one; and it   *)
(* declares nothing no service uses.  (resolve_networks, resolve_volumes   *)
(* and the merge of their results; docs/DESIGN.md:1516-1519.)              *)
NamesResolve ==
  /\ DOMAIN networks \subseteq UNION {ToSet(Attached(program.services[i])) : i \in DOMAIN services}
  /\ DOMAIN volumes \subseteq UNION {Mounted(program.services[i]) : i \in DOMAIN services}
  /\ \A i \in DOMAIN services :
       LET listed == ToSet(services[i].builtIn["networks"])
           mounts == services[i].builtIn["volumes"]
       IN  /\ listed \ {Default} \subseteq DOMAIN networks
           /\ listed \cap DOMAIN program.networks \subseteq DOMAIN networks
           /\ \A j \in DOMAIN mounts :
                program.services[i].volumes[j].named => mounts[j].host[1].word \in DOMAIN volumes

(* The services of one program can talk to each other: in a document of    *)
(* several, any two that leave their `networks` key to the compiler are on *)
(* the default network, each exactly once, whatever else they name.        *)
(* (docs/DESIGN.md:1530-1536; resolve_networks, auto_attach_default.)      *)
ServicesReachEachOther ==
  outcome = "ok" /\ Len(services) > 1 =>
    \A i \in DOMAIN services :
      LET listed == services[i].builtIn["networks"]
      IN  \/ \E once \in DOMAIN listed : \A j \in DOMAIN listed : listed[j] = Default <=> j = once
          \/ listed = Absent /\ <<Word("networks")>> \in DOMAIN services[i].raw

(* A declared network is missing from the document if and only if a        *)
(* warning says so: the references the warning is computed from and the    *)
(* sections the services brought in are two different tables.              *)
WarnedIffAbsent ==
  outcome = "ok" =>
    \A n \in DOMAIN program.networks :
      Contains(warnings, <<"UnusedNetwork", n>>) <=> n \notin DOMAIN networks

(* A built-in key the service sets is printed, unless a raw entry of that  *)
(* name stands in its place, never both (the document would be no YAML);   *)
(* and labels that are replaced this way are replaced with a warning.      *)
NothingLostSilently ==
  \A i \in DOMAIN services :
    LET s == program.services[i]
    IN  /\ \A k \in BuiltIns :
             Generated(s)[k] # Absent =>
               (services[i].builtIn[k] = Absent <=> <<Word(k)>> \in DOMAIN services[i].raw)
        /\ (\E j \in DOMAIN s.labels : LabelsDoc(s)[j] \notin ToSet(services[i].builtIn["labels"])) <=>
             Contains(warnings, <<"RawLabelsReplaceGenerated", s.name>>)

(* Every service of a document has something to run, by field or by raw    *)
(* entry, and only one that has neither is refused for it.                 *)
RunnableOrRefused ==
  LET gives(s, k) == Generated(s)[k] # Absent \/ RawNames(s, k)
  IN  /\ \A i \in DOMAIN services :
           \E k \in {"image", "build"} :
             services[i].builtIn[k] # Absent \/ <<Word(k)>> \in DOMAIN services[i].raw
      /\ outcome = "MissingImageOrBuild" => ~gives(Service, "image") /\ ~gives(Service, "build")

(* "A key repeated within one body is a compile error too [...] names both *)
(* occurrences so you can see which value you were about to lose"          *)
(* (book/src/built-in-fields.md:1056-1069): no raw entry is lost.          *)
RawEntriesKept ==
  \A i \in DOMAIN services :
    \A e \in ToSet(program.services[i].raw) :
      Yaml(e.value, services[i].name) = services[i].raw[Rendered(e.key.text, services[i].name)]
===============================================================================
