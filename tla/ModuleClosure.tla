---------------------------- MODULE ModuleClosure ----------------------------
(***************************************************************************)
(* What linking promises, in one step and without queue or tables: the     *)
(* graph is the closure of the entry file under `use`, each alias leading  *)
(* to the source its path resolves to from the file that wrote it, and the *)
(* link fails exactly when some source of that closure is faulty.          *)
(***************************************************************************)
EXTENDS HllPaths

VARIABLES
  world,   \* the file system and registry being linked
  graph,   \* per source, its aliases; nothing before the link has succeeded
  verdict  \* "running", "ok" or "failed"

vars == <<world, graph, verdict>>

Missing == [status |-> "Io", decls |-> <<>>]

Content(w, source) ==
  IF source.space = "user" /\ source.path \in DOMAIN w.files THEN w.files[source.path]
  ELSE IF source.space = "std" /\ source.path.parts \in DOMAIN w.registry
       THEN w.registry[source.path.parts]
  ELSE Missing

Readable(w, source) == Content(w, source).status = "ok"

Text(w, source) == Content(w, source).decls

Uses(w, source) ==
  {i \in DOMAIN Text(w, source) : Text(w, source)[i].kind = "use"}

Targets(w, source) ==
  IF Readable(w, source)
  THEN {ResolveImport(source, Text(w, source)[i].raw) : i \in Uses(w, source)}
  ELSE {}

Entry(w) == UserFile(Normalize(w.entry))

(* What linking loads: the least set that contains the entry and is closed *)
(* under `use`.                                                            *)
Closed(w, S) == Entry(w) \in S /\ \A s \in S : Targets(w, s) \subseteq S

IsClosure(w, S) == Closed(w, S) /\ \A T \in SUBSET S : Closed(w, T) => T = S

(* A source that can be read and repeats no name of a kind, no alias.      *)
Sound(w, source) ==
  /\ Readable(w, source)
  /\ \A i, j \in DOMAIN Text(w, source) :
       (/\ Text(w, source)[i].kind = Text(w, source)[j].kind
        /\ Text(w, source)[i].name = Text(w, source)[j].name) => i = j

SoundSources(w) ==
  {s \in {UserFile(p) : p \in DOMAIN w.files} \cup {StdModule(n) : n \in DOMAIN w.registry} : Sound(w, s)}

AliasesOf(w, source) ==
  [a \in {Text(w, source)[i].name : i \in Uses(w, source)} |->
     ResolveImport(source, Text(w, source)[CHOOSE i \in Uses(w, source) :
                                             Text(w, source)[i].name = a].raw)]

Init == graph = <<>> /\ verdict = "running"

Link ==
  /\ verdict = "running"
  /\ verdict' = "ok"
  /\ \E S \in SUBSET SoundSources(world) :
       IsClosure(world, S) /\ graph' = [s \in S |-> AliasesOf(world, s)]
  /\ UNCHANGED world

(* Whatever contains the entry and is closed has a faulty source.          *)
Refuse ==
  /\ verdict = "running"
  /\ verdict' = "failed"
  /\ \A S \in SUBSET SoundSources(world) : ~Closed(world, S)
  /\ UNCHANGED <<world, graph>>

Next == Link \/ Refuse

Spec == Init /\ [][Next]_vars
===============================================================================
