----------------------------- MODULE ModuleGraph -----------------------------
(***************************************************************************)
(* The linker (build in hl-linker's graph.rs): loads the entry file and    *)
(* everything its `use` tree reaches, breadth first, each source once,     *)
(* into a graph of modules; refuses duplicate names, unreadable sources    *)
(* and imports that lead nowhere; collects warnings in load order.         *)
(*                                                                         *)
(* One step reads a module, processes one of its declarations or stores    *)
(* it.  An error is the `?` that ends the link at once.                    *)
(***************************************************************************)
EXTENDS HllPaths, FiniteSets

CONSTANTS
  Worlds,   \* the file systems and registries to link in
  Defaults  \* the template name `defaults`

(* A world is an entry path, the user's files and the bundled modules; the *)
(* content of a source is a sequence of declarations, and whether it       *)
(* parses.  What is not in `files` cannot be read.                         *)
ASSUME WorldsAssumption ==
  \A w \in Worlds :
    /\ \A path \in DOMAIN w.files : w.files[path].decls \in Seq(ToSet(w.files[path].decls))
    /\ \A name \in DOMAIN w.registry : w.registry[name].decls \in Seq(ToSet(w.registry[name].decls))

(* Paths, of the entry and of every `use`, are sequences of components.    *)
IsPath(path) == path.parts \in Seq(ToSet(path.parts))

ASSUME PathsAssumption ==
  \A w \in Worlds :
    /\ w.entry = [root |-> w.entry.root, parts |-> w.entry.parts] /\ IsPath(w.entry)
    /\ \A content \in {w.files[path] : path \in DOMAIN w.files}
                       \cup {w.registry[name] : name \in DOMAIN w.registry} :
         \A decl \in ToSet(content.decls) : decl.kind = "use" => IsPath(decl.raw.path)

VARIABLES
  world,            \* the file system and registry being linked
  modules,          \* the graph: per module id, its source, aliases and names
  queue,            \* the ids still to load
  pathToId,         \* path_to_id
  stdToId,          \* std_to_id
  loading,          \* the id of the module being loaded, None between modules
  at,               \* the declaration of it that is next
  aliases,          \* its aliases so far
  names,            \* the names it declares so far, per kind
  warnings,         \* what was dropped, so far
  defaultsDecls,    \* `template defaults` declarations, with their place in warnings
  defaultsInvoked,  \* whether a service names `defaults` in a `with`
  outcome           \* the result of the link

local == <<loading, at, aliases, names>>
notes == <<warnings, defaultsDecls, defaultsInvoked>>
graph == <<modules, queue, pathToId, stdToId>>

vars == <<world, graph, local, notes, outcome>>

-------------------------------------------------------------------------------
Kinds == {"network", "volume", "service", "template"}

NoAliases == <<>>  \* the function with no argument

NoNames   == [k \in Kinds |-> {}]

(* Module::default, for the source an id was given to.                     *)
Blank(source) == [source |-> source, aliases |-> NoAliases, names |-> NoNames]

None == 0  \* no module id

Running   == [status |-> "running", error |-> "none"]
Linked    == [status |-> "ok", error |-> "none"]
Failed(e) == [status |-> "failed", error |-> e]

EntryId == 1

Missing == [status |-> "Io", decls |-> <<>>]

Content(source) ==
  IF source.space = "user"
  THEN IF source.path \in DOMAIN world.files THEN world.files[source.path] ELSE Missing
  ELSE world.registry[source.path.parts]

Init ==
  /\ world \in Worlds
  /\ LET entry == UserFile(Normalize(world.entry))
     IN  /\ modules = <<Blank(entry)>>
         /\ pathToId = [p \in {entry.path} |-> EntryId]
  /\ queue = <<EntryId>>
  /\ stdToId = NoAliases
  /\ loading = None
  /\ at = 1
  /\ aliases = NoAliases
  /\ names = NoNames
  /\ warnings = <<>>
  /\ defaultsDecls = <<>>
  /\ defaultsInvoked = FALSE
  /\ outcome = Running

-------------------------------------------------------------------------------
(* The module being loaded.                                                *)

Between == outcome = Running /\ loading = None
Decls   == Content(modules[loading].source).decls

(* Mutant: the loop over the declarations stops before the last one.       *)
InsideAllButLast == outcome = Running /\ loading # None /\ at < Len(Decls)

Inside  == outcome = Running /\ loading # None /\ at <= Len(Decls)
Past    == outcome = Running /\ loading # None /\ at > Len(Decls)
Decl    == Decls[at]
Here    == <<loading, at>>
IsEntry == loading = EntryId

Declared == Inside /\ Decl.kind \in Kinds
Repeated == Decl.name \in names[Decl.kind]

(* The declaration is recorded and the next one is looked at.              *)
Record ==
  /\ names' = [names EXCEPT ![Decl.kind] = @ \cup {Decl.name}]
  /\ at' = at + 1
  /\ UNCHANGED <<loading, aliases>>

Return(result) ==
  /\ outcome' = result
  /\ UNCHANGED <<world, graph, local, notes>>

-------------------------------------------------------------------------------
Upcoming == Content(modules[Head(queue)].source)

(* The source cannot be read, or cannot be parsed.                         *)
RejectSource ==
  /\ Between /\ queue # <<>>
  /\ Upcoming.status # "ok"
  /\ Return(Failed(Upcoming.status))

ReadModule ==
  /\ Between /\ queue # <<>>
  /\ Upcoming.status = "ok"
  /\ loading' = Head(queue)
  /\ at' = 1
  /\ aliases' = NoAliases
  /\ names' = NoNames
  /\ queue' = Tail(queue)
  /\ UNCHANGED <<world, modules, pathToId, stdToId, notes, outcome>>

RejectDuplicate ==
  /\ Declared /\ Repeated
  /\ Return(Failed("DuplicateName"))

DeclareNetworkOrVolume ==
  /\ Declared /\ ~Repeated
  /\ Decl.kind \in {"network", "volume"}
  /\ Record
  /\ UNCHANGED <<world, graph, notes, outcome>>

(* Mutant: only the first entry of the `with` list is looked at.           *)
FirstNamesDefaults(decl) == decl.with # <<>> /\ decl.with[1].name = Defaults

NamesDefaults(decl) == \E i \in DOMAIN decl.with : decl.with[i].name = Defaults

(* A service outside the entry file is dropped with a warning.             *)
DeclareService ==
  /\ Declared /\ ~Repeated
  /\ Decl.kind = "service"
  /\ Record
  /\ defaultsInvoked' = (defaultsInvoked \/ NamesDefaults(Decl))
  /\ warnings' = IF IsEntry THEN warnings
                 ELSE Append(warnings, [kind |-> "ImportedService", place |-> Here])
  /\ UNCHANGED <<world, graph, defaultsDecls, outcome>>

DeclareTemplate ==
  /\ Declared /\ ~Repeated
  /\ Decl.kind = "template"
  /\ Record
  /\ defaultsDecls' = IF Decl.name # Defaults THEN defaultsDecls
                      ELSE Append(defaultsDecls, [index |-> Len(warnings), place |-> Here])
  /\ UNCHANGED <<world, graph, warnings, defaultsInvoked, outcome>>

-------------------------------------------------------------------------------
(* `use`: the alias, the path and the registry are tested in this order.   *)

Using    == Inside /\ Decl.kind = "use"
Import   == ResolveImport(modules[loading].source, Decl.raw)
NewAlias == Decl.name \notin DOMAIN aliases

(* Mutant: an alias bound twice silently means the last one.               *)
UseErrorAliasUntested ==
  IF Import = Escape THEN "PathEscape"
  ELSE IF Import.space = "std" /\ Import.path.parts \notin DOMAIN world.registry
       THEN "UnknownStdModule"
  ELSE "none"

UseError ==
  IF ~NewAlias THEN "DuplicateAlias"
  ELSE IF Import = Escape THEN "PathEscape"
  ELSE IF Import.space = "std" /\ Import.path.parts \notin DOMAIN world.registry
       THEN "UnknownStdModule"
  ELSE "none"

(* Mutant: only user files are memoized.                                   *)
KnownFile(source) == source.path \in DOMAIN pathToId

(* The id a source already has, in the table of its namespace.             *)
Known(source) ==
  IF source.space = "user" THEN source.path \in DOMAIN pathToId
                           ELSE source.path.parts \in DOMAIN stdToId

IdOf(source) == IF source.space = "user" THEN pathToId[source.path]
                                         ELSE stdToId[source.path.parts]

Bind(id) ==
  /\ aliases' = [a \in DOMAIN aliases \cup {Decl.name} |->
                   IF a = Decl.name THEN id ELSE aliases[a]]
  /\ at' = at + 1
  /\ UNCHANGED <<loading, names>>

(* Mutant: the new module is loaded next.                                  *)
EnqueueFirst(id) == <<id>> \o queue

Enqueue(id) == Append(queue, id)

RejectUse ==
  /\ Using /\ UseError # "none"
  /\ Return(Failed(UseError))

UseKnownModule ==
  /\ Using /\ UseError = "none"
  /\ Known(Import)
  /\ Bind(IdOf(Import))
  /\ UNCHANGED <<world, graph, notes, outcome>>

UseNewModule ==
  /\ Using /\ UseError = "none"
  /\ ~Known(Import)
  /\ LET id == Len(modules) + 1 IN
     /\ modules' = Append(modules, Blank(Import))
     /\ queue' = Enqueue(id)
     /\ Bind(id)
     /\ IF Import.space = "user"
        THEN /\ pathToId' = [p \in DOMAIN pathToId \cup {Import.path} |->
                               IF p = Import.path THEN id ELSE pathToId[p]]
             /\ UNCHANGED stdToId
        ELSE /\ stdToId' = [n \in DOMAIN stdToId \cup {Import.path.parts} |->
                              IF n = Import.path.parts THEN id ELSE stdToId[n]]
             /\ UNCHANGED pathToId
  /\ UNCHANGED <<world, notes, outcome>>

StoreModule ==
  /\ Past
  /\ modules' = [modules EXCEPT ![loading] = [source |-> modules[loading].source,
                                             aliases |-> aliases, names |-> names]]
  /\ loading' = None
  /\ UNCHANGED <<world, queue, pathToId, stdToId, at, aliases, names, notes, outcome>>

-------------------------------------------------------------------------------
(* Each declaration's warning goes in at the index it would have had, the  *)
(* last one first, so that the indices before it stay valid.               *)
SpliceOne(decl, list) ==
  InsertAt(list, decl.index + 1, [kind |-> "UnappliedDefaults", place |-> decl.place])

(* Mutant: spliced in front to back.                                       *)
SpliceForward(list, decls) == FoldLeft(LAMBDA l, d : SpliceOne(d, l), list, decls)

Splice(list, decls) == FoldRight(SpliceOne, decls, list)

FinishLink ==
  /\ Between /\ queue = <<>>
  /\ outcome' = Linked
  /\ warnings' = IF defaultsInvoked THEN warnings ELSE Splice(warnings, defaultsDecls)
  /\ UNCHANGED <<world, graph, local, defaultsDecls, defaultsInvoked>>

Next ==
  \/ RejectSource
  \/ ReadModule
  \/ RejectDuplicate
  \/ DeclareNetworkOrVolume
  \/ DeclareService
  \/ DeclareTemplate
  \/ RejectUse
  \/ UseKnownModule
  \/ UseNewModule
  \/ StoreModule
  \/ FinishLink

Spec == Init /\ [][Next]_vars

(* One sequential thread, which runs until the link returns.               *)
FairSpec == Spec /\ WF_vars(Next)
-------------------------------------------------------------------------------
(* Properties.                                                             *)

(* The graph is well formed: ids are handed out and loaded in order, the   *)
(* queue holds exactly those still to load, aliases name modules.          *)
TypeOK ==
  /\ loading \in 0..Len(modules)
  /\ \E n \in 0..Len(modules) : queue = [i \in 1..n |-> Len(modules) - n + i]
  /\ loading # None => loading = Len(modules) - Len(queue)
  /\ \A id \in 1..Len(modules) : \A a \in DOMAIN modules[id].aliases :
       modules[id].aliases[a] \in 1..Len(modules)
  /\ \A a \in DOMAIN aliases : aliases[a] \in 1..Len(modules)

(* The two tables and the graph say the same: every module is found under  *)
(* its source and under no other, in the table of its own namespace, so a  *)
(* file can neither be loaded twice under one name nor shadow a bundled    *)
(* module.                                                                 *)
TablesAgree ==
  /\ \A path \in DOMAIN pathToId :
       pathToId[path] \in 1..Len(modules) /\ modules[pathToId[path]].source = UserFile(path)
  /\ \A name \in DOMAIN stdToId :
       stdToId[name] \in 1..Len(modules) /\ modules[stdToId[name]].source = StdModule(name)
  /\ \A id \in 1..Len(modules) :
       Known(modules[id].source) /\ IdOf(modules[id].source) = id

(* The file a path leads to when the operating system walks it: above the  *)
(* root there is only the root.                                            *)
Walk(path) ==
  [path EXCEPT !.parts =
     FoldLeft(LAMBDA out, c : IF path.root /\ c = ParentDir /\ out = <<>> THEN out
                              ELSE Collapse(out, c), <<>>, @)]

(* Two spellings of one file are one module ("so two spellings of the same *)
(* file resolve to the same PathBuf identity", path.rs:14-16).             *)
OneModulePerFile ==
  \A i, j \in 1..Len(modules) :
    (/\ modules[i].source.space = "user" /\ modules[j].source.space = "user"
     /\ Walk(modules[i].source.path) = Walk(modules[j].source.path)) => i = j

(* The warnings of a link come in load order, although those about         *)
(* `template defaults` are raised when everything has been loaded.         *)
Before(p, q) == p[1] < q[1] \/ (p[1] = q[1] /\ p[2] < q[2])

WarningsInLoadOrder ==
  outcome.status = "ok" =>
    \A i, j \in 1..Len(warnings) : i < j => Before(warnings[i].place, warnings[j].place)

(* Exactly what was dropped is warned about: every service of an imported  *)
(* file, and every `template defaults` when no service of any file names   *)
(* it, whichever was loaded first.                                         *)
DeclAt(place) == Content(modules[place[1]].source).decls[place[2]]

Places ==
  UNION {{<<id, i>> : i \in DOMAIN Content(modules[id].source).decls} : id \in 1..Len(modules)}

Warned(kind) == {p \in Places : \E i \in 1..Len(warnings) :
                   warnings[i] = [kind |-> kind, place |-> p]}

Dropped == {p \in Places : p[1] # EntryId /\ DeclAt(p).kind = "service"}

DefaultsDeclared == {p \in Places : DeclAt(p).kind = "template" /\ DeclAt(p).name = Defaults}

DefaultsNamed ==
  \E p \in Places :
    DeclAt(p).kind = "service" /\ \E i \in DOMAIN DeclAt(p).with : DeclAt(p).with[i].name = Defaults

WarningsExact ==
  outcome.status = "ok" =>
    /\ Warned("ImportedService") = Dropped
    /\ Warned("UnappliedDefaults") = IF DefaultsNamed THEN {} ELSE DefaultsDeclared
    /\ Len(warnings) = Cardinality(Warned("ImportedService") \cup Warned("UnappliedDefaults"))

(* The graph once it is finished, ids replaced by sources.                 *)
LoadedGraph ==
  IF outcome.status # "ok" THEN <<>>
  ELSE [s \in {modules[id].source : id \in 1..Len(modules)} |->
          LET m == modules[IdOf(s)]
          IN  [a \in DOMAIN m.aliases |-> modules[m.aliases[a]].source]]

Promise == INSTANCE ModuleClosure WITH graph <- LoadedGraph, verdict <- outcome.status

(* Loading breadth first through two tables computes the closure of the    *)
(* entry file under `use`, and fails only for a faulty source in it.       *)
Implements == Promise!Spec

(* The link returns, on cyclic `use` graphs too.                           *)
Termination == <>(outcome.status # "running")
===============================================================================
