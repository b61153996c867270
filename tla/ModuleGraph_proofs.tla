-------------------------- MODULE ModuleGraph_proofs --------------------------
(***************************************************************************)
(* Proofs about the linker, for every set of worlds.  The ids, the queue   *)
(* and the two tables agree after every step (Tables).  Linking implements *)
(* ModuleClosure: on top of the tables, every module loaded so far is      *)
(* sound and its aliases are what its `use` declarations say (Loaded,      *)
(* Loading), and every module is in every set that is closed under `use`   *)
(* (Reached): at the end the graph is the least such set, and what the     *)
(* link refuses no such set can avoid.                                     *)
(*                                                                         *)
(* One module per file: every user's module has a path in normal form      *)
(* (Placed), and along such a path the operating system goes where it says *)
(* unless it climbs above the root (WalkedNormal).                         *)
(*                                                                         *)
(* Warnings: while modules are loaded, every declaration that was passed   *)
(* and has to be warned about is in one of two lists, each in load order   *)
(* and each entry of the second with its place among those of the first    *)
(* (Noting); at the end the second list is spliced into the first, from    *)
(* its last entry to its first (SpliceAll).                                *)
(***************************************************************************)
EXTENDS ModuleGraph, SequenceLemmas

(* The graph, the queue and the tables.                                    *)
Tables ==
  /\ world \in Worlds
  /\ modules \in Seq(ToSet(modules)) /\ Len(modules) > 0
  /\ TypeOK
  /\ TablesAgree

-------------------------------------------------------------------------------
(* Sources and queues.                                                     *)

(* The namespace of a source tells what it is, and its path which.         *)
LEMMA Namespaces ==
  /\ \A p : UserFile(p).space = "user" /\ UserFile(p).path = p
  /\ \A n : StdModule(n).space = "std" /\ StdModule(n).path.parts = n
  /\ Escape.space = "escape"
BY DEF UserFile, StdModule, Relative, Escape

(* An import leads out of the tree, to a file or to a bundled module.      *)
LEMMA ImportKinds ==
  ASSUME NEW from, NEW raw
  PROVE  LET s == ResolveImport(from, raw)
         IN  \/ s = Escape
             \/ s.space = "user" /\ s = UserFile(s.path)
             \/ s.space = "std" /\ s = StdModule(s.path.parts)
<1>1. ASSUME NEW f, NEW r
      PROVE  ResolveRelative(f, r) = Escape \/ \E p : ResolveRelative(f, r) = UserFile(p)
  BY DEF ResolveRelative
<1>2. ASSUME NEW f, NEW r
      PROVE  ResolveSibling(f, r) = Escape \/ \E n : ResolveSibling(f, r) = StdModule(n)
  BY DEF ResolveSibling
<1>3. \/ ResolveImport(from, raw) = Escape
      \/ \E p : ResolveImport(from, raw) = UserFile(p)
      \/ \E n : ResolveImport(from, raw) = StdModule(n)
  BY <1>1, <1>2 DEF ResolveImport
<1> QED
  BY <1>3, Namespaces

(* The queue of the last n of N ids, entry by entry.                       *)
LEMMA QueueEntries ==
  ASSUME NEW N \in Nat, NEW n \in 0..N, NEW q, q = [i \in 1..n |-> N - n + i]
  PROVE  q \in Seq(Nat) /\ Len(q) = n /\ \A i \in 1..n : q[i] = N - n + i
<1>1. \A i \in 1..n : N - n + i \in Nat
  OBVIOUS
<1> QED
  BY <1>1

LEMMA QueueOf ==
  ASSUME NEW N \in Nat, NEW n \in 0..N, NEW q \in Seq(Nat), Len(q) = n, \A i \in 1..n : q[i] = N - n + i
  PROVE  q = [i \in 1..n |-> N - n + i]
BY LenProperties

(* The ids: the queue holds the last ones, the one being loaded is before. *)
LEMMA Ids ==
  ASSUME Tables
  PROVE  /\ Len(modules) \in Nat \ {0}
         /\ queue \in Seq(Nat) /\ Len(queue) \in 0..Len(modules)
         /\ \A i \in 1..Len(queue) : queue[i] = Len(modules) - Len(queue) + i
         /\ loading \in 0..Len(modules)
         /\ loading # None => loading \in 1..Len(modules) /\ loading = Len(modules) - Len(queue)
<1>1. Len(modules) \in Nat \ {0}
  BY LenProperties DEF Tables
<1>2. PICK n \in 0..Len(modules) : queue = [i \in 1..n |-> Len(modules) - n + i]
  BY DEF Tables, TypeOK
<1>3. queue \in Seq(Nat) /\ Len(queue) = n /\ \A i \in 1..n : queue[i] = Len(modules) - n + i
  BY <1>1, <1>2, QueueEntries
<1> QED
  BY <1>1, <1>3 DEF Tables, TypeOK, None

-------------------------------------------------------------------------------
(* The first layer.                                                        *)

LEMMA InitTables == Init => Tables
<1> SUFFICES ASSUME Init PROVE Tables
  OBVIOUS
<1> DEFINE entry == UserFile(Normalize(world.entry))
           blank == Blank(entry)
<1>1. /\ world \in Worlds /\ modules = <<blank>>
      /\ pathToId = [p \in {entry.path} |-> EntryId] /\ stdToId = NoAliases
      /\ queue = <<EntryId>> /\ loading = None /\ aliases = NoAliases
  BY DEF Init
<1>2. entry = UserFile(entry.path) /\ entry.space = "user"
  BY Namespaces
<1>3. blank.source = entry /\ blank.aliases = NoAliases
  BY DEF Blank
<1>4. modules \in Seq({blank}) /\ Len(modules) = 1 /\ modules[1] = blank
  <2> HIDE DEF blank
  <2> QED
    BY <1>1
<1>5. modules \in Seq(ToSet(modules))
  BY <1>4, OwnElements
<1>6. DOMAIN NoAliases = {}
  BY DEF NoAliases
<1>7. TypeOK
  <2>1. queue = [i \in 1..1 |-> Len(modules) - 1 + i]
    BY <1>1, <1>4 DEF EntryId
  <2> QED
    BY <1>1, <1>3, <1>4, <1>6, <2>1 DEF TypeOK, None
<1>8. TablesAgree
  <2> HIDE DEF blank, entry
  <2> QED
    BY <1>1, <1>2, <1>3, <1>4, <1>6 DEF TablesAgree, Known, IdOf, EntryId
<1> QED
  BY <1>1, <1>4, <1>5, <1>7, <1>8 DEF Tables

(* The steps that leave the graph, the queue and the tables alone.         *)
Keeps == UNCHANGED <<world, modules, queue, pathToId, stdToId, loading>>

LEMMA StepKinds ==
  ASSUME [Next]_vars
  PROVE  \/ /\ Keeps /\ UNCHANGED aliases
            /\ \/ UNCHANGED <<at, names>>
               \/ Declared /\ ~Repeated /\ Record
         \/ ReadModule
         \/ UseKnownModule
         \/ UseNewModule
         \/ StoreModule
BY DEF Next, vars, Keeps, graph, local, notes, RejectSource, RejectDuplicate, RejectUse, Return,
       DeclareNetworkOrVolume, DeclareService, DeclareTemplate, Record, FinishLink

(* The bindings a `use` leaves.                                            *)
LEMMA BindStep ==
  ASSUME NEW id, Bind(id)
  PROVE  /\ DOMAIN aliases' = DOMAIN aliases \cup {Decl.name}
         /\ aliases'[Decl.name] = id
         /\ \A a \in DOMAIN aliases : a # Decl.name => aliases'[a] = aliases[a]
         /\ at' = at + 1 /\ UNCHANGED <<loading, names>>
BY DEF Bind

(* What an accepted `use` imports is a file, or a bundled module there is. *)
LEMMA ImportAccepted ==
  ASSUME UseError = "none"
  PROVE  /\ NewAlias
         /\ \/ Import.space = "user" /\ Import = UserFile(Import.path)
            \/ /\ Import.space = "std" /\ Import = StdModule(Import.path.parts)
               /\ Import.path.parts \in DOMAIN world.registry
<1>1. NewAlias /\ Import # Escape
  BY DEF UseError
<1>2. Import.space = "std" => Import.path.parts \in DOMAIN world.registry
  BY <1>1 DEF UseError
<1> QED
  BY <1>1, <1>2, ImportKinds DEF Import

(* A new module has the next id, in the queue and in the table.            *)
LEMMA NewModuleStep ==
  ASSUME Tables, UseNewModule
  PROVE  /\ modules' \in Seq(ToSet(modules)') /\ Len(modules') = Len(modules) + 1
         /\ \A id \in 1..Len(modules) : modules'[id] = modules[id]
         /\ modules'[Len(modules) + 1] = Blank(Import)
         /\ Len(queue') = Len(queue) + 1
         /\ UNCHANGED <<world, loading>>
         /\ Bind(Len(modules) + 1)
<1>1. /\ modules' = Append(modules, Blank(Import)) /\ queue' = Append(queue, Len(modules) + 1)
      /\ UNCHANGED <<world, loading>> /\ Bind(Len(modules) + 1)
  BY DEF UseNewModule, Enqueue, Bind
<1> QED
  BY <1>1, Ids, OwnAppend, AppendProperties DEF Tables

(* A stored module keeps its source.                                       *)
LEMMA StoreStep ==
  ASSUME Tables, StoreModule
  PROVE  /\ modules' \in Seq(ToSet(modules)') /\ Len(modules') = Len(modules)
         /\ \A id \in 1..Len(modules) : modules'[id].source = modules[id].source
         /\ \A id \in 1..Len(modules) : id # loading => modules'[id] = modules[id]
         /\ loading \in 1..Len(modules)
         /\ modules'[loading].aliases = aliases
         /\ loading' = None
         /\ UNCHANGED <<world, queue, pathToId, stdToId, aliases>>
<1> DEFINE stored == [source |-> modules[loading].source, aliases |-> aliases, names |-> names]
<1>1. /\ modules' = [modules EXCEPT ![loading] = stored] /\ loading' = None
      /\ UNCHANGED <<world, queue, pathToId, stdToId, aliases>> /\ loading # None
  BY DEF StoreModule, Past
<1>2. loading \in 1..Len(modules)
  BY <1>1, Ids
<1>3. stored.source = modules[loading].source /\ stored.aliases = aliases
  OBVIOUS
<1>4. /\ modules' \in Seq(ToSet(modules)') /\ Len(modules') = Len(modules)
      /\ \A id \in 1..Len(modules) : modules'[id] = IF id = loading THEN stored ELSE modules[id]
  <2> HIDE DEF stored
  <2>1. modules \in Seq(ToSet(modules))
    BY DEF Tables
  <2>2. PICK t : t = [modules EXCEPT ![loading] = stored]
    OBVIOUS
  <2>3. t \in Seq(ToSet(t)) /\ Len(t) = Len(modules)
    BY <1>2, <2>1, <2>2, OwnExcept
  <2>4. \A id \in 1..Len(modules) : t[id] = IF id = loading THEN stored ELSE modules[id]
    BY <1>2, <2>1, <2>2, OwnExcept
  <2>5. modules' = t
    BY <1>1, <2>2
  <2> QED
    BY <2>3, <2>4, <2>5
<1> QED
  BY <1>1, <1>2, <1>3, <1>4

LEMMA NextTables == Tables /\ [Next]_vars => Tables'
<1> SUFFICES ASSUME Tables, [Next]_vars PROVE Tables'
  OBVIOUS
<1> DEFINE N == Len(modules)
<1>1. CASE Keeps /\ UNCHANGED aliases
  BY <1>1 DEF Keeps, Tables, TypeOK, TablesAgree, Known, IdOf
<1>2. CASE ReadModule
  <2>1. /\ UNCHANGED <<world, modules, pathToId, stdToId>> /\ loading = None /\ queue # <<>>
        /\ loading' = Head(queue) /\ queue' = Tail(queue) /\ aliases' = NoAliases
    BY <1>2 DEF ReadModule, Between
  <2>2. /\ Len(queue) > 0 /\ Tail(queue) \in Seq(Nat) /\ Len(Tail(queue)) = Len(queue) - 1
        /\ \A i \in 1..(Len(queue) - 1) : Tail(queue)[i] = queue[i + 1]
        /\ Head(queue) = queue[1]
    BY <2>1, Ids, HeadTailProperties, EmptySeq
  <2>3. loading' = N - (Len(queue) - 1) /\ Len(queue) - 1 \in 0..N /\ Len(queue') = Len(queue) - 1
    BY <2>1, <2>2, Ids
  <2>4. queue' = [i \in 1..(Len(queue) - 1) |-> N - (Len(queue) - 1) + i]
    <3>1. \A i \in 1..(Len(queue) - 1) : Tail(queue)[i] = N - (Len(queue) - 1) + i
      BY <2>2, Ids
    <3>2. PICK n \in 0..N : n = Len(queue) - 1
      BY <2>3
    <3> QED
      BY <2>1, <2>2, <3>1, <3>2, Ids, QueueOf
  <2>5. TypeOK'
    <3>1. \E n \in 0..N : queue' = [i \in 1..n |-> N - n + i]
      BY <2>3, <2>4
    <3>2. loading' \in 0..N /\ loading' = N - Len(queue')
      BY <2>1, <2>2, <2>4, Ids
    <3>3. DOMAIN aliases' = {}
      BY <2>1 DEF NoAliases
    <3> QED
      BY <2>1, <3>1, <3>2, <3>3 DEF Tables, TypeOK
  <2> QED
    BY <2>1, <2>5 DEF Tables, TablesAgree, Known, IdOf
<1>3. CASE UseKnownModule
  <2>1. Keeps /\ Bind(IdOf(Import)) /\ UseError = "none" /\ Known(Import)
    BY <1>3 DEF UseKnownModule, graph, notes, Keeps, Bind
  <2>2. IdOf(Import) \in 1..N
    BY <2>1, ImportAccepted DEF Known, IdOf, Tables, TablesAgree
  <2>3. \A a \in DOMAIN aliases' : aliases'[a] \in 1..N
    BY <2>1, <2>2, BindStep DEF Tables, TypeOK
  <2> QED
    BY <2>1, <2>3 DEF Keeps, Tables, TypeOK, TablesAgree, Known, IdOf
<1>4. CASE UseNewModule
  <2>1. /\ UseError = "none" /\ ~Known(Import) /\ Bind(N + 1)
        /\ UNCHANGED <<world, loading>>
        /\ queue' = Append(queue, N + 1)
    BY <1>4, NewModuleStep DEF UseNewModule, Enqueue
  <2>2. N \in Nat /\ loading # None
    BY <1>4, Ids DEF UseNewModule, Using, Inside
  <2>3. TypeOK'
    <3>1. queue' = [i \in 1..(Len(queue) + 1) |-> (N + 1) - (Len(queue) + 1) + i]
      <4>1. /\ Append(queue, N + 1) \in Seq(Nat) /\ Len(Append(queue, N + 1)) = Len(queue) + 1
            /\ \A i \in 1..(Len(queue) + 1) : Append(queue, N + 1)[i] = (N + 1) - (Len(queue) + 1) + i
        BY <2>2, Ids, AppendProperties
      <4> QED
        BY <2>1, <2>2, <4>1, Ids, QueueOf
    <3>2. \A id \in 1..(N + 1) : \A a \in DOMAIN modules'[id].aliases : modules'[id].aliases[a] \in 1..(N + 1)
      <4>1. DOMAIN Blank(Import).aliases = {}
        BY DEF Blank, NoAliases
      <4> QED
        BY <1>4, <2>2, <4>1, NewModuleStep DEF Tables, TypeOK
    <3>3. \A a \in DOMAIN aliases' : aliases'[a] \in 1..(N + 1)
      BY <2>1, <2>2, BindStep DEF Tables, TypeOK
    <3>4. /\ Len(modules') = N + 1 /\ loading' = loading /\ Len(queue') = Len(queue) + 1
          /\ loading \in 0..N /\ loading = N - Len(queue) /\ Len(queue) \in 0..N
      BY <1>4, <2>2, NewModuleStep, Ids
    <3>5. \E n \in 0..(N + 1) : queue' = [i \in 1..n |-> (N + 1) - n + i]
      <4>1. PICK n \in 0..(N + 1) : n = Len(queue) + 1
        BY <2>2, <3>4
      <4> QED
        BY <3>1, <4>1
    <3>6. loading' \in 0..(N + 1) /\ loading' = (N + 1) - Len(queue')
      BY <2>2, <3>4
    <3> QED
      BY <3>2, <3>3, <3>4, <3>5, <3>6 DEF TypeOK
  <2>4. Blank(Import).source = Import
    BY DEF Blank
  <2>5. /\ Len(modules') = N + 1 /\ modules'[N + 1].source = Import
        /\ \A id \in 1..N : modules'[id].source = modules[id].source
    BY <1>4, <2>4, NewModuleStep
  <2>6. /\ \A path \in DOMAIN pathToId :
             pathToId[path] \in 1..N /\ modules[pathToId[path]].source = UserFile(path)
        /\ \A name \in DOMAIN stdToId :
             stdToId[name] \in 1..N /\ modules[stdToId[name]].source = StdModule(name)
        /\ \A id \in 1..N : Known(modules[id].source) /\ IdOf(modules[id].source) = id
    BY DEF Tables, TablesAgree
  <2> DEFINE Found(source, id) ==
        IF source.space = "user" THEN source.path \in DOMAIN pathToId' /\ pathToId'[source.path] = id
        ELSE source.path.parts \in DOMAIN stdToId' /\ stdToId'[source.path.parts] = id
  <2>7. CASE Import.space = "user"
    <3>1. /\ DOMAIN pathToId' = DOMAIN pathToId \cup {Import.path} /\ stdToId' = stdToId
          /\ pathToId'[Import.path] = N + 1
          /\ \A p \in DOMAIN pathToId : p # Import.path => pathToId'[p] = pathToId[p]
      BY <1>4, <2>7 DEF UseNewModule
    <3>2. Import.path \notin DOMAIN pathToId /\ Import = UserFile(Import.path)
      BY <2>1, <2>7, ImportAccepted DEF Known
    <3>3. \A path \in DOMAIN pathToId' :
            pathToId'[path] \in 1..(N + 1) /\ modules'[pathToId'[path]].source = UserFile(path)
      BY <2>2, <2>5, <2>6, <3>1, <3>2
    <3>4. \A name \in DOMAIN stdToId' :
            stdToId'[name] \in 1..(N + 1) /\ modules'[stdToId'[name]].source = StdModule(name)
      BY <2>2, <2>5, <2>6, <3>1, <3>2
    <3>5. \A id \in 1..N : Found(modules'[id].source, id)
      BY <2>5, <2>6, <3>1, <3>2 DEF Known, IdOf
    <3>6. Found(modules'[N + 1].source, N + 1)
      BY <2>5, <2>7, <3>1
    <3>7. \A id \in 1..(N + 1) : Found(modules'[id].source, id)
      BY <2>2, <3>5, <3>6
    <3>8. TablesAgree'
      BY <2>5, <3>3, <3>4, <3>7 DEF TablesAgree, Known, IdOf
    <3> QED
      BY <1>4, <2>2, <2>3, <3>8, NewModuleStep DEF Tables
  <2>8. CASE Import.space # "user"
    <3>1. /\ DOMAIN stdToId' = DOMAIN stdToId \cup {Import.path.parts} /\ pathToId' = pathToId
          /\ stdToId'[Import.path.parts] = N + 1
          /\ \A n \in DOMAIN stdToId : n # Import.path.parts => stdToId'[n] = stdToId[n]
      BY <1>4, <2>8 DEF UseNewModule
    <3>2. Import.path.parts \notin DOMAIN stdToId /\ Import = StdModule(Import.path.parts)
      BY <2>1, <2>8, ImportAccepted DEF Known
    <3>3. \A path \in DOMAIN pathToId' :
            pathToId'[path] \in 1..(N + 1) /\ modules'[pathToId'[path]].source = UserFile(path)
      BY <2>2, <2>5, <2>6, <3>1, <3>2
    <3>4. \A name \in DOMAIN stdToId' :
            stdToId'[name] \in 1..(N + 1) /\ modules'[stdToId'[name]].source = StdModule(name)
      BY <2>2, <2>5, <2>6, <3>1, <3>2
    <3>5. \A id \in 1..N : Found(modules'[id].source, id)
      BY <2>5, <2>6, <3>1, <3>2 DEF Known, IdOf
    <3>6. Found(modules'[N + 1].source, N + 1)
      BY <2>5, <2>8, <3>1
    <3>7. \A id \in 1..(N + 1) : Found(modules'[id].source, id)
      BY <2>2, <3>5, <3>6
    <3>8. TablesAgree'
      BY <2>5, <3>3, <3>4, <3>7 DEF TablesAgree, Known, IdOf
    <3> QED
      BY <1>4, <2>2, <2>3, <3>8, NewModuleStep DEF Tables
  <2> QED
    BY <2>7, <2>8
<1>5. CASE StoreModule
  <2>1. \A id \in 1..N : \A a \in DOMAIN modules'[id].aliases : modules'[id].aliases[a] \in 1..N
    BY <1>5, StoreStep DEF Tables, TypeOK
  <2>2. TypeOK'
    <3>1. /\ Len(modules') = N /\ loading' = 0 /\ N \in Nat
          /\ UNCHANGED <<queue, aliases>>
      BY <1>5, StoreStep, Ids DEF None
    <3>2. \A id \in 1..N : \A a \in DOMAIN modules'[id].aliases : modules'[id].aliases[a] \in 1..N
      BY <1>5, <2>1, StoreStep
    <3>3. loading' \in 0..N /\ ~(loading' # None)
      BY <3>1 DEF None
    <3> QED
      BY <2>1, <3>1, <3>2, <3>3 DEF Tables, TypeOK
  <2>3. TablesAgree'
    BY <1>5, StoreStep DEF Tables, TablesAgree, Known, IdOf
  <2> QED
    BY <1>5, <2>2, <2>3, StoreStep DEF Tables
<1> QED
  BY <1>1, <1>2, <1>3, <1>4, <1>5, StepKinds

-------------------------------------------------------------------------------
(* Every reachable state has the first layer.                              *)
LEMMA TablesInvariant == Spec => []Tables
<1>1. Init => Tables
  BY InitTables
<1>2. Tables /\ [Next]_vars => Tables'
  BY NextTables
<1> QED
  BY <1>1, <1>2, PTL DEF Spec

(* For every set of worlds: ids are handed out and loaded in order, the    *)
(* queue of build holds exactly the ids still to load, and an alias names  *)
(* a module of the graph, while the module graph grows under the loop.     *)
THEOREM TypeCorrect == Spec => []TypeOK
<1>1. Tables => TypeOK
  BY DEF Tables
<1> QED
  BY <1>1, TablesInvariant, PTL

(* For every set of worlds: path_to_id and std_to_id find every module     *)
(* under its source and no other, so no `use` can load one source twice    *)
(* and no user file can stand in for a bundled module.                     *)
THEOREM OneIdPerSource == Spec => []TablesAgree
<1>1. Tables => TablesAgree
  BY DEF Tables
<1> QED
  BY <1>1, TablesInvariant, PTL

-------------------------------------------------------------------------------
(* The promise resolves paths as the linker does.                          *)

LEMMA SameSources ==
  /\ \A p : Promise!UserFile(p) = UserFile(p)
  /\ \A n : Promise!StdModule(n) = StdModule(n)
  /\ Promise!Escape = Escape
BY DEF Promise!UserFile, UserFile, Promise!StdModule, StdModule, Promise!Escape, Escape,
       Promise!Relative, Relative

LEMMA SameNormalize == \A p : Promise!Normalize(p) = Normalize(p)
BY DEF Promise!Normalize, Normalize, Promise!Collapse, Collapse,
       Promise!CurDir, CurDir, Promise!ParentDir, ParentDir, Promise!FoldLeft, FoldLeft,
       Promise!MapThenFoldSet, MapThenFoldSet, Promise!Max, Max,
       Promise!Last, Last, Promise!Front, Front

LEMMA SameImport == \A from, raw : Promise!ResolveImport(from, raw) = ResolveImport(from, raw)
<1>1. \A f, r : Promise!ResolveRelative(f, r) = ResolveRelative(f, r)
  BY SameNormalize, SameSources DEF Promise!ResolveRelative, ResolveRelative,
     Promise!ParentDir, ParentDir, Promise!Front, Front
<1>2. \A n : Promise!Canonical(n) = Canonical(n)
  BY DEF Promise!Canonical, Canonical, Promise!Last, Last, Promise!Front, Front
<1>3. \A f, r : Promise!ResolveSibling(f, r) = ResolveSibling(f, r)
  BY <1>1, <1>2, SameSources DEF Promise!ResolveSibling, ResolveSibling
<1> QED
  BY <1>1, <1>2, <1>3, SameSources DEF Promise!ResolveImport, ResolveImport

(* What a source holds is a sequence; where the linker may look, the       *)
(* promise sees the same.                                                  *)
Importable(source) ==
  \/ source.space = "user" /\ source = UserFile(source.path)
  \/ /\ source.space = "std" /\ source = StdModule(source.path.parts)
     /\ source.path.parts \in DOMAIN world.registry

LEMMA SameContent ==
  ASSUME NEW source, Importable(source)
  PROVE  Content(source) = Promise!Content(world, source)
<1>1. "user" # "std"
  OBVIOUS
<1> QED
  BY <1>1 DEF Importable, Content, Promise!Content, Missing, Promise!Missing

LEMMA TextIsSequence ==
  ASSUME NEW source, world \in Worlds
  PROVE  /\ Promise!Text(world, source) \in Seq(ToSet(Promise!Text(world, source)))
         /\ Len(Promise!Text(world, source)) \in Nat
         /\ DOMAIN Promise!Text(world, source) = 1..Len(Promise!Text(world, source))
<1> DEFINE text == Promise!Text(world, source)
<1>1. text \in Seq(ToSet(text))
  <2>1. CASE Promise!Content(world, source) = Promise!Missing
    <3>1. text = <<>>
      BY <2>1 DEF Promise!Text, Promise!Missing
    <3> QED
      BY <3>1
  <2>2. CASE Promise!Content(world, source) # Promise!Missing
    <3> HIDE DEF text
    <3> QED
      BY <2>2, WorldsAssumption DEF Promise!Text, Promise!Content, text
  <2> QED
    BY <2>1, <2>2
<1> QED
  BY <1>1, LenProperties

-------------------------------------------------------------------------------
(* What has been read of a source: its first n declarations repeat no name *)
(* of a kind, and the table holds the aliases they bind.                   *)
NamesOf(text, n, kind) == {text[i].name : i \in {j \in 1..n : text[j].kind = kind}}

UsesOf(text, n) == {i \in 1..n : text[i].kind = "use"}

Unrepeated(text, n) ==
  \A i, j \in 1..n : text[i].kind = text[j].kind /\ text[i].name = text[j].name => i = j

Bound(source, text, n, mods, table) ==
  /\ DOMAIN table = {text[i].name : i \in UsesOf(text, n)}
  /\ \A i \in UsesOf(text, n) :
       /\ table[text[i].name] \in 1..Len(mods)
       /\ mods[table[text[i].name]].source = ResolveImport(source, text[i].raw)

ReadUpTo(source, text, n, mods, table) ==
  /\ n \in Nat /\ n <= Len(text)
  /\ Unrepeated(text, n)
  /\ Bound(source, text, n, mods, table)

SourceOf(id) == modules[id].source
TextOf(id)   == Promise!Text(world, SourceOf(id))

(* Every source leads to a file or to a bundled module there is.           *)
Registered ==
  \A id \in 1..Len(modules) :
    SourceOf(id).space = "std" => SourceOf(id).path.parts \in DOMAIN world.registry

(* The ids before the queue are loaded, but for the one in progress.       *)
Loaded ==
  \A id \in 1..(Len(modules) - Len(queue)) : id # loading =>
    /\ Promise!Readable(world, SourceOf(id))
    /\ ReadUpTo(SourceOf(id), TextOf(id), Len(TextOf(id)), modules, modules[id].aliases)

Loading ==
  loading # None =>
    /\ Promise!Readable(world, SourceOf(loading))
    /\ at \in Nat \ {0}
    /\ ReadUpTo(SourceOf(loading), TextOf(loading), at - 1, modules, aliases)
    /\ DOMAIN names = Kinds
    /\ \A k \in Kinds : names[k] = NamesOf(TextOf(loading), at - 1, k)

(* Whatever contains the entry and is closed under `use` contains every    *)
(* module of the graph.                                                    *)
Reached ==
  \A S : Promise!Closed(world, S) => \A id \in 1..Len(modules) : SourceOf(id) \in S

Links ==
  /\ Tables
  /\ SourceOf(EntryId) = Promise!Entry(world)
  /\ Registered
  /\ Loaded
  /\ Loading
  /\ Reached

-------------------------------------------------------------------------------
(* Reading on.                                                             *)

(* A graph that keeps its sources keeps what has been read.                *)
LEMMA ReadKept ==
  ASSUME NEW source, NEW text, NEW n, NEW mods, NEW table, ReadUpTo(source, text, n, mods, table),
         NEW mods2, Len(mods) \in Nat, Len(mods2) \in Nat, Len(mods) <= Len(mods2),
         \A id \in 1..Len(mods) : mods2[id].source = mods[id].source
  PROVE  ReadUpTo(source, text, n, mods2, table)
BY DEF ReadUpTo, Bound

(* A network, volume, service or template of a new name.                   *)
LEMMA ReadDeclaration ==
  ASSUME NEW source, NEW text, NEW n \in Nat, NEW mods, NEW table,
         ReadUpTo(source, text, n, mods, table), n + 1 <= Len(text), Len(text) \in Nat,
         text[n + 1].kind # "use",
         \A i \in 1..n : ~(text[i].kind = text[n + 1].kind /\ text[i].name = text[n + 1].name)
  PROVE  ReadUpTo(source, text, n + 1, mods, table)
<1>1. 1..(n + 1) = (1..n) \cup {n + 1}
  OBVIOUS
<1>2. UsesOf(text, n + 1) = UsesOf(text, n)
  BY <1>1 DEF UsesOf
<1>3. Unrepeated(text, n + 1)
  BY <1>1 DEF ReadUpTo, Unrepeated
<1> QED
  BY <1>2, <1>3 DEF ReadUpTo, Bound

(* A `use` of a new alias, bound to the module it leads to.                *)
LEMMA ReadUse ==
  ASSUME NEW source, NEW text, NEW n \in Nat, NEW mods, NEW table, NEW table2,
         ReadUpTo(source, text, n, mods, table), n + 1 <= Len(text), Len(text) \in Nat,
         text[n + 1].kind = "use", text[n + 1].name \notin DOMAIN table,
         DOMAIN table2 = DOMAIN table \cup {text[n + 1].name},
         \A a \in DOMAIN table : a # text[n + 1].name => table2[a] = table[a],
         table2[text[n + 1].name] \in 1..Len(mods),
         mods[table2[text[n + 1].name]].source = ResolveImport(source, text[n + 1].raw)
  PROVE  ReadUpTo(source, text, n + 1, mods, table2)
<1>1. 1..(n + 1) = (1..n) \cup {n + 1}
  OBVIOUS
<1>2. UsesOf(text, n + 1) = UsesOf(text, n) \cup {n + 1}
  BY <1>1 DEF UsesOf
<1>3. \A i \in UsesOf(text, n) : i \in 1..n /\ text[i].kind = "use" /\ text[i].name \in DOMAIN table
  BY DEF ReadUpTo, Bound, UsesOf
<1>4. Unrepeated(text, n + 1)
  BY <1>1, <1>3 DEF ReadUpTo, Unrepeated, UsesOf
<1>5. Bound(source, text, n + 1, mods, table2)
  <2>1. DOMAIN table2 = {text[i].name : i \in UsesOf(text, n + 1)}
    BY <1>2 DEF ReadUpTo, Bound
  <2>2. \A i \in UsesOf(text, n) : table2[text[i].name] = table[text[i].name]
    BY <1>3
  <2> QED
    BY <1>2, <2>1, <2>2 DEF ReadUpTo, Bound
<1> QED
  BY <1>4, <1>5 DEF ReadUpTo

-------------------------------------------------------------------------------
(* What a step keeps.                                                      *)

LEMMA ModulesImportable ==
  ASSUME Tables, Registered
  PROVE  \A id \in 1..Len(modules) : Importable(SourceOf(id))
BY Namespaces DEF Tables, TablesAgree, Known, IdOf, Registered, SourceOf, Importable

(* The graph grows, and a source keeps its id.                             *)
LEMMA GraphGrows ==
  ASSUME Tables, [Next]_vars
  PROVE  /\ world' = world
         /\ Len(modules) \in Nat /\ Len(modules') \in Nat /\ Len(modules) <= Len(modules')
         /\ \A id \in 1..Len(modules) : modules'[id].source = modules[id].source
         /\ \A id \in 1..Len(modules) : id # loading => modules'[id] = modules[id]
<1>1. Len(modules) \in Nat
  BY Ids
<1>2. CASE Keeps
  BY <1>1, <1>2 DEF Keeps
<1>3. CASE ReadModule
  BY <1>1, <1>3 DEF ReadModule
<1>4. CASE UseKnownModule
  BY <1>1, <1>4 DEF UseKnownModule, graph
<1>5. CASE UseNewModule
  BY <1>1, <1>5, NewModuleStep
<1>6. CASE StoreModule
  BY <1>1, <1>6, StoreStep
<1> QED
  BY <1>2, <1>3, <1>4, <1>5, <1>6, StepKinds

(* What is loaded stays loaded.                                            *)
LEMMA LoadedKept ==
  ASSUME Links, [Next]_vars,
         NEW id \in 1..(Len(modules) - Len(queue)), id # loading
  PROVE  /\ SourceOf(id)' = SourceOf(id) /\ TextOf(id)' = TextOf(id)
         /\ Promise!Readable(world', SourceOf(id))
         /\ ReadUpTo(SourceOf(id), TextOf(id), Len(TextOf(id)), modules', modules'[id].aliases)
<1>1. Len(queue) \in 0..Len(modules) /\ Len(modules) \in Nat
  BY Ids DEF Links
<1>2. id \in 1..Len(modules)
  BY <1>1
<1>3. modules'[id] = modules[id] /\ world' = world
  BY <1>2, GraphGrows DEF Links
<1>4. /\ Promise!Readable(world, SourceOf(id))
      /\ ReadUpTo(SourceOf(id), TextOf(id), Len(TextOf(id)), modules, modules[id].aliases)
  BY DEF Links, Loaded
<1>5. ReadUpTo(SourceOf(id), TextOf(id), Len(TextOf(id)), modules', modules[id].aliases)
  BY <1>4, GraphGrows, ReadKept DEF Links
<1> QED
  BY <1>3, <1>4, <1>5 DEF SourceOf, TextOf

(* The declaration that is next.                                           *)
LEMMA DeclIs ==
  ASSUME Links, loading # None
  PROVE  /\ loading \in 1..Len(modules)
         /\ Importable(SourceOf(loading))
         /\ Decls = TextOf(loading)
         /\ at \in Nat \ {0} /\ Len(TextOf(loading)) \in Nat
         /\ Inside => Decl = TextOf(loading)[at] /\ at <= Len(TextOf(loading))
         /\ Past => at - 1 = Len(TextOf(loading))
         /\ Promise!Readable(world, SourceOf(loading))
         /\ ReadUpTo(SourceOf(loading), TextOf(loading), at - 1, modules, aliases)
<1>1. loading \in 1..Len(modules)
  BY Ids DEF Links
<1>2. Importable(SourceOf(loading))
  BY <1>1, ModulesImportable DEF Links
<1>3. Decls = TextOf(loading)
  BY <1>2, SameContent DEF Decls, SourceOf, TextOf, Promise!Text
<1>4. Len(TextOf(loading)) \in Nat
  BY TextIsSequence DEF Links, Tables, TextOf
<1>5. /\ Promise!Readable(world, SourceOf(loading)) /\ at \in Nat \ {0}
      /\ ReadUpTo(SourceOf(loading), TextOf(loading), at - 1, modules, aliases)
  BY DEF Links, Loading
<1>6. at - 1 <= Len(TextOf(loading))
  BY <1>5 DEF ReadUpTo
<1> QED
  BY <1>1, <1>2, <1>3, <1>4, <1>5, <1>6 DEF Inside, Past, Decl

(* An accepted `use` leads to something that every closed set contains.    *)
LEMMA ImportReached ==
  ASSUME Links, Using, NEW S, Promise!Closed(world, S)
  PROVE  Import \in S
<1>1. loading # None /\ Inside
  BY DEF Using, Inside
<1>2. SourceOf(loading) \in S /\ Promise!Readable(world, SourceOf(loading))
  BY <1>1, DeclIs DEF Links, Reached
<1>3. at \in Promise!Uses(world, SourceOf(loading))
  <2>1. at \in 1..Len(TextOf(loading)) /\ TextOf(loading)[at].kind = "use"
    BY <1>1, DeclIs DEF Using
  <2> QED
    BY <2>1, TextIsSequence DEF Links, Tables, Promise!Uses, TextOf
<1>4. Import = Promise!ResolveImport(SourceOf(loading), Promise!Text(world, SourceOf(loading))[at].raw)
  BY <1>1, DeclIs, SameImport DEF Import, SourceOf, TextOf
<1>5. Import \in Promise!Targets(world, SourceOf(loading))
  BY <1>2, <1>3, <1>4 DEF Promise!Targets
<1> QED
  BY <1>2, <1>5 DEF Promise!Closed

-------------------------------------------------------------------------------
(* The second layer.                                                       *)

LEMMA InitLinks == Init => Links
<1> SUFFICES ASSUME Init PROVE Links
  OBVIOUS
<1>1. Tables
  BY InitTables
<1>2. modules = <<Blank(UserFile(Normalize(world.entry)))>> /\ queue = <<EntryId>> /\ loading = None
  BY DEF Init
<1>3. Len(modules) = 1 /\ Len(queue) = 1
  BY <1>2
<1>4. SourceOf(1) = UserFile(Normalize(world.entry))
  BY <1>2 DEF SourceOf, Blank
<1>5. SourceOf(1) = Promise!Entry(world)
  BY <1>4, SameSources, SameNormalize DEF Promise!Entry
<1>6. Registered
  BY <1>3, <1>4, Namespaces DEF Registered
<1>7. Reached
  BY <1>3, <1>5 DEF Reached, Promise!Closed
<1> QED
  BY <1>1, <1>2, <1>3, <1>5, <1>6, <1>7 DEF Links, Loaded, Loading, EntryId

(* A step that adds no module.                                             *)
LEMMA SameSourcesStep ==
  ASSUME Links, [Next]_vars, Len(modules') = Len(modules)
  PROVE  SourceOf(EntryId)' = Promise!Entry(world)' /\ Registered' /\ Reached'
<1>1. /\ world' = world
      /\ \A id \in 1..Len(modules) : modules'[id].source = modules[id].source
  BY GraphGrows DEF Links
<1>2. EntryId \in 1..Len(modules)
  BY Ids DEF Links, EntryId
<1>3. SourceOf(EntryId)' = Promise!Entry(world)'
  BY <1>1, <1>2 DEF Links, SourceOf, Promise!Entry
<1>4. Registered'
  BY <1>1 DEF Links, Registered, SourceOf
<1>5. Reached'
  BY <1>1 DEF Links, Reached, SourceOf, Promise!Closed, Promise!Entry
<1> QED
  BY <1>3, <1>4, <1>5

(* A declaration recorded.                                                 *)
LEMMA RecordStep ==
  ASSUME Links, Keeps, Declared, ~Repeated, Record
  PROVE  Loading'
<1> DEFINE source == SourceOf(loading)
           text == TextOf(loading)
           name == text[at].name
           kind == text[at].kind
<1>1. /\ loading # None /\ Inside /\ UNCHANGED <<world, modules, loading, aliases>>
      /\ at' = at + 1 /\ names' = [names EXCEPT ![Decl.kind] = @ \cup {Decl.name}]
  BY DEF Keeps, Declared, Inside, Record
<1>2. Decl = text[at] /\ at <= Len(text) /\ at \in Nat \ {0} /\ Len(text) \in Nat
  BY <1>1, DeclIs
<1>3. ReadUpTo(source, text, at - 1, modules, aliases) /\ Promise!Readable(world, source)
  BY <1>1, DeclIs
<1>4. kind \in Kinds /\ name \notin names[kind] /\ kind # "use"
  BY <1>2 DEF Declared, Repeated, Kinds
<1>5. /\ DOMAIN names = Kinds
      /\ \A k \in Kinds : names[k] = NamesOf(text, at - 1, k)
  BY <1>1 DEF Links, Loading
<1> HIDE DEF source, text
<1>6. \A i \in 1..(at - 1) : ~(text[i].kind = kind /\ text[i].name = name)
  BY <1>4, <1>5 DEF NamesOf
<1>7. ReadUpTo(source, text, at, modules, aliases)
  <2>1. at - 1 \in Nat /\ (at - 1) + 1 = at
    BY <1>2
  <2> QED
    BY <1>2, <1>3, <1>4, <1>6, <2>1, ReadDeclaration
<1>8. names'[kind] = names[kind] \cup {name} /\ \A k \in Kinds : k # kind => names'[k] = names[k]
  BY <1>1, <1>2, <1>4, <1>5
<1>9. \A k \in Kinds : names'[k] = NamesOf(text, at, k)
  <2>1. 1..at = (1..(at - 1)) \cup {at}
    BY <1>2
  <2>2. NamesOf(text, at, kind) = NamesOf(text, at - 1, kind) \cup {name}
    BY <2>1 DEF NamesOf
  <2>3. \A k \in Kinds : k # kind => NamesOf(text, at, k) = NamesOf(text, at - 1, k)
    BY <2>1 DEF NamesOf
  <2> QED
    BY <1>4, <1>5, <1>8, <2>2, <2>3
<1>10. DOMAIN names' = Kinds
  BY <1>1, <1>5
<1>11. SourceOf(loading)' = source /\ TextOf(loading)' = text /\ world' = world /\ modules' = modules /\ at' - 1 = at
  BY <1>1, <1>2 DEF SourceOf, TextOf, source, text
<1>12. (ReadUpTo(SourceOf(loading), TextOf(loading), at - 1, modules, aliases))'
  BY <1>1, <1>7, <1>11
<1>13. (Promise!Readable(world, SourceOf(loading)))' /\ at' \in Nat \ {0}
  BY <1>1, <1>2, <1>3, <1>11
<1>14. (\A k \in Kinds : names[k] = NamesOf(TextOf(loading), at - 1, k))'
  BY <1>9, <1>11
<1> QED
  BY <1>10, <1>12, <1>13, <1>14 DEF Loading

(* A `use` bound, to a module there was or to a new one.                   *)
LEMMA UseStep ==
  ASSUME Links, [Next]_vars, Using, NewAlias, NEW id, Bind(id),
         id \in 1..Len(modules'), modules'[id].source = Import
  PROVE  Loading'
<1> DEFINE source == SourceOf(loading)
           text == TextOf(loading)
<1>1. /\ loading # None /\ Inside /\ UNCHANGED <<loading, names>> /\ at' = at + 1
      /\ DOMAIN aliases' = DOMAIN aliases \cup {Decl.name} /\ aliases'[Decl.name] = id
      /\ \A a \in DOMAIN aliases : a # Decl.name => aliases'[a] = aliases[a]
  BY BindStep DEF Using, Inside
<1>2. Decl = text[at] /\ at <= Len(text) /\ at \in Nat \ {0} /\ Len(text) \in Nat
  BY <1>1, DeclIs
<1>3. ReadUpTo(source, text, at - 1, modules, aliases) /\ Promise!Readable(world, source)
  BY <1>1, DeclIs
<1>4. ReadUpTo(source, text, at - 1, modules', aliases)
  BY <1>3, GraphGrows, ReadKept DEF Links
<1>5. text[at].kind = "use" /\ text[at].name \notin DOMAIN aliases
  BY <1>2 DEF Using, NewAlias
<1>6. Import = ResolveImport(source, text[at].raw)
  BY <1>2 DEF Import, SourceOf
<1>7. loading \in 1..Len(modules) /\ world' = world /\ modules'[loading].source = modules[loading].source
  BY <1>1, DeclIs, GraphGrows DEF Links
<1>8. /\ DOMAIN names = Kinds
      /\ \A k \in Kinds : names[k] = NamesOf(text, at - 1, k)
  BY <1>1 DEF Links, Loading
<1>9. SourceOf(loading)' = source /\ TextOf(loading)' = text
  BY <1>1, <1>7 DEF SourceOf, TextOf
<1> HIDE DEF source, text
<1>10. PICK n \in Nat : n = at - 1 /\ n + 1 = at
  BY <1>2
<1>11. ReadUpTo(source, text, at, modules', aliases')
  <2>1. ReadUpTo(source, text, n, modules', aliases) /\ n + 1 <= Len(text)
    BY <1>2, <1>4, <1>10
  <2>2. text[n + 1].kind = "use" /\ text[n + 1].name \notin DOMAIN aliases
    BY <1>5, <1>10
  <2>3. /\ DOMAIN aliases' = DOMAIN aliases \cup {text[n + 1].name}
        /\ \A a \in DOMAIN aliases : a # text[n + 1].name => aliases'[a] = aliases[a]
    BY <1>1, <1>2, <1>10
  <2>4. /\ aliases'[text[n + 1].name] \in 1..Len(modules')
        /\ modules'[aliases'[text[n + 1].name]].source = ResolveImport(source, text[n + 1].raw)
    BY <1>1, <1>2, <1>6, <1>10
  <2>5. ReadUpTo(source, text, n + 1, modules', aliases')
    BY <1>2, <2>1, <2>2, <2>3, <2>4, ReadUse
  <2> QED
    BY <1>10, <2>5
<1>12. \A k \in Kinds : NamesOf(text, at, k) = NamesOf(text, at - 1, k)
  <2>1. 1..at = (1..(at - 1)) \cup {at} /\ "use" \notin Kinds
    BY <1>2 DEF Kinds
  <2> QED
    BY <1>5, <2>1 DEF NamesOf
<1>13. at' \in Nat \ {0} /\ at' - 1 = at
  BY <1>1, <1>2
<1>14. \A k \in Kinds : names'[k] = NamesOf(text, at, k)
  BY <1>1, <1>8, <1>12
<1>15. DOMAIN names' = Kinds
  BY <1>1, <1>8
<1>16. Promise!Readable(world', source)
  BY <1>3, <1>7
<1>17. (ReadUpTo(SourceOf(loading), TextOf(loading), at - 1, modules, aliases))'
  BY <1>9, <1>11, <1>13
<1>18. (Promise!Readable(world, SourceOf(loading)))'
  BY <1>9, <1>16
<1>19. (\A k \in Kinds : names[k] = NamesOf(TextOf(loading), at - 1, k))'
  BY <1>9, <1>13, <1>14
<1> QED
  BY <1>13, <1>15, <1>17, <1>18, <1>19 DEF Loading

(* The module in progress, read to its end, joins the loaded ones.         *)
LEMMA StoreLinks ==
  ASSUME Links, [Next]_vars, StoreModule
  PROVE  Loaded' /\ Loading'
<1> DEFINE source == SourceOf(loading)
           text == TextOf(loading)
           n == Len(text)
<1>1. Tables /\ loading # None /\ Past
  BY DEF StoreModule, Past, Links
<1>2. /\ ReadUpTo(source, text, at - 1, modules, aliases) /\ at - 1 = n
      /\ Promise!Readable(world, source)
  BY <1>1, DeclIs
<1>3. /\ world' = world /\ modules'[loading].source = modules[loading].source
      /\ modules'[loading].aliases = aliases /\ Len(modules') = Len(modules)
      /\ queue' = queue /\ loading' = None
  BY <1>1, StoreStep, GraphGrows
<1>4. ReadUpTo(source, text, n, modules', aliases)
  BY <1>1, <1>2, GraphGrows, ReadKept
<1>5. modules'[loading].source = source
  BY <1>3 DEF SourceOf
<1>6. ASSUME NEW id \in 1..(Len(modules) - Len(queue))
      PROVE  /\ Promise!Readable(world', modules'[id].source)
             /\ LET t == Promise!Text(world', modules'[id].source)
                IN  ReadUpTo(modules'[id].source, t, Len(t), modules', modules'[id].aliases)
  <2>1. CASE id = loading
    BY <1>2, <1>3, <1>4, <1>5, <2>1 DEF TextOf
  <2>2. CASE id # loading
    BY <2>2, LoadedKept DEF SourceOf, TextOf
  <2> QED
    BY <2>1, <2>2
<1>7. Loaded'
  <2>1. Len(modules') - Len(queue') = Len(modules) - Len(queue)
    BY <1>3
  <2> QED
    BY <1>6, <2>1 DEF Loaded, SourceOf, TextOf
<1> QED
  BY <1>3, <1>7 DEF Loading, None

(* Every other step leaves what is loaded as it is.                        *)
LEMMA OthersLoaded ==
  ASSUME Links, [Next]_vars, UNCHANGED loading, Len(modules') - Len(queue') = Len(modules) - Len(queue)
  PROVE  Loaded'
<1>1. ASSUME NEW id \in 1..(Len(modules) - Len(queue)), id # loading
      PROVE  /\ Promise!Readable(world', modules'[id].source)
             /\ LET t == Promise!Text(world', modules'[id].source)
                IN  ReadUpTo(modules'[id].source, t, Len(t), modules', modules'[id].aliases)
  BY <1>1, LoadedKept DEF SourceOf, TextOf
<1> QED
  BY <1>1 DEF Loaded, SourceOf, TextOf

(* The module at the head of the queue is read from its beginning.         *)
LEMMA ReadLinks ==
  ASSUME Links, [Next]_vars, ReadModule
  PROVE  Loaded' /\ Loading'
<1> DEFINE id == Head(queue)
<1>1. /\ UNCHANGED <<world, modules>> /\ loading = None /\ queue # <<>> /\ Upcoming.status = "ok"
      /\ loading' = id /\ queue' = Tail(queue) /\ at' = 1 /\ aliases' = NoAliases /\ names' = NoNames
  BY DEF ReadModule, Between
<1>2. /\ Len(queue) \in Nat \ {0} /\ Len(Tail(queue)) = Len(queue) - 1
      /\ id = Len(modules) - Len(queue) + 1
      /\ Len(modules) \in Nat /\ id \in 1..Len(modules)
  <2>1. queue \in Seq(Nat) /\ queue # <<>>
    BY <1>1, Ids DEF Links
  <2>2. Len(queue) > 0 /\ Len(Tail(queue)) = Len(queue) - 1 /\ id = queue[1] /\ Len(queue) \in Nat
    BY <2>1, HeadTailProperties, EmptySeq
  <2> QED
    BY <2>2, Ids DEF Links
<1> HIDE DEF id
<1>3. Promise!Readable(world, SourceOf(id))
  <2>1. Importable(SourceOf(id))
    BY <1>2, ModulesImportable DEF Links
  <2> QED
    BY <1>1, <2>1, SameContent DEF Upcoming, SourceOf, Promise!Readable, id
<1>4. Loading'
  <2>1. ReadUpTo(SourceOf(id), TextOf(id), 0, modules, NoAliases)
    <3>1. Len(TextOf(id)) \in Nat
      BY TextIsSequence DEF Links, Tables, TextOf
    <3>2. 1..0 = {} /\ DOMAIN NoAliases = {}
      BY DEF NoAliases
    <3> QED
      BY <3>1, <3>2 DEF ReadUpTo, Unrepeated, Bound, UsesOf
  <2>2. \A k \in Kinds : NoNames[k] = NamesOf(TextOf(id), 0, k)
    BY DEF NoNames, NamesOf
  <2>3. DOMAIN NoNames = Kinds
    BY DEF NoNames
  <2>4. SourceOf(loading)' = SourceOf(id) /\ TextOf(loading)' = TextOf(id) /\ at' - 1 = 0 /\ at' \in Nat \ {0}
    BY <1>1 DEF SourceOf, TextOf, id
  <2>5. (ReadUpTo(SourceOf(loading), TextOf(loading), at - 1, modules, aliases))'
    BY <1>1, <2>1, <2>4
  <2>6. (Promise!Readable(world, SourceOf(loading)))'
    BY <1>1, <1>3, <2>4
  <2>7. (\A k \in Kinds : names[k] = NamesOf(TextOf(loading), at - 1, k))' /\ DOMAIN names' = Kinds
    BY <1>1, <2>2, <2>3, <2>4
  <2> QED
    BY <2>4, <2>5, <2>6, <2>7 DEF Loading
<1>5. Loaded'
  <2>1. loading' = id /\ Len(modules') = Len(modules) /\ Len(queue') = Len(queue) - 1
    BY <1>1, <1>2 DEF id
  <2>2. ASSUME NEW j \in 1..(Len(modules') - Len(queue')), j # id
        PROVE  j \in 1..(Len(modules) - Len(queue))
    BY <1>2, <2>1, <2>2
  <2>3. \A j \in 1..(Len(modules) - Len(queue)) : j # loading
    BY <1>1 DEF None
  <2> QED
    BY <1>1, <2>1, <2>2, <2>3 DEF Links, Loaded, SourceOf, TextOf
<1> QED
  BY <1>4, <1>5

LEMMA UseNewLinks ==
  ASSUME Links, [Next]_vars, UseNewModule
  PROVE  Links'
<1> DEFINE N == Len(modules)
<1>1. /\ N \in Nat /\ N > 0 /\ Len(modules') = N + 1 /\ Len(queue') = Len(queue) + 1
      /\ \A id \in 1..N : modules'[id] = modules[id]
      /\ modules'[N + 1].source = Import
      /\ UNCHANGED <<world, loading>> /\ Bind(N + 1) /\ Using /\ UseError = "none"
  BY NewModuleStep, Ids DEF Links, UseNewModule, Blank
<1>2. Tables'
  BY NextTables DEF Links
<1>3. Loading'
  BY <1>1, ImportAccepted, UseStep
<1>4. Loaded'
  <2>1. Len(queue) \in Nat
    BY Ids DEF Links
  <2> QED
    BY <1>1, <2>1, OthersLoaded
<1>5. Registered'
  <2>1. Import.space = "std" => Import.path.parts \in DOMAIN world.registry
    BY <1>1, ImportAccepted, Namespaces
  <2> QED
    BY <1>1, <2>1 DEF Links, Registered, SourceOf
<1>6. Reached'
  <2> SUFFICES ASSUME NEW S, Promise!Closed(world', S), NEW id \in 1..(N + 1)
               PROVE  modules'[id].source \in S
    BY <1>1 DEF Reached, SourceOf
  <2>1. Promise!Closed(world, S)
    BY <1>1
  <2>2. CASE id = N + 1
    BY <1>1, <2>1, <2>2, ImportReached
  <2>3. CASE id \in 1..N
    BY <1>1, <2>1, <2>3 DEF Links, Reached, SourceOf
  <2> QED
    BY <1>1, <2>2, <2>3
<1>7. SourceOf(EntryId)' = Promise!Entry(world)'
  BY <1>1 DEF Links, SourceOf, EntryId, Promise!Entry
<1> QED
  BY <1>2, <1>3, <1>4, <1>5, <1>6, <1>7 DEF Links

LEMMA NextLinks == Links /\ [Next]_vars => Links'
<1> SUFFICES ASSUME Links, [Next]_vars PROVE Links'
  OBVIOUS
<1>1. Tables'
  BY NextTables DEF Links
<1>2. CASE /\ Keeps /\ UNCHANGED aliases
           /\ \/ UNCHANGED <<at, names>>
              \/ Declared /\ ~Repeated /\ Record
  <2>1. Len(modules') = Len(modules) /\ UNCHANGED loading /\ Len(modules') - Len(queue') = Len(modules) - Len(queue)
    BY <1>2 DEF Keeps
  <2>2. CASE UNCHANGED <<at, names>>
    BY <1>1, <1>2, <2>1, <2>2, SameSourcesStep, OthersLoaded DEF Keeps, Links, Loading, SourceOf, TextOf
  <2>3. CASE Declared /\ ~Repeated /\ Record
    BY <1>1, <1>2, <2>1, <2>3, SameSourcesStep, OthersLoaded, RecordStep DEF Links
  <2> QED
    BY <1>2, <2>2, <2>3
<1>3. CASE ReadModule
  <2>1. Len(modules') = Len(modules)
    BY <1>3 DEF ReadModule
  <2> QED
    BY <1>1, <1>3, <2>1, ReadLinks, SameSourcesStep DEF Links
<1>4. CASE UseKnownModule
  <2>1. /\ UNCHANGED <<world, modules, queue, loading>> /\ Bind(IdOf(Import))
        /\ Using /\ UseError = "none" /\ Known(Import)
    BY <1>4 DEF UseKnownModule, graph, Bind
  <2>2. IdOf(Import) \in 1..Len(modules) /\ modules[IdOf(Import)].source = Import
    BY <2>1, ImportAccepted DEF Known, IdOf, Links, Tables, TablesAgree
  <2>3. PICK id : id = IdOf(Import)
    OBVIOUS
  <2>4. Loading'
    BY <2>1, <2>2, <2>3, ImportAccepted, UseStep
  <2> QED
    BY <1>1, <2>1, <2>4, SameSourcesStep, OthersLoaded DEF Links
<1>5. CASE UseNewModule
  BY <1>5, UseNewLinks
<1>6. CASE StoreModule
  <2>1. Len(modules') = Len(modules)
    BY <1>6, StoreStep DEF Links
  <2> QED
    BY <1>1, <1>6, <2>1, StoreLinks, SameSourcesStep DEF Links
<1> QED
  BY <1>2, <1>3, <1>4, <1>5, <1>6, StepKinds

-------------------------------------------------------------------------------
(* The refinement, step by step.                                           *)

LEMMA InitImplements == Init => Promise!Init
BY DEF Init, Running, Promise!Init, LoadedGraph

(* A loaded source is one the promise calls sound.                         *)
LEMMA LoadedSound ==
  ASSUME Links, NEW id \in 1..(Len(modules) - Len(queue)), id # loading
  PROVE  SourceOf(id) \in Promise!SoundSources(world)
<1> DEFINE source == SourceOf(id)
           text == Promise!Text(world, source)
<1>1. id \in 1..Len(modules)
  BY Ids DEF Links
<1>2. Importable(source)
  BY <1>1, ModulesImportable DEF Links
<1>3. Promise!Readable(world, source) /\ Unrepeated(text, Len(text)) /\ DOMAIN text = 1..Len(text)
  BY TextIsSequence DEF Links, Loaded, ReadUpTo, TextOf, Tables
<1>4. Promise!Sound(world, source)
  <2> HIDE DEF source
  <2> QED
    BY <1>3 DEF Promise!Sound, Unrepeated
<1>5. source \in {UserFile(p) : p \in DOMAIN world.files} \cup {StdModule(n) : n \in DOMAIN world.registry}
  <2>1. CASE source.space = "user"
    <3>1. source.path \in DOMAIN world.files
      <4>1. Promise!Missing.status # "ok" /\ "user" # "std"
        BY DEF Promise!Missing
      <4> QED
        BY <1>3, <2>1, <4>1 DEF Promise!Readable, Promise!Content
    <3> QED
      BY <1>2, <2>1, <3>1 DEF Importable
  <2>2. CASE source.space # "user"
    BY <1>2, <2>2 DEF Importable
  <2> QED
    BY <2>1, <2>2
<1> QED
  BY <1>4, <1>5, SameSources DEF Promise!SoundSources

(* The link ends with the least set that is closed under `use`.            *)
LEMMA FinishImplements ==
  ASSUME Links, FinishLink
  PROVE  Promise!Link
<1> DEFINE S == {SourceOf(id) : id \in 1..Len(modules)}
<1>1. /\ outcome = Running /\ loading = None /\ queue = <<>> /\ outcome' = Linked
      /\ UNCHANGED <<world, modules, queue, pathToId, stdToId>>
  BY DEF FinishLink, Between, graph
<1>2. Len(modules) \in Nat /\ Len(modules) - Len(queue) = Len(modules)
  BY <1>1, Ids DEF Links
<1>3. ASSUME NEW id \in 1..Len(modules)
      PROVE  /\ id # loading /\ SourceOf(id) \in Promise!SoundSources(world)
             /\ Promise!Readable(world, SourceOf(id))
             /\ ReadUpTo(SourceOf(id), TextOf(id), Len(TextOf(id)), modules, modules[id].aliases)
             /\ DOMAIN TextOf(id) = 1..Len(TextOf(id))
  <2>1. id # loading
    BY <1>1 DEF None
  <2> QED
    BY <1>2, <2>1, LoadedSound, TextIsSequence DEF Links, Loaded, Tables, TextOf
<1>4. S \in SUBSET Promise!SoundSources(world)
  BY <1>3
<1>5. Promise!Closed(world, S)
  <2>1. Promise!Entry(world) \in S
    BY Ids DEF Links, EntryId
  <2>2. ASSUME NEW id \in 1..Len(modules)
        PROVE  Promise!Targets(world, SourceOf(id)) \subseteq S
    <3> DEFINE text == TextOf(id)
    <3>1. \A i \in UsesOf(text, Len(text)) :
             /\ modules[id].aliases[text[i].name] \in 1..Len(modules)
             /\ SourceOf(modules[id].aliases[text[i].name]) = ResolveImport(SourceOf(id), text[i].raw)
      BY <1>3 DEF ReadUpTo, Bound, SourceOf
    <3>2. Promise!Uses(world, SourceOf(id)) = UsesOf(text, Len(text))
      BY <1>3 DEF Promise!Uses, UsesOf, TextOf
    <3>3. \A i \in Promise!Uses(world, SourceOf(id)) :
             ResolveImport(SourceOf(id), Promise!Text(world, SourceOf(id))[i].raw) \in S
      BY <3>1, <3>2 DEF TextOf
    <3> QED
      BY <1>3, <3>3, SameImport DEF Promise!Targets
  <2> QED
    BY <2>1, <2>2 DEF Promise!Closed
<1>6. Promise!IsClosure(world, S)
  <2>1. ASSUME NEW T \in SUBSET S, Promise!Closed(world, T)
        PROVE  T = S
    BY <2>1 DEF Links, Reached
  <2> QED
    BY <1>5, <2>1 DEF Promise!IsClosure
<1>7. ASSUME NEW id \in 1..Len(modules)
      PROVE  [a \in DOMAIN modules[id].aliases |-> SourceOf(modules[id].aliases[a])]
               = Promise!AliasesOf(world, SourceOf(id))
  <2> DEFINE text == TextOf(id)
             table == modules[id].aliases
             uses == Promise!Uses(world, SourceOf(id))
  <2>1. uses = UsesOf(text, Len(text)) /\ text = Promise!Text(world, SourceOf(id))
    BY <1>3 DEF Promise!Uses, UsesOf, TextOf
  <2>2. /\ DOMAIN table = {text[i].name : i \in uses}
        /\ \A i \in uses : SourceOf(table[text[i].name]) = ResolveImport(SourceOf(id), text[i].raw)
    BY <1>3, <2>1 DEF ReadUpTo, Bound, SourceOf
  <2> HIDE DEF table, uses, text
  <2>3. ASSUME NEW a \in DOMAIN table
        PROVE  SourceOf(table[a]) = ResolveImport(SourceOf(id), text[CHOOSE i \in uses : text[i].name = a].raw)
    <3>1. PICK i \in uses : i = CHOOSE j \in uses : text[j].name = a
      BY <2>2
    <3>2. text[i].name = a
      BY <2>2, <3>1
    <3> QED
      BY <2>2, <3>1, <3>2
  <2>4. Promise!AliasesOf(world, SourceOf(id)) =
          [a \in DOMAIN table |-> ResolveImport(SourceOf(id), text[CHOOSE i \in uses : text[i].name = a].raw)]
    BY <2>1, <2>2, SameImport DEF Promise!AliasesOf, uses
  <2> QED
    BY <2>3, <2>4 DEF table
<1>8. LoadedGraph' = [s \in S |-> Promise!AliasesOf(world, s)]
  <2>1. outcome'.status = "ok"
    BY <1>1 DEF Linked
  <2>2. LoadedGraph' = [s \in S |->
                          [a \in DOMAIN modules[IdOf(s)].aliases |->
                             SourceOf(modules[IdOf(s)].aliases[a])]]
    BY <1>1, <2>1 DEF LoadedGraph, SourceOf, IdOf
  <2>3. ASSUME NEW s \in S
        PROVE  [a \in DOMAIN modules[IdOf(s)].aliases |-> SourceOf(modules[IdOf(s)].aliases[a])]
                 = Promise!AliasesOf(world, s)
    <3>1. PICK id \in 1..Len(modules) : s = SourceOf(id)
      OBVIOUS
    <3>2. IdOf(s) = id
      BY <3>1 DEF Links, Tables, TablesAgree, SourceOf
    <3> QED
      BY <1>7, <3>1, <3>2
  <2> QED
    BY <2>2, <2>3
<1>9. outcome.status = "running" /\ outcome'.status = "ok"
  BY <1>1 DEF Running, Linked
<1> QED
  BY <1>1, <1>4, <1>6, <1>8, <1>9 DEF Promise!Link

(* What the link refuses is in every closed set, and is not sound.         *)
Refuses == RejectSource \/ RejectDuplicate \/ RejectUse

LEMMA RefusedFaulty ==
  ASSUME Links, Refuses, NEW S \in SUBSET Promise!SoundSources(world)
  PROVE  ~Promise!Closed(world, S)
<1> SUFFICES ASSUME Promise!Closed(world, S) PROVE FALSE
  OBVIOUS
<1>1. \A id \in 1..Len(modules) : SourceOf(id) \in S /\ Promise!Sound(world, SourceOf(id))
  BY DEF Links, Reached, Promise!SoundSources
<1>2. CASE RejectSource
  <2>1. queue # <<>> /\ Upcoming.status # "ok"
    BY <1>2 DEF RejectSource
  <2>2. Head(queue) \in 1..Len(modules)
    <3>1. queue \in Seq(Nat) /\ Len(queue) \in 1..Len(modules) /\ Head(queue) = queue[1] /\ Len(modules) \in Nat
      BY <2>1, Ids, HeadTailProperties, EmptySeq DEF Links
    <3> QED
      BY <3>1, Ids DEF Links
  <2>3. Upcoming = Promise!Content(world, SourceOf(Head(queue)))
    BY <2>2, ModulesImportable, SameContent DEF Links, Upcoming, SourceOf
  <2> QED
    BY <1>1, <2>1, <2>2, <2>3 DEF Promise!Sound, Promise!Readable
<1>3. CASE RejectDuplicate
  <2>1. Inside /\ loading # None /\ Decl.kind \in Kinds /\ Decl.name \in names[Decl.kind]
    BY <1>3 DEF RejectDuplicate, Declared, Repeated, Inside
  <2>2. /\ at \in 1..Len(TextOf(loading)) /\ loading \in 1..Len(modules) /\ Decl = TextOf(loading)[at]
        /\ Len(TextOf(loading)) \in Nat
    BY <2>1, DeclIs
  <2>3. PICK i \in 1..(at - 1) : TextOf(loading)[i].kind = Decl.kind /\ TextOf(loading)[i].name = Decl.name
    BY <2>1 DEF Links, Loading, NamesOf
  <2>4. i \in 1..Len(TextOf(loading)) /\ i # at
    BY <2>2
  <2> QED
    BY <1>1, <2>2, <2>3, <2>4, TextIsSequence DEF Links, Tables, Promise!Sound, TextOf
<1>4. CASE RejectUse
  <2>1. Inside /\ loading # None /\ Using /\ UseError # "none" /\ Decl.kind = "use"
    BY <1>4 DEF RejectUse, Using, Inside
  <2>2. /\ at \in 1..Len(TextOf(loading)) /\ loading \in 1..Len(modules) /\ Decl = TextOf(loading)[at]
        /\ ReadUpTo(SourceOf(loading), TextOf(loading), at - 1, modules, aliases)
        /\ Len(TextOf(loading)) \in Nat
    BY <2>1, DeclIs
  <2>3. CASE ~NewAlias
    <3>1. PICK i \in 1..(at - 1) : TextOf(loading)[i].kind = "use" /\ TextOf(loading)[i].name = Decl.name
      BY <2>2, <2>3 DEF NewAlias, ReadUpTo, Bound, UsesOf
    <3>2. i \in 1..Len(TextOf(loading)) /\ i # at
      BY <2>2
    <3> QED
      BY <1>1, <2>1, <2>2, <3>1, <3>2, TextIsSequence DEF Links, Tables, Promise!Sound, TextOf
  <2>4. CASE NewAlias
    <3>1. Import = Escape \/ (Import.space = "std" /\ Import.path.parts \notin DOMAIN world.registry)
      BY <2>1, <2>4 DEF UseError
    <3>2. Import \in Promise!SoundSources(world)
      BY <2>1, ImportReached
    <3>3. \/ \E p : Import = UserFile(p)
          \/ \E n \in DOMAIN world.registry : Import = StdModule(n)
      BY <3>2, SameSources DEF Promise!SoundSources
    <3> QED
      BY <3>1, <3>3, Namespaces
  <2> QED
    BY <2>3, <2>4
<1> QED
  BY <1>2, <1>3, <1>4 DEF Refuses

LEMMA RefuseImplements ==
  ASSUME Links, Refuses
  PROVE  Promise!Refuse
<1>1. /\ outcome = Running /\ UNCHANGED <<world, graph>>
      /\ outcome'.status = "failed"
  BY DEF Refuses, RejectSource, RejectDuplicate, RejectUse, Return, Failed, Between, Declared, Using, Inside
<1>2. outcome.status = "running"
  BY <1>1 DEF Running
<1>3. LoadedGraph' = LoadedGraph
  BY <1>1, <1>2 DEF LoadedGraph
<1>4. \A S \in SUBSET Promise!SoundSources(world) : ~Promise!Closed(world, S)
  BY RefusedFaulty
<1> QED
  BY <1>1, <1>2, <1>3, <1>4 DEF Promise!Refuse

(* Loading is invisible to the promise.                                    *)
LEMMA StepImplements ==
  ASSUME Links, [Next]_vars
  PROVE  [Promise!Next]_(Promise!vars)
<1>1. CASE FinishLink
  BY <1>1, FinishImplements DEF Promise!Next
<1>2. CASE Refuses
  BY <1>2, RefuseImplements DEF Promise!Next
<1>3. CASE outcome = Running /\ UNCHANGED <<world, outcome>>
  <2>1. LoadedGraph = <<>> /\ LoadedGraph' = <<>>
    BY <1>3 DEF LoadedGraph, Running
  <2> QED
    BY <1>3, <2>1 DEF Promise!vars
<1>4. CASE UNCHANGED vars
  BY <1>4 DEF vars, graph, Promise!vars, LoadedGraph, IdOf
<1>5. FinishLink \/ Refuses \/ (outcome = Running /\ UNCHANGED <<world, outcome>>) \/ UNCHANGED vars
  BY DEF Next, Refuses, ReadModule, DeclareNetworkOrVolume, DeclareService, DeclareTemplate,
         UseKnownModule, UseNewModule, StoreModule, Between, Declared, Using, Inside, Past
<1> QED
  BY <1>1, <1>2, <1>3, <1>4, <1>5

LEMMA LinksInvariant == Spec => []Links
<1>1. Init => Links
  BY InitLinks
<1>2. Links /\ [Next]_vars => Links'
  BY NextLinks
<1> QED
  BY <1>1, <1>2, PTL DEF Spec

(* For every set of worlds: loading breadth first, through a queue and two *)
(* tables, ends with exactly the sources the entry file reaches by `use`,  *)
(* each alias leading where its path resolves from the file that wrote it, *)
(* and ends with an error only when some source that every such link would *)
(* have to load is unreadable, unparsable, repeats a name or an alias, or  *)
(* imports what does not exist.  Before that it shows nothing.             *)
THEOREM LinkIsClosure == Spec => Implements
<1>1. Init => Promise!Init
  BY InitImplements
<1>2. Links /\ [Next]_vars => [Promise!Next]_(Promise!vars)
  BY StepImplements
<1> QED
  BY <1>1, <1>2, LinksInvariant, PTL DEF Spec, Implements, Promise!Spec

-------------------------------------------------------------------------------
(* Paths in normal form: no `.`, and `..` only in front.                   *)

Normal(parts) ==
  /\ parts \in Seq(ToSet(parts))
  /\ \A i \in 1..Len(parts) :
       /\ parts[i] # CurDir
       /\ parts[i] = ParentDir => \A j \in 1..i : parts[j] = ParentDir

(* A component keeps the normal form.                                      *)
LEMMA CollapseNormal ==
  ASSUME NEW T, NEW out \in Seq(T), Normal(out), NEW c \in T, NEW next, next = Collapse(out, c)
  PROVE  next \in Seq(T) /\ Normal(next)
<1>1. Len(out) \in Nat /\ ParentDir # CurDir
  BY LenProperties DEF ParentDir, CurDir
<1>2. CASE c = CurDir
  BY <1>2 DEF Collapse
<1>3. CASE c = ParentDir /\ out # <<>> /\ Last(out) # ParentDir
  <2>1. next = Front(out)
    BY <1>1, <1>3 DEF Collapse
  <2>2. Len(out) > 0
    BY <1>1, <1>3, EmptySeq
  <2>3. next = [i \in 1..(Len(out) - 1) |-> out[i]]
    BY <2>1, <1>1, <2>2 DEF Front, SubSeq
  <2>4. \A i \in 1..(Len(out) - 1) : out[i] \in T
    BY <1>1, <2>2, LenProperties
  <2>5. next \in Seq(T) /\ Len(next) = Len(out) - 1 /\ \A i \in 1..(Len(out) - 1) : next[i] = out[i]
    BY <1>1, <2>2, <2>3, <2>4
  <2>6. next \in Seq(ToSet(next))
    BY <2>5, OwnElements
  <2> QED
    BY <1>1, <2>5, <2>6 DEF Normal
<1>4. CASE c # CurDir /\ (c # ParentDir \/ out = <<>> \/ Last(out) = ParentDir)
  <2>1. next = Append(out, c)
    BY <1>4 DEF Collapse
  <2>2. /\ next \in Seq(T) /\ Len(next) = Len(out) + 1
        /\ \A i \in 1..Len(out) : next[i] = out[i]
        /\ next[Len(out) + 1] = c
    BY <2>1, AppendProperties
  <2>3. next \in Seq(ToSet(next))
    BY <2>2, OwnElements
  <2>4. ASSUME c = ParentDir PROVE \A j \in 1..Len(out) : out[j] = ParentDir
    <3>1. CASE out = <<>>
      BY <3>1
    <3>2. CASE out # <<>>
      <4>1. Len(out) \in 1..Len(out) /\ out[Len(out)] = ParentDir
        BY <1>1, <1>4, <2>4, <3>2, EmptySeq DEF Last
      <4> QED
        BY <4>1 DEF Normal
    <3> QED
      BY <3>1, <3>2
  <2>5. ASSUME NEW i \in 1..Len(next)
        PROVE  next[i] # CurDir /\ (next[i] = ParentDir => \A j \in 1..i : next[j] = ParentDir)
    <3>1. CASE i \in 1..Len(out)
      BY <1>1, <2>2, <3>1 DEF Normal
    <3>2. CASE i = Len(out) + 1
      <4>1. next[i] = c
        BY <2>2, <3>2
      <4>2. ASSUME c = ParentDir, NEW j \in 1..i PROVE next[j] = ParentDir
        <5>1. CASE j = i
          BY <4>1, <4>2, <5>1
        <5>2. CASE j # i
          <6>1. j \in 1..Len(out)
            BY <1>1, <3>2, <5>2
          <6> QED
            BY <2>2, <2>4, <4>2, <6>1
        <5> QED
          BY <5>1, <5>2
      <4> QED
        BY <1>4, <4>1, <4>2
    <3> QED
      BY <1>1, <2>2, <3>1, <3>2
  <2> QED
    BY <2>2, <2>3, <2>5 DEF Normal
<1> QED
  BY <1>2, <1>3, <1>4

LEMMA Normalized ==
  ASSUME NEW T, NEW parts \in Seq(T)
  PROVE  FoldLeft(Collapse, <<>>, parts) \in Seq(T) /\ Normal(FoldLeft(Collapse, <<>>, parts))
<1> DEFINE n == Len(parts)
           D == 1..n
           S == {o \in Seq(T) : Normal(o)}
           pick == [s \in SUBSET D |-> Max(s)]
           g == [x \in S \X D |-> Collapse(x[1], parts[x[2]])]
           folding(r) == [s \in SUBSET D |->
             IF s = {} THEN <<>> ELSE Collapse(r[s \ {Max(s)}], parts[Max(s)])]
           iter == CHOOSE r : r = folding(r)
<1>1. n \in Nat /\ DOMAIN parts = D /\ \A i \in D : parts[i] \in T
  BY LenProperties
<1>2. FoldLeft(Collapse, <<>>, parts) = iter[D]
  BY <1>1 DEF FoldLeft, MapThenFoldSet
<1>3. \A i \in D : \A a \in S : g[<<a, i>>] = Collapse(a, parts[i])
  OBVIOUS
<1>4. \A s \in SUBSET D : pick[s] = Max(s)
  OBVIOUS
<1> HIDE DEF g, n, pick
<1>5. IsFiniteSet(D) /\ \A s \in SUBSET D : s # {} => Max(s) \in s /\ pick[s] \in s
  BY <1>1, <1>4, FoldOrders
<1> HIDE DEF D
<1>6. ASSUME NEW i \in D, NEW a \in S
      PROVE  g[<<a, i>>] \in S
  <2> HIDE DEF folding, iter
  <2>1. PICK next : next = Collapse(a, parts[i])
    OBVIOUS
  <2>2. parts[i] \in T /\ a \in Seq(T) /\ Normal(a)
    BY <1>1
  <2>3. next \in Seq(T) /\ Normal(next)
    BY <2>1, <2>2, CollapseNormal
  <2> QED
    BY <1>3, <2>1, <2>3
<1>7. <<>> \in S
  BY DEF Normal
<1> HIDE DEF S
<1>8. PICK f \in [SUBSET D -> S] : IsFold(f, D, <<>>, g, pick)
  <2>1. IsFiniteSet(D) /\ \A s \in SUBSET D : s # {} => pick[s] \in s
    BY <1>5
  <2>2. \A i \in D : \A a \in S : g[<<a, i>>] \in S
    BY <1>6
  <2> HIDE DEF folding, iter
  <2> QED
    BY <1>7, <2>1, <2>2, FoldExists
<1>9. f = folding(f)
  <2>1. \A s \in SUBSET D : s # {} => f[s \ {Max(s)}] \in S /\ Max(s) \in D
    BY <1>5
  <2> HIDE DEF iter
  <2>2. \A s \in SUBSET D :
          f[s] = IF s = {} THEN <<>> ELSE Collapse(f[s \ {Max(s)}], parts[Max(s)])
    <3>1. \A s \in SUBSET D :
            f[s] = IF s = {} THEN <<>> ELSE g[<<f[s \ {Max(s)}], Max(s)>>]
      BY <1>4, <1>8 DEF IsFold
    <3> QED
      BY <1>3, <2>1, <3>1
  <2> QED
    BY <1>8, <2>2
<1>10. iter = folding(iter)
  <2> HIDE DEF folding
  <2> QED
    BY <1>9
<1> HIDE DEF iter
<1> DEFINE G == [s \in SUBSET D |-> S]
<1>11. iter[{}] \in G[{}]
  BY <1>7, <1>10
<1>12. ASSUME NEW s \in SUBSET D, s # {}, iter[s \ {pick[s]}] \in G[s \ {pick[s]}]
       PROVE  iter[s] \in G[s]
  <2>1. Max(s) \in D /\ pick[s] = Max(s) /\ parts[Max(s)] \in T
    BY <1>1, <1>4, <1>5, <1>12
  <2>2. PICK before : before = iter[s \ {Max(s)}]
    OBVIOUS
  <2>3. before \in S
    BY <1>12, <2>1, <2>2
  <2>4. iter[s] = Collapse(before, parts[Max(s)])
    BY <1>10, <1>12, <2>2
  <2>5. PICK c, next : c = parts[Max(s)] /\ next = Collapse(before, c)
    OBVIOUS
  <2>6. c \in T /\ before \in Seq(T) /\ Normal(before)
    BY <2>1, <2>3, <2>5 DEF S
  <2>7. next \in Seq(T) /\ Normal(next)
    BY <2>5, <2>6, CollapseNormal
  <2> QED
    BY <2>4, <2>5, <2>7 DEF S
<1>13. \A s \in SUBSET D : iter[s] \in G[s]
  <2> HIDE DEF G
  <2> QED
    BY <1>5, <1>11, <1>12, FoldInduction
<1>14. iter[D] \in S
  BY <1>13
<1> QED
  BY <1>2, <1>14 DEF S

(* What Walk makes of one more component.                                  *)
Stepped(root, out, c) ==
  IF root /\ c = ParentDir /\ out = <<>> THEN out ELSE Collapse(out, c)

(* The normal form of a path that climbs above the root.                   *)
Climbs(path) == path.root /\ path.parts # <<>> /\ path.parts[1] = ParentDir

(* Walking along a path in normal form leads to what it says.              *)
LEMMA SteppedNormal ==
  ASSUME NEW parts, Normal(parts), NEW root, ~(root /\ parts # <<>> /\ parts[1] = ParentDir),
         NEW k \in 1..Len(parts), NEW before, before = SubSeq(parts, 1, k - 1)
  PROVE  Stepped(root, before, parts[k]) = SubSeq(parts, 1, k)
<1> DEFINE c == parts[k]
<1>1. /\ Len(parts) \in Nat /\ k \in Nat /\ k - 1 \in Nat
      /\ parts \in Seq(ToSet(parts)) /\ \A i \in 1..Len(parts) : parts[i] \in ToSet(parts)
  BY LenProperties DEF Normal
<1>2. before = [i \in 1..(k - 1) |-> parts[i]] /\ SubSeq(parts, 1, k) = [i \in 1..k |-> parts[i]]
  BY <1>1 DEF SubSeq
<1>3. /\ before \in Seq(ToSet(parts)) /\ Len(before) = k - 1
      /\ \A i \in 1..(k - 1) : before[i] = parts[i]
  BY <1>1, <1>2
<1>4. Append(before, c) = SubSeq(parts, 1, k)
  <2>1. /\ Append(before, c) \in Seq(ToSet(parts)) /\ Len(Append(before, c)) = k
        /\ \A i \in 1..(k - 1) : Append(before, c)[i] = parts[i]
        /\ Append(before, c)[k] = parts[k]
    BY <1>1, <1>3, AppendProperties
  <2>2. DOMAIN Append(before, c) = 1..k /\ Append(before, c) = [i \in 1..k |-> Append(before, c)[i]]
    BY <2>1, LenProperties
  <2>3. \A i \in 1..k : Append(before, c)[i] = parts[i]
    BY <1>1, <2>1
  <2> QED
    BY <1>2, <2>2, <2>3
<1>5. c # CurDir
  BY DEF Normal
<1>6. CASE c # ParentDir
  BY <1>4, <1>5, <1>6 DEF Stepped, Collapse
<1>7. CASE c = ParentDir /\ before = <<>>
  <2>1. k = 1 /\ parts # <<>>
    BY <1>1, <1>3, <1>7
  <2>2. ~root
    BY <1>7, <2>1
  <2> QED
    BY <1>4, <1>5, <1>7, <2>2 DEF Stepped, Collapse
<1>8. CASE c = ParentDir /\ before # <<>>
  <2>1. k - 1 \in 1..k /\ k - 1 \in 1..(k - 1)
    BY <1>1, <1>3, <1>8, EmptySeq
  <2>2. parts[k - 1] = ParentDir
    BY <1>8, <2>1 DEF Normal
  <2>3. Last(before) = ParentDir
    BY <1>3, <2>1, <2>2 DEF Last
  <2> QED
    BY <1>4, <1>5, <1>8, <2>3 DEF Stepped, Collapse
<1> QED
  BY <1>6, <1>7, <1>8

LEMMA WalkedNormal ==
  ASSUME NEW path, path = [root |-> path.root, parts |-> path.parts],
         Normal(path.parts), ~Climbs(path)
  PROVE  Walk(path) = path
<1> DEFINE parts == path.parts
           root == path.root
           T == ToSet(parts)
           n == Len(parts)
           D == 1..n
           S == Seq(T)
           pick == [s \in SUBSET D |-> Max(s)]
           g == [x \in S \X D |-> Stepped(root, x[1], parts[x[2]])]
           folding(r) == [s \in SUBSET D |->
             IF s = {} THEN <<>>
             ELSE IF root /\ parts[Max(s)] = ParentDir /\ r[s \ {Max(s)}] = <<>> THEN r[s \ {Max(s)}]
                  ELSE Collapse(r[s \ {Max(s)}], parts[Max(s)])]
           iter == CHOOSE r : r = folding(r)
<1>1. n \in Nat /\ DOMAIN parts = D /\ parts \in Seq(T) /\ \A i \in D : parts[i] \in T
  BY LenProperties DEF Normal
<1>2. Walk(path) = [path EXCEPT !.parts = iter[D]]
  BY <1>1 DEF Walk, FoldLeft, MapThenFoldSet
<1>3. \A i \in D : \A a \in S : g[<<a, i>>] = Stepped(root, a, parts[i])
  OBVIOUS
<1>4. \A s \in SUBSET D : pick[s] = Max(s)
  OBVIOUS
<1> HIDE DEF g, pick
<1>5. /\ IsFiniteSet(D)
      /\ \A s \in SUBSET D : s # {} => Max(s) \in s /\ pick[s] \in s /\ \A j \in s : j <= Max(s)
  <2> HIDE DEF n
  <2> QED
    BY <1>1, <1>4, FoldOrders
<1>6. \A k \in 0..n : 1..k \in SUBSET D /\ (k = 0 <=> 1..k = {}) /\ \A j \in 0..n : 1..k = 1..j => k = j
  <2> HIDE DEF n
  <2>1. \A k \in 0..n : 1..k \in SUBSET D /\ (k = 0 <=> 1..k = {})
    BY <1>1
  <2>2. ASSUME NEW k \in 0..n, NEW j \in 0..n, 1..k = 1..j PROVE k = j
    <3> SUFFICES ASSUME k # j PROVE FALSE
      OBVIOUS
    <3>1. (k \in 1..k /\ k \notin 1..j) \/ (j \in 1..j /\ j \notin 1..k)
      BY <1>1
    <3> QED
      BY <2>2, <3>1
  <2> QED
    BY <2>1, <2>2
<1>7. D = 1..n /\ n \in 0..n
  BY <1>1
<1> HIDE DEF D, n
<1>8. ASSUME NEW i \in D, NEW a \in S
      PROVE  g[<<a, i>>] \in S
  <2> HIDE DEF folding, iter
  <2>1. parts[i] \in T /\ Len(a) \in Nat
    BY <1>1, LenProperties
  <2>2. Collapse(a, parts[i]) \in S
    <3>1. Append(a, parts[i]) \in S
      BY <2>1, AppendProperties
    <3>2. a # <<>> => Front(a) \in S
      <4> SUFFICES ASSUME a # <<>> PROVE Front(a) \in S
        OBVIOUS
      <4>1. Front(a) = [j \in 1..(Len(a) - 1) |-> a[j]] /\ Len(a) - 1 \in Nat
        BY <2>1, EmptySeq DEF Front, SubSeq
      <4>2. \A j \in 1..(Len(a) - 1) : a[j] \in T
        BY <2>1, LenProperties
      <4> HIDE DEF T
      <4> QED
        BY <4>1, <4>2
    <3> QED
      BY <3>1, <3>2 DEF Collapse
  <2> QED
    BY <1>3, <2>2 DEF Stepped
<1>9. <<>> \in S
  OBVIOUS
<1> HIDE DEF S
<1>10. PICK f \in [SUBSET D -> S] : IsFold(f, D, <<>>, g, pick)
  <2>1. IsFiniteSet(D) /\ \A s \in SUBSET D : s # {} => pick[s] \in s
    BY <1>5
  <2>2. \A i \in D : \A a \in S : g[<<a, i>>] \in S
    BY <1>8
  <2> HIDE DEF folding, iter
  <2> QED
    BY <1>9, <2>1, <2>2, FoldExists
<1>11. f = folding(f)
  <2>1. \A s \in SUBSET D : s # {} => f[s \ {Max(s)}] \in S /\ Max(s) \in D
    BY <1>5
  <2> HIDE DEF iter
  <2>2. \A s \in SUBSET D :
          f[s] = IF s = {} THEN <<>> ELSE Stepped(root, f[s \ {Max(s)}], parts[Max(s)])
    <3>1. \A s \in SUBSET D :
            f[s] = IF s = {} THEN <<>> ELSE g[<<f[s \ {Max(s)}], Max(s)>>]
      BY <1>4, <1>10 DEF IsFold
    <3> QED
      BY <1>3, <2>1, <3>1
  <2> QED
    BY <1>10, <2>2 DEF Stepped
<1>12. iter = folding(iter)
  <2> HIDE DEF folding
  <2> QED
    BY <1>11
<1> HIDE DEF iter
<1>13. \A s \in SUBSET D :
         iter[s] = IF s = {} THEN <<>> ELSE Stepped(root, iter[s \ {Max(s)}], parts[Max(s)])
  BY <1>12 DEF Stepped
<1> DEFINE G == [s \in SUBSET D |-> {o \in {iter[s]} : \A k \in 0..n : s = 1..k => o = SubSeq(parts, 1, k)}]
<1>14. ASSUME NEW s \in SUBSET D
       PROVE  iter[s] \in G[s] <=> \A k \in 0..n : s = 1..k => iter[s] = SubSeq(parts, 1, k)
  OBVIOUS
<1> HIDE DEF G, T, parts, root, folding
<1>15. iter[{}] \in G[{}]
  <2>1. iter[{}] = <<>>
    BY <1>13
  <2>2. SubSeq(parts, 1, 0) = <<>>
    BY DEF SubSeq
  <2> QED
    BY <1>6, <1>14, <2>1, <2>2
<1>16. ASSUME NEW s \in SUBSET D, s # {}, iter[s \ {pick[s]}] \in G[s \ {pick[s]}]
       PROVE  iter[s] \in G[s]
  <2> SUFFICES ASSUME NEW k \in 0..n, s = 1..k PROVE iter[s] = SubSeq(parts, 1, k)
    BY <1>14
  <2>1. k \in 1..n /\ k - 1 \in 0..n
    BY <1>1, <1>6, <1>16
  <2>2. Max(s) = k
    <3>1. Max(s) \in 1..k /\ k <= Max(s)
      <4>1. k \in s /\ s = 1..k
        BY <1>1, <2>1
      <4>2. Max(s) \in s /\ \A j \in s : j <= Max(s)
        BY <1>5, <1>16
      <4> HIDE DEF n
      <4> QED
        BY <4>1, <4>2
    <3> QED
      BY <1>1, <3>1
  <2>3. s \ {k} = 1..(k - 1) /\ s \ {k} \in SUBSET D
    BY <1>1, <2>1
  <2>4. iter[1..(k - 1)] = SubSeq(parts, 1, k - 1)
    BY <1>4, <1>14, <1>16, <2>1, <2>2, <2>3
  <2>5. PICK before : before = SubSeq(parts, 1, k - 1)
    OBVIOUS
  <2>6. Stepped(root, before, parts[k]) = SubSeq(parts, 1, k)
    <3>1. Normal(parts) /\ ~(root /\ parts # <<>> /\ parts[1] = ParentDir)
      BY DEF parts, root, Climbs
    <3>2. k \in 1..Len(parts)
      BY <2>1 DEF n
    <3> QED
      BY <2>5, <3>1, <3>2, SteppedNormal
  <2> QED
    BY <1>13, <1>16, <2>2, <2>3, <2>4, <2>5, <2>6
<1>17. \A s \in SUBSET D : iter[s] \in G[s]
  BY <1>5, <1>15, <1>16, FoldInduction
<1>18. iter[D] = SubSeq(parts, 1, n)
  <2>1. D \in SUBSET D
    OBVIOUS
  <2> QED
    BY <1>7, <1>14, <1>17, <2>1
<1>19. SubSeq(parts, 1, n) = parts
  <2>1. SubSeq(parts, 1, n) = [i \in 1..n |-> parts[i]]
    BY <1>1 DEF SubSeq
  <2>2. parts = [i \in DOMAIN parts |-> parts[i]]
    BY <1>1, LenProperties
  <2> QED
    BY <1>1, <1>7, <2>1, <2>2
<1> QED
  BY <1>2, <1>18, <1>19 DEF parts

-------------------------------------------------------------------------------
(* The user's modules have paths in normal form, absolute if the entry's   *)
(* path is.                                                                *)
Placed ==
  \A id \in 1..Len(modules) : SourceOf(id).space = "user" =>
    /\ SourceOf(id).path = [root |-> world.entry.root, parts |-> SourceOf(id).path.parts]
    /\ Normal(SourceOf(id).path.parts)

LEMMA NormalizedPath ==
  ASSUME NEW path, path = [root |-> path.root, parts |-> path.parts], IsPath(path),
         NEW short, short = Normalize(path)
  PROVE  short = [root |-> path.root, parts |-> short.parts] /\ Normal(short.parts)
<1>1. short = [root |-> path.root, parts |-> FoldLeft(Collapse, <<>>, path.parts)]
  <2>1. PICK end : end = FoldLeft(Collapse, <<>>, path.parts)
    OBVIOUS
  <2>2. short = [path EXCEPT !.parts = end]
    BY <2>1 DEF Normalize
  <2> QED
    BY <2>1, <2>2
<1>2. Normal(FoldLeft(Collapse, <<>>, path.parts))
  BY Normalized DEF IsPath
<1> QED
  BY <1>1, <1>2

LEMMA FrontIsPath ==
  ASSUME NEW s, s \in Seq(ToSet(s))
  PROVE  Front(s) \in Seq(ToSet(Front(s)))
<1>1. Len(s) \in Nat /\ \A i \in 1..Len(s) : s[i] \in ToSet(s)
  BY LenProperties
<1>2. PICK n : n = Len(s) - 1
  OBVIOUS
<1>3. Front(s) = [i \in 1..n |-> s[i]]
  BY <1>1, <1>2 DEF Front, SubSeq
<1>4. \A i \in 1..n : s[i] \in ToSet(s)
  BY <1>1, <1>2
<1>5. CASE n \in Nat
  <2>1. Front(s) \in Seq(ToSet(s))
    BY <1>3, <1>4, <1>5
  <2> QED
    BY <2>1, OwnElements
<1>6. CASE n = -1
  <2>1. Front(s) = <<>>
    BY <1>3, <1>6
  <2> QED
    BY <2>1
<1> QED
  BY <1>1, <1>2, <1>5, <1>6

(* What a `use` in a user's file leads to.                                 *)
LEMMA ImportPlaced ==
  ASSUME NEW from, NEW root, from.path = [root |-> root, parts |-> from.path.parts],
         IsPath(from.path), from.space = "user",
         NEW raw, IsPath(raw.path),
         NEW source, source = ResolveImport(from, raw), source.space = "user"
  PROVE  source.path = [root |-> root, parts |-> source.path.parts] /\ Normal(source.path.parts)
<1>1. source = ResolveRelative(from.path, raw.path) /\ source # Escape
  <2>1. ~raw.std
    BY Namespaces DEF ResolveImport
  <2> QED
    BY <2>1, Namespaces DEF ResolveImport
<1>2. PICK base, parts : base = from.path /\ parts = Front(base.parts) \o raw.path.parts
  OBVIOUS
<1>3. PICK joined : joined = [base EXCEPT !.parts = parts]
  OBVIOUS
<1>4. joined = [root |-> root, parts |-> parts]
  <2>1. base = [root |-> root, parts |-> base.parts]
    BY <1>2
  <2> QED
    BY <1>3, <2>1
<1>5. parts \in Seq(ToSet(parts))
  BY <1>2, FrontIsPath, OwnConcat DEF IsPath
<1>6. source = UserFile(Normalize(joined))
  BY <1>1, <1>2, <1>3 DEF ResolveRelative
<1>7. PICK short : short = Normalize(joined)
  OBVIOUS
<1>8. short = [root |-> root, parts |-> short.parts] /\ Normal(short.parts)
  BY <1>4, <1>5, <1>7, NormalizedPath DEF IsPath
<1>9. source.path = short
  BY <1>6, <1>7, Namespaces
<1> QED
  BY <1>8, <1>9

(* A `use` writes a path.                                                  *)
LEMMA UseIsPath ==
  ASSUME Links, Using
  PROVE  IsPath(Decl.raw.path)
<1>1. /\ loading # None /\ Decl.kind = "use" /\ Inside
  BY DEF Using, Inside
<1>2. /\ Decl = TextOf(loading)[at] /\ at \in 1..Len(TextOf(loading))
  BY <1>1, DeclIs
<1>3. Decl \in ToSet(TextOf(loading))
  BY <1>2, TextIsSequence DEF Links, Tables, TextOf, ToSet
<1>4. PICK content : content = Promise!Content(world, SourceOf(loading))
  OBVIOUS
<1>5. TextOf(loading) = content.decls
  BY <1>4 DEF TextOf, Promise!Text
<1>6. content # Promise!Missing
  <2>1. ToSet(Promise!Missing.decls) = {}
    BY DEF Promise!Missing, ToSet
  <2> QED
    BY <1>3, <1>5, <2>1
<1>7. content \in {world.files[path] : path \in DOMAIN world.files}
                    \cup {world.registry[name] : name \in DOMAIN world.registry}
  BY <1>4, <1>6 DEF Promise!Content
<1> QED
  BY <1>1, <1>3, <1>5, <1>7, PathsAssumption DEF Links, Tables

LEMMA InitPlaced == Init => Placed
<1> SUFFICES ASSUME Init PROVE Placed
  OBVIOUS
<1>1. world \in Worlds
  BY DEF Init
<1>2. PICK short : short = Normalize(world.entry)
  OBVIOUS
<1>3. short = [root |-> world.entry.root, parts |-> short.parts] /\ Normal(short.parts)
  <2>1. PICK path : path = world.entry
    OBVIOUS
  <2>2. path = [root |-> path.root, parts |-> path.parts] /\ IsPath(path)
    BY <1>1, <2>1, PathsAssumption
  <2> QED
    BY <1>2, <2>1, <2>2, NormalizedPath
<1>4. Len(modules) = 1 /\ modules[1].source = UserFile(short)
  <2>1. PICK blank : blank = Blank(UserFile(short))
    OBVIOUS
  <2>2. modules = <<blank>>
    BY <1>2, <2>1 DEF Init
  <2>3. blank.source = UserFile(short)
    BY <2>1 DEF Blank
  <2> QED
    BY <2>2, <2>3
<1>5. SourceOf(1).path = short
  BY <1>4, Namespaces DEF SourceOf
<1> QED
  BY <1>3, <1>4, <1>5 DEF Placed

LEMMA NextPlaced == Links /\ Placed /\ [Next]_vars => Placed'
<1> SUFFICES ASSUME Links, Placed, [Next]_vars PROVE Placed'
  OBVIOUS
<1>1. /\ world' = world
      /\ \A id \in 1..Len(modules) : SourceOf(id)' = SourceOf(id)
  BY GraphGrows DEF Links, SourceOf
<1>2. CASE Len(modules') = Len(modules)
  BY <1>1, <1>2 DEF Placed
<1>3. CASE UseNewModule
  <2>1. /\ Len(modules') = Len(modules) + 1 /\ Len(modules) \in Nat
        /\ modules'[Len(modules) + 1] = Blank(Import)
    BY <1>3, NewModuleStep, Ids DEF Links
  <2>2. PICK n, source : n = Len(modules) + 1 /\ source = Import
    OBVIOUS
  <2>3. SourceOf(n)' = source
    BY <2>1, <2>2 DEF SourceOf, Blank
  <2>4. ASSUME source.space = "user"
        PROVE  /\ source.path = [root |-> world.entry.root, parts |-> source.path.parts]
               /\ Normal(source.path.parts)
    <3>1. Using /\ loading # None
      BY <1>3 DEF UseNewModule, Using, Inside
    <3>2. loading \in 1..Len(modules) /\ IsPath(Decl.raw.path)
      BY <3>1, DeclIs, UseIsPath
    <3>3. PICK from, raw : from = SourceOf(loading) /\ raw = Decl.raw
      OBVIOUS
    <3>4. source = ResolveImport(from, raw) /\ IsPath(raw.path)
      BY <2>2, <3>2, <3>3 DEF Import, SourceOf
    <3>5. from.space = "user"
      <4> SUFFICES ASSUME from.space # "user" PROVE FALSE
        OBVIOUS
      <4>1. \A f, r : ResolveSibling(f, r).space # "user"
        BY Namespaces DEF ResolveSibling
      <4> QED
        BY <2>4, <3>4, <4>1, Namespaces DEF ResolveImport
    <3>6. PICK root : root = world.entry.root
      OBVIOUS
    <3>7. from.path = [root |-> root, parts |-> from.path.parts] /\ IsPath(from.path)
      BY <3>2, <3>3, <3>5, <3>6 DEF Placed, Normal, IsPath
    <3> QED
      BY <2>4, <3>4, <3>5, <3>6, <3>7, ImportPlaced
  <2>5. ASSUME NEW id \in 1..Len(modules), SourceOf(id).space = "user"
        PROVE  /\ SourceOf(id).path = [root |-> world.entry.root, parts |-> SourceOf(id).path.parts]
               /\ Normal(SourceOf(id).path.parts)
    BY <2>5 DEF Placed
  <2>6. \A id \in 1..Len(modules') : id \in 1..Len(modules) \/ id = n
    BY <2>1, <2>2
  <2> QED
    BY <1>1, <2>3, <2>4, <2>5, <2>6 DEF Placed
<1>4. Len(modules') = Len(modules) \/ UseNewModule
  BY StepKinds, StoreStep DEF Keeps, ReadModule, UseKnownModule, graph, Links
<1> QED
  BY <1>2, <1>3, <1>4

LEMMA PlacedInvariant == Spec => [](Links /\ Placed)
<1>1. Init => Links /\ Placed
  BY InitLinks, InitPlaced
<1>2. (Links /\ Placed) /\ [Next]_vars => (Links /\ Placed)'
  BY NextLinks, NextPlaced
<1> QED
  BY <1>1, <1>2, PTL DEF Spec

(* Some module's path climbs above the root of the file system.            *)
AboveRoot == \E id \in 1..Len(modules) : SourceOf(id).space = "user" /\ Climbs(SourceOf(id).path)

LEMMA PlacedOnce == Links /\ Placed => OneModulePerFile \/ AboveRoot
<1> SUFFICES ASSUME Links, Placed, ~AboveRoot,
                    NEW i \in 1..Len(modules), NEW j \in 1..Len(modules),
                    SourceOf(i).space = "user", SourceOf(j).space = "user",
                    Walk(SourceOf(i).path) = Walk(SourceOf(j).path)
             PROVE  i = j
  BY DEF OneModulePerFile, SourceOf
<1>1. ASSUME NEW id \in 1..Len(modules), SourceOf(id).space = "user"
      PROVE  Walk(SourceOf(id).path) = SourceOf(id).path
  <2>1. PICK path : path = SourceOf(id).path
    OBVIOUS
  <2>2. PICK root : root = world.entry.root
    OBVIOUS
  <2>3. path = [root |-> root, parts |-> path.parts] /\ Normal(path.parts) /\ ~Climbs(path)
    BY <1>1, <2>1, <2>2 DEF Placed, AboveRoot
  <2>4. path = [root |-> path.root, parts |-> path.parts]
    BY <2>3
  <2> QED
    BY <2>1, <2>3, <2>4, WalkedNormal
<1>2. SourceOf(i) = UserFile(SourceOf(i).path) /\ SourceOf(j) = UserFile(SourceOf(j).path)
  BY ModulesImportable, Namespaces DEF Links, Importable
<1>3. SourceOf(i) = SourceOf(j)
  BY <1>1, <1>2
<1> QED
  BY <1>3 DEF Links, Tables, TablesAgree, SourceOf

(* For every set of worlds: if two modules of a graph are one file, some   *)
(* module has an absolute path whose normal form still begins with `..`,   *)
(* which leads nowhere but the root and yet is kept as it is spelled.      *)
THEOREM OneIdUnlessAbove == Spec => [](OneModulePerFile \/ AboveRoot)
<1>1. Links /\ Placed => OneModulePerFile \/ AboveRoot
  BY PlacedOnce
<1> QED
  BY <1>1, PlacedInvariant, PTL

(* So however the files of a tree import each other, by whatever spelling: *)
(* below an entry path that is relative, each file is one module.          *)
THEOREM OneIdPerFile ==
  ASSUME \A w \in Worlds : ~w.entry.root
  PROVE  Spec => []OneModulePerFile
<1>1. Links /\ Placed => OneModulePerFile
  <2> SUFFICES ASSUME Links, Placed PROVE OneModulePerFile
    OBVIOUS
  <2>1. ~AboveRoot
    <3> SUFFICES ASSUME NEW id \in 1..Len(modules), SourceOf(id).space = "user", Climbs(SourceOf(id).path)
                 PROVE  FALSE
      BY DEF AboveRoot
    <3>1. SourceOf(id).path.root = world.entry.root
      <4>1. PICK path, root : path = SourceOf(id).path /\ root = world.entry.root
        OBVIOUS
      <4>2. path = [root |-> root, parts |-> path.parts]
        BY <4>1 DEF Placed
      <4>3. path.root = root
        BY <4>2
      <4> QED
        BY <4>1, <4>3
    <3>2. world \in Worlds
      BY DEF Links, Tables
    <3> QED
      BY <3>1, <3>2 DEF Climbs
  <2> QED
    BY <2>1, PlacedOnce
<1> QED
  BY <1>1, PlacedInvariant, PTL

-------------------------------------------------------------------------------
(* Lists of warnings in load order.                                        *)

Place    == Nat \X Nat
Entries  == [kind : {"ImportedService", "UnappliedDefaults"}, place : Place]
Deferred == [index : Nat, place : Place]

Unapplied(decl) == [kind |-> "UnappliedDefaults", place |-> decl.place]

Ordered(list) == \A i, j \in 1..Len(list) : i < j => Before(list[i].place, list[j].place)

(* The `template defaults` declarations remembered, each with the number   *)
(* of warnings that precede it.                                            *)
Spliceable(list, decls) ==
  /\ list \in Seq(Entries) /\ Ordered(list)
  /\ decls \in Seq(Deferred) /\ Ordered(decls)
  /\ \A k \in 1..Len(decls) :
       /\ decls[k].index <= Len(list)
       /\ \A i \in 1..Len(list) : IF i <= decls[k].index THEN Before(list[i].place, decls[k].place)
                                                         ELSE Before(decls[k].place, list[i].place)

(* Before is a strict total order.                                         *)
LEMMA BeforeOrder ==
  /\ \A p \in Place : ~Before(p, p)
  /\ \A p, q, r \in Place : Before(p, q) /\ Before(q, r) => Before(p, r)
  /\ \A p, q \in Place : Before(p, q) => ~Before(q, p)
<1>1. \A p \in Place : p[1] \in Nat /\ p[2] \in Nat
  BY DEF Place
<1> QED
  BY <1>1 DEF Before

LEMMA Inserted ==
  ASSUME NEW T, NEW s \in Seq(T), NEW e \in T, NEW i \in 1..(Len(s) + 1),
         NEW r, r = InsertAt(s, i, e)
  PROVE  /\ r \in Seq(T)
         /\ Len(s) \in Nat /\ Len(r) = Len(s) + 1
         /\ \A j \in 1..(i - 1) : r[j] = s[j]
         /\ r[i] = e
         /\ \A j \in (i + 1)..(Len(s) + 1) : r[j] = s[j - 1]
<1> DEFINE front == SubSeq(s, 1, i - 1)
           back == SubSeq(s, i, Len(s))
           mid == front \o <<e>>
<1>1. Len(s) \in Nat /\ \A j \in 1..Len(s) : s[j] \in T
  BY LenProperties
<1>2. /\ front \in Seq(T) /\ Len(front) = i - 1 /\ \A j \in 1..(i - 1) : front[j] = s[j]
  BY <1>1, SubSeqProperties
<1>3. /\ back \in Seq(T) /\ Len(back) = Len(s) - i + 1
      /\ \A j \in 1..(Len(s) - i + 1) : back[j] = s[i + j - 1]
  BY <1>1, SubSeqProperties
<1> HIDE DEF front, back
<1>4. <<e>> \in Seq(T) /\ Len(<<e>>) = 1 /\ <<e>>[1] = e
  OBVIOUS
<1>5. /\ mid \in Seq(T) /\ Len(mid) = i
      /\ \A j \in 1..(i - 1) : mid[j] = s[j]
      /\ mid[i] = e
  <2>1. PICK one : one = <<e>>
    OBVIOUS
  <2>2. one \in Seq(T) /\ Len(one) = 1 /\ one[1] = e /\ mid = front \o one
    BY <1>4, <2>1
  <2> HIDE DEF mid
  <2>3. Len(mid) = Len(front) + Len(one) /\ mid \in Seq(T)
    BY <1>2, <2>2, ConcatProperties
  <2>4. \A j \in 1..Len(front) : mid[j] = front[j]
    BY <1>2, <2>2, ConcatProperties
  <2>5. \A j \in 1..Len(one) : mid[Len(front) + j] = one[j]
    BY <1>2, <2>2, ConcatProperties
  <2>6. mid[Len(front) + 1] = e
    <3>1. 1 \in 1..Len(one)
      BY <2>2
    <3>2. mid[Len(front) + 1] = one[1]
      BY <2>5, <3>1
    <3> QED
      BY <2>2, <3>2
  <2>7. Len(front) + Len(one) = i /\ Len(front) + 1 = i
    BY <1>1, <1>2, <2>2
  <2> QED
    BY <1>2, <2>3, <2>4, <2>6, <2>7
<1>6. r = mid \o back
  BY DEF InsertAt, front, back
<1> HIDE DEF mid
<1>7. /\ r \in Seq(T) /\ Len(r) = i + (Len(s) - i + 1)
      /\ \A j \in 1..Len(mid) : r[j] = mid[j]
      /\ \A j \in 1..Len(back) : r[Len(mid) + j] = back[j]
  BY <1>3, <1>5, <1>6, ConcatProperties
<1>8. ASSUME NEW j \in (i + 1)..(Len(s) + 1)
      PROVE  r[j] = s[j - 1]
  <2>1. j - i \in 1..(Len(s) - i + 1) /\ i + (j - i) = j /\ i + (j - i) - 1 = j - 1
    BY <1>1
  <2>2. r[i + (j - i)] = back[j - i]
    BY <1>3, <1>5, <1>7, <2>1
  <2>3. back[j - i] = s[i + (j - i) - 1]
    BY <1>3, <2>1
  <2> QED
    BY <2>1, <2>2, <2>3
<1>9. Len(r) = Len(s) + 1
  BY <1>1, <1>7
<1>10. \A j \in 1..i : r[j] = mid[j]
  BY <1>5, <1>7
<1> QED
  BY <1>1, <1>5, <1>7, <1>8, <1>9, <1>10

-------------------------------------------------------------------------------
(* Splicing.                                                               *)

(* What the list has come to once the declarations numbered s, the last    *)
(* ones, are in.                                                           *)
Spliced(list, decls, s, result) ==
  /\ result \in Seq(Entries) /\ Len(list) <= Len(result)
  /\ Ordered(result)
  /\ \A k \in 1..Len(decls) : (\A j \in s : k < j) =>
       \A i \in 1..Len(result) : IF i <= decls[k].index THEN Before(result[i].place, decls[k].place)
                                                       ELSE Before(decls[k].place, result[i].place)
  /\ ToSet(result) = ToSet(list) \cup {Unapplied(decls[k]) : k \in s}

LEMMA SpliceStep ==
  ASSUME NEW list, NEW decls, Spliceable(list, decls),
         NEW s \in SUBSET (1..Len(decls)), NEW m \in s, \A j \in s : m <= j,
         NEW before, Spliced(list, decls, s \ {m}, before),
         NEW after, after = SpliceOne(decls[m], before)
  PROVE  Spliced(list, decls, s, after)
<1> DEFINE d == decls[m]
<1>1. /\ d \in Deferred /\ d.index \in Nat /\ d.place \in Place
      /\ Len(list) \in Nat /\ Len(decls) \in Nat /\ d.index <= Len(list)
      /\ before \in Seq(Entries) /\ Len(before) \in Nat /\ Len(list) <= Len(before)
  <2>1. /\ Len(list) \in Nat /\ Len(decls) \in Nat /\ before \in Seq(Entries) /\ Len(before) \in Nat
        /\ d \in Deferred
    BY LenProperties DEF Spliceable, Spliced
  <2> QED
    BY <2>1 DEF Spliceable, Spliced, Deferred
<1>2. Unapplied(d) \in Entries /\ Unapplied(d).place = d.place
  BY <1>1 DEF Unapplied, Entries
<1>3. /\ after \in Seq(Entries) /\ Len(after) = Len(before) + 1
      /\ \A j \in 1..d.index : after[j] = before[j]
      /\ after[d.index + 1] = Unapplied(d)
      /\ \A j \in (d.index + 2)..(Len(before) + 1) : after[j] = before[j - 1]
  <2>1. PICK i : i = d.index + 1
    OBVIOUS
  <2>2. PICK e : e = Unapplied(d)
    OBVIOUS
  <2>3. i \in 1..(Len(before) + 1) /\ e \in Entries
    BY <1>1, <1>2, <2>1, <2>2
  <2>4. after = InsertAt(before, i, e)
    BY <2>1, <2>2 DEF SpliceOne, Unapplied
  <2>5. /\ after \in Seq(Entries) /\ Len(after) = Len(before) + 1
        /\ \A j \in 1..(i - 1) : after[j] = before[j]
        /\ after[i] = e
        /\ \A j \in (i + 1)..(Len(before) + 1) : after[j] = before[j - 1]
    <3>1. PICK T : T = Entries
      OBVIOUS
    <3>2. before \in Seq(T) /\ e \in T
      BY <1>1, <2>3, <3>1
    <3> HIDE DEF d
    <3>3. before \in Seq(T) /\ e \in T /\ i \in 1..(Len(before) + 1) /\ after = InsertAt(before, i, e)
      BY <2>3, <2>4, <3>2
    <3>4. /\ after \in Seq(T) /\ Len(after) = Len(before) + 1
          /\ \A j \in 1..(i - 1) : after[j] = before[j]
          /\ after[i] = e
          /\ \A j \in (i + 1)..(Len(before) + 1) : after[j] = before[j - 1]
      BY <3>3, Inserted, SMTT(30)
    <3> QED
      BY <3>1, <3>4
  <2>6. i - 1 = d.index /\ i + 1 = d.index + 2
    BY <1>1, <2>1
  <2> QED
    BY <2>1, <2>2, <2>5, <2>6
<1>4. \A i \in 1..Len(before) : IF i <= d.index THEN Before(before[i].place, d.place)
                                                ELSE Before(d.place, before[i].place)
  <2>1. \A j \in s \ {m} : m < j
    OBVIOUS
  <2> QED
    BY <2>1 DEF Spliced
<1>5. \A i \in 1..Len(after) :
        \/ i <= d.index /\ i \in 1..Len(before) /\ after[i] = before[i]
        \/ i = d.index + 1 /\ after[i] = Unapplied(d)
        \/ i > d.index + 1 /\ i - 1 \in 1..Len(before) /\ i - 1 > d.index /\ after[i] = before[i - 1]
  BY SMTT(30), <1>1, <1>3
<1>6. Ordered(before)
  BY DEF Spliced
<1> HIDE DEF d
<1>7. Ordered(after)
  <2> SUFFICES ASSUME NEW i \in 1..Len(after), NEW j \in 1..Len(after), i < j
               PROVE  Before(after[i].place, after[j].place)
    BY DEF Ordered
  <2>1. i \in Nat /\ j \in Nat
    BY <1>1, <1>3
  <2>2. \A x, y \in 1..Len(before) : x < y => Before(before[x].place, before[y].place)
    BY <1>6 DEF Ordered
  <2>3. CASE i <= d.index
    <3>1. i \in 1..Len(before) /\ after[i] = before[i] /\ Before(before[i].place, d.place)
      BY <1>1, <1>4, <1>5, <2>1, <2>3
    <3>2. CASE j <= d.index
      BY <1>1, <1>5, <2>1, <2>2, <3>1, <3>2
    <3>3. CASE j = d.index + 1
      BY <1>1, <1>2, <1>3, <3>1, <3>3
    <3>4. CASE j > d.index + 1
      <4>1. j - 1 \in 1..Len(before) /\ after[j] = before[j - 1] /\ i < j - 1
        BY <1>1, <1>5, <2>1, <2>3, <3>4
      <4> QED
        BY <2>2, <3>1, <4>1
    <3> QED
      BY <1>1, <2>1, <3>2, <3>3, <3>4
  <2>4. CASE i = d.index + 1
    <3>1. after[i].place = d.place
      BY <1>2, <1>3, <2>4
    <3>2. j > d.index + 1
      BY <1>1, <2>1, <2>4
    <3>3. j - 1 \in 1..Len(before) /\ after[j] = before[j - 1] /\ ~(j - 1 <= d.index)
      BY <1>1, <1>5, <2>1, <3>2
    <3>4. Before(d.place, before[j - 1].place)
      BY <1>4, <3>3
    <3> QED
      BY <3>1, <3>3, <3>4
  <2>5. CASE i > d.index + 1
    <3>1. j > d.index + 1 /\ i - 1 < j - 1
      BY <1>1, <2>1, <2>5
    <3>2. i - 1 \in 1..Len(before) /\ after[i] = before[i - 1]
      BY <1>1, <1>5, <2>1, <2>5
    <3>3. j - 1 \in 1..Len(before) /\ after[j] = before[j - 1]
      BY <1>1, <1>5, <2>1, <3>1
    <3> QED
      BY <2>2, <3>1, <3>2, <3>3
  <2> QED
    BY <1>1, <2>1, <2>3, <2>4, <2>5
<1>8. ASSUME NEW k \in 1..Len(decls), \A j \in s : k < j, NEW i \in 1..Len(after)
      PROVE  IF i <= decls[k].index THEN Before(after[i].place, decls[k].place)
                                    ELSE Before(decls[k].place, after[i].place)
  <2>1. /\ k < m /\ Before(decls[k].place, d.place) /\ decls[k].index \in Nat
        /\ decls[k].index <= Len(list)
        /\ decls[k].place \in Place
    <3>1. k < m /\ m \in 1..Len(decls)
      BY <1>8
    <3>2. decls[k] \in Deferred
      BY LenProperties DEF Spliceable
    <3> QED
      BY <3>1, <3>2 DEF Spliceable, Ordered, Deferred, d
  <2>2. decls[k].index <= d.index
    <3> SUFFICES ASSUME decls[k].index > d.index PROVE FALSE
      BY <1>1, <2>1
    <3>1. PICK n \in 1..Len(list) : n = decls[k].index
      BY <1>1, <2>1
    <3>2. Before(list[n].place, decls[k].place)
      BY <3>1, <2>1 DEF Spliceable
    <3>3. Before(d.place, list[n].place)
      BY <1>1, <2>1, <3>1 DEF Spliceable, d
    <3>4. list[n].place \in Place
      <4>1. list[n] \in Entries
        BY LenProperties DEF Spliceable
      <4> QED
        BY <4>1 DEF Entries
    <3> QED
      BY <1>1, <2>1, <3>2, <3>3, <3>4, BeforeOrder
  <2>3. \A n \in 1..Len(before) : IF n <= decls[k].index THEN Before(before[n].place, decls[k].place)
                                                        ELSE Before(decls[k].place, before[n].place)
    BY <1>8 DEF Spliced
  <2>4. i \in Nat
    BY <1>1, <1>3
  <2>5. CASE i <= d.index
    <3>1. i \in 1..Len(before) /\ after[i] = before[i]
      BY <1>1, <1>5, <2>4, <2>5
    <3> QED
      BY <2>3, <3>1
  <2>6. CASE i = d.index + 1
    <3>1. after[i].place = d.place /\ ~(i <= decls[k].index)
      BY <1>1, <1>2, <1>3, <2>1, <2>2, <2>6
    <3> QED
      BY <2>1, <3>1
  <2>7. CASE i > d.index + 1
    <3>1. /\ i - 1 \in 1..Len(before) /\ after[i] = before[i - 1]
          /\ ~(i - 1 <= decls[k].index) /\ ~(i <= decls[k].index)
      BY SMTT(30), <1>1, <1>5, <2>1, <2>2, <2>4, <2>7
    <3> QED
      BY <2>3, <3>1
  <2> QED
    BY <1>1, <2>4, <2>5, <2>6, <2>7
<1>9. ToSet(after) = ToSet(before) \cup {Unapplied(d)}
  <2>1. DOMAIN after = 1..Len(after) /\ DOMAIN before = 1..Len(before)
    BY <1>1, <1>3, LenProperties
  <2>2. \A e : e \in ToSet(after) <=> \E i \in 1..Len(after) : after[i] = e
    <3>1. after \in Seq(Entries)
      BY <1>3
    <3> QED
      BY <3>1, OwnElements
  <2>3. \A e : e \in ToSet(before) <=> \E i \in 1..Len(before) : before[i] = e
    BY <1>1, OwnElements
  <2>4. ASSUME NEW i \in 1..Len(after) PROVE after[i] \in ToSet(before) \cup {Unapplied(d)}
    BY <1>5, <2>3
  <2>5. ASSUME NEW i \in 1..Len(before) PROVE before[i] \in ToSet(after)
    <3>1. CASE i <= d.index
      <4>1. i \in 1..Len(after) /\ after[i] = before[i]
        BY <1>1, <1>3, <3>1
      <4> QED
        BY <2>2, <4>1
    <3>2. CASE i > d.index
      <4>1. i + 1 \in (d.index + 2)..(Len(before) + 1) /\ i + 1 \in 1..Len(after) /\ (i + 1) - 1 = i
        BY <1>1, <1>3, <3>2
      <4>2. after[i + 1] = before[i]
        BY <1>3, <4>1
      <4> QED
        BY <2>2, <4>1, <4>2
    <3> QED
      BY <1>1, <3>1, <3>2
  <2>6. Unapplied(d) \in ToSet(after)
    <3>1. d.index + 1 \in 1..Len(after)
      BY <1>1, <1>3
    <3> QED
      BY <1>3, <2>2, <3>1
  <2> QED
    BY <2>2, <2>3, <2>4, <2>5, <2>6
<1>10. ToSet(after) = ToSet(list) \cup {Unapplied(decls[k]) : k \in s}
  <2>1. ToSet(before) = ToSet(list) \cup {Unapplied(decls[k]) : k \in s \ {m}}
    BY DEF Spliced
  <2>2. {Unapplied(decls[k]) : k \in s} = {Unapplied(decls[k]) : k \in s \ {m}} \cup {Unapplied(d)}
    BY DEF d
  <2> QED
    BY <1>9, <2>1, <2>2
<1>11. Len(list) <= Len(after)
  BY <1>1, <1>3
<1> QED
  BY <1>3, <1>7, <1>8, <1>10, <1>11 DEF Spliced

LEMMA SpliceAll ==
  ASSUME NEW list, NEW decls, Spliceable(list, decls)
  PROVE  Spliced(list, decls, 1..Len(decls), Splice(list, decls))
<1> DEFINE n == Len(decls)
           D == 1..n
           S == {l \in Seq(Entries) : Len(list) <= Len(l)}
           pick == [s \in SUBSET D |-> Min(s)]
           g == [x \in S \X D |-> SpliceOne(decls[x[2]], x[1])]
           folding(r) == [s \in SUBSET D |->
             IF s = {} THEN list ELSE SpliceOne(decls[Min(s)], r[s \ {Min(s)}])]
           iter == CHOOSE r : r = folding(r)
<1>1. /\ n \in Nat /\ DOMAIN decls = D /\ \A k \in D : decls[k] \in Deferred
      /\ Len(list) \in Nat /\ list \in Seq(Entries)
  BY LenProperties DEF Spliceable
<1>2. Splice(list, decls) = iter[D]
  BY <1>1 DEF Splice, FoldRight, MapThenFoldSet
<1>3. \A k \in D : \A l \in S : g[<<l, k>>] = SpliceOne(decls[k], l)
  OBVIOUS
<1>4. \A s \in SUBSET D : pick[s] = Min(s)
  OBVIOUS
<1> HIDE DEF g, n, pick
<1>5. /\ IsFiniteSet(D)
      /\ \A s \in SUBSET D : s # {} => Min(s) \in s /\ pick[s] \in s /\ \A j \in s : Min(s) <= j
  BY <1>1, <1>4, FoldOrders
<1>6. \A s \in SUBSET D : s \in SUBSET (1..Len(decls))
  BY DEF n
<1>7. \A k \in D : k \in 1..Len(decls)
  BY DEF n
<1> HIDE DEF D
<1>8. ASSUME NEW k \in D, NEW l \in S
      PROVE  g[<<l, k>>] \in S
  <2> HIDE DEF folding, iter
  <2>1. l \in Seq(Entries) /\ Len(list) <= Len(l) /\ Len(l) \in Nat
    BY LenProperties
  <2>2. decls[k].index \in Nat /\ decls[k].index <= Len(list) /\ Unapplied(decls[k]) \in Entries
    <3>1. decls[k] \in Deferred /\ decls[k].index <= Len(list)
      BY <1>1, <1>7 DEF Spliceable
    <3> QED
      BY <3>1 DEF Deferred, Unapplied, Entries
  <2>3. PICK i \in 1..(Len(l) + 1), e \in Entries : i = decls[k].index + 1 /\ e = Unapplied(decls[k])
    BY <1>1, <2>1, <2>2
  <2>4. g[<<l, k>>] = InsertAt(l, i, e)
    BY <1>3, <2>3 DEF SpliceOne, Unapplied
  <2>5. PICK T, r : T = Entries /\ r = InsertAt(l, i, e)
    OBVIOUS
  <2>6. l \in Seq(T) /\ e \in T
    BY <2>1, <2>5
  <2>7. r \in Seq(T) /\ Len(r) = Len(l) + 1
    BY <2>5, <2>6, Inserted
  <2> QED
    BY <1>1, <2>1, <2>4, <2>5, <2>7
<1>9. list \in S
  BY <1>1
<1> HIDE DEF S
<1>10. PICK f \in [SUBSET D -> S] : IsFold(f, D, list, g, pick)
  <2>1. IsFiniteSet(D) /\ \A s \in SUBSET D : s # {} => pick[s] \in s
    BY <1>5
  <2>2. \A k \in D : \A l \in S : g[<<l, k>>] \in S
    BY <1>8
  <2> HIDE DEF folding, iter
  <2> QED
    BY <1>9, <2>1, <2>2, FoldExists
<1>11. f = folding(f)
  <2>1. \A s \in SUBSET D : s # {} => f[s \ {Min(s)}] \in S /\ Min(s) \in D
    BY <1>5
  <2> HIDE DEF iter
  <2>2. \A s \in SUBSET D :
          f[s] = IF s = {} THEN list ELSE SpliceOne(decls[Min(s)], f[s \ {Min(s)}])
    <3>1. \A s \in SUBSET D :
            f[s] = IF s = {} THEN list ELSE g[<<f[s \ {Min(s)}], Min(s)>>]
      BY <1>4, <1>10 DEF IsFold
    <3> QED
      BY <1>3, <2>1, <3>1
  <2> QED
    BY <1>10, <2>2
<1>12. iter = folding(iter)
  <2> HIDE DEF folding
  <2> QED
    BY <1>11
<1> HIDE DEF iter
<1> DEFINE G == [s \in SUBSET D |-> {l \in Seq(Entries) : Spliced(list, decls, s, l)}]
<1>13. ASSUME NEW s \in SUBSET D, NEW l
       PROVE  l \in G[s] <=> Spliced(list, decls, s, l)
  BY DEF Spliced
<1> HIDE DEF G
<1>14. iter[{}] \in G[{}]
  <2>1. {} \in SUBSET D /\ iter[{}] = list
    BY <1>12
  <2>2. Spliced(list, decls, {}, list)
    <3>1. {Unapplied(decls[k]) : k \in {}} = {}
      OBVIOUS
    <3> QED
      BY <1>1, <3>1 DEF Spliced, Spliceable
  <2> QED
    BY <1>13, <2>1, <2>2
<1>15. ASSUME NEW s \in SUBSET D, s # {}, iter[s \ {pick[s]}] \in G[s \ {pick[s]}]
       PROVE  iter[s] \in G[s]
  <2>1. PICK m \in s : m = Min(s) /\ m = pick[s] /\ \A j \in s : m <= j
    BY <1>4, <1>5, <1>15
  <2>2. s \ {m} \in SUBSET D /\ s \in SUBSET (1..Len(decls))
    BY <1>6
  <2>3. PICK before : before = iter[s \ {m}]
    OBVIOUS
  <2>4. Spliced(list, decls, s \ {m}, before)
    BY <1>13, <1>15, <2>1, <2>2, <2>3
  <2>5. PICK after : after = iter[s]
    OBVIOUS
  <2>6. after = SpliceOne(decls[m], before)
    BY <1>12, <1>15, <2>1, <2>3, <2>5
  <2>7. Spliced(list, decls, s, after)
    BY <2>1, <2>2, <2>4, <2>6, SpliceStep
  <2> QED
    BY <1>13, <2>5, <2>7
<1>16. \A s \in SUBSET D : iter[s] \in G[s]
  BY <1>5, <1>14, <1>15, FoldInduction
<1>17. Spliced(list, decls, D, iter[D])
  BY <1>13, <1>16
<1> QED
  BY <1>2, <1>17 DEF D, n

-------------------------------------------------------------------------------
(* The invariant.                                                          *)

(* How much of a source has been read, and the places passed.              *)
ReadOf(id) == IF id = loading THEN at - 1 ELSE Len(TextOf(id))

Passed == {p \in Places : p[1] <= Len(modules) - Len(queue) /\ p[2] <= ReadOf(p[1])}

IsDropped(p)  == p[1] # EntryId /\ DeclAt(p).kind = "service"
IsDefaults(p) == DeclAt(p).kind = "template" /\ DeclAt(p).name = Defaults
IsNaming(p)   == DeclAt(p).kind = "service" /\ NamesDefaults(DeclAt(p))

Imported(p) == [kind |-> "ImportedService", place |-> p]

(* While the link runs: what was passed is noted, in order.                *)
Noting ==
  /\ Spliceable(warnings, defaultsDecls)
  /\ ToSet(warnings) = {Imported(p) : p \in {q \in Passed : IsDropped(q)}}
  /\ {d.place : d \in ToSet(defaultsDecls)} = {p \in Passed : IsDefaults(p)}
  /\ defaultsInvoked \in BOOLEAN
  /\ defaultsInvoked <=> \E p \in Passed : IsNaming(p)

Noted ==
  /\ Links
  /\ outcome.status # "ok" => Noting
  /\ WarningsInLoadOrder
  /\ WarningsExact

LEMMA PlacesAre ==
  ASSUME Links
  PROVE  /\ \A p : p \in Places <=> /\ p \in Place /\ p[1] \in 1..Len(modules)
                                    /\ p[2] \in 1..Len(TextOf(p[1]))
         /\ \A p \in Places : DeclAt(p) = TextOf(p[1])[p[2]]
         /\ \A id \in 1..Len(modules) : Len(TextOf(id)) \in Nat
<1>1. ASSUME NEW id \in 1..Len(modules)
      PROVE  /\ Content(modules[id].source).decls = TextOf(id)
             /\ DOMAIN TextOf(id) = 1..Len(TextOf(id)) /\ Len(TextOf(id)) \in Nat
  <2>1. Content(SourceOf(id)).decls = TextOf(id)
    BY ModulesImportable, SameContent DEF Links, TextOf, Promise!Text
  <2> QED
    BY <2>1, TextIsSequence DEF Links, Tables, TextOf, SourceOf
<1>2. Len(modules) \in Nat
  BY Ids DEF Links
<1>3. ASSUME NEW p, p \in Places
      PROVE  /\ p \in Place /\ p[1] \in 1..Len(modules) /\ p[2] \in 1..Len(TextOf(p[1]))
             /\ DeclAt(p) = TextOf(p[1])[p[2]]
  <2>1. PICK id \in 1..Len(modules) : p \in {<<id, i>> : i \in DOMAIN Content(modules[id].source).decls}
    BY <1>3 DEF Places
  <2>2. PICK i \in 1..Len(TextOf(id)) : p = <<id, i>>
    BY <1>1, <2>1
  <2>3. p[1] = id /\ p[2] = i /\ p \in Place
    BY <1>1, <1>2, <2>2 DEF Place
  <2> QED
    BY <1>1, <2>3 DEF DeclAt
<1>4. ASSUME NEW p \in Place, p[1] \in 1..Len(modules), p[2] \in 1..Len(TextOf(p[1]))
      PROVE  p \in Places
  <2>1. p = <<p[1], p[2]>>
    BY DEF Place
  <2>2. p[2] \in DOMAIN Content(modules[p[1]].source).decls
    BY <1>1, <1>4
  <2> QED
    BY <1>4, <2>1, <2>2 DEF Places
<1> QED
  BY <1>1, <1>3, <1>4

(* The places passed, by number.                                           *)
PassedIsRead ==
  \A p : p \in Passed <=> /\ p \in Place /\ p[1] \in 1..(Len(modules) - Len(queue))
                         /\ p[2] \in 1..ReadOf(p[1])

LEMMA PassedAre ==
  ASSUME Links
  PROVE  /\ PassedIsRead
         /\ \A id \in 1..Len(modules) : ReadOf(id) \in Nat /\ ReadOf(id) <= Len(TextOf(id))
         /\ loading # None => \A p \in Passed : Before(p, Here)
<1>1. Len(modules) \in Nat /\ Len(queue) \in 0..Len(modules)
  BY Ids DEF Links
<1>2. ASSUME NEW id \in 1..Len(modules) PROVE ReadOf(id) \in Nat /\ ReadOf(id) <= Len(TextOf(id))
  <2>1. CASE id = loading
    <3>1. loading # None
      BY <1>1, <2>1 DEF None
    <3>2. at - 1 \in Nat /\ at - 1 <= Len(TextOf(loading))
      BY <3>1 DEF Links, Loading, ReadUpTo
    <3> QED
      BY <2>1, <3>2 DEF ReadOf
  <2>2. CASE id # loading
    BY <2>2, PlacesAre DEF ReadOf
  <2> QED
    BY <2>1, <2>2
<1>3. PassedIsRead
  <2> SUFFICES ASSUME NEW p
               PROVE  p \in Passed <=> /\ p \in Place /\ p[1] \in 1..(Len(modules) - Len(queue))
                                      /\ p[2] \in 1..ReadOf(p[1])
    BY DEF PassedIsRead
  <2>1. p \in Places <=> /\ p \in Place /\ p[1] \in 1..Len(modules)
                         /\ p[2] \in 1..Len(TextOf(p[1]))
    BY PlacesAre
  <2>2. p[1] \in 1..Len(modules) => /\ ReadOf(p[1]) \in Nat /\ ReadOf(p[1]) <= Len(TextOf(p[1]))
                                    /\ Len(TextOf(p[1])) \in Nat
    BY <1>2, PlacesAre
  <2>3. p[1] \in 1..(Len(modules) - Len(queue)) <=>
          p[1] \in 1..Len(modules) /\ p[1] <= Len(modules) - Len(queue)
    BY <1>1
  <2>4. ASSUME p[1] \in 1..Len(modules)
        PROVE  p[2] \in 1..ReadOf(p[1]) <=> p[2] \in 1..Len(TextOf(p[1])) /\ p[2] <= ReadOf(p[1])
    BY <2>2, <2>4
  <2> QED
    BY <2>1, <2>3, <2>4 DEF Passed
<1>4. ASSUME loading # None, NEW p \in Passed PROVE Before(p, Here)
  <2>1. /\ p[1] \in 1..loading /\ p[1] \in Nat /\ p[2] \in Nat /\ p[2] \in 1..ReadOf(p[1])
        /\ loading \in Nat /\ at \in Nat
    BY <1>1, <1>3, <1>4, Ids DEF Links, Loading, Place, PassedIsRead
  <2>2. CASE p[1] = loading
    <3>1. p[2] \in 1..(at - 1)
      BY <2>1, <2>2 DEF ReadOf
    <3> QED
      BY <2>1, <2>2, <3>1 DEF Before, Here
  <2>3. CASE p[1] # loading
    BY <2>1, <2>3 DEF Before, Here
  <2> QED
    BY <2>2, <2>3
<1> QED
  BY <1>2, <1>3, <1>4

LEMMA PassedAreNext == Links' => PassedIsRead'
<1>1. Links => PassedIsRead
  BY PassedAre
<1> QED
  BY <1>1, PTL

(* What a step keeps of the places.                                        *)
LEMMA PlacesKept ==
  ASSUME Links, [Next]_vars
  PROVE  /\ \A id \in 1..Len(modules) : TextOf(id)' = TextOf(id)
         /\ \A p \in Passed : DeclAt(p)' = DeclAt(p)
<1>1. \A id \in 1..Len(modules) : modules'[id].source = modules[id].source
  BY GraphGrows DEF Links
<1>2. world' = world
  BY GraphGrows DEF Links
<1>3. \A id \in 1..Len(modules) : TextOf(id)' = TextOf(id)
  BY <1>1, <1>2 DEF TextOf, SourceOf
<1>4. ASSUME NEW p \in Passed PROVE DeclAt(p)' = DeclAt(p)
  <2>1. p[1] \in 1..Len(modules)
    BY PlacesAre DEF Passed
  <2> QED
    BY <1>1, <1>2, <2>1 DEF DeclAt, Content
<1> QED
  BY <1>3, <1>4

LEMMA PassedStay ==
  ASSUME Links, [Next]_vars, Links',
         \/ UNCHANGED <<modules, queue, loading, at>>
         \/ ReadModule
         \/ StoreModule
  PROVE  Passed' = Passed
<1> DEFINE N == Len(modules) - Len(queue)
<1>1. Len(modules) \in Nat /\ Len(queue) \in 0..Len(modules)
  BY Ids DEF Links
<1>2. \A p : p \in Passed <=> p \in Place /\ p[1] \in 1..N /\ p[2] \in 1..ReadOf(p[1])
  BY PassedAre DEF PassedIsRead
<1>3. \A p : p \in Passed' <=> /\ p \in Place /\ p[1] \in 1..(Len(modules') - Len(queue'))
                               /\ p[2] \in 1..ReadOf(p[1])'
  BY PassedAreNext DEF PassedIsRead
<1>4. \A id \in 1..N : id \in 1..Len(modules)
  BY <1>1
<1>5. CASE UNCHANGED <<modules, queue, loading, at>>
  <2>1. \A id \in 1..N : ReadOf(id)' = ReadOf(id)
    BY <1>4, <1>5, PlacesKept DEF ReadOf
  <2> QED
    BY <1>2, <1>3, <1>5, <2>1
<1>6. CASE ReadModule
  <2>1. /\ modules' = modules /\ queue' = Tail(queue) /\ queue # <<>> /\ loading = None
        /\ loading' = Head(queue) /\ at' = 1
    BY <1>6 DEF ReadModule, Between
  <2>2. Len(Tail(queue)) = Len(queue) - 1 /\ Head(queue) = N + 1 /\ Len(queue) > 0
    <3>1. Len(queue) > 0 /\ Len(Tail(queue)) = Len(queue) - 1 /\ Head(queue) = queue[1]
      BY <2>1, Ids, HeadTailProperties, EmptySeq DEF Links
    <3>2. 1 \in 1..Len(queue)
      BY <1>1, <3>1
    <3>3. queue[1] = Len(modules) - Len(queue) + 1
      BY <3>2, Ids DEF Links
    <3> QED
      BY <3>1, <3>3
  <2>3. PICK n : n = N + 1
    OBVIOUS
  <2>4. Len(modules') - Len(queue') = n /\ ReadOf(n)' = 0
    <3>1. Len(modules') = Len(modules) /\ Len(queue') = Len(queue) - 1
      BY <2>1, <2>2
    <3>2. loading' = n
      BY <2>1, <2>2, <2>3
    <3>3. at' - 1 = 0
      BY <2>1
    <3> QED
      BY <1>1, <2>3, <3>1, <3>2, <3>3 DEF ReadOf
  <2>5. ASSUME NEW id \in 1..N PROVE ReadOf(id)' = ReadOf(id)
    <3>1. id # N + 1 /\ id # None
      BY <1>1 DEF None
    <3> QED
      BY <1>4, <2>1, <2>2, <3>1, PlacesKept DEF ReadOf
  <2>6. 1..n = (1..N) \cup {n} /\ n \notin 1..N
    BY <1>1, <2>3
  <2>7. ASSUME NEW p \in Place PROVE p \in Passed' <=> p \in Passed
    <3>1. p \in Passed' <=> p[1] \in 1..n /\ p[2] \in 1..ReadOf(p[1])'
      BY <1>3, <2>4
    <3>2. CASE p[1] = n
      BY <1>2, <2>4, <2>6, <3>1, <3>2
    <3>3. CASE p[1] # n
      BY <1>2, <2>5, <2>6, <3>1, <3>3
    <3> QED
      BY <3>2, <3>3
  <2> QED
    BY <1>2, <1>3, <2>7
<1>7. CASE StoreModule
  <2>1. /\ loading \in 1..Len(modules) /\ loading' = None /\ queue' = queue
        /\ Len(modules') = Len(modules) /\ Past /\ at' = at
    BY <1>7, StoreStep DEF Links, StoreModule
  <2>2. at - 1 = Len(TextOf(loading))
    BY <1>1, <2>1, DeclIs DEF None
  <2>3. ASSUME NEW id \in 1..N PROVE ReadOf(id)' = ReadOf(id)
    <3>1. id # None
      BY <1>1 DEF None
    <3> QED
      BY <1>4, <2>1, <2>2, <3>1, PlacesKept DEF ReadOf
  <2> QED
    BY <1>2, <1>3, <2>1, <2>3
<1> QED
  BY <1>5, <1>6, <1>7

(* A declaration is processed.                                             *)
Advances == Inside /\ at' = at + 1 /\ UNCHANGED loading

LEMMA PassedGrow ==
  ASSUME Links, [Next]_vars, Links', Advances,
         Len(modules') - Len(queue') = Len(modules) - Len(queue),
         NEW here, here = Here
  PROVE  /\ here \in Place /\ here \notin Passed /\ here[1] = loading
         /\ \A p : p \in Passed' <=> p \in Passed \/ p = here
         /\ DeclAt(here)' = Decl
         /\ \A p \in Passed : Before(p, here)
<1> DEFINE N == Len(modules) - Len(queue)
<1>1. /\ Len(modules) \in Nat /\ Len(queue) \in 0..Len(modules)
      /\ loading # None /\ loading \in 1..Len(modules) /\ loading = N
      /\ at \in Nat \ {0} /\ Decl = TextOf(loading)[at]
      /\ loading' = loading /\ at' = at + 1
  BY Ids, DeclIs DEF Links, Advances, Inside
<1>2. \A p : p \in Passed <=> p \in Place /\ p[1] \in 1..N /\ p[2] \in 1..ReadOf(p[1])
  BY PassedAre DEF PassedIsRead
<1>3. \A p : p \in Passed' <=> /\ p \in Place /\ p[1] \in 1..N /\ p[2] \in 1..ReadOf(p[1])'
  BY PassedAreNext DEF PassedIsRead
<1>4. here \in Place /\ here[1] = loading /\ here[2] = at
  BY <1>1 DEF Here, Place
<1>5. ASSUME NEW id \in 1..N PROVE ReadOf(id)' = IF id = loading THEN at ELSE ReadOf(id)
  <2>1. id \in 1..Len(modules)
    BY <1>1
  <2> QED
    BY <1>1, <2>1, PlacesKept DEF ReadOf
<1>6. ReadOf(loading) = at - 1
  BY DEF ReadOf
<1>7. here \notin Passed
  BY <1>1, <1>2, <1>4, <1>6
<1>8. \A p \in Place : p[1] = loading /\ p[2] = at <=> p = here
  BY <1>4 DEF Place
<1>9. \A p : p \in Passed' <=> p \in Passed \/ p = here
  <2> TAKE p
  <2>1. CASE p \in Place /\ p[1] \in 1..N /\ p[1] # loading
    BY <1>2, <1>3, <1>4, <1>5, <2>1
  <2>2. CASE p \in Place /\ p[1] = loading
    <3>1. p \in Passed' <=> p[2] \in 1..at
      BY SMTT(30), <1>1, <1>3, <1>5, <2>2
    <3>2. p \in Passed <=> p[2] \in 1..(at - 1)
      BY <1>1, <1>2, <1>6, <2>2
    <3>3. p[2] \in 1..at <=> p[2] \in 1..(at - 1) \/ p[2] = at
      BY <1>1
    <3> QED
      BY <1>8, <2>2, <3>1, <3>2, <3>3
  <2>3. CASE ~(p \in Place /\ p[1] \in 1..N)
    BY <1>1, <1>2, <1>3, <1>4, <2>3
  <2> QED
    BY <1>1, <2>1, <2>2, <2>3
<1>10. DeclAt(here)' = Decl
  <2>1. modules'[loading].source = modules[loading].source /\ world' = world
    BY <1>1, GraphGrows DEF Links
  <2> QED
    BY <1>4, <2>1 DEF DeclAt, Decl, Decls, Content
<1>11. \A p \in Passed : Before(p, here)
  BY <1>1, PassedAre
<1> QED
  BY <1>4, <1>7, <1>9, <1>10, <1>11

-------------------------------------------------------------------------------
(* Taking note.                                                            *)

LEMMA SpliceableAppend ==
  ASSUME NEW list, NEW decls, Spliceable(list, decls), NEW e \in Entries,
         \A i \in 1..Len(list) : Before(list[i].place, e.place),
         \A k \in 1..Len(decls) : Before(decls[k].place, e.place),
         NEW longer, longer = Append(list, e)
  PROVE  Spliceable(longer, decls) /\ ToSet(longer) = ToSet(list) \cup {e}
<1>1. list \in Seq(Entries) /\ list \in Seq(ToSet(list)) /\ Len(list) \in Nat
  BY OwnElements, LenProperties DEF Spliceable
<1>2. /\ longer \in Seq(Entries) /\ Len(longer) = Len(list) + 1
      /\ \A i \in 1..Len(list) : longer[i] = list[i]
      /\ longer[Len(list) + 1] = e
  BY <1>1, AppendProperties
<1>3. ToSet(longer) = ToSet(list) \cup {e}
  BY <1>1, OwnAppend
<1>4. Ordered(longer)
  <2> SUFFICES ASSUME NEW i \in 1..Len(longer), NEW j \in 1..Len(longer), i < j
               PROVE  Before(longer[i].place, longer[j].place)
    BY DEF Ordered
  <2>1. i \in 1..Len(list) /\ longer[i] = list[i]
    BY <1>1, <1>2
  <2>2. CASE j \in 1..Len(list)
    BY <1>2, <2>1, <2>2 DEF Spliceable, Ordered
  <2>3. CASE j = Len(list) + 1
    BY <1>2, <2>1, <2>3
  <2> QED
    BY <1>1, <1>2, <2>2, <2>3
<1>5. ASSUME NEW k \in 1..Len(decls)
      PROVE  /\ decls[k].index <= Len(longer)
             /\ \A i \in 1..Len(longer) : IF i <= decls[k].index
                                          THEN Before(longer[i].place, decls[k].place)
                                          ELSE Before(decls[k].place, longer[i].place)
  <2>1. decls[k].index \in Nat /\ decls[k].index <= Len(list)
    <3>1. decls[k] \in Deferred
      BY LenProperties DEF Spliceable
    <3> QED
      BY <3>1 DEF Deferred, Spliceable
  <2>2. ASSUME NEW i \in 1..Len(longer)
        PROVE  IF i <= decls[k].index THEN Before(longer[i].place, decls[k].place)
                                      ELSE Before(decls[k].place, longer[i].place)
    <3>1. CASE i \in 1..Len(list)
      BY <1>2, <3>1 DEF Spliceable
    <3>2. CASE i = Len(list) + 1
      <4>1. ~(i <= decls[k].index)
        BY <1>1, <2>1, <3>2
      <4> QED
        BY <1>2, <3>2, <4>1
    <3> QED
      BY <1>1, <1>2, <3>1, <3>2
  <2> QED
    BY <1>1, <1>2, <2>1, <2>2
<1> QED
  BY <1>2, <1>3, <1>4, <1>5 DEF Spliceable

LEMMA SpliceableDefer ==
  ASSUME NEW list, NEW decls, Spliceable(list, decls), NEW d \in Deferred, d.index = Len(list),
         \A i \in 1..Len(list) : Before(list[i].place, d.place),
         \A k \in 1..Len(decls) : Before(decls[k].place, d.place),
         NEW longer, longer = Append(decls, d)
  PROVE  Spliceable(list, longer)
<1>1. Len(list) \in Nat /\ decls \in Seq(Deferred) /\ Len(decls) \in Nat /\ decls \in Seq(ToSet(decls))
  BY OwnElements, LenProperties DEF Spliceable
<1>2. d \in Deferred /\ d.index = Len(list)
  OBVIOUS
<1>3. /\ longer \in Seq(Deferred) /\ Len(longer) = Len(decls) + 1
      /\ \A i \in 1..Len(decls) : longer[i] = decls[i]
      /\ longer[Len(decls) + 1] = d
  BY <1>1, <1>2, AppendProperties
<1>4. Ordered(longer)
  <2> SUFFICES ASSUME NEW i \in 1..Len(longer), NEW j \in 1..Len(longer), i < j
               PROVE  Before(longer[i].place, longer[j].place)
    BY DEF Ordered
  <2>1. i \in 1..Len(decls) /\ longer[i] = decls[i]
    BY <1>1, <1>3
  <2>2. CASE j \in 1..Len(decls)
    BY <1>3, <2>1, <2>2 DEF Spliceable, Ordered
  <2>3. CASE j = Len(decls) + 1
    BY <1>2, <1>3, <2>1, <2>3
  <2> QED
    BY <1>1, <1>3, <2>2, <2>3
<1>5. ASSUME NEW k \in 1..Len(longer)
      PROVE  /\ longer[k].index <= Len(list)
             /\ \A i \in 1..Len(list) : IF i <= longer[k].index THEN Before(list[i].place, longer[k].place)
                                                              ELSE Before(longer[k].place, list[i].place)
  <2>1. CASE k \in 1..Len(decls)
    BY <1>3, <2>1 DEF Spliceable
  <2>2. CASE k = Len(decls) + 1
    BY <1>1, <1>2, <1>3, <2>2
  <2> QED
    BY <1>1, <1>3, <2>1, <2>2
<1> QED
  BY <1>3, <1>4, <1>5 DEF Spliceable

(* All that is noted was passed.                                           *)
LEMMA NotedPassed ==
  ASSUME Noting
  PROVE  /\ \A i \in 1..Len(warnings) : warnings[i].place \in Passed
         /\ \A k \in 1..Len(defaultsDecls) : defaultsDecls[k].place \in Passed
<1>1. \A e : e \in ToSet(warnings) <=> \E i \in 1..Len(warnings) : warnings[i] = e
  BY OwnElements DEF Noting, Spliceable
<1>2. \A d : d \in ToSet(defaultsDecls) <=> \E k \in 1..Len(defaultsDecls) : defaultsDecls[k] = d
  BY OwnElements DEF Noting, Spliceable
<1>3. \A e \in ToSet(warnings) : e.place \in Passed
  BY DEF Noting, Imported
<1>4. \A d \in ToSet(defaultsDecls) : d.place \in Passed
  BY DEF Noting
<1> QED
  BY <1>1, <1>2, <1>3, <1>4

LEMMA StayNoting ==
  ASSUME Links, [Next]_vars, Links', Noting, UNCHANGED notes,
         \/ UNCHANGED <<modules, queue, loading, at>>
         \/ ReadModule
         \/ StoreModule
  PROVE  Noting'
<1>1. Passed' = Passed
  BY PassedStay
<1>2. \A p \in Passed : (IsDropped(p)' <=> IsDropped(p)) /\ (IsDefaults(p)' <=> IsDefaults(p))
                        /\ (IsNaming(p)' <=> IsNaming(p))
  BY PlacesKept DEF IsDropped, IsDefaults, IsNaming, NamesDefaults
<1>3. /\ {q \in Passed : IsDropped(q)}' = {q \in Passed : IsDropped(q)}
      /\ {q \in Passed : IsDefaults(q)}' = {q \in Passed : IsDefaults(q)}
      /\ (\E p \in Passed : IsNaming(p))' <=> \E p \in Passed : IsNaming(p)
  BY <1>1, <1>2
<1>4. warnings' = warnings /\ defaultsDecls' = defaultsDecls /\ defaultsInvoked' = defaultsInvoked
  BY DEF notes
<1> QED
  BY <1>3, <1>4 DEF Noting, Spliceable, Imported, Ordered, Before

LEMMA AdvanceNotes ==
  ASSUME Links, [Next]_vars, Links', Advances,
         Len(modules') - Len(queue') = Len(modules) - Len(queue),
         NEW here, here = Here
  PROVE  /\ {q \in Passed : IsDropped(q)}' =
              {q \in Passed : IsDropped(q)}
                \cup IF loading # EntryId /\ Decl.kind = "service" THEN {here} ELSE {}
         /\ {q \in Passed : IsDefaults(q)}' =
              {q \in Passed : IsDefaults(q)}
                \cup IF Decl.kind = "template" /\ Decl.name = Defaults THEN {here} ELSE {}
         /\ (\E p \in Passed : IsNaming(p))' <=>
              (\E p \in Passed : IsNaming(p)) \/ (Decl.kind = "service" /\ NamesDefaults(Decl))
<1>1. \A p \in Passed : (IsDropped(p)' <=> IsDropped(p)) /\ (IsDefaults(p)' <=> IsDefaults(p))
                        /\ (IsNaming(p)' <=> IsNaming(p))
  BY PlacesKept DEF IsDropped, IsDefaults, IsNaming, NamesDefaults
<1>2. /\ IsDropped(here)' <=> loading # EntryId /\ Decl.kind = "service"
      /\ IsDefaults(here)' <=> Decl.kind = "template" /\ Decl.name = Defaults
      /\ IsNaming(here)' <=> Decl.kind = "service" /\ NamesDefaults(Decl)
  BY PassedGrow DEF IsDropped, IsDefaults, IsNaming, NamesDefaults
<1>3. \A p : p \in Passed' <=> p \in Passed \/ p = here
  BY PassedGrow
<1> QED
  BY <1>1, <1>2, <1>3

LEMMA ServiceNoting ==
  ASSUME Links, [Next]_vars, Links', Noting, DeclareService
  PROVE  Noting'
<1>1. PICK here : here = Here
  OBVIOUS
<1>2. /\ Decl.kind = "service" /\ Advances /\ UNCHANGED <<modules, queue, defaultsDecls>>
      /\ defaultsInvoked' = (defaultsInvoked \/ NamesDefaults(Decl))
      /\ warnings' = IF loading = EntryId THEN warnings ELSE Append(warnings, Imported(here))
  BY <1>1 DEF DeclareService, Declared, Record, Advances, graph, IsEntry, Imported
<1>3. Len(modules') - Len(queue') = Len(modules) - Len(queue)
  BY <1>2
<1>4. here \in Place /\ \A p \in Passed : Before(p, here)
  BY <1>1, <1>2, <1>3, PassedGrow
<1>5. /\ {q \in Passed : IsDropped(q)}' =
           {q \in Passed : IsDropped(q)} \cup IF loading # EntryId THEN {here} ELSE {}
      /\ {q \in Passed : IsDefaults(q)}' = {q \in Passed : IsDefaults(q)}
      /\ (\E p \in Passed : IsNaming(p))' <=> (\E p \in Passed : IsNaming(p)) \/ NamesDefaults(Decl)
  BY <1>1, <1>2, <1>3, AdvanceNotes
<1>6. /\ Spliceable(warnings', defaultsDecls)
      /\ ToSet(warnings)' = ToSet(warnings) \cup IF loading = EntryId THEN {} ELSE {Imported(here)}
  <2>1. CASE loading = EntryId
    BY <1>2, <2>1 DEF Noting
  <2>2. CASE loading # EntryId
    <3>1. Imported(here) \in Entries /\ Imported(here).place = here
      BY <1>4 DEF Imported, Entries
    <3>2. /\ \A i \in 1..Len(warnings) : Before(warnings[i].place, here)
          /\ \A k \in 1..Len(defaultsDecls) : Before(defaultsDecls[k].place, here)
      BY <1>4, NotedPassed
    <3>3. PICK e, longer : e = Imported(here) /\ longer = Append(warnings, e)
      OBVIOUS
    <3>4. e \in Entries /\ e.place = here
      BY <3>1, <3>3
    <3>5. /\ \A i \in 1..Len(warnings) : Before(warnings[i].place, e.place)
          /\ \A k \in 1..Len(defaultsDecls) : Before(defaultsDecls[k].place, e.place)
      BY <3>2, <3>4
    <3>6. Spliceable(warnings, defaultsDecls)
      BY DEF Noting
    <3>7. Spliceable(longer, defaultsDecls) /\ ToSet(longer) = ToSet(warnings) \cup {e}
      BY <3>3, <3>4, <3>5, <3>6, SpliceableAppend
    <3>8. warnings' = longer
      BY <1>2, <2>2, <3>3
    <3>9. ToSet(warnings') = ToSet(warnings)'
      OBVIOUS
    <3> QED
      BY <2>2, <3>3, <3>7, <3>8, <3>9
  <2> QED
    BY <2>1, <2>2
<1>7. Spliceable(warnings, defaultsDecls)'
  <2>1. Spliceable(warnings', defaultsDecls')
    BY <1>2, <1>6
  <2> QED
    BY <2>1
<1>8. ToSet(warnings)' = {Imported(p) : p \in {q \in Passed : IsDropped(q)}'}
  <2>1. ToSet(warnings) = {Imported(p) : p \in {q \in Passed : IsDropped(q)}}
    BY DEF Noting
  <2> QED
    BY <1>5, <1>6, <2>1
<1>9. {d.place : d \in ToSet(defaultsDecls)}' = {q \in Passed : IsDefaults(q)}'
  BY <1>2, <1>5 DEF Noting
<1>10. defaultsInvoked' \in BOOLEAN /\ (defaultsInvoked' <=> (\E p \in Passed : IsNaming(p))')
  <2>1. defaultsInvoked \in BOOLEAN /\ (defaultsInvoked <=> \E p \in Passed : IsNaming(p))
    BY DEF Noting
  <2> QED
    BY <1>2, <1>5, <2>1
<1> QED
  BY <1>7, <1>8, <1>9, <1>10 DEF Noting, Imported

LEMMA TemplateNoting ==
  ASSUME Links, [Next]_vars, Links', Noting, DeclareTemplate
  PROVE  Noting'
<1>1. PICK here : here = Here
  OBVIOUS
<1>2. PICK d : d = [index |-> Len(warnings), place |-> here]
  OBVIOUS
<1>3. /\ Decl.kind = "template" /\ Advances /\ UNCHANGED <<modules, queue, warnings, defaultsInvoked>>
      /\ defaultsDecls' = IF Decl.name # Defaults THEN defaultsDecls ELSE Append(defaultsDecls, d)
  BY <1>1, <1>2 DEF DeclareTemplate, Declared, Record, Advances, graph
<1>4. Len(modules') - Len(queue') = Len(modules) - Len(queue)
  BY <1>3
<1>5. here \in Place /\ \A p \in Passed : Before(p, here)
  BY <1>1, <1>3, <1>4, PassedGrow
<1>6. /\ {q \in Passed : IsDropped(q)}' = {q \in Passed : IsDropped(q)}
      /\ {q \in Passed : IsDefaults(q)}' =
           {q \in Passed : IsDefaults(q)} \cup IF Decl.name = Defaults THEN {here} ELSE {}
      /\ (\E p \in Passed : IsNaming(p))' <=> \E p \in Passed : IsNaming(p)
  BY <1>1, <1>3, <1>4, AdvanceNotes
<1>7. /\ Spliceable(warnings, defaultsDecls')
      /\ ToSet(defaultsDecls)' = ToSet(defaultsDecls) \cup IF Decl.name = Defaults THEN {d} ELSE {}
  <2>1. CASE Decl.name # Defaults
    BY <1>3, <2>1 DEF Noting
  <2>2. CASE Decl.name = Defaults
    <3>1. PICK longer : longer = Append(defaultsDecls, d)
      OBVIOUS
    <3>2. /\ \A i \in 1..Len(warnings) : Before(warnings[i].place, here)
          /\ \A k \in 1..Len(defaultsDecls) : Before(defaultsDecls[k].place, here)
      BY <1>5, NotedPassed
    <3>3. Spliceable(warnings, defaultsDecls)
      BY DEF Noting
    <3>4. Spliceable(warnings, longer) /\ ToSet(longer) = ToSet(defaultsDecls) \cup {d}
      <4>1. PICK list, decls : list = warnings /\ decls = defaultsDecls
        OBVIOUS
      <4>2. /\ Spliceable(list, decls)
            /\ d \in Deferred /\ d.index = Len(list)
            /\ longer = Append(decls, d)
            /\ \A i \in 1..Len(list) : Before(list[i].place, d.place)
            /\ \A k \in 1..Len(decls) : Before(decls[k].place, d.place)
        <5>1. Len(warnings) \in Nat
          BY <3>3, LenProperties DEF Spliceable
        <5> QED
          BY <1>2, <1>5, <3>1, <3>2, <3>3, <4>1, <5>1 DEF Deferred
      <4>3. Spliceable(list, longer) /\ ToSet(longer) = ToSet(decls) \cup {d}
        <5>1. Spliceable(list, longer)
          BY <4>2, SpliceableDefer
        <5>2. decls \in Seq(ToSet(decls))
          BY <4>2, OwnElements DEF Spliceable
        <5>3. ToSet(longer) = ToSet(decls) \cup {d}
          BY <4>2, <5>2, OwnAppend
        <5> QED
          BY <5>1, <5>3
      <4> QED
        BY <4>1, <4>3
    <3>5. defaultsDecls' = longer
      BY <1>3, <2>2, <3>1
    <3>6. ToSet(defaultsDecls') = ToSet(defaultsDecls)'
      OBVIOUS
    <3> QED
      BY <2>2, <3>4, <3>5, <3>6
  <2> QED
    BY <2>1, <2>2
<1>8. Spliceable(warnings, defaultsDecls)'
  <2>1. Spliceable(warnings', defaultsDecls')
    BY <1>3, <1>7
  <2> QED
    BY <2>1
<1>9. ToSet(warnings)' = {Imported(p) : p \in {q \in Passed : IsDropped(q)}'}
  BY <1>3, <1>6 DEF Noting
<1>10. {e.place : e \in ToSet(defaultsDecls)'} = {q \in Passed : IsDefaults(q)}'
  <2>1. {e.place : e \in ToSet(defaultsDecls)} = {q \in Passed : IsDefaults(q)}
    BY DEF Noting
  <2>2. d.place = here
    BY <1>2
  <2> QED
    BY <1>6, <1>7, <2>1, <2>2
<1>11. defaultsInvoked' \in BOOLEAN /\ (defaultsInvoked' <=> (\E p \in Passed : IsNaming(p))')
  <2>1. defaultsInvoked \in BOOLEAN /\ (defaultsInvoked <=> \E p \in Passed : IsNaming(p))
    BY DEF Noting
  <2> QED
    BY <1>3, <1>6, <2>1
<1> QED
  BY <1>8, <1>9, <1>10, <1>11 DEF Noting, Imported

(* A network, a volume or an import is not noted.                          *)
LEMMA OtherNoting ==
  ASSUME Links, [Next]_vars, Links', Noting, Advances, UNCHANGED notes,
         Len(modules') - Len(queue') = Len(modules) - Len(queue),
         Decl.kind \notin {"service", "template"}
  PROVE  Noting'
<1>1. PICK here : here = Here
  OBVIOUS
<1>2. /\ {q \in Passed : IsDropped(q)}' = {q \in Passed : IsDropped(q)}
      /\ {q \in Passed : IsDefaults(q)}' = {q \in Passed : IsDefaults(q)}
      /\ (\E p \in Passed : IsNaming(p))' <=> \E p \in Passed : IsNaming(p)
  BY <1>1, AdvanceNotes
<1>3. warnings' = warnings /\ defaultsDecls' = defaultsDecls /\ defaultsInvoked' = defaultsInvoked
  BY DEF notes
<1> QED
  BY <1>2, <1>3 DEF Noting, Spliceable, Imported, Ordered, Before

-------------------------------------------------------------------------------
(* The end of the link.                                                    *)

(* A list in load order holds no place twice.                              *)
LEMMA OrderedCardinality ==
  ASSUME NEW list \in Seq(Entries), Ordered(list),
         NEW S, \A p : p \in S <=> \E i \in 1..Len(list) : list[i].place = p
  PROVE  Len(list) = Cardinality(S)
<1> DEFINE n == Len(list)
           f == [i \in 1..n |-> list[i].place]
<1>1. n \in Nat /\ \A i \in 1..n : list[i].place \in Place
  <2>1. n \in Nat /\ \A i \in 1..n : list[i] \in Entries
    BY LenProperties
  <2> QED
    BY <2>1 DEF Entries
<1>2. ASSUME NEW i \in 1..n, NEW j \in 1..n, list[i].place = list[j].place PROVE i = j
  <2>1. ~(i < j) /\ ~(j < i)
    BY <1>1, <1>2, BeforeOrder DEF Ordered
  <2> QED
    BY <1>1, <2>1
<1>3. f \in Bijection(1..n, S)
  <2>1. f \in [1..n -> S] /\ \A i \in 1..n : f[i] = list[i].place
    OBVIOUS
  <2> HIDE DEF f
  <2>2. IsInjective(f)
    BY <1>2, <2>1 DEF IsInjective
  <2>3. \A p \in S : \E i \in 1..n : f[i] = p
    BY <2>1
  <2> QED
    BY <2>1, <2>2, <2>3 DEF Bijection, Injection, Surjection
<1>4. Cardinality(S) = n
  BY <1>1, <1>3, FS_CountingElements DEF ExistsBijection
<1> QED
  BY <1>4

(* All has been passed.                                                    *)
LEMMA FinishNotes ==
  ASSUME Links, Noting, FinishLink
  PROVE  LET final == warnings'
         IN  /\ final \in Seq(Entries) /\ Ordered(final)
             /\ ToSet(final) = {Imported(p) : p \in Dropped}
                  \cup {[kind |-> "UnappliedDefaults", place |-> p] :
                          p \in IF DefaultsNamed THEN {} ELSE DefaultsDeclared}
<1>1. /\ loading = None /\ queue = <<>>
      /\ warnings' = IF defaultsInvoked THEN warnings ELSE Splice(warnings, defaultsDecls)
  BY DEF FinishLink, Between
<1>2. Passed = Places
  <2>1. Len(queue) = 0 /\ Len(modules) \in Nat
    BY <1>1, Ids DEF Links
  <2>2. \A id \in 1..Len(modules) : ReadOf(id) = Len(TextOf(id))
    BY <1>1 DEF ReadOf, None
  <2> QED
    BY <2>1, <2>2, PlacesAre DEF Passed
<1>3. /\ {q \in Passed : IsDropped(q)} = Dropped
      /\ {q \in Passed : IsDefaults(q)} = DefaultsDeclared
      /\ (\E p \in Passed : IsNaming(p)) <=> DefaultsNamed
  BY <1>2 DEF Dropped, IsDropped, DefaultsDeclared, IsDefaults, DefaultsNamed, IsNaming, NamesDefaults
<1>4. /\ Spliceable(warnings, defaultsDecls)
      /\ ToSet(warnings) = {Imported(p) : p \in Dropped}
      /\ {d.place : d \in ToSet(defaultsDecls)} = DefaultsDeclared
      /\ defaultsInvoked \in BOOLEAN /\ (defaultsInvoked <=> DefaultsNamed)
  BY <1>3 DEF Noting
<1>5. CASE defaultsInvoked
  BY <1>1, <1>4, <1>5 DEF Spliceable
<1>6. CASE ~defaultsInvoked
  <2>1. PICK final : final = Splice(warnings, defaultsDecls)
    OBVIOUS
  <2>2. Spliced(warnings, defaultsDecls, 1..Len(defaultsDecls), final)
    BY <1>4, <2>1, SpliceAll
  <2>3. {Unapplied(defaultsDecls[k]) : k \in 1..Len(defaultsDecls)}
          = {[kind |-> "UnappliedDefaults", place |-> p] : p \in DefaultsDeclared}
    <3>1. \A d : d \in ToSet(defaultsDecls) <=> \E k \in 1..Len(defaultsDecls) : defaultsDecls[k] = d
      BY <1>4, OwnElements DEF Spliceable
    <3>2. \A p : p \in DefaultsDeclared <=> \E k \in 1..Len(defaultsDecls) : defaultsDecls[k].place = p
      BY <1>4, <3>1
    <3> QED
      BY <3>2 DEF Unapplied
  <2> QED
    BY <1>1, <1>4, <1>6, <2>1, <2>2, <2>3 DEF Spliced
<1> QED
  BY <1>4, <1>5, <1>6

LEMMA FinishExact ==
  ASSUME Links, Noting, FinishLink
  PROVE  WarningsInLoadOrder' /\ WarningsExact'
<1>1. PICK final : final = warnings'
  OBVIOUS
<1>2. /\ final \in Seq(Entries) /\ Ordered(final)
      /\ ToSet(final) = {Imported(p) : p \in Dropped}
           \cup {[kind |-> "UnappliedDefaults", place |-> p] :
                   p \in IF DefaultsNamed THEN {} ELSE DefaultsDeclared}
  BY <1>1, FinishNotes
<1> DEFINE unapplied == IF DefaultsNamed THEN {} ELSE DefaultsDeclared
           warned(kind) == {p \in Places : \E i \in 1..Len(final) : final[i] = [kind |-> kind, place |-> p]}
<1>3. Dropped \subseteq Places /\ unapplied \subseteq Places
  BY DEF Dropped, DefaultsDeclared
<1>4. \A e : (\E i \in 1..Len(final) : final[i] = e) <=>
               \/ \E p \in Dropped : e = Imported(p)
               \/ \E p \in unapplied : e = [kind |-> "UnappliedDefaults", place |-> p]
  <2>1. \A e : e \in ToSet(final) <=> \E i \in 1..Len(final) : final[i] = e
    BY <1>2, OwnElements
  <2>2. \A e : e \in ToSet(final) <=>
               \/ \E p \in Dropped : e = Imported(p)
               \/ \E p \in unapplied : e = [kind |-> "UnappliedDefaults", place |-> p]
    BY <1>2
  <2> QED
    BY <2>1, <2>2
<1>5. \A p, q : /\ Imported(p) = Imported(q) <=> p = q
                /\ ([kind |-> "UnappliedDefaults", place |-> p]
                      = [kind |-> "UnappliedDefaults", place |-> q]) <=> p = q
                /\ Imported(p) # [kind |-> "UnappliedDefaults", place |-> q]
                /\ Imported(p).place = p /\ [kind |-> "UnappliedDefaults", place |-> p].place = p
  BY DEF Imported
<1> HIDE DEF unapplied
<1>6. warned("ImportedService") = Dropped /\ warned("UnappliedDefaults") = unapplied
  BY <1>3, <1>4, <1>5 DEF Imported
<1>7. Len(final) = Cardinality(warned("ImportedService") \cup warned("UnappliedDefaults"))
  <2>1. ASSUME NEW p
        PROVE  p \in Dropped \cup unapplied <=> \E i \in 1..Len(final) : final[i].place = p
    <3>1. ASSUME NEW i \in 1..Len(final), final[i].place = p PROVE p \in Dropped \cup unapplied
      BY <1>4, <1>5, <3>1
    <3>2. ASSUME p \in Dropped PROVE \E i \in 1..Len(final) : final[i].place = p
      BY <1>4, <1>5, <3>2
    <3>3. ASSUME p \in unapplied PROVE \E i \in 1..Len(final) : final[i].place = p
      <4>1. PICK e : e = [kind |-> "UnappliedDefaults", place |-> p]
        OBVIOUS
      <4>2. PICK i \in 1..Len(final) : final[i] = e
        BY <1>4, <3>3, <4>1
      <4> QED
        BY <4>1, <4>2
    <3> QED
      BY <3>1, <3>2, <3>3
  <2> HIDE DEF warned
  <2>2. PICK S : S = Dropped \cup unapplied
    OBVIOUS
  <2>3. Len(final) = Cardinality(S)
    BY <1>2, <2>1, <2>2, OrderedCardinality
  <2> QED
    BY <1>6, <2>2, <2>3
<1>8. /\ UNCHANGED <<world, modules>>
      /\ Places' = Places /\ Dropped' = Dropped /\ DefaultsDeclared' = DefaultsDeclared
      /\ (DefaultsNamed' <=> DefaultsNamed)
  BY DEF FinishLink, graph, Places, Dropped, DefaultsDeclared, DefaultsNamed, DeclAt, Content
<1>9. \A kind : Warned(kind)' = warned(kind)
  BY <1>1, <1>8 DEF Warned
<1>10. WarningsInLoadOrder'
  BY <1>1, <1>2 DEF WarningsInLoadOrder, Ordered, Before
<1>11. WarningsExact'
  <2> HIDE DEF warned
  <2>1. /\ Warned("ImportedService")' = Dropped' /\ Warned("UnappliedDefaults")' = unapplied
        /\ Len(warnings') = Cardinality(Warned("ImportedService")' \cup Warned("UnappliedDefaults")')
    BY <1>1, <1>6, <1>7, <1>8, <1>9
  <2>2. unapplied = IF DefaultsNamed' THEN {} ELSE DefaultsDeclared'
    BY <1>8 DEF unapplied
  <2> QED
    BY <2>1, <2>2 DEF WarningsExact
<1> QED
  BY <1>10, <1>11

LEMMA NextNoted == Noted /\ [Next]_vars => Noted'
<1> SUFFICES ASSUME Noted, [Next]_vars PROVE Noted'
  OBVIOUS
<1>1. Links /\ Links'
  BY NextLinks DEF Noted
<1>2. CASE UNCHANGED vars
  <2>1. CASE outcome.status = "ok"
    <3>1. UNCHANGED <<world, modules, warnings, outcome>>
      BY <1>2 DEF vars, graph, notes
    <3>2. WarningsInLoadOrder'
      BY <3>1 DEF Noted, WarningsInLoadOrder, Before
    <3>3. /\ Places' = Places /\ Dropped' = Dropped /\ DefaultsDeclared' = DefaultsDeclared
          /\ (DefaultsNamed' <=> DefaultsNamed)
      BY <3>1 DEF Places, Dropped, DefaultsDeclared, DefaultsNamed, DeclAt, Content
    <3>4. \A kind : Warned(kind)' = Warned(kind)
      BY <3>1, <3>3 DEF Warned
    <3>5. WarningsExact'
      BY <3>1, <3>3, <3>4 DEF Noted, WarningsExact
    <3> QED
      BY <1>1, <2>1, <3>1, <3>2, <3>5 DEF Noted
  <2>2. CASE outcome.status # "ok"
    <3>1. UNCHANGED <<modules, queue, loading, at>> /\ UNCHANGED notes /\ outcome' = outcome
      BY <1>2 DEF vars, graph, local
    <3>2. Noting
      BY <2>2 DEF Noted
    <3>3. Noting'
      BY <1>1, <3>1, <3>2, StayNoting
    <3> QED
      BY <1>1, <2>2, <3>1, <3>3 DEF Noted, WarningsInLoadOrder, WarningsExact
  <2> QED
    BY <2>1, <2>2
<1>3. CASE Next
  <2>1. outcome = Running /\ Noting
    <3>1. outcome = Running
      BY <1>3 DEF Next, RejectSource, ReadModule, RejectDuplicate, DeclareNetworkOrVolume, DeclareService,
         DeclareTemplate, RejectUse, UseKnownModule, UseNewModule, StoreModule, FinishLink,
         Between, Declared, Using, Inside, Past
    <3> QED
      BY <3>1 DEF Noted, Running
  <2>2. CASE FinishLink
    <3>1. outcome'.status = "ok"
      BY <2>2 DEF FinishLink, Linked
    <3>2. WarningsInLoadOrder' /\ WarningsExact'
      BY <1>1, <2>1, <2>2, FinishExact
    <3> QED
      BY <1>1, <3>1, <3>2 DEF Noted
  <2>3. ASSUME Noting', outcome'.status # "ok" PROVE Noted'
    BY <1>1, <2>3 DEF Noted, WarningsInLoadOrder, WarningsExact
  <2>4. CASE Refuses
    <3>1. outcome'.status # "ok" /\ UNCHANGED notes /\ UNCHANGED <<modules, queue, loading, at>>
      BY <2>4 DEF Refuses, RejectSource, RejectDuplicate, RejectUse, Return, Failed, graph, local
    <3> QED
      BY <1>1, <2>1, <2>3, <3>1, StayNoting
  <2>5. CASE ReadModule \/ StoreModule
    <3>1. outcome'.status # "ok" /\ UNCHANGED notes
      BY <2>1, <2>5 DEF ReadModule, StoreModule, Running
    <3> QED
      BY <1>1, <2>1, <2>3, <2>5, <3>1, StayNoting
  <2>6. CASE DeclareNetworkOrVolume \/ UseKnownModule
    <3>1. /\ outcome'.status # "ok" /\ UNCHANGED notes /\ Advances
          /\ Decl.kind \notin {"service", "template"}
          /\ UNCHANGED <<modules, queue>>
      BY <2>1, <2>6 DEF DeclareNetworkOrVolume, UseKnownModule, Declared, Using, Record, Bind, Advances,
         graph, Running
    <3> QED
      BY <1>1, <2>1, <2>3, <3>1, OtherNoting
  <2>7. CASE UseNewModule
    <3>1. /\ outcome'.status # "ok" /\ UNCHANGED notes /\ Advances
          /\ Decl.kind \notin {"service", "template"}
      BY <2>1, <2>7 DEF UseNewModule, Using, Bind, Advances, Running
    <3>2. Len(modules') - Len(queue') = Len(modules) - Len(queue)
      BY <1>1, <2>7, NewModuleStep, Ids DEF Links
    <3> QED
      BY <1>1, <2>1, <2>3, <3>1, <3>2, OtherNoting
  <2>8. CASE DeclareService
    <3>1. outcome'.status # "ok"
      BY <2>1, <2>8 DEF DeclareService, Running
    <3> QED
      BY <1>1, <2>1, <2>3, <2>8, <3>1, ServiceNoting
  <2>9. CASE DeclareTemplate
    <3>1. outcome'.status # "ok"
      BY <2>1, <2>9 DEF DeclareTemplate, Running
    <3> QED
      BY <1>1, <2>1, <2>3, <2>9, <3>1, TemplateNoting
  <2> QED
    BY <1>3, <2>2, <2>4, <2>5, <2>6, <2>7, <2>8, <2>9 DEF Next, Refuses
<1> QED
  BY <1>2, <1>3

LEMMA InitNoted == Init => Noted
<1> SUFFICES ASSUME Init PROVE Noted
  OBVIOUS
<1>1. Links
  BY InitLinks
<1>2. /\ warnings = <<>> /\ defaultsDecls = <<>> /\ defaultsInvoked = FALSE /\ outcome.status = "running"
      /\ queue = <<EntryId>> /\ loading = None
  BY DEF Init, Running
<1>3. Len(modules) = 1 /\ Len(queue) = 1
  BY DEF Init
<1>4. Passed = {}
  BY <1>1, <1>3, PassedAre DEF PassedIsRead
<1>5. Spliceable(<<>>, <<>>)
  BY DEF Spliceable, Ordered
<1>6. ToSet(<<>>) = {}
  BY DEF ToSet
<1>7. Noting
  BY <1>2, <1>4, <1>5, <1>6 DEF Noting
<1> QED
  BY <1>1, <1>2, <1>7 DEF Noted, WarningsInLoadOrder, WarningsExact

LEMMA NotedInvariant == Spec => []Noted
<1>1. Init => Noted
  BY InitNoted
<1>2. Noted /\ [Next]_vars => Noted'
  BY NextNoted
<1> QED
  BY <1>1, <1>2, PTL DEF Spec

(* For every set of worlds: the warnings of a finished link come in the    *)
(* order in which their declarations were loaded, although those about     *)
(* `template defaults` are spliced in when the last module has been read.  *)
THEOREM InLoadOrder == Spec => []WarningsInLoadOrder
<1>1. Noted => WarningsInLoadOrder
  BY DEF Noted
<1> QED
  BY <1>1, NotedInvariant, PTL

(* For every set of worlds: a finished link has warned exactly once of     *)
(* every service of an imported file and, when no service of any file      *)
(* names `defaults`, of every template of that name, and of nothing else.  *)
THEOREM NothingDroppedSilently == Spec => []WarningsExact
<1>1. Noted => WarningsExact
  BY DEF Noted
<1> QED
  BY <1>1, NotedInvariant, PTL

===============================================================================
