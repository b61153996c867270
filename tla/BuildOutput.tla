----------------------------- MODULE BuildOutput -----------------------------
(***************************************************************************)
(* `hllc build` and `hllc check` as seen from the file system (run_pipeline *)
(* and below, in hl-cli's lib.rs): which sources a run compiles and in     *)
(* which order, what it writes where, what it refuses to write over, and   *)
(* what is left behind when it fails, is killed or loses its reader.       *)
(*                                                                         *)
(* A command is run several times over one tree, and a user may put a file *)
(* or a link in the way between runs.  The three steps of one write        *)
(* (inspect the path, truncate it, fill it) are steps of their own.        *)
(***************************************************************************)
EXTENDS Integers, Sequences, FiniteSets, SequencesExt

CONSTANTS
  Trees,     \* the trees of sources
  Outside,   \* the path a user's link leads to
  MaxDepth,  \* MAX_COLOCATED_DEPTH
  MaxRuns    \* bound: how often the command is run on one tree

ASSUME MaxDepthAssumption == MaxDepth \in Nat
ASSUME MaxRunsAssumption == MaxRuns \in Nat

(* A tree maps a directory to its `.hll` files and its subdirectories,     *)
(* both sorted; a link to a directory is that directory once more, so the  *)
(* walk may go around.  A file declares a service, is a library or cannot  *)
(* be parsed; it compiles or does not, and its stem may name a directory   *)
(* or not.  The path on the command line is the root of the tree or, if    *)
(* `single`, the one file in it.  A user puts things at `inTheWay`.        *)
ASSUME TreesAssumption ==
  \A t \in Trees :
    /\ t.single \in BOOLEAN
    /\ t.root \in DOMAIN t.dirs
    /\ \A d \in DOMAIN t.dirs :
         /\ t.dirs[d].files \in Seq(ToSet(t.dirs[d].files))
         /\ t.dirs[d].subdirs \in Seq(DOMAIN t.dirs)

(* A link leads to a file of the user's that is neither where an output    *)
(* goes nor where the user puts something else.                            *)
ASSUME OutsideAssumption ==
  \A t \in Trees : Outside[1] \notin DOMAIN t.dirs \cup {"out"} /\ Outside \notin t.inTheWay

VARIABLES
  tree,       \* the sources
  disk,       \* what is at each output path: nothing, or a document, file or link
  runs,       \* bound: the commands run so far
  request,    \* the command being run: its subcommand, --out and --force
  phase,      \* where in the run the process is
  walk,       \* the directories it is inside, each with the item that is next
  entry,      \* the file it is building and the path it goes to
  stdoutOpen, \* whether the reader of stdout is still there
  announced,  \* the output paths this run printed
  outcome     \* how the last run ended

vars == <<tree, disk, runs, request, phase, walk, entry, stdoutOpen, announced, outcome>>

-------------------------------------------------------------------------------
Requests == [check : BOOLEAN, out : BOOLEAN, force : BOOLEAN]

NoRequest == [check |-> TRUE, out |-> FALSE, force |-> FALSE]
NoEntry   == [file |-> [name |-> "none"], path |-> <<>>]

(* What an output path can hold.  A torn document is one cut short before  *)
(* its header was written.                                                 *)
Handwritten == [kind |-> "handwritten"]
Link        == [kind |-> "link"]
Torn        == [kind |-> "torn"]
Document(name, run) == [kind |-> "generated", of |-> name, in |-> run]

Holds(path, kind) == path \in DOMAIN disk /\ disk[path].kind = kind

Put(path, content) == [p \in DOMAIN disk \cup {path} |-> IF p = path THEN content ELSE disk[p]]

Files(dir)   == tree.dirs[dir].files
Subdirs(dir) == tree.dirs[dir].subdirs

ServicesAmong(files) == SelectSeq(files, LAMBDA f : f.declares = "service")

Services(dir) == ServicesAmong(Files(dir))

Flat == Files(tree.root) # <<>>

(* A run with --out mirrors the tree below it; without, a document goes    *)
(* beside its source.  A directory is named by the way the walk came.      *)
PathOf(way) == IF request.out THEN <<"out">> \o way ELSE <<Last(way)>>

-------------------------------------------------------------------------------
Init ==
  /\ tree \in Trees
  /\ disk = [p \in {Outside} |-> Handwritten]
  /\ runs = 0
  /\ request = NoRequest
  /\ phase = "idle"
  /\ walk = <<>>
  /\ entry = NoEntry
  /\ stdoutOpen = TRUE
  /\ announced = <<>>
  /\ outcome = "none"

Exit(result) ==
  /\ phase' = "idle"
  /\ outcome' = result
  /\ UNCHANGED <<tree, runs, request, walk, entry, stdoutOpen, announced>>

-------------------------------------------------------------------------------
(* Between runs.                                                           *)

User(contents) ==
  /\ disk' = contents
  /\ outcome' = "none"
  /\ UNCHANGED <<tree, runs, request, phase, walk, entry, stdoutOpen, announced>>

PutInTheWay ==
  /\ phase = "idle" /\ runs < MaxRuns
  /\ \E path \in tree.inTheWay, content \in {Handwritten, Link} : User(Put(path, content))

MoveAside ==
  /\ phase = "idle" /\ runs < MaxRuns
  /\ \E path \in DOMAIN disk \ {Outside} :
       User([p \in DOMAIN disk \ {path} |-> disk[p]])

(* run_pipeline.  Flat mode has nowhere to build to without --out.         *)
Run ==
  /\ phase = "idle" /\ runs < MaxRuns
  /\ runs' = runs + 1
  /\ request' \in {r \in Requests : r.check => ~r.out /\ ~r.force}
  /\ stdoutOpen' = TRUE
  /\ announced' = <<>>
  /\ \/ /\ tree.single
        /\ phase' = "compile" /\ outcome' = "running"
        /\ walk' = <<>>
        /\ entry' = [file |-> Files(tree.root)[1], path |-> <<"out">>]
     \/ /\ ~tree.single
        /\ IF Flat /\ ~request'.check /\ ~request'.out
           THEN phase' = "idle" /\ outcome' = "failed"
           ELSE phase' = "walk" /\ outcome' = "running"
        /\ walk' = <<[dir |-> tree.root, next |-> 1]>>
        /\ entry' = NoEntry
  /\ UNCHANGED <<tree, disk>>

-------------------------------------------------------------------------------
(* The walk: over the files of the root in flat mode, over subdirectories  *)
(* otherwise.                                                              *)

Top   == Last(walk)
Items == IF Flat THEN Files(tree.root) ELSE Subdirs(Top.dir)
Item  == Items[Top.next]

Visiting == phase = "walk" /\ Top.next <= Len(Items)
Past     == phase = "walk" /\ Top.next > Len(Items)
Advanced == [walk EXCEPT ![Len(walk)].next = @ + 1]

(* The names of the directories the walk is in, without the root.          *)
Way == [i \in 1..(Len(walk) - 1) |-> walk[i + 1].dir]

Continue(next) ==
  /\ walk' = next
  /\ UNCHANGED <<tree, disk, runs, request, phase, entry, stdoutOpen, announced, outcome>>

(* Mutant: the loop does not go on to the next item.                       *)
BuildAgain(file, path) ==
  /\ phase' = "compile"
  /\ entry' = [file |-> file, path |-> path]
  /\ UNCHANGED <<tree, disk, runs, request, walk, stdoutOpen, announced, outcome>>

Build(file, path) ==
  /\ phase' = "compile"
  /\ entry' = [file |-> file, path |-> path]
  /\ walk' = Advanced
  /\ UNCHANGED <<tree, disk, runs, request, stdoutOpen, announced, outcome>>

(* build_flat_directory.                                                   *)
FileRefused ==
  \/ Item.declares = "unparsable"
  \/ Item.declares = "service" /\ request.out /\ ~Item.stemUsable

SkipLibrary ==
  /\ Visiting /\ Flat
  /\ Item.declares = "nothing"
  /\ Continue(Advanced)

BuildFile ==
  /\ Visiting /\ Flat
  /\ Item.declares = "service" /\ ~FileRefused
  /\ Build(Item, <<"out", Item.name>>)

RejectFile ==
  /\ Visiting /\ Flat
  /\ FileRefused
  /\ Exit("failed") /\ UNCHANGED disk

(* build_colocated_tree; the root's own subdirectories are at depth 0.     *)

(* Mutant: the limit off by one.                                           *)
TooDeepByOne == Len(walk) - 1 > MaxDepth

TooDeep == Len(walk) - 1 >= MaxDepth

DirectoryRefused ==
  \/ TooDeep
  \/ \E i \in DOMAIN Files(Item) : Files(Item)[i].declares = "unparsable"
  \/ Len(Services(Item)) > 1

EnterDirectory ==
  /\ Visiting /\ ~Flat
  /\ ~DirectoryRefused /\ Services(Item) = <<>>
  /\ Continue(Append(Advanced, [dir |-> Item, next |-> 1]))

BuildDirectory ==
  /\ Visiting /\ ~Flat
  /\ ~DirectoryRefused /\ Services(Item) # <<>>
  /\ Build(Head(Services(Item)), PathOf(Append(Way, Item)))

RejectDirectory ==
  /\ Visiting /\ ~Flat
  /\ DirectoryRefused
  /\ Exit("failed") /\ UNCHANGED disk

(* Mutant: a directory is left after its first service.                    *)
LeaveEarly ==
  /\ phase = "walk" /\ Top.next > 1 /\ Len(walk) > 1
  /\ Continue(Front(walk))

LeaveDirectory ==
  /\ Past /\ Len(walk) > 1
  /\ Continue(Front(walk))

FinishWalk ==
  /\ Past /\ Len(walk) = 1
  /\ Exit("success") /\ UNCHANGED disk

-------------------------------------------------------------------------------
(* build_one, and the end of run_pipeline for a single file.               *)

Goto(next) ==
  /\ phase' = next
  /\ UNCHANGED <<tree, disk, runs, request, walk, entry, stdoutOpen, announced, outcome>>

(* One entry point is done with.                                           *)
EntryDone == IF tree.single THEN Exit("success") /\ UNCHANGED disk ELSE Goto("walk")

RejectSource ==
  /\ phase = "compile"
  /\ ~entry.file.compiles
  /\ Exit("failed") /\ UNCHANGED disk

(* Mutant: `check` writes what it compiled.                                *)
DropsNothing == FALSE

Drops == request.check

(* `check` drops the document; a single file without --out prints it.      *)
Compile ==
  /\ phase = "compile"
  /\ entry.file.compiles
  /\ IF Drops THEN EntryDone
     ELSE Goto(IF tree.single /\ ~request.out THEN "announce" ELSE "inspect")

(* write_output: a link is refused always, a file without the header       *)
(* unless forced.                                                          *)

(* Mutants: --force waives the test for a link too; only a link is tested. *)
RefusedUnlessForced ==
  /\ ~request.force
  /\ entry.path \in DOMAIN disk /\ ~Holds(entry.path, "generated")
RefusedOnlyLink == Holds(entry.path, "link")

Refused ==
  \/ Holds(entry.path, "link")
  \/ ~request.force /\ entry.path \in DOMAIN disk /\ ~Holds(entry.path, "generated")

RefuseOutput ==
  /\ phase = "inspect"
  /\ Refused
  /\ Exit("refused") /\ UNCHANGED disk

(* Mutant: a document that is there already is left as it is.              *)
AcceptStale ==
  /\ phase = "inspect"
  /\ ~Refused
  /\ Goto(IF Holds(entry.path, "generated") THEN "announce" ELSE "truncate")

AcceptOutput ==
  /\ phase = "inspect"
  /\ ~Refused
  /\ Goto("truncate")

(* fs::write follows a link, and truncates before it writes.               *)
Landing == IF Holds(entry.path, "link") THEN Outside ELSE entry.path

Truncate ==
  /\ phase = "truncate"
  /\ phase' = "fill"
  /\ disk' = Put(Landing, Torn)
  /\ UNCHANGED <<tree, runs, request, walk, entry, stdoutOpen, announced, outcome>>

Fill ==
  /\ phase = "fill"
  /\ phase' = "announce"
  /\ disk' = Put(Landing, Document(entry.file.name, runs))
  /\ UNCHANGED <<tree, runs, request, walk, entry, stdoutOpen, announced, outcome>>

(* A directory that cannot be made, a file that cannot be opened, a full   *)
(* disk.                                                                   *)
FailWrite ==
  /\ phase \in {"inspect", "truncate", "fill"}
  /\ Exit("failed") /\ UNCHANGED disk

(* write_stdout: the path of the document, or the document.                *)
Announce ==
  /\ phase = "announce"
  /\ stdoutOpen
  /\ announced' = IF request.out \/ ~tree.single THEN Append(announced, entry.path) ELSE announced
  /\ phase' = IF tree.single THEN "idle" ELSE "walk"
  /\ outcome' = IF tree.single THEN "success" ELSE outcome
  /\ UNCHANGED <<tree, disk, runs, request, walk, entry, stdoutOpen>>

(* A closed pipe ends the run with exit status 0, another error with 1.    *)
LoseReader ==
  /\ phase = "announce"
  /\ ~stdoutOpen
  /\ Exit("cut short") /\ UNCHANGED disk

FailAnnounce ==
  /\ phase = "announce"
  /\ stdoutOpen
  /\ Exit("failed") /\ UNCHANGED disk

-------------------------------------------------------------------------------
(* What happens to the process.                                            *)

CloseStdout ==
  /\ phase # "idle" /\ stdoutOpen
  /\ stdoutOpen' = FALSE
  /\ UNCHANGED <<tree, disk, runs, request, phase, walk, entry, announced, outcome>>

Kill ==
  /\ phase # "idle"
  /\ Exit("killed") /\ UNCHANGED disk

Step ==
  \/ SkipLibrary
  \/ BuildFile
  \/ RejectFile
  \/ EnterDirectory
  \/ BuildDirectory
  \/ RejectDirectory
  \/ LeaveDirectory
  \/ FinishWalk
  \/ RejectSource
  \/ Compile
  \/ RefuseOutput
  \/ AcceptOutput
  \/ Truncate
  \/ Fill
  \/ FailWrite
  \/ Announce
  \/ LoseReader
  \/ FailAnnounce

Next ==
  \/ PutInTheWay
  \/ MoveAside
  \/ Run
  \/ Step
  \/ CloseStdout
  \/ Kill

Spec == Init /\ [][Next]_vars

(* The process runs until it exits; users, readers and signals owe nothing. *)
FairSpec == Spec /\ WF_vars(Step)
-------------------------------------------------------------------------------
(* Properties.                                                             *)

(* The walk stays within the limit whatever links the tree holds, no       *)
(* process is left over after an exit, and a document is of a run that     *)
(* happened.                                                               *)
TypeOK ==
  /\ runs \in 0..MaxRuns
  /\ Len(walk) <= MaxDepth + 1
  /\ (phase = "idle") = (outcome # "running")
  /\ \A p \in DOMAIN disk : disk[p].kind = "generated" => disk[p].in \in 1..runs

(* A run without --force never changes a file hllc did not write (issue    *)
(* #85: converting a repository one service at a time).                    *)
HandwrittenKept ==
  [][phase # "idle" /\ ~request.force =>
       \A p \in DOMAIN disk : disk[p] = Handwritten => p \in DOMAIN disk' /\ disk'[p] = Handwritten]_vars

(* Nothing is ever written through a link, --force or not: the file it     *)
(* leads to stays as it was (issue #64).                                   *)
LinksNotFollowed == disk[Outside] = Handwritten

(* `check` leaves the file system as it is.                                *)
CheckWritesNothing == [][phase # "idle" /\ request.check => disk' = disk]_vars

(* The entry points of the tree: in flat mode the files that declare a     *)
(* service, else the one such file of each directory a way of directories  *)
(* without services leads to.                                              *)
Ways ==
  {way \in UNION {[1..n -> DOMAIN tree.dirs] : n \in 1..MaxDepth} :
     \A i \in DOMAIN way :
       /\ Contains(Subdirs(IF i = 1 THEN tree.root ELSE way[i - 1]), way[i])
       /\ i < Len(way) => Services(way[i]) = <<>>
       /\ i = Len(way) => Len(Services(way[i])) = 1}

EntryPoints ==
  IF tree.single THEN {<<Files(tree.root)[1], <<"out">>>>}
  ELSE IF Flat THEN {<<f, <<"out", f.name>>>> : f \in {g \in ToSet(Files(tree.root)) : g.declares = "service"}}
  ELSE {<<Services(Last(way))[1], PathOf(way)>> : way \in Ways}

(* Success means all of it: every entry point has the document this run    *)
(* made of it at its own place.  A printed single file has none.           *)
SuccessMeansBuilt ==
  outcome = "success" /\ ~request.check /\ (request.out \/ ~tree.single) =>
    \A e \in EntryPoints : e[2] \in DOMAIN disk /\ disk[e[2]] = Document(e[1].name, runs)

(* What a reader of stdout may rely on while the build goes on: an output  *)
(* path is printed once its document is whole, and at most one document is *)
(* whole and not yet printed.                                              *)
AnnouncedIsWritten ==
  phase # "idle" =>
    LET fresh == {p \in DOMAIN disk : disk[p].kind = "generated" /\ disk[p].in = runs}
    IN  /\ ToSet(announced) \subseteq fresh \cup {entry.path}
        /\ fresh \subseteq ToSet(announced) \cup {entry.path}

(* Every run ends, links that go around included.                          *)
Termination == phase # "idle" ~> phase = "idle"
===============================================================================
