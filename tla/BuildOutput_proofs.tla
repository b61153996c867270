-------------------------- MODULE BuildOutput_proofs --------------------------
(***************************************************************************)
(* Proofs about what a run leaves on disk, for every set of trees, every   *)
(* depth limit and every number of runs.  The inductive invariant has      *)
(* three layers: the control state is well formed (Control); the write     *)
(* under way respects what is on disk, and what was printed is what was    *)
(* written (Output); whatever the walk has passed is built (Coverage).     *)
(***************************************************************************)
EXTENDS BuildOutput, SequenceLemmas

Phases == {"idle", "walk", "compile", "inspect", "truncate", "fill", "announce"}

Frames == [dir : DOMAIN tree.dirs, next : Nat \ {0}]

(* An entry point is being built.                                          *)
Building == phase \notin {"idle", "walk"}

Shaped ==
  /\ tree \in Trees
  /\ request \in Requests
  /\ phase \in Phases
  /\ walk \in Seq(Frames)
  /\ announced \in Seq(ToSet(announced))
  /\ phase # "idle" => runs > 0 /\ (tree.single \/ Len(walk) > 0)
  /\ phase = "walk" => ~tree.single

Control == Shaped /\ TypeOK

-------------------------------------------------------------------------------
(* The kinds of step.                                                      *)

Failures == {"failed", "refused", "cut short", "killed"}

(* The run ends and leaves the disk as it is.                              *)
Ends(result) == phase # "idle" /\ Exit(result) /\ UNCHANGED disk

(* Only the phase of the run changes.                                      *)
Turns(next) == phase # "idle" /\ Goto(next)

(* The walk goes on with its frames changed.                               *)
Moves == SkipLibrary \/ EnterDirectory \/ LeaveDirectory

(* The walk hands an entry point over.                                     *)
Starts == BuildFile \/ BuildDirectory

Between == PutInTheWay \/ MoveAside

(* Every step of the system is one of these.                               *)
LEMMA StepKinds ==
  ASSUME Next
  PROVE  \/ Between
         \/ Run
         \/ Moves
         \/ Starts
         \/ \E result \in Failures : Ends(result)
         \/ FinishWalk
         \/ Compile
         \/ AcceptOutput
         \/ Truncate
         \/ Fill
         \/ Announce
         \/ CloseStdout
<1>1. ASSUME RejectFile \/ RejectDirectory \/ RejectSource
      PROVE  Ends("failed")
  BY <1>1 DEF RejectFile, RejectDirectory, RejectSource, Visiting, Ends
<1>2. ASSUME RefuseOutput
      PROVE  Ends("refused")
  BY <1>2 DEF RefuseOutput, Ends
<1>3. ASSUME FailWrite \/ FailAnnounce
      PROVE  Ends("failed")
  BY <1>3 DEF FailWrite, FailAnnounce, Ends
<1>4. ASSUME LoseReader
      PROVE  Ends("cut short")
  BY <1>4 DEF LoseReader, Ends
<1>5. ASSUME Kill
      PROVE  Ends("killed")
  BY <1>5 DEF Kill, Ends
<1> QED
  BY <1>1, <1>2, <1>3, <1>4, <1>5 DEF Next, Step, Between, Moves, Starts, Failures

(* Compiling an entry point drops it under `check`; else it goes on to be  *)
(* written, or to be printed.                                              *)
LEMMA CompileKinds ==
  ASSUME Compile
  PROVE  /\ phase = "compile"
         /\ \/ request.check /\ tree.single /\ Ends("success")
            \/ request.check /\ ~tree.single /\ Turns("walk")
            \/ ~request.check /\ tree.single /\ ~request.out /\ Turns("announce")
            \/ ~request.check /\ Turns("inspect")
BY DEF Compile, Drops, EntryDone, Ends, Turns

-------------------------------------------------------------------------------
(* The walks the actions make.                                             *)

(* The walk with the item of its innermost directory passed.               *)
LEMMA WalkAdvanced ==
  ASSUME walk \in Seq(Frames), Len(walk) > 0
  PROVE  /\ Advanced \in Seq(Frames)
         /\ Len(Advanced) = Len(walk)
         /\ \A j \in 1..(Len(walk) - 1) : Advanced[j] = walk[j]
         /\ Advanced[Len(walk)] = [dir |-> Top.dir, next |-> Top.next + 1]
<1> DEFINE n == Len(walk)
           frame == [walk[n] EXCEPT !.next = @ + 1]
<1>1. n \in Nat /\ n \in 1..n
  BY LenProperties
<1>2. walk[n] \in Frames
  BY <1>1, ElementOfSeq
<1>3. frame \in Frames /\ frame = [dir |-> Top.dir, next |-> Top.next + 1]
  BY <1>2 DEF Frames, Top, Last
<1>4. Advanced = [walk EXCEPT ![n] = frame]
  BY <1>1, <1>2 DEF Advanced
<1>5. /\ [walk EXCEPT ![n] = frame] \in Seq(Frames)
      /\ Len([walk EXCEPT ![n] = frame]) = n
      /\ \A j \in 1..n : [walk EXCEPT ![n] = frame][j] = IF j = n THEN frame ELSE walk[j]
  <2> HIDE DEF frame
  <2> QED
    BY <1>1, <1>3, ExceptSeq
<1> QED
  BY <1>1, <1>3, <1>4, <1>5

(* The walk a directory deeper.                                            *)
LEMMA WalkEntered ==
  ASSUME walk \in Seq(Frames), Len(walk) > 0, NEW dir \in DOMAIN tree.dirs
  PROVE  LET deeper == Append(Advanced, [dir |-> dir, next |-> 1])
         IN  /\ deeper \in Seq(Frames)
             /\ Len(deeper) = Len(walk) + 1
             /\ \A j \in 1..(Len(walk) - 1) : deeper[j] = walk[j]
             /\ deeper[Len(walk)] = [dir |-> Top.dir, next |-> Top.next + 1]
             /\ deeper[Len(walk) + 1] = [dir |-> dir, next |-> 1]
<1>1. [dir |-> dir, next |-> 1] \in Frames
  BY DEF Frames
<1>2. Len(walk) \in Nat
  BY LenProperties
<1> QED
  BY <1>1, <1>2, WalkAdvanced, AppendProperties

(* The walk a directory up.                                                *)
LEMMA WalkLeft ==
  ASSUME walk \in Seq(Frames), Len(walk) > 1
  PROVE  /\ Front(walk) \in Seq(Frames)
         /\ Len(Front(walk)) = Len(walk) - 1
         /\ \A j \in 1..(Len(walk) - 1) : Front(walk)[j] = walk[j]
<1>1. Len(walk) \in Nat /\ \A i \in 1..Len(walk) : walk[i] \in Frames
  BY LenProperties, ElementOfSeq
<1> QED
  BY <1>1, SubSeqProperties DEF Front

(* The item the walk is at is a directory of the tree.                     *)
LEMMA ItemIsDirectory ==
  ASSUME Shaped, Visiting, ~Flat
  PROVE  Item \in DOMAIN tree.dirs
<1>1. tree.dirs[Top.dir].subdirs \in Seq(DOMAIN tree.dirs) /\ Top.next \in Nat \ {0}
  <2>1. Len(walk) \in 1..Len(walk)
    BY LenProperties DEF Shaped, Visiting
  <2>2. Top \in Frames
    BY <2>1, ElementOfSeq DEF Shaped, Top, Last
  <2> QED
    BY <2>2, TreesAssumption DEF Shaped, Frames
<1>2. Items = tree.dirs[Top.dir].subdirs
  BY DEF Items, Subdirs
<1>3. Len(Items) \in Nat /\ Top.next \in 1..Len(Items)
  BY <1>1, <1>2, LenProperties DEF Visiting
<1> QED
  BY <1>1, <1>2, <1>3, ElementOfSeq DEF Item

-------------------------------------------------------------------------------
(* The first layer.                                                        *)

LEMMA InitControl == Init => Control
<1> SUFFICES ASSUME Init PROVE Control
  OBVIOUS
<1>1. walk \in Seq(Frames) /\ Len(walk) = 0 /\ announced \in Seq(ToSet(announced))
  BY EmptySeq DEF Init
<1>2. \A p \in DOMAIN disk : disk[p].kind = "handwritten"
  BY DEF Init, Handwritten
<1> QED
  BY <1>1, <1>2, MaxDepthAssumption, MaxRunsAssumption
     DEF Init, Control, Shaped, TypeOK, Requests, NoRequest, Phases

LEMMA NextControl == Control /\ [Next]_vars => Control'
<1> SUFFICES ASSUME Control, [Next]_vars PROVE Control'
  OBVIOUS
<1> USE DEF Control
<1>1. CASE Between
  <2>1. /\ phase = "idle" /\ outcome' = "none"
        /\ UNCHANGED <<tree, runs, request, phase, walk, announced>>
    BY <1>1 DEF Between, PutInTheWay, MoveAside, User
  <2>2. \A p \in DOMAIN disk' : disk'[p].kind = "generated" => p \in DOMAIN disk /\ disk'[p] = disk[p]
    <3>1. CASE MoveAside
      BY <3>1 DEF MoveAside, User
    <3>2. CASE PutInTheWay
      <4>1. PICK path \in tree.inTheWay, content \in {Handwritten, Link} : disk' = Put(path, content)
        BY <3>2 DEF PutInTheWay, User
      <4>2. content.kind # "generated"
        BY DEF Handwritten, Link
      <4> QED
        BY <4>1, <4>2 DEF Put
    <3> QED
      BY <1>1, <3>1, <3>2 DEF Between
  <2> QED
    BY <2>1, <2>2 DEF Shaped, TypeOK, Frames
<1>2. CASE Run
  <2>1. /\ runs < MaxRuns /\ runs' = runs + 1 /\ request' \in Requests
        /\ announced' = <<>> /\ tree' = tree /\ disk' = disk
    BY <1>2 DEF Run
  <2>2. \/ tree.single /\ phase' = "compile" /\ outcome' = "running" /\ walk' = <<>>
        \/ /\ ~tree.single
           /\ (phase' = "idle" /\ outcome' = "failed") \/ (phase' = "walk" /\ outcome' = "running")
           /\ walk' = <<[dir |-> tree.root, next |-> 1]>>
    BY <1>2 DEF Run
  <2>3. walk' \in Seq(Frames) /\ Len(walk') \in 0..1 /\ (tree.single \/ Len(walk') = 1)
    <3> DEFINE frame == [dir |-> tree.root, next |-> 1]
    <3>1. frame \in Frames
      BY TreesAssumption DEF Shaped, Frames
    <3>2. <<frame>> \in Seq(Frames) /\ Len(<<frame>>) = 1
      <4> HIDE DEF frame
      <4> QED
        BY <3>1
    <3>3. CASE walk' = <<>>
      BY <2>2, <3>3, EmptySeq
    <3>4. CASE walk' = <<frame>>
      <4> HIDE DEF frame
      <4> QED
        BY <3>2, <3>4
    <3> QED
      BY <2>2, <3>3, <3>4
  <2>4. announced' \in Seq(ToSet(announced)')
    BY <2>1, EmptySeq
  <2>5. /\ phase' \in Phases /\ (phase' = "walk" => ~tree.single)
        /\ (phase' = "idle") = (outcome' # "running")
    BY <2>2 DEF Phases
  <2>6. runs' > 0 /\ runs' \in 0..MaxRuns
    BY <2>1, MaxRunsAssumption DEF TypeOK
  <2>7. Shaped'
    <3>1. Frames' = Frames
      BY <2>1 DEF Frames
    <3>2. tree' \in Trees /\ request' \in Requests' 
      BY <2>1 DEF Shaped, Requests
    <3>3. walk' \in Seq(Frames') 
      BY <2>3, <3>1
    <3>4. phase' # "idle" => runs' > 0 /\ (tree'.single \/ Len(walk') > 0)
      BY <2>1, <2>3, <2>6
    <3>5. phase' = "walk" => ~tree'.single
      BY <2>1, <2>5
    <3> QED
      BY <2>4, <2>5, <3>2, <3>3, <3>4, <3>5 DEF Shaped, Phases
  <2>8. TypeOK'
    <3>1. runs' \in 0..MaxRuns
     BY <2>6
    <3>2. Len(walk') <= MaxDepth + 1
     BY <2>3, MaxDepthAssumption
    <3>4. \A p \in DOMAIN disk' : disk'[p].kind = "generated" => disk'[p].in \in 1..runs'
     BY <2>1 DEF TypeOK
    <3> QED
     BY <2>5, <3>1, <3>2, <3>4 DEF TypeOK
  <2> QED
    BY <2>7, <2>8
<1>3. CASE Moves
  <2>1. /\ phase = "walk" /\ Len(walk) > 0 /\ walk \in Seq(Frames)
        /\ UNCHANGED <<tree, disk, runs, request, phase, announced, outcome>>
    BY <1>3 DEF Moves, SkipLibrary, EnterDirectory, LeaveDirectory, Continue, Visiting, Past, Shaped
  <2>2. walk' \in Seq(Frames) /\ Len(walk') \in 1..(MaxDepth + 1)
    <3>1. CASE SkipLibrary
      BY <2>1, <3>1, WalkAdvanced, LenProperties DEF SkipLibrary, Continue, TypeOK
    <3>2. CASE EnterDirectory
      <4>1. Item \in DOMAIN tree.dirs
        BY <3>2, ItemIsDirectory DEF EnterDirectory
      <4>2. ~(Len(walk) - 1 >= MaxDepth)
        BY <3>2 DEF EnterDirectory, DirectoryRefused, TooDeep
      <4>3. walk' = Append(Advanced, [dir |-> Item, next |-> 1])
        BY <3>2 DEF EnterDirectory, Continue
      <4> QED
        BY <2>1, <4>1, <4>2, <4>3, WalkEntered, LenProperties, MaxDepthAssumption
    <3>3. CASE LeaveDirectory
      BY <2>1, <3>3, WalkLeft, LenProperties, MaxDepthAssumption DEF LeaveDirectory, Continue, TypeOK
    <3> QED
      BY <1>3, <3>1, <3>2, <3>3 DEF Moves
  <2> QED
    BY <2>1, <2>2, MaxDepthAssumption DEF Shaped, TypeOK, Frames
<1>4. CASE Starts
  <2>1. /\ phase = "walk" /\ phase' = "compile" /\ walk' = Advanced
        /\ UNCHANGED <<tree, disk, runs, request, announced, outcome>>
    BY <1>4 DEF Starts, BuildFile, BuildDirectory, Build, Visiting
  <2>2. walk' \in Seq(Frames) /\ Len(walk') = Len(walk)
    BY <2>1, WalkAdvanced DEF Shaped
  <2> QED
    BY <2>1, <2>2 DEF Shaped, TypeOK, Frames, Phases
<1>5. ASSUME NEW result, result # "running", Ends(result)
      PROVE  Control'
  BY <1>5 DEF Ends, Exit, Shaped, TypeOK, Frames, Phases
<1>6. ASSUME NEW next \in Phases \ {"idle"}, Turns(next), next = "walk" => ~tree.single
      PROVE  Control'
  BY <1>6 DEF Turns, Goto, Shaped, TypeOK, Frames, Phases
<1>7. CASE \E result \in Failures : Ends(result)
  BY <1>5, <1>7 DEF Failures
<1>8. CASE FinishWalk
  BY <1>5, <1>8 DEF FinishWalk, Past, Ends
<1>9. CASE Compile
  BY <1>5, <1>6, <1>9, CompileKinds DEF Phases
<1>10. CASE AcceptOutput
  BY <1>6, <1>10 DEF AcceptOutput, Turns, Phases
<1>11. ASSUME NEW next \in {"fill", "announce"}, NEW content,
              phase \notin {"idle", "walk"}, phase' = next, disk' = Put(Landing, content),
              content.kind = "generated" => content.in = runs,
              UNCHANGED <<tree, runs, request, walk, announced, outcome>>
       PROVE  Control'
  <2>1. \A p \in DOMAIN disk' : (p \in DOMAIN disk /\ disk'[p] = disk[p]) \/ disk'[p] = content
    BY <1>11 DEF Put
  <2> QED
    BY <1>11, <2>1 DEF Shaped, TypeOK, Frames, Phases
<1>12. CASE Truncate
  BY <1>11, <1>12 DEF Truncate, Torn
<1>13. CASE Fill
  BY <1>11, <1>13 DEF Fill, Document
<1>14. CASE Announce
  <2>1. announced' \in Seq(ToSet(announced)')
    BY <1>14, OwnAppend DEF Announce, Shaped
  <2> QED
    BY <1>14, <2>1 DEF Announce, Shaped, TypeOK, Frames, Phases
<1>15. CASE CloseStdout
  BY <1>15 DEF CloseStdout, Shaped, TypeOK, Frames
<1>16. CASE UNCHANGED vars
  BY <1>16 DEF vars, Shaped, TypeOK, Frames
<1> QED
  BY <1>1, <1>2, <1>3, <1>4, <1>7, <1>8, <1>9, <1>10, <1>12, <1>13, <1>14, <1>15, <1>16, StepKinds

-------------------------------------------------------------------------------
(* TypeOK, for every tree and limit: the walk stays within the limit       *)
(* whatever links the tree holds, no process is left over after an exit,   *)
(* and a document is of a run that happened.                               *)
THEOREM TypeCorrect == Spec => []TypeOK
<1>1. Init => Control
  BY InitControl
<1>2. Control /\ [Next]_vars => Control'
  BY NextControl
<1>3. Control => TypeOK
  BY DEF Control
<1> QED
  BY <1>1, <1>2, <1>3, PTL DEF Spec

-------------------------------------------------------------------------------
(* The second layer: the write under way.  Between the inspection of a     *)
(* path and the last byte nothing else changes the disk, so the path is    *)
(* not a link; a path is never where a user's link leads.                  *)
WriteUnderWay ==
  /\ Building /\ phase # "compile" => ~request.check
  /\ Building => entry.path[1] \in DOMAIN tree.dirs \cup {"out"}
  /\ phase = "truncate" => ~Refused
  /\ phase = "fill" => entry.path \in DOMAIN disk /\ disk[entry.path] = Torn
  /\ phase = "announce" /\ (request.out \/ ~tree.single) =>
       entry.path \in DOMAIN disk /\ disk[entry.path] = Document(entry.file.name, runs)

OutsideKept == Outside \in DOMAIN disk /\ LinksNotFollowed

(* The output paths that hold a document of this run, against those        *)
(* printed: they are the same but for the entry point being written.       *)
Fresh == {p \in DOMAIN disk : disk[p].kind = "generated" /\ disk[p].in = runs}

FreshAnnounced ==
  /\ phase \in {"walk", "compile", "inspect", "truncate"} => ToSet(announced) = Fresh
  /\ phase = "fill" =>
       /\ ToSet(announced) \subseteq Fresh \cup {entry.path}
       /\ Fresh \subseteq ToSet(announced)
  /\ phase = "announce" =>
       /\ ToSet(announced) \subseteq Fresh
       /\ Fresh \subseteq ToSet(announced) \cup {entry.path}

Output == Control /\ WriteUnderWay /\ OutsideKept /\ FreshAnnounced

(* The way to the innermost directory has the names of the frames above    *)
(* the root.                                                               *)
LEMMA WayToTop ==
  ASSUME walk \in Seq(Frames), Len(walk) > 0
  PROVE  /\ Way \in Seq(DOMAIN tree.dirs)
         /\ Len(Way) = Len(walk) - 1
         /\ \A i \in 1..(Len(walk) - 1) : Way[i] = walk[i + 1].dir
<1>1. Len(walk) \in Nat /\ \A i \in 1..Len(walk) : walk[i] \in Frames
  BY LenProperties, ElementOfSeq
<1>2. \A i \in 1..(Len(walk) - 1) : walk[i + 1].dir \in DOMAIN tree.dirs
  BY <1>1 DEF Frames
<1> QED
  BY <1>1, <1>2 DEF Way

(* An output path starts with the name of a directory or with "out".       *)
LEMMA PathStart ==
  ASSUME NEW S, NEW way \in Seq(S), Len(way) > 0
  PROVE  PathOf(way)[1] \in S \cup {"out"}
<1>1. Len(way) \in Nat /\ Last(way) \in S
  BY LenProperties, ElementOfSeq DEF Last
<1>2. CASE request.out
  <2> DEFINE T == S \cup {"out"}
  <2>1. way \in Seq(T) /\ <<"out">> \in Seq(T) /\ Len(<<"out">>) = 1
    BY SeqMonotonic
  <2>2. (<<"out">> \o way)[1] = <<"out">>[1]
    BY <1>1, <2>1, ConcatProperties
  <2> QED
    BY <1>2, <2>2 DEF PathOf
<1>3. CASE ~request.out
  BY <1>1, <1>3 DEF PathOf
<1> QED
  BY <1>2, <1>3

(* No output path is where a user's link leads.                            *)
LEMMA PathIsInside ==
  ASSUME Shaped, WriteUnderWay, Building
  PROVE  entry.path # Outside
BY OutsideAssumption DEF Shaped, WriteUnderWay

(* What the two halves of a write do: neither goes through a link.         *)
LEMMA TruncateStep ==
  ASSUME Shaped, WriteUnderWay, Truncate
  PROVE  /\ disk' = Put(entry.path, Torn)
         /\ entry.path # Outside
         /\ entry.path \in DOMAIN disk => request.force \/ disk[entry.path].kind = "generated"
<1>1. phase = "truncate" /\ Building /\ ~Refused
  BY DEF Truncate, Building, WriteUnderWay
<1>2. Landing = entry.path
  BY <1>1 DEF Landing, Refused
<1>3. entry.path \in DOMAIN disk => request.force \/ disk[entry.path].kind = "generated"
  BY <1>1 DEF Refused, Holds
<1> QED
  BY <1>1, <1>2, <1>3, PathIsInside DEF Truncate

LEMMA FillStep ==
  ASSUME Shaped, WriteUnderWay, Fill
  PROVE  /\ disk' = Put(entry.path, Document(entry.file.name, runs))
         /\ entry.path # Outside
         /\ entry.path \in DOMAIN disk /\ disk[entry.path] = Torn
<1>1. phase = "fill" /\ Building /\ entry.path \in DOMAIN disk /\ disk[entry.path] = Torn
  BY DEF Fill, Building, WriteUnderWay
<1>2. ~Holds(entry.path, "link")
  BY <1>1 DEF Holds, Torn
<1> QED
  BY <1>1, <1>2, PathIsInside DEF Fill, Landing

LEMMA InitOutput == Init => Output
BY InitControl
   DEF Init, Output, WriteUnderWay, OutsideKept, LinksNotFollowed, FreshAnnounced, Building

(* An idle process has nothing under way.                                  *)
LEMMA IdleOutput ==
  ASSUME phase = "idle"
  PROVE  WriteUnderWay /\ FreshAnnounced
BY DEF WriteUnderWay, FreshAnnounced, Building

LEMMA NextWriteUnderWay ==
  ASSUME Output, [Next]_vars
  PROVE  WriteUnderWay'
<1> USE DEF Output, Control
<1>0. Control'
  BY NextControl
<1>1. CASE phase' = "idle"
  BY <1>1 DEF WriteUnderWay, Building
<1>2. CASE Run /\ phase' # "idle"
  <2>1. phase' \in {"walk", "compile"} /\ (phase' = "compile" => entry'.path = <<"out">>)
    BY <1>2 DEF Run
  <2> QED
    BY <2>1 DEF WriteUnderWay, Building
<1>3. CASE Moves
  BY <1>3 DEF Moves, SkipLibrary, EnterDirectory, LeaveDirectory, Visiting, Past, Continue, WriteUnderWay, Building
<1>4. CASE Starts
  <2>1. phase = "walk" /\ Len(walk) > 0 /\ walk \in Seq(Frames)
    BY <1>4 DEF Starts, BuildFile, BuildDirectory, Visiting, Shaped
  <2>2. CASE BuildFile
    <3>1. phase' = "compile" /\ entry'.path = <<"out", Item.name>>
      BY <2>2 DEF BuildFile, Build
    <3> QED
      BY <3>1 DEF WriteUnderWay, Building
  <2>3. CASE BuildDirectory
    <3>1. /\ phase' = "compile" /\ UNCHANGED <<tree, request>>
          /\ entry'.path = PathOf(Append(Way, Item))
      BY <2>3 DEF BuildDirectory, Build
    <3>2. Item \in DOMAIN tree.dirs
      BY <2>3, ItemIsDirectory DEF BuildDirectory
    <3>3. Append(Way, Item) \in Seq(DOMAIN tree.dirs) /\ Len(Append(Way, Item)) > 0
      BY <2>1, <3>2, WayToTop, AppendProperties, LenProperties
    <3> QED
      BY <3>1, <3>3, PathStart DEF WriteUnderWay, Building
  <2> QED
    BY <1>4, <2>2, <2>3 DEF Starts
<1>5. CASE Compile
  BY <1>5, CompileKinds DEF Turns, Goto, Ends, Exit, Shaped, Requests, WriteUnderWay, Building
<1>6. CASE AcceptOutput
  BY <1>6 DEF AcceptOutput, Goto, WriteUnderWay, Building, Refused, Holds
<1>7. CASE Truncate
  <2>1. disk' = Put(entry.path, Torn) /\ phase = "truncate" /\ phase' = "fill"
        /\ UNCHANGED <<tree, request, entry, runs>>
    BY <1>7, TruncateStep DEF Truncate
  <2>2. entry.path \in DOMAIN disk' /\ disk'[entry.path] = Torn
    BY <2>1 DEF Put
  <2> QED
    BY <2>1, <2>2 DEF WriteUnderWay, Building, Torn
<1>8. CASE Fill
  <2>1. disk' = Put(entry.path, Document(entry.file.name, runs)) /\ phase = "fill" /\ phase' = "announce"
        /\ UNCHANGED <<tree, request, entry, runs>>
    BY <1>8, FillStep DEF Fill
  <2>2. entry.path \in DOMAIN disk' /\ disk'[entry.path] = Document(entry.file.name, runs)
    BY <2>1 DEF Put
  <2> QED
    BY <2>1, <2>2 DEF WriteUnderWay, Building, Document
<1>9. CASE Announce
  BY <1>9 DEF Announce, WriteUnderWay, Building
<1>10. CASE CloseStdout \/ UNCHANGED vars
  <2>1. UNCHANGED <<tree, disk, runs, request, phase, entry>>
    BY <1>10 DEF CloseStdout, vars
  <2> QED
    BY <2>1 DEF WriteUnderWay, Building, Refused, Holds, Document, Torn
<1>11. ASSUME Between \/ FinishWalk \/ \E result \in Failures : Ends(result)
       PROVE  phase' = "idle"
  BY <1>11 DEF Between, PutInTheWay, MoveAside, User, FinishWalk, Ends, Exit
<1> QED
  BY <1>1, <1>2, <1>3, <1>4, <1>5, <1>6, <1>7, <1>8, <1>9, <1>10, <1>11, StepKinds

(* The steps that change the disk.                                         *)
LEMMA DiskSteps ==
  ASSUME Output, Next, disk' # disk
  PROVE  Between \/ Truncate \/ Fill
BY StepKinds, CompileKinds
   DEF Run, Moves, SkipLibrary, EnterDirectory, LeaveDirectory, Continue, Starts, BuildFile, BuildDirectory,
       Build, Ends, FinishWalk, Turns, Goto, AcceptOutput, Announce, CloseStdout

LEMMA NextOutside ==
  ASSUME Output, [Next]_vars
  PROVE  OutsideKept'
<1> USE DEF Output, Control, OutsideKept, LinksNotFollowed
<1>1. CASE disk' = disk
  BY <1>1
<1>2. CASE PutInTheWay
  <2>1. PICK path \in tree.inTheWay, content \in {Handwritten, Link} : disk' = Put(path, content)
    BY <1>2 DEF PutInTheWay, User
  <2>2. path # Outside
    BY <2>1, OutsideAssumption DEF Shaped
  <2> QED
    BY <2>1, <2>2 DEF Put
<1>3. CASE MoveAside
  BY <1>3 DEF MoveAside, User
<1>4. CASE Truncate
  BY <1>4, TruncateStep DEF Put
<1>5. CASE Fill
  BY <1>5, FillStep DEF Put
<1> QED
  BY <1>1, <1>2, <1>3, <1>4, <1>5, DiskSteps DEF Between, vars

LEMMA NextFresh ==
  ASSUME Output, [Next]_vars
  PROVE  FreshAnnounced'
<1> USE DEF Output, Control
<1>1. CASE phase' = "idle"
  BY <1>1 DEF FreshAnnounced
<1>2. CASE Run /\ phase' # "idle"
  <2>1. /\ phase' \in {"walk", "compile"} /\ disk' = disk
        /\ announced' = <<>> /\ runs' = runs + 1
    BY <1>2 DEF Run
  <2>2. Fresh' = {}
    BY <2>1 DEF Fresh, TypeOK
  <2>3. ToSet(announced)' = {}
    BY <2>1 DEF ToSet
  <2> QED
    BY <2>1, <2>2, <2>3 DEF FreshAnnounced
<1>3. ASSUME UNCHANGED <<disk, runs, announced>>
      PROVE  Fresh' = Fresh /\ ToSet(announced)' = ToSet(announced)
  BY <1>3 DEF Fresh, ToSet
<1>4. CASE Moves \/ Starts
  <2>1. /\ UNCHANGED <<disk, runs, announced>>
        /\ phase = "walk" /\ phase' \in {"walk", "compile"}
    BY <1>4 DEF Moves, Starts, SkipLibrary, EnterDirectory, LeaveDirectory, Continue, BuildFile, BuildDirectory,
                Build, Visiting, Past
  <2> QED
    BY <1>3, <2>1 DEF FreshAnnounced
<1>5. CASE Compile \/ AcceptOutput
  <2>1. /\ UNCHANGED <<disk, runs, announced>>
        /\ phase \in {"compile", "inspect"}
        /\ phase' \in {"idle", "walk", "inspect", "announce", "truncate"}
    BY <1>5, CompileKinds DEF Ends, Exit, Turns, Goto, AcceptOutput
  <2> QED
    BY <1>1, <1>3, <2>1 DEF FreshAnnounced
<1>6. CASE Truncate
  <2>1. /\ disk' = Put(entry.path, Torn) /\ phase = "truncate" /\ phase' = "fill"
        /\ UNCHANGED <<runs, announced, entry>>
    BY <1>6, TruncateStep DEF Truncate
  <2>2. Fresh' = Fresh \ {entry.path}
    BY <2>1 DEF Fresh, Put, Torn
  <2>3. ToSet(announced)' = ToSet(announced)
    BY <2>1 DEF ToSet
  <2> QED
    BY <2>1, <2>2, <2>3 DEF FreshAnnounced
<1>7. CASE Fill
  <2>1. /\ disk' = Put(entry.path, Document(entry.file.name, runs)) /\ phase = "fill" /\ phase' = "announce"
        /\ UNCHANGED <<runs, announced, entry>>
    BY <1>7, FillStep DEF Fill
  <2>2. Fresh' = Fresh \cup {entry.path}
    BY <2>1 DEF Fresh, Put, Document
  <2>3. ToSet(announced)' = ToSet(announced)
    BY <2>1 DEF ToSet
  <2> QED
    BY <2>1, <2>2, <2>3 DEF FreshAnnounced
<1>8. CASE Announce /\ phase' # "idle"
  <2>1. /\ ~tree.single /\ phase = "announce" /\ phase' = "walk"
        /\ announced' = Append(announced, entry.path)
        /\ UNCHANGED <<disk, runs, entry>>
    BY <1>8, TreesAssumption DEF Announce, Shaped
  <2>2. ToSet(announced)' = ToSet(announced) \cup {entry.path}
    BY <2>1, OwnAppend DEF Shaped
  <2>3. Fresh' = Fresh
    BY <2>1 DEF Fresh
  <2>4. entry.path \in Fresh
    BY <2>1 DEF WriteUnderWay, Fresh, Document
  <2> QED
    BY <2>1, <2>2, <2>3, <2>4 DEF FreshAnnounced
<1>9. CASE CloseStdout \/ UNCHANGED vars
  <2>1. UNCHANGED <<disk, runs, announced, phase, entry>>
    BY <1>9 DEF CloseStdout, vars
  <2> QED
    BY <1>3, <2>1 DEF FreshAnnounced
<1>10. ASSUME Between \/ FinishWalk \/ \E result \in Failures : Ends(result)
       PROVE  phase' = "idle"
  BY <1>10 DEF Between, PutInTheWay, MoveAside, User, FinishWalk, Ends, Exit
<1> QED
  BY <1>1, <1>2, <1>4, <1>5, <1>6, <1>7, <1>8, <1>9, <1>10, StepKinds

LEMMA NextOutput == Output /\ [Next]_vars => Output'
BY NextControl, NextWriteUnderWay, NextOutside, NextFresh DEF Output

-------------------------------------------------------------------------------
(* LinksNotFollowed, for every tree and limit: the file a user's link      *)
(* leads to stays as it was, --force or not (write_output).                *)
THEOREM NeverThroughLinks == Spec => []LinksNotFollowed
<1>1. Init => Output
  BY InitOutput
<1>2. Output /\ [Next]_vars => Output'
  BY NextOutput
<1>3. Output => LinksNotFollowed
  BY DEF Output, OutsideKept
<1> QED
  BY <1>1, <1>2, <1>3, PTL DEF Spec

(* AnnouncedIsWritten, for every tree and limit: an output path is printed *)
(* once its document is whole, and at most one whole document is not yet   *)
(* printed.                                                                *)
THEOREM PrintedOnceWhole == Spec => []AnnouncedIsWritten
<1>1. Init => Output
  BY InitOutput
<1>2. Output /\ [Next]_vars => Output'
  BY NextOutput
<1>3. Output => AnnouncedIsWritten
  BY DEF Output, Control, Shaped, Phases, FreshAnnounced, Fresh, AnnouncedIsWritten
<1> QED
  BY <1>1, <1>2, <1>3, PTL DEF Spec

(* HandwrittenKept, for every tree and limit: no step of a run without     *)
(* --force changes a file hllc did not write.                              *)
THEOREM UnforcedKeepsFiles == Spec => HandwrittenKept
<1> DEFINE Kept == phase # "idle" /\ ~request.force =>
                     \A p \in DOMAIN disk :
                       disk[p] = Handwritten => p \in DOMAIN disk' /\ disk'[p] = Handwritten
<1>1. Init => Output
  BY InitOutput
<1>2. Output /\ [Next]_vars => Output'
  BY NextOutput
<1>3. Output /\ [Next]_vars => [Kept]_vars
  <2> SUFFICES ASSUME Output, Next, phase # "idle", ~request.force,
                      NEW p \in DOMAIN disk, disk[p] = Handwritten
               PROVE  p \in DOMAIN disk' /\ disk'[p] = Handwritten
    OBVIOUS
  <2>1. disk[p].kind # "generated" /\ disk[p].kind # "torn"
    BY DEF Handwritten
  <2>2. CASE Truncate
    <3>1. p # entry.path
      BY <2>1, <2>2, TruncateStep DEF Output, Control
    <3> QED
      BY <2>2, <3>1, TruncateStep DEF Output, Control, Put
  <2>3. CASE Fill
    <3>1. p # entry.path
      BY <2>1, <2>3, FillStep DEF Output, Control, Torn
    <3> QED
      BY <2>3, <3>1, FillStep DEF Output, Control, Put
  <2>4. CASE disk' = disk
    BY <2>4
  <2>5. ~Between
    BY DEF Between, PutInTheWay, MoveAside
  <2> QED
    BY <2>2, <2>3, <2>4, <2>5, DiskSteps
<1> QED
  BY <1>1, <1>2, <1>3, PTL DEF Spec, HandwrittenKept

(* CheckWritesNothing, for every tree and limit.                           *)
THEOREM CheckLeavesDisk == Spec => CheckWritesNothing
<1> DEFINE Kept == phase # "idle" /\ request.check => disk' = disk
<1>1. Init => Output
  BY InitOutput
<1>2. Output /\ [Next]_vars => Output'
  BY NextOutput
<1>3. Output /\ [Next]_vars => [Kept]_vars
  <2> SUFFICES ASSUME Output, Next, phase # "idle", request.check
               PROVE  disk' = disk
    OBVIOUS
  <2>1. ~Between
    BY DEF Between, PutInTheWay, MoveAside
  <2>2. ~Truncate /\ ~Fill
    BY DEF Truncate, Fill, Output, WriteUnderWay, Building
  <2> QED
    BY <2>1, <2>2, DiskSteps
<1> QED
  BY <1>1, <1>2, <1>3, PTL DEF Spec, CheckWritesNothing

-------------------------------------------------------------------------------
(* The third layer: what the walk has passed is built.                     *)

(* The document this run made of a file is at its place, or is about to be *)
(* again: without --out, two ways to a directory share its document.       *)
Written(file, path) == path \in DOMAIN disk /\ disk[path] = Document(file.name, runs)
Built(file, path)   == Written(file, path) \/ (phase = "fill" /\ path = entry.path)

(* How many items of a frame are behind the walk: the last one of a frame  *)
(* is not while the walk is inside it or builds it.                        *)
Passed(j) == IF j # Len(walk) \/ Building THEN walk[j].next - 2 ELSE walk[j].next - 1

Pending == Items[Top.next - 1]

Tracks == ~tree.single /\ phase # "idle" /\ ~request.check

FlatLinked ==
  Tracks /\ Flat =>
    /\ request.out
    /\ Len(walk) = 1
    /\ Building => entry.file = Pending /\ entry.path = <<"out", Pending.name>>

FlatCovered ==
  Tracks /\ Flat =>
    \A k \in 1..Passed(1) :
      Files(tree.root)[k].declares = "service" =>
        Built(Files(tree.root)[k], <<"out", Files(tree.root)[k].name>>)

(* A frame is there because the frame above is at its directory, which has *)
(* no service of its own.                                                  *)
WalkLinked ==
  Tracks /\ ~Flat =>
    /\ walk[1].dir = tree.root
    /\ \A j \in 1..(Len(walk) - 1) :
         /\ Subdirs(walk[j].dir)[walk[j].next - 1] = walk[j + 1].dir
         /\ Services(walk[j + 1].dir) = <<>>
    /\ Building =>
         /\ Services(Pending) # <<>>
         /\ Pending \in DOMAIN tree.dirs
         /\ entry.file = Services(Pending)[1]
         /\ entry.path = PathOf(Append(Way, Pending))

(* A way of the tree that shares the walk's first frames, and turns off to *)
(* one of the first n items of frame j.                                    *)
Behind(way, j, n) ==
  /\ Len(way) >= j
  /\ \A i \in 1..(j - 1) : way[i] = walk[i + 1].dir
  /\ \E k \in 1..n : Subdirs(walk[j].dir)[k] = way[j]

WaysCovered ==
  Tracks /\ ~Flat =>
    \A way \in Ways : \A j \in 1..Len(walk) :
      Behind(way, j, Passed(j)) => Built(Services(Last(way))[1], PathOf(way))

SingleLinked ==
  tree.single /\ Building => entry.file = Files(tree.root)[1] /\ entry.path = <<"out">>

Linked   == FlatLinked /\ WalkLinked /\ SingleLinked
Covered  == FlatCovered /\ WaysCovered
Coverage == Output /\ Linked /\ Covered /\ SuccessMeansBuilt

(* Within a run the tree and the request stay, and all that is read off    *)
(* them.                                                                   *)
LEMMA TreeKept ==
  ASSUME UNCHANGED <<tree, request>>
  PROVE  /\ Flat' = Flat
         /\ \A way : way \in Ways' <=> way \in Ways
         /\ \A d : Files(d)' = Files(d) /\ Subdirs(d)' = Subdirs(d) /\ Services(d)' = Services(d)
         /\ \A way : PathOf(way)' = PathOf(way)
<1>1. \A d : Files(d)' = Files(d) /\ Subdirs(d)' = Subdirs(d) /\ Services(d)' = Services(d)
  BY DEF Files, Subdirs, Services
<1>2. \A way : PathOf(way)' = PathOf(way)
  BY DEF PathOf
<1>3. Flat' = Flat
  BY DEF Flat, Files
<1>4. \A way : way \in Ways' <=> way \in Ways
  BY <1>1 DEF Ways
<1> QED
  BY <1>1, <1>2, <1>3, <1>4

(* A way is a sequence of directories, each below the one before; only the *)
(* last has a service.                                                     *)
LEMMA WayShape ==
  ASSUME NEW way \in Ways
  PROVE  /\ way \in Seq(DOMAIN tree.dirs) /\ Len(way) \in Nat \ {0}
         /\ \A i \in 1..Len(way) :
              /\ Contains(Subdirs(IF i = 1 THEN tree.root ELSE way[i - 1]), way[i])
              /\ i < Len(way) => Services(way[i]) = <<>>
              /\ i = Len(way) => Len(Services(way[i])) = 1
<1>1. PICK n \in 1..MaxDepth : way \in [1..n -> DOMAIN tree.dirs]
  BY DEF Ways
<1>2. n \in Nat \ {0}
  BY <1>1, MaxDepthAssumption
<1>3. way \in Seq(DOMAIN tree.dirs) /\ Len(way) = n /\ DOMAIN way = 1..n
  BY <1>1, <1>2
<1> QED
  BY <1>2, <1>3 DEF Ways

(* Ways with one output path end in one directory.                         *)
LEMMA PathDeterminesLast ==
  ASSUME NEW S, NEW v \in Seq(S), NEW w \in Seq(S), Len(v) > 0, Len(w) > 0, PathOf(v) = PathOf(w)
  PROVE  Last(v) = Last(w)
<1>1. CASE request.out
  <2> DEFINE T == S \cup {"out"}
  <2>1. v \in Seq(T) /\ w \in Seq(T) /\ <<"out">> \in Seq(T)
    BY SeqMonotonic
  <2>2. <<"out">> \o v = <<"out">> \o w
    BY <1>1 DEF PathOf
  <2>3. v = w
    BY <2>1, <2>2, ConcatSimplifications
  <2> QED
    BY <2>3
<1>2. CASE ~request.out
  BY <1>2 DEF PathOf
<1> QED
  BY <1>1, <1>2

(* The walk's position is read off the tree and its frames.                *)
LEMMA PositionKept ==
  ASSUME UNCHANGED <<tree, walk>>
  PROVE  Top' = Top /\ Items' = Items /\ Pending' = Pending /\ Way' = Way
<1>1. Top' = Top
  BY DEF Top
<1>2. Items' = Items
  BY <1>1 DEF Items, Flat, Files, Subdirs
<1>3. Pending' = Pending
  BY <1>1, <1>2 DEF Pending
<1>4. Way' = Way
  BY DEF Way
<1> QED
  BY <1>1, <1>2, <1>3, <1>4

(* The steps of a run in which the walk stays where it is.                 *)
Stays ==
  /\ phase # "idle"
  /\ UNCHANGED <<tree, runs, request, walk, entry>>
  /\ Building' => Building

LEMMA StepsOfRun ==
  ASSUME Next, ~Between, ~Run
  PROVE  \/ Stays
         \/ Moves
         \/ Starts
<1>1. ASSUME NEW result, Ends(result)
      PROVE  Stays
  BY <1>1 DEF Ends, Exit, Stays, Building
<1>2. ASSUME Compile
      PROVE  Stays
  BY <1>1, <1>2, CompileKinds DEF Turns, Goto, Stays, Building
<1>3. ASSUME FinishWalk
      PROVE  Stays
  BY <1>1, <1>3 DEF FinishWalk, Past, Ends
<1>4. ASSUME AcceptOutput \/ Truncate \/ Fill \/ Announce \/ CloseStdout
      PROVE  Stays
  BY <1>4 DEF AcceptOutput, Goto, Truncate, Fill, Announce, CloseStdout, Stays, Building
<1> QED
  BY <1>1, <1>2, <1>3, <1>4, StepKinds

(* In a directory of files the walk has one frame, at the root.            *)
LEMMA NextFlatLinked ==
  ASSUME Control, FlatLinked, [Next]_vars
  PROVE  FlatLinked'
<1> SUFFICES ASSUME Tracks', Flat'
             PROVE  /\ request'.out
                    /\ Len(walk') = 1
                    /\ Building' => entry'.file = Pending' /\ entry'.path = <<"out", Pending'.name>>
  BY DEF FlatLinked
<1>1. ASSUME UNCHANGED <<tree, request>>, phase # "idle"
      PROVE  Tracks /\ Flat /\ request.out /\ Len(walk) = 1
  BY <1>1, TreeKept DEF FlatLinked, Tracks
<1>2. CASE Run
  BY <1>2, TreesAssumption DEF Run, Tracks, Building, Control, Shaped, Requests, Flat, Files
<1>3. CASE Stays
  BY <1>1, <1>3, PositionKept DEF Stays, FlatLinked
<1>4. CASE Moves
  <2>1. /\ phase = "walk" /\ phase' = "walk" /\ UNCHANGED <<tree, request>>
    BY <1>4 DEF Moves, SkipLibrary, EnterDirectory, LeaveDirectory, Visiting, Past, Continue
  <2>2. walk' = Advanced
    <3>1. Flat /\ Len(walk) = 1
      BY <1>1, <2>1
    <3>2. SkipLibrary
      BY <1>4, <3>1 DEF Moves, EnterDirectory, LeaveDirectory
    <3> QED
      BY <3>2 DEF SkipLibrary, Continue
  <2> QED
    BY <1>1, <2>1, <2>2, WalkAdvanced DEF Building, Control, Shaped
<1>5. CASE Starts
  <2>1. /\ phase = "walk" /\ UNCHANGED <<tree, request>> /\ walk' = Advanced
        /\ entry' = [file |-> Item, path |-> <<"out", Item.name>>]
    <3>1. phase = "walk" /\ UNCHANGED <<tree, request>>
      BY <1>5 DEF Starts, BuildFile, BuildDirectory, Build, Visiting
    <3> QED
      BY <1>1, <1>5, <3>1 DEF Starts, BuildFile, BuildDirectory, Build
  <2>2. Len(walk') = 1 /\ walk'[1] = [dir |-> Top.dir, next |-> Top.next + 1] /\ Top.next \in Nat
    <3>1. Top \in Frames
      BY <1>1, <2>1, ElementOfSeq DEF Control, Shaped, Top, Last
    <3> QED
      BY <1>1, <2>1, <3>1, WalkAdvanced DEF Control, Shaped, Frames
  <2>3. Top'.next - 1 = Top.next
    BY <2>2 DEF Top, Last
  <2>4. Pending' = Item
    BY <1>1, <2>1, <2>3, TreeKept DEF Pending, Item, Items
  <2> QED
    BY <1>1, <2>1, <2>2, <2>4
<1>6. CASE Between \/ UNCHANGED vars
  <2>1. UNCHANGED <<tree, request, walk, phase, entry>>
    BY <1>6 DEF Between, PutInTheWay, MoveAside, User, vars
  <2> QED
    BY <1>1, <2>1, PositionKept DEF FlatLinked, Tracks, Building
<1> QED
  BY <1>2, <1>3, <1>4, <1>5, <1>6, StepsOfRun

LEMMA NextSingleLinked ==
  ASSUME Control, SingleLinked, [Next]_vars
  PROVE  SingleLinked'
<1> SUFFICES ASSUME tree'.single, Building'
             PROVE  entry'.file = (Files(tree.root)[1])' /\ entry'.path = <<"out">>
  BY DEF SingleLinked
<1>1. CASE Run
  BY <1>1 DEF Run, Building, Files
<1>2. CASE Stays
  BY <1>2 DEF Stays, SingleLinked, Files
<1>3. ~Moves /\ ~Starts
  BY DEF Moves, SkipLibrary, EnterDirectory, LeaveDirectory, Starts, BuildFile, BuildDirectory,
         Visiting, Past, Continue, Build, Control, Shaped
<1>4. CASE Between \/ UNCHANGED vars
  BY <1>4 DEF Between, PutInTheWay, MoveAside, User, vars, SingleLinked, Building, Files
<1> QED
  BY <1>1, <1>2, <1>3, <1>4, StepsOfRun

(* The frames of a walk are directories and positions in them; the         *)
(* innermost is one of them.                                               *)
LEMMA FrameShape ==
  ASSUME Control, Len(walk) > 0
  PROVE  /\ Len(walk) \in Nat \ {0}
         /\ Top = walk[Len(walk)]
         /\ \A j \in 1..Len(walk) : walk[j].dir \in DOMAIN tree.dirs /\ walk[j].next \in Nat \ {0}
<1>1. Len(walk) \in Nat \ {0} /\ \A j \in 1..Len(walk) : walk[j] \in Frames
  BY LenProperties, ElementOfSeq DEF Control, Shaped
<1>2. \A j \in 1..Len(walk) : walk[j].dir \in DOMAIN tree.dirs /\ walk[j].next \in Nat \ {0}
  BY <1>1 DEF Frames
<1> QED
  BY <1>1, <1>2 DEF Top, Last

LEMMA TopFrame ==
  ASSUME Control, phase = "walk"
  PROVE  /\ Len(walk) \in Nat \ {0}
         /\ Top = walk[Len(walk)]
         /\ \A j \in 1..Len(walk) : walk[j].dir \in DOMAIN tree.dirs /\ walk[j].next \in Nat \ {0}
         /\ Top.dir \in DOMAIN tree.dirs /\ Top.next \in Nat \ {0}
<1>1. Len(walk) > 0
  BY DEF Control, Shaped
<1> QED
  BY <1>1, FrameShape

(* What the three moves between directories do to the frames.              *)
LEMMA BuildDirectoryStep ==
  ASSUME Control, BuildDirectory
  PROVE  /\ phase = "walk" /\ phase' = "compile" /\ UNCHANGED <<tree, request, runs, disk>> /\ ~Flat
         /\ Len(walk') = Len(walk)
         /\ \A j \in 1..(Len(walk) - 1) : walk'[j] = walk[j]
         /\ walk'[Len(walk)] = [dir |-> Top.dir, next |-> Top.next + 1]
         /\ Item \in DOMAIN tree.dirs /\ Services(Item) # <<>>
         /\ Pending' = Item /\ Way' = Way
         /\ entry'.file = Services(Item)[1] /\ entry'.path = PathOf(Append(Way, Item))
<1>1. /\ phase = "walk" /\ phase' = "compile" /\ UNCHANGED <<tree, request, runs, disk>> /\ ~Flat
      /\ walk' = Advanced /\ Services(Item) # <<>>
      /\ entry' = [file |-> Head(Services(Item)), path |-> PathOf(Append(Way, Item))]
  BY DEF BuildDirectory, Build, Visiting
<1>2. Item \in DOMAIN tree.dirs
  BY ItemIsDirectory DEF BuildDirectory, Control
<1>3. /\ Len(walk') = Len(walk)
      /\ \A j \in 1..(Len(walk) - 1) : walk'[j] = walk[j]
      /\ walk'[Len(walk)] = [dir |-> Top.dir, next |-> Top.next + 1]
  BY <1>1, TopFrame, WalkAdvanced DEF Control, Shaped
<1>4. Top' = [dir |-> Top.dir, next |-> Top.next + 1]
  BY <1>3 DEF Top, Last
<1>5. Pending' = Item
  BY <1>1, <1>4, TopFrame, TreeKept DEF Pending, Item, Items
<1>6. \A j \in 1..Len(walk) : walk'[j].dir = walk[j].dir
  BY <1>1, <1>3, TopFrame
<1>7. Way' = Way
  <2>1. \A i \in 1..(Len(walk) - 1) : walk'[i + 1].dir = walk[i + 1].dir
    BY <1>1, <1>6, TopFrame
  <2> QED
    BY <1>3, <2>1 DEF Way
<1> QED
  BY <1>1, <1>2, <1>3, <1>5, <1>7 DEF Head

LEMMA EnterDirectoryStep ==
  ASSUME Control, EnterDirectory
  PROVE  /\ phase = "walk" /\ UNCHANGED <<tree, request, runs, disk, phase, entry>> /\ ~Flat
         /\ Len(walk') = Len(walk) + 1
         /\ \A j \in 1..(Len(walk) - 1) : walk'[j] = walk[j]
         /\ walk'[Len(walk)] = [dir |-> Top.dir, next |-> Top.next + 1]
         /\ walk'[Len(walk) + 1] = [dir |-> Item, next |-> 1]
         /\ Item = Subdirs(Top.dir)[Top.next] /\ Services(Item) = <<>>
<1>1. /\ phase = "walk" /\ UNCHANGED <<tree, request, runs, disk, phase, entry>> /\ ~Flat
      /\ walk' = Append(Advanced, [dir |-> Item, next |-> 1]) /\ Services(Item) = <<>>
  BY DEF EnterDirectory, Continue, Visiting
<1>2. Item \in DOMAIN tree.dirs
  BY ItemIsDirectory DEF EnterDirectory, Control
<1>3. Item = Subdirs(Top.dir)[Top.next]
  BY <1>1 DEF Item, Items
<1> QED
  BY <1>1, <1>2, <1>3, TopFrame, WalkEntered DEF Control, Shaped

LEMMA LeaveDirectoryStep ==
  ASSUME Control, LeaveDirectory
  PROVE  /\ phase = "walk" /\ UNCHANGED <<tree, request, runs, disk, phase, entry>>
         /\ Len(walk) > 1 /\ Len(walk') = Len(walk) - 1
         /\ \A j \in 1..(Len(walk) - 1) : walk'[j] = walk[j]
         /\ Top.next > Len(Items)
<1>1. /\ phase = "walk" /\ UNCHANGED <<tree, request, runs, disk, phase, entry>>
      /\ Len(walk) > 1 /\ walk' = Front(walk) /\ Top.next > Len(Items)
  BY DEF LeaveDirectory, Past, Continue
<1> QED
  BY <1>1, WalkLeft DEF Control, Shaped

LEMMA NextWalkLinked ==
  ASSUME Control, WalkLinked, [Next]_vars
  PROVE  WalkLinked'
<1> DEFINE RootFirst == walk[1].dir = tree.root
           Link1(j) == /\ Subdirs(walk[j].dir)[walk[j].next - 1] = walk[j + 1].dir
                      /\ Services(walk[j + 1].dir) = <<>>
           Links == \A j \in 1..(Len(walk) - 1) : Link1(j)
           Handed == Building =>
                       /\ Services(Pending) # <<>>
                       /\ Pending \in DOMAIN tree.dirs
                       /\ entry.file = Services(Pending)[1]
                       /\ entry.path = PathOf(Append(Way, Pending))
<1> SUFFICES ASSUME Tracks', ~Flat'
             PROVE  RootFirst' /\ Links' /\ Handed'
  BY DEF WalkLinked
<1>1. ASSUME UNCHANGED <<tree, request>>, phase # "idle"
      PROVE  Tracks /\ ~Flat /\ RootFirst /\ Links /\ Handed
  BY <1>1, TreeKept DEF WalkLinked, Tracks
<1>2. CASE Run
  <2>1. walk' = <<[dir |-> tree.root, next |-> 1]>> /\ tree' = tree /\ phase' = "walk"
    BY <1>2, TreesAssumption DEF Run, Tracks, Control, Shaped
  <2> QED
    BY <2>1 DEF Building
<1>3. CASE Stays
  <2>1. RootFirst' /\ Links'
    BY <1>1, <1>3, TreeKept DEF Stays
  <2>2. Handed'
    BY <1>1, <1>3, TreeKept, PositionKept DEF Stays
  <2> QED
    BY <2>1, <2>2
<1>4. CASE EnterDirectory
  <2>1. RootFirst /\ Links
    BY <1>1, <1>4, EnterDirectoryStep
  <2>2. \A j \in 1..Len(walk) : walk'[j].dir = walk[j].dir
    BY <1>4, EnterDirectoryStep, TopFrame
  <2>3. ASSUME NEW j \in 1..(Len(walk') - 1)
        PROVE  Link1(j)'
    <3>1. CASE j = Len(walk)
      BY <1>4, <3>1, EnterDirectoryStep, TopFrame, TreeKept
    <3>2. CASE j # Len(walk)
      BY <1>4, <2>1, <2>2, <2>3, <3>2, EnterDirectoryStep, TopFrame, TreeKept
    <3> QED
      BY <3>1, <3>2
  <2> QED
    BY <1>4, <2>1, <2>2, <2>3, EnterDirectoryStep, TopFrame DEF Building
<1>5. CASE LeaveDirectory
  <2>1. RootFirst /\ Links
    BY <1>1, <1>5, LeaveDirectoryStep
  <2>2. RootFirst'
    BY <1>5, <2>1, LeaveDirectoryStep, TopFrame
  <2>3. Links'
    BY <1>5, <2>1, LeaveDirectoryStep, TopFrame, TreeKept
  <2>4. Handed'
    BY <1>5, LeaveDirectoryStep DEF Building
  <2> QED
    BY <2>2, <2>3, <2>4
<1>6. CASE BuildDirectory
  <2>1. RootFirst /\ Links
    BY <1>1, <1>6, BuildDirectoryStep
  <2>2. \A j \in 1..Len(walk) : walk'[j].dir = walk[j].dir
    BY <1>6, BuildDirectoryStep, TopFrame
  <2>3. Links'
    BY <1>6, <2>1, <2>2, BuildDirectoryStep, TopFrame, TreeKept
  <2>4. Handed'
    BY <1>6, BuildDirectoryStep, TreeKept
  <2>5. RootFirst'
    BY <1>6, <2>1, <2>2, BuildDirectoryStep, TopFrame
  <2> QED
    BY <2>3, <2>4, <2>5
<1>7. ~SkipLibrary /\ ~BuildFile
  BY <1>1 DEF SkipLibrary, BuildFile, Build, Continue, Visiting
<1>8. CASE Between \/ UNCHANGED vars
  <2>1. UNCHANGED <<tree, request, walk, phase, entry>>
    BY <1>8 DEF Between, PutInTheWay, MoveAside, User, vars
  <2>2. RootFirst' /\ Links' /\ Handed'
    BY <1>1, <2>1, TreeKept, PositionKept DEF Tracks, Building
  <2> QED
    BY <2>2
<1> QED
  BY <1>2, <1>3, <1>4, <1>5, <1>6, <1>7, <1>8, StepsOfRun DEF Moves, Starts

(* A document that is built stays built while the walk stays, if a second  *)
(* write to its path is of the same file.                                  *)
LEMMA BuiltKept ==
  ASSUME Output, Next, Stays, phase' # "idle",
         NEW file, NEW path, Built(file, path),
         Building /\ path = entry.path => file.name = entry.file.name
  PROVE  Built(file, path)'
<1> USE DEF Output, Control
<1>1. CASE Truncate
  <2>1. disk' = Put(entry.path, Torn) /\ phase' = "fill" /\ phase = "truncate" /\ UNCHANGED <<runs, entry>>
    BY <1>1, TruncateStep DEF Truncate
  <2> QED
    BY <2>1 DEF Built, Written, Put, Document
<1>2. CASE Fill
  <2>1. disk' = Put(entry.path, Document(entry.file.name, runs)) /\ phase = "fill" /\ UNCHANGED <<runs, entry>>
    BY <1>2, FillStep DEF Fill
  <2> QED
    BY <2>1 DEF Built, Written, Put, Document, Building
<1>3. CASE ~Truncate /\ ~Fill
  <2>1. ~Between
    BY DEF Between, PutInTheWay, MoveAside, Stays
  <2>2. disk' = disk
    BY <1>3, <2>1, DiskSteps
  <2>3. phase = "fill" => phase' = "fill"
    BY <1>3, <2>1, StepKinds, CompileKinds
       DEF Run, Moves, SkipLibrary, EnterDirectory, LeaveDirectory, Visiting, Past, Starts, BuildFile, BuildDirectory,
           Ends, Exit, FinishWalk, AcceptOutput, Announce, CloseStdout
  <2> QED
    BY <2>2, <2>3 DEF Built, Written, Document, Stays
<1> QED
  BY <1>1, <1>2, <1>3

(* A walk that goes on from an entry point has printed it.                 *)
LEMMA EntryPointDone ==
  ASSUME Output, Next, Stays, Tracks, Building, phase' = "walk"
  PROVE  Written(entry.file, entry.path)' /\ UNCHANGED entry
<1>1. Announce
  <2>1. ~Compile
    BY CompileKinds DEF Tracks, Ends, Exit, Turns, Goto
  <2> QED
    BY <2>1, StepKinds
       DEF Between, PutInTheWay, MoveAside, Run, Moves, SkipLibrary, EnterDirectory, LeaveDirectory, Visiting, Past,
           Starts, BuildFile, BuildDirectory, Ends, Exit, FinishWalk, AcceptOutput, Goto, Truncate, Fill,
           CloseStdout, Building
<1> QED
  BY <1>1 DEF Announce, Output, WriteUnderWay, Tracks, Written, Document

(* The files behind the walk of a directory of files.                      *)
LEMMA NextFlatCovered ==
  ASSUME Output, FlatLinked, FlatCovered, [Next]_vars
  PROVE  FlatCovered'
<1> USE DEF Output
<1> DEFINE F(k) == Files(tree.root)[k]
           Done(k) == Built(F(k), <<"out", F(k).name>>)
<1> SUFFICES ASSUME Tracks', Flat', NEW k \in 1..Passed(1)', F(k)'.declares = "service"
             PROVE  Done(k)'
  BY DEF FlatCovered
<1>1. ASSUME UNCHANGED <<tree, request>>, phase # "idle"
      PROVE  /\ Tracks /\ Flat /\ Len(walk) = 1 /\ F(k)' = F(k)
             /\ k \in 1..Passed(1) => Done(k)
  BY <1>1, TreeKept DEF FlatLinked, FlatCovered, Tracks
<1>2. CASE Run
  <2>1. walk' = <<[dir |-> tree.root, next |-> 1]>> /\ phase' = "walk"
    BY <1>2, TreesAssumption DEF Run, Tracks, Control, Shaped
  <2> QED
    BY <2>1 DEF Passed, Building
<1>3. CASE Stays /\ Next
  <2>1. ASSUME k \in 1..Passed(1)
        PROVE  Done(k)'
    <3>1. Building /\ <<"out", F(k).name>> = entry.path => F(k).name = entry.file.name
      BY <1>1, <1>3 DEF Stays, FlatLinked
    <3>2. Built(F(k), <<"out", F(k).name>>)'
      BY <1>1, <1>3, <2>1, <3>1, BuiltKept DEF Stays, Tracks, Built, Written
    <3> QED
      BY <3>2
  <2>2. ASSUME k \notin 1..Passed(1)
        PROVE  Building /\ phase' = "walk" /\ k = walk[1].next - 1
    <3>1. walk[1].next \in Nat /\ Len(walk) = 1 /\ walk' = walk
      <4>1. Len(walk) = 1 /\ walk' = walk
        BY <1>1, <1>3 DEF Stays
      <4>2. 1 \in 1..Len(walk)
        BY <4>1
      <4> QED
        BY <4>1, <4>2, FrameShape
    <3>2. Building /\ phase' = "walk"
      <4>1. Building' <=> Building => Passed(1)' = Passed(1)
        BY <3>1 DEF Passed
      <4> QED
        BY <1>3, <2>2, <4>1 DEF Stays, Tracks, Building
    <3>3. Passed(1) = walk[1].next - 2
      BY <3>1, <3>2 DEF Passed, Building
    <3>4. Passed(1)' = walk[1].next - 1
      BY <3>1, <3>2 DEF Passed, Building
    <3> QED
      BY <2>2, <3>1, <3>2, <3>3, <3>4
  <2>3. ASSUME k \notin 1..Passed(1)
        PROVE  Done(k)'
    <3>1. F(k) = entry.file /\ <<"out", F(k).name>> = entry.path
      BY <1>1, <1>3, <2>2, <2>3 DEF Stays, FlatLinked, Pending, Items, Top, Last
    <3> QED
      BY <1>1, <1>3, <2>2, <2>3, <3>1, EntryPointDone DEF Stays, Built, Written
  <2> QED
    BY <2>1, <2>3
<1>4. CASE Moves \/ Starts
  <2>1. phase = "walk" /\ UNCHANGED <<tree, request, runs, disk>> /\ phase' \in {"walk", "compile"}
    BY <1>4 DEF Moves, SkipLibrary, EnterDirectory, LeaveDirectory, Starts, BuildFile, BuildDirectory,
                Visiting, Past, Continue, Build
  <2>2. SkipLibrary \/ BuildFile
    <3>1. Flat /\ Len(walk) = 1
      BY <1>1, <2>1
    <3> QED
      BY <1>4, <3>1 DEF Moves, Starts, EnterDirectory, LeaveDirectory, BuildDirectory
  <2>3. walk' = Advanced
    BY <2>2 DEF SkipLibrary, BuildFile, Continue, Build
  <2>4. Len(walk') = 1 /\ walk'[1] = [dir |-> Top.dir, next |-> Top.next + 1] /\ Top = walk[1] /\ Top.next \in Nat \ {0}
    BY <1>1, <2>1, <2>3, TopFrame, WalkAdvanced DEF Control, Shaped
  <2>5. k \in 1..Passed(1)
    <3>1. CASE BuildFile
      <4>1. phase' = "compile"
        BY <3>1 DEF BuildFile, Build
      <4>2. Passed(1)' = Passed(1)
        BY <1>1, <2>1, <2>4, <4>1 DEF Passed, Building
      <4> QED
        BY <4>2
    <3>2. CASE SkipLibrary
      <4>1. phase' = "walk" /\ Item.declares = "nothing" /\ Item = F(Top.next)
        BY <1>1, <2>1, <3>2 DEF SkipLibrary, Continue, Item, Items
      <4>2. k # Top.next
        BY <1>1, <2>1, <4>1
      <4>3. Passed(1)' = Passed(1) + 1 /\ Passed(1) = Top.next - 1
        BY <1>1, <2>1, <2>4, <4>1 DEF Passed, Building
      <4> QED
        BY <2>4, <4>2, <4>3
    <3> QED
      BY <2>2, <3>1, <3>2
  <2> QED
    BY <1>1, <2>1, <2>5 DEF Built, Written, Document
<1>5. CASE Between \/ UNCHANGED vars
  <2>1. UNCHANGED <<tree, request, runs, walk, phase>> /\ phase # "idle"
    BY <1>5 DEF Between, PutInTheWay, MoveAside, User, vars, Tracks
  <2>2. UNCHANGED <<disk, entry>>
    BY <1>5, <2>1 DEF Between, PutInTheWay, MoveAside, vars
  <2> QED
    BY <1>1, <2>1, <2>2 DEF Passed, Building, Built, Written, Document
<1> QED
  BY <1>2, <1>3, <1>4, <1>5, StepsOfRun

(* The ways of the tree behind the walk of directories of directories.     *)
LEMMA NextWaysCovered ==
  ASSUME Output, WalkLinked, WaysCovered, [Next]_vars
  PROVE  WaysCovered'
<1> USE DEF Output
<1> DEFINE Done(way) == Built(Services(Last(way))[1], PathOf(way))
<1> SUFFICES ASSUME Tracks', ~Flat', NEW way \in Ways', NEW j \in 1..Len(walk'),
                    Behind(way, j, Passed(j))'
             PROVE  Done(way)'
  BY DEF WaysCovered
<1>1. PICK k \in 1..Passed(j)' : Subdirs(walk[j].dir)'[k] = way[j]
  BY DEF Behind
<1>2. Len(way) >= j /\ \A i \in 1..(j - 1) : way[i] = walk'[i + 1].dir
  BY DEF Behind
<1>3. ASSUME UNCHANGED <<tree, request>>, phase # "idle"
      PROVE  /\ Tracks /\ ~Flat /\ way \in Ways
             /\ \A i \in 1..Len(walk) : Behind(way, i, Passed(i)) => Done(way)
             /\ Services(Last(way))' = Services(Last(way)) /\ PathOf(way)' = PathOf(way)
             /\ Subdirs(walk'[j].dir)[k] = way[j]
             /\ way \in Seq(DOMAIN tree.dirs) /\ Len(way) \in Nat \ {0}
  BY <1>1, <1>3, TreeKept, WayShape DEF WaysCovered, Tracks
<1>4. ASSUME UNCHANGED <<tree, request, runs, disk>>, phase = "walk", Done(way)
      PROVE  Done(way)'
  BY <1>3, <1>4 DEF Built, Written, Document
<1>5. CASE Run
  <2>1. walk' = <<[dir |-> tree.root, next |-> 1]>> /\ phase' = "walk"
    BY <1>5, TreesAssumption DEF Run, Tracks, Control, Shaped
  <2>2. Passed(j)' = 0
    BY <2>1 DEF Passed, Building
  <2> QED
    BY <1>1, <2>2
<1>6. CASE Stays /\ Next
  <2>1. /\ Tracks /\ ~Flat /\ way \in Ways /\ walk' = walk /\ j \in 1..Len(walk)
        /\ phase # "idle" /\ phase' # "idle"
    BY <1>3, <1>6 DEF Stays, Tracks
  <2>2. walk[j].next \in Nat /\ Len(walk) \in Nat /\ Top = walk[Len(walk)] /\ walk \in Seq(Frames) /\ Len(walk) > 0
    BY <2>1, FrameShape, LenProperties DEF Control, Shaped
  <2>3. way \in Seq(DOMAIN tree.dirs) /\ Len(way) \in Nat \ {0} /\ Subdirs(walk[j].dir)[k] = way[j]
    BY <1>3, <1>6, <2>1 DEF Stays
  <2>4. ASSUME Building
        PROVE  /\ Pending \in DOMAIN tree.dirs /\ Services(Pending) # <<>>
               /\ entry.file = Services(Pending)[1] /\ entry.path = PathOf(Append(Way, Pending))
               /\ Append(Way, Pending) \in Seq(DOMAIN tree.dirs)
               /\ Len(Append(Way, Pending)) = Len(walk)
               /\ \A i \in 1..(Len(walk) - 1) : Append(Way, Pending)[i] = walk[i + 1].dir
               /\ Append(Way, Pending)[Len(walk)] = Pending
    <3>1. /\ Pending \in DOMAIN tree.dirs /\ Services(Pending) # <<>>
          /\ entry.file = Services(Pending)[1] /\ entry.path = PathOf(Append(Way, Pending))
      BY <2>1, <2>4 DEF WalkLinked
    <3> QED
      BY <2>2, <3>1, WayToTop, AppendProperties
  <2>5. CASE k \in 1..Passed(j)
    <3>1. Done(way)
      BY <1>2, <1>3, <1>6, <2>1, <2>3, <2>5 DEF Stays, Behind
    <3>2. ASSUME Building, PathOf(way) = entry.path
          PROVE  Services(Last(way))[1] = entry.file
      <4>1. PICK v \in Seq(DOMAIN tree.dirs) :
              v = Append(Way, Pending) /\ Len(v) = Len(walk) /\ v[Len(walk)] = Pending
        BY <2>4, <3>2
      <4>2. PathOf(way) = PathOf(v) /\ Len(v) > 0 /\ Len(way) > 0
        BY <2>2, <2>3, <2>4, <3>2, <4>1
      <4>3. Last(way) = Last(v)
        BY <2>3, <4>1, <4>2, PathDeterminesLast
      <4> QED
        BY <2>4, <3>2, <4>1, <4>3 DEF Last
    <3>3. Built(Services(Last(way))[1], PathOf(way))'
      BY <1>3, <1>6, <2>1, <3>1, <3>2, BuiltKept DEF Stays, Built, Written
    <3> QED
      BY <3>3
  <2>6. CASE k \notin 1..Passed(j)
    <3>1. Building /\ phase' = "walk" /\ j = Len(walk)
      BY <1>1, <1>6, <2>1, <2>6 DEF Passed, Stays, Building
    <3>2. Passed(j) = Top.next - 2 /\ Passed(j)' = Top.next - 1
      BY <2>1, <2>2, <3>1 DEF Passed, Building
    <3>3. k = Top.next - 1
      BY <1>1, <2>2, <2>6, <3>1, <3>2
    <3>4. way[Len(walk)] = Pending
      BY <2>1, <2>2, <2>3, <3>1, <3>3 DEF Pending, Items
    <3>5. Len(way) = Len(walk)
      BY <1>2, <2>1, <2>2, <2>3, <2>4, <3>1, <3>4, WayShape
    <3>6. way = Append(Way, Pending)
      <4>1. \A i \in 1..Len(way) : way[i] = Append(Way, Pending)[i]
        BY <1>2, <2>1, <2>2, <2>4, <3>1, <3>4, <3>5
      <4> QED
        BY <2>3, <2>4, <3>1, <3>5, <4>1, SeqEqual
    <3>7. Services(Last(way))[1] = entry.file /\ PathOf(way) = entry.path
      BY <2>4, <3>1, <3>4, <3>5, <3>6 DEF Last
    <3>8. Written(Services(Last(way))[1], PathOf(way))'
      BY <1>3, <1>6, <2>1, <3>1, <3>7, EntryPointDone DEF Stays, Written
    <3> QED
      BY <3>8 DEF Built
  <2> QED
    BY <2>5, <2>6
<1>7. CASE EnterDirectory
  <2>1. j # Len(walk) + 1
    BY <1>1, <1>7, EnterDirectoryStep, TopFrame DEF Passed, Building
  <2>2. j \in 1..Len(walk) /\ (\A i \in 1..Len(walk) : walk'[i].dir = walk[i].dir)
    BY <1>7, <2>1, EnterDirectoryStep, TopFrame
  <2>3. Passed(j)' = Passed(j)
    BY <1>7, <2>2, EnterDirectoryStep, TopFrame DEF Passed, Building
  <2>4. \A i \in 1..(j - 1) : way[i] = walk[i + 1].dir
    <3>1. Len(walk) \in Nat
      BY LenProperties DEF Control, Shaped
    <3> QED
      BY SMTT(30), <1>2, <2>2, <3>1
  <2>5. Behind(way, j, Passed(j))
    BY <1>1, <1>2, <1>3, <1>7, <2>2, <2>3, <2>4, EnterDirectoryStep DEF Behind
  <2> QED
    BY <1>3, <1>4, <1>7, <2>2, <2>5, EnterDirectoryStep
<1>8. CASE BuildDirectory
  <2>1. j \in 1..Len(walk) /\ (\A i \in 1..Len(walk) : walk'[i].dir = walk[i].dir)
    BY <1>8, BuildDirectoryStep, TopFrame
  <2>2. Passed(j)' = Passed(j)
    BY <1>8, <2>1, BuildDirectoryStep, TopFrame DEF Passed, Building
  <2>3. \A i \in 1..(j - 1) : way[i] = walk[i + 1].dir
    BY <1>2, <1>8, <2>1, BuildDirectoryStep, TopFrame
  <2>4. Behind(way, j, Passed(j))
    BY <1>1, <1>2, <1>3, <1>8, <2>1, <2>2, <2>3, BuildDirectoryStep DEF Behind
  <2> QED
    BY <1>3, <1>4, <1>8, <2>1, <2>4, BuildDirectoryStep
<1>9. CASE LeaveDirectory
  <2>1. PICK n : n = Len(walk) - 1
    OBVIOUS
  <2>2. n \in Nat \ {0} /\ Len(walk') = n /\ Len(walk) = n + 1 /\ \A i \in 1..n : walk'[i] = walk[i]
    BY <1>9, <2>1, LeaveDirectoryStep, TopFrame
  <2>3. \A i \in 1..(n + 1) : walk[i].next \in Nat
    BY <1>9, <2>2, LeaveDirectoryStep, TopFrame
  <2>4. /\ Tracks /\ ~Flat /\ way \in Ways /\ phase = "walk" /\ phase' = "walk"
        /\ Subdirs(walk[j].dir)[k] = way[j] /\ Len(way) \in Nat
    BY <1>3, <1>9, <2>2, LeaveDirectoryStep
  <2>5. \A i \in 1..(j - 1) : way[i] = walk[i + 1].dir
    BY <1>2, <2>2
  <2>6. \E i \in 1..Len(walk) : Behind(way, i, Passed(i))
    <3>1. CASE k \in 1..Passed(j)
      BY <1>2, <2>2, <2>4, <2>5, <3>1 DEF Behind
    <3>2. CASE k \notin 1..Passed(j)
      <4>1. j = n /\ k = walk[n].next - 1
        BY <1>1, <2>2, <2>3, <2>4, <3>2 DEF Passed, Building
      <4>2. way[n] = walk[n + 1].dir /\ Services(walk[n + 1].dir) = <<>>
        BY <2>2, <2>4, <4>1 DEF WalkLinked
      <4>3. Len(way) # n
        <5>1. Len(way) = n => Len(Services(way[n])) = 1
          BY <2>2, <2>4, WayShape
        <5> QED
          BY <4>2, <5>1
      <4>4. n + 1 \in 1..Len(way) /\ n + 1 # 1
        BY <1>2, <2>2, <2>4, <4>1, <4>3
      <4>5. Contains(Subdirs(way[n]), way[n + 1])
        BY <2>2, <2>4, <4>4, WayShape
      <4>6. PICK i \in 1..Len(Subdirs(way[n])) : Subdirs(way[n])[i] = way[n + 1]
        BY <4>5 DEF Contains
      <4>7. Items = Subdirs(way[n]) /\ Top = walk[n + 1] /\ Top.next > Len(Items)
        BY <1>9, <2>2, <2>4, <4>2, LeaveDirectoryStep, TopFrame DEF Items
      <4>8. Len(Subdirs(way[n])) \in Nat
        <5>1. way[n] \in DOMAIN tree.dirs
          BY <1>9, <2>2, <4>2, LeaveDirectoryStep, TopFrame
        <5> QED
          BY <5>1, TreesAssumption, LenProperties DEF Control, Shaped, Subdirs
      <4>9. Passed(n + 1) = walk[n + 1].next - 1
        BY <2>2, <2>4 DEF Passed, Building
      <4>10. i \in 1..Passed(n + 1)
        BY <2>2, <2>3, <4>6, <4>7, <4>8, <4>9
      <4>11. \A m \in 1..n : way[m] = walk[m + 1].dir
        BY <2>2, <2>5, <4>1, <4>2
      <4>12. Behind(way, n + 1, Passed(n + 1))
        BY <2>2, <2>4, <4>2, <4>4, <4>6, <4>10, <4>11 DEF Behind
      <4> QED
        BY <2>2, <4>12
    <3> QED
      BY <3>1, <3>2
  <2> QED
    BY <1>3, <1>4, <1>9, <2>6, LeaveDirectoryStep
<1>10. ~SkipLibrary /\ ~BuildFile
  BY <1>3 DEF SkipLibrary, BuildFile, Build, Continue, Visiting
<1>11. CASE Between \/ UNCHANGED vars
  <2>1. UNCHANGED <<tree, request, runs, walk, phase>> /\ phase # "idle"
    BY <1>11 DEF Between, PutInTheWay, MoveAside, User, vars, Tracks
  <2>2. UNCHANGED <<disk, entry>>
    BY <1>11, <2>1 DEF Between, PutInTheWay, MoveAside, vars
  <2>3. Passed(j)' = Passed(j)
    BY <2>1 DEF Passed, Building
  <2>4. Behind(way, j, Passed(j))
    BY <1>1, <1>2, <1>3, <2>1, <2>3 DEF Behind
  <2> QED
    BY <1>3, <2>1, <2>2, <2>4 DEF Built, Written, Document
<1> QED
  BY <1>5, <1>6, <1>7, <1>8, <1>9, <1>10, <1>11, StepsOfRun DEF Moves, Starts

LEMMA InitCoverage == Init => Coverage
BY InitOutput
   DEF Init, Coverage, Linked, FlatLinked, WalkLinked, SingleLinked, Covered, FlatCovered, WaysCovered, Tracks,
       Building, SuccessMeansBuilt

(* The steps that end a run with success.                                  *)
LEMMA SuccessSteps ==
  ASSUME Control, Next, outcome' = "success"
  PROVE  /\ UNCHANGED <<tree, request, runs, disk>>
         /\ FinishWalk \/ request.check \/ (Announce /\ tree.single)
<1>1. phase = "idle" => Between \/ Run
  BY StepKinds, CompileKinds
     DEF Moves, SkipLibrary, EnterDirectory, LeaveDirectory, Starts, BuildFile, BuildDirectory, Visiting, Past,
         Ends, FinishWalk, AcceptOutput, Truncate, Fill, Announce, CloseStdout
<1>2. ~Between /\ ~Run
  BY DEF Between, PutInTheWay, MoveAside, User, Run
<1>3. outcome # "success"
  BY <1>1, <1>2 DEF Control, TypeOK
<1>4. \/ FinishWalk
      \/ Compile
      \/ Announce
  BY <1>2, <1>3, StepKinds
     DEF Moves, SkipLibrary, EnterDirectory, LeaveDirectory, Continue, Starts, BuildFile, BuildDirectory, Build,
         Ends, Exit, Failures, AcceptOutput, Goto, Truncate, Fill, CloseStdout
<1>5. CASE FinishWalk
  BY <1>5 DEF FinishWalk, Exit
<1>6. CASE Compile
  BY <1>3, <1>6, CompileKinds DEF Ends, Exit, Turns, Goto
<1>7. CASE Announce
  BY <1>3, <1>7, TreesAssumption DEF Announce, Control, Shaped
<1> QED
  BY <1>4, <1>5, <1>6, <1>7

LEMMA NextSuccess ==
  ASSUME Coverage, [Next]_vars
  PROVE  SuccessMeansBuilt'
<1> USE DEF Coverage, Output
<1> DEFINE Whole(e) == e[2] \in DOMAIN disk /\ disk[e[2]] = Document(e[1].name, runs)
<1>1. CASE UNCHANGED vars
  <2>1. UNCHANGED <<tree, request, runs, disk, outcome>>
    BY <1>1 DEF vars
  <2>2. \A e : e \in EntryPoints' => e \in EntryPoints
    BY <2>1, TreeKept DEF EntryPoints
  <2> QED
    BY <2>1, <2>2 DEF SuccessMeansBuilt, Document
<1>2. CASE Next
  <2> SUFFICES ASSUME outcome' = "success", ~request'.check, request'.out \/ ~tree'.single,
                      NEW e \in EntryPoints'
               PROVE  Whole(e)'
    BY DEF SuccessMeansBuilt
  <2>1. /\ UNCHANGED <<tree, request, runs, disk>> /\ ~request.check /\ (request.out \/ ~tree.single)
        /\ FinishWalk \/ (Announce /\ tree.single)
    BY <1>2, SuccessSteps
  <2>2. e \in EntryPoints
    BY <2>1, TreeKept DEF EntryPoints
  <2>3. Whole(e)
    <3>1. CASE Announce /\ tree.single
      <4>1. e = <<Files(tree.root)[1], <<"out">>>> /\ phase = "announce"
        BY <2>2, <3>1 DEF EntryPoints, Announce
      <4>2. entry.file = Files(tree.root)[1] /\ entry.path = <<"out">>
        BY <3>1, <4>1 DEF Linked, SingleLinked, Building
      <4> QED
        BY <2>1, <4>1, <4>2 DEF WriteUnderWay
    <3>2. CASE FinishWalk
      <4>1. phase = "walk" /\ Top.next > Len(Items) /\ Len(walk) = 1
        BY <3>2 DEF FinishWalk, Past
      <4>2. ~tree.single /\ Tracks
        BY <2>1, <4>1 DEF Control, Shaped, Tracks
      <4>3. Top = walk[1] /\ Top.next \in Nat /\ Top.dir \in DOMAIN tree.dirs
        BY <4>1, TopFrame
      <4>4. Passed(1) = Top.next - 1
        BY <4>1, <4>3 DEF Passed, Building
      <4>5. CASE Flat
        <5>1. PICK f \in ToSet(Files(tree.root)) : f.declares = "service" /\ e = <<f, <<"out", f.name>>>>
          BY <2>2, <4>2, <4>5 DEF EntryPoints
        <5>2. /\ Len(Files(tree.root)) \in Nat
              /\ DOMAIN Files(tree.root) = 1..Len(Files(tree.root))
          BY TreesAssumption, LenProperties DEF Control, Shaped, Files
        <5>3. PICK k \in 1..Len(Files(tree.root)) : f = Files(tree.root)[k]
          BY <5>1, <5>2 DEF ToSet
        <5>4. k \in 1..Passed(1)
          BY <4>1, <4>3, <4>4, <4>5, <5>2 DEF Items
        <5>5. Built(f, <<"out", f.name>>)
          BY <4>2, <4>5, <5>1, <5>3, <5>4 DEF Covered, FlatCovered
        <5> QED
          BY <4>1, <5>1, <5>5 DEF Built, Written
      <4>6. CASE ~Flat
        <5>1. PICK way \in Ways : e = <<Services(Last(way))[1], PathOf(way)>>
          BY <2>2, <4>2, <4>6 DEF EntryPoints
        <5>2. /\ Len(way) \in Nat \ {0}
              /\ 1 \in 1..Len(way)
              /\ Contains(Subdirs(tree.root), way[1])
          BY WayShape
        <5>3. PICK k \in 1..Len(Subdirs(tree.root)) : Subdirs(tree.root)[k] = way[1]
          BY <5>2 DEF Contains
        <5>4. walk[1].dir = tree.root
          BY <4>2, <4>6 DEF Linked, WalkLinked
        <5>5. Len(Subdirs(tree.root)) \in Nat /\ Items = Subdirs(tree.root)
          BY <4>3, <4>6, <5>4, TreesAssumption, LenProperties DEF Control, Shaped, Subdirs, Items
        <5>6. k \in 1..Passed(1)
          BY <4>1, <4>3, <4>4, <5>5
        <5>7. Behind(way, 1, Passed(1))
          BY <5>2, <5>3, <5>4, <5>6 DEF Behind
        <5>8. Built(Services(Last(way))[1], PathOf(way))
          BY <4>1, <4>2, <4>6, <5>7 DEF Covered, WaysCovered
        <5> QED
          BY <4>1, <5>1, <5>8 DEF Built, Written
      <4> QED
        BY <4>5, <4>6
    <3> QED
      BY <2>1, <3>1, <3>2
  <2> QED
    BY <2>1, <2>3 DEF Document
<1> QED
  BY <1>1, <1>2

LEMMA NextCoverage == Coverage /\ [Next]_vars => Coverage'
BY NextOutput, NextFlatLinked, NextSingleLinked, NextWalkLinked, NextFlatCovered, NextWaysCovered, NextSuccess
   DEF Coverage, Linked, Covered, Output

(* SuccessMeansBuilt, for every tree, link that goes around and limit: a   *)
(* run that ends with success has left the document of every entry point   *)
(* at its place (build_flat_directory, build_colocated_tree, build_one).   *)
THEOREM SuccessIsWhole == Spec => []SuccessMeansBuilt
<1>1. Init => Coverage
  BY InitCoverage
<1>2. Coverage /\ [Next]_vars => Coverage'
  BY NextCoverage
<1>3. Coverage => SuccessMeansBuilt
  BY DEF Coverage
<1> QED
  BY <1>1, <1>2, <1>3, PTL DEF Spec

===============================================================================
