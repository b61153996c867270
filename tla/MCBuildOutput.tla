---------------------------- MODULE MCBuildOutput ----------------------------
(***************************************************************************)
(* Trees of each of the three shapes hllc tells apart, run twice each with *)
(* every request: a single file; a flat directory of a library and two     *)
(* services; a homelab with a shared library and nested service            *)
(* directories; a tree whose link leads back up; a directory with two      *)
(* services.  A file may not compile, not parse, or have an unusable stem. *)
(***************************************************************************)
EXTENDS BuildOutput, TLC

MCOutside == <<"outside">>

File(name, declares, compiles, usable) ==
  [name |-> name, declares |-> declares, compiles |-> compiles, stemUsable |-> usable]
Service(name) == File(name, "service", TRUE, TRUE)
Library(name) == File(name, "nothing", TRUE, TRUE)

Faulty(name) ==
  {Service(name), File(name, "service", FALSE, TRUE), File(name, "service", TRUE, FALSE),
   File(name, "unparsable", FALSE, TRUE)}

Dir(files, subdirs) == [files |-> files, subdirs |-> subdirs]
Tree(single, dirs, inTheWay) ==
  [single |-> single, root |-> "root", dirs |-> dirs, inTheWay |-> inTheWay]

SingleFile ==
  {Tree(TRUE, "root" :> Dir(<<File("main", "service", c, TRUE)>>, <<>>), {<<"out">>}) : c \in BOOLEAN}

FlatDirectory ==
  {Tree(FALSE, "root" :> Dir(<<Library("common"), Service("first"), f>>, <<>>), {<<"out", "first">>}) :
     f \in Faulty("second")}

Homelab ==
  {Tree(FALSE,
     ("root" :> Dir(<<>>, <<"services", "shared">>)) @@ ("services" :> Dir(<<>>, <<"one", "two">>))
       @@ ("shared" :> Dir(<<l>>, <<>>))
       @@ ("one" :> Dir(<<Library("common"), Service("first")>>, <<"two">>))
       @@ ("two" :> Dir(<<f>>, <<>>)),
     {<<"one">>}) : f \in Faulty("second"), l \in {Library("net")}}

Around ==
  {Tree(FALSE, ("root" :> Dir(<<>>, <<"a">>)) @@ ("a" :> Dir(<<>>, order)) @@ ("b" :> Dir(<<Service("b")>>, <<>>)),
        {}) : order \in {<<"a", "b">>, <<"b", "a">>}}

Ambiguous ==
  {Tree(FALSE, ("root" :> Dir(<<>>, <<"a">>)) @@ ("a" :> Dir(<<Service("x"), Service("y")>>, <<>>)), {})}

MCTrees == SingleFile \cup FlatDirectory \cup Homelab \cup Around \cup Ambiguous
===============================================================================
