------------------------------- MODULE HllPaths -------------------------------
(***************************************************************************)
(* Path identity for the module graph (hl-linker's path.rs and stdlib.rs): *)
(* a purely lexical join and collapse that never touches disk.             *)
(*                                                                         *)
(* A path is whether it is absolute and its components; a source of the    *)
(* module graph is a path in one of two namespaces, the user's files and   *)
(* the modules bundled into the compiler.                                  *)
(***************************************************************************)
EXTENDS Integers, Sequences, SequencesExt

CONSTANT Stem  \* for a component that ends in ".hll", the component without it

CurDir    == "."
ParentDir == ".."

Relative(parts) == [root |-> FALSE, parts |-> parts]
Absolute(parts) == [root |-> TRUE, parts |-> parts]

UserFile(path)   == [space |-> "user", path |-> path]
StdModule(parts) == [space |-> "std", path |-> Relative(parts)]

(* The answer to a path that climbs out of its tree.                       *)
Escape == [space |-> "escape", path |-> Relative(<<>>)]

(* What a `use` writes: a path, behind the reserved prefix "std:" or not.  *)
Raw(parts)    == [std |-> FALSE, path |-> Relative(parts)]
RawStd(parts) == [std |-> TRUE, path |-> Relative(parts)]

-------------------------------------------------------------------------------
(* One component: `..` takes back a name, and is kept where there is no    *)
(* name to take back.                                                      *)
Collapse(out, component) ==
  IF component = CurDir THEN out
  ELSE IF component = ParentDir /\ out # <<>> /\ Last(out) # ParentDir THEN Front(out)
  ELSE Append(out, component)

Normalize(path) == [path EXCEPT !.parts = FoldLeft(Collapse, <<>>, @)]

(* Mutant: the path is joined and not collapsed.                           *)
ResolveAsSpelled(from, raw) ==
  IF raw.root THEN Escape ELSE UserFile([from EXCEPT !.parts = Front(@) \o raw.parts])

(* Against the directory of the file that wrote it.                        *)
ResolveRelative(from, raw) ==
  LET joined == [from EXCEPT !.parts = Front(@) \o raw.parts]
      resolved == Normalize(joined)
  IN  IF \/ raw.root
         \/ ~resolved.root /\ resolved.parts # <<>> /\ Head(resolved.parts) = ParentDir
      THEN Escape
      ELSE UserFile(resolved)

(* A bundled module's name, with or without its extension.                 *)
Canonical(parts) ==
  IF parts = <<>> \/ Last(parts) \notin DOMAIN Stem THEN parts
  ELSE Append(Front(parts), Stem[Last(parts)])

(* A relative `use` inside a bundled module stays among the bundled ones.  *)
ResolveSibling(from, raw) ==
  LET resolved == ResolveRelative(from, raw)
  IN  IF resolved = Escape THEN Escape ELSE StdModule(Canonical(resolved.path.parts))

(* The prefix is matched first: what follows it is a name, never a path.   *)
ResolveImport(from, raw) ==
  IF raw.std THEN StdModule(Canonical(raw.path.parts))
  ELSE IF from.space = "user" THEN ResolveRelative(from.path, raw.path)
  ELSE ResolveSibling(from.path, raw.path)
===============================================================================
