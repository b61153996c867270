----------------------------- MODULE FieldExpansion -----------------------------
(***************************************************************************)
(* What composition promises for the values of a service's fields, without *)
(* an order of evaluation: close every body the service reaches with the   *)
(* arguments it is reached with, from the service inwards, and read each   *)
(* field off the tree of closed bodies.  A body's own answer stands before *)
(* those of its `with` targets, two targets must not answer differently,   *)
(* and lists add up.  FieldComposition goes the other way, from the inside *)
(* out, merging text that still holds parameters.                          *)
(***************************************************************************)
EXTENDS FieldComposition

(* An argument with the caller's own parameters filled in; a parameter in  *)
(* a list stands for the items it is bound to.                             *)
ClosedArgument(value, env) ==
  IF value.kind = "list" THEN List(Spliced(value.items, env)) ELSE SubstituteLiteral(value, env)

ArgumentFits(value, env) == value.kind = "str" => LiteralError(value, env) = None

(* A binding in a string that is no parameter of the body that writes it   *)
(* is the next body's outwards to answer.                                  *)
RECURSIVE Tree(_, _, _)
Tree(bodies, b, env) ==
  LET closed(args) == [p \in DOMAIN args |-> ClosedArgument(args[p], env)]
      calls == bodies[b].with
      kids  == [i \in DOMAIN calls |-> Tree(bodies, calls[i].target, closed(calls[i].args) @@ env)]
  IN  [own |-> Substitute(bodies[b].fields, env),
       ill |-> \/ SubstitutionError(bodies[b].fields, env) # None
               \/ \E i \in DOMAIN kids : kids[i].ill
               \/ \E i \in DOMAIN calls : \E p \in DOMAIN calls[i].args :
                    ~ArgumentFits(calls[i].args[p], env),
       kids |-> kids]

Distinct(texts) ==
  FoldLeft(LAMBDA list, t : IF Contains(list, t) THEN list ELSE Append(list, t), <<>>, texts)

(* The fields of one tree as finite functions: Keys(f) in the order of     *)
(* their first appearance, and for each the one entry that answers it.     *)
Keyed    == {"volume", "labels", "dependsOn"}
Scalar   == {"image", "port"}
OwnKeys(tree, f) == [i \in DOMAIN tree.own[f] |-> tree.own[f][i].key]

RECURSIVE AllKeys(_, _)
AllKeys(tree, f) ==
  FlattenSeq([i \in DOMAIN tree.kids |-> AllKeys(tree.kids[i], f)]) \o OwnKeys(tree, f)

Has(tree, f, key) == \E i \in DOMAIN AllKeys(tree, f) : AllKeys(tree, f)[i].text = key.text
OwnEntry(tree, f, key) == SelectSeq(tree.own[f], LAMBDA e : e.key.text = key.text)

(* The answers of the `with` targets, in order.                            *)
RECURSIVE EntryOf(_, _, _)
KidEntries(tree, f, key) ==
  LET with == SelectSeq(tree.kids, LAMBDA kid : Has(kid, f, key))
  IN  [i \in DOMAIN with |-> EntryOf(with[i], f, key)]

(* The entry a tree gives a key, when it has one: its own or the first     *)
(* target's, but of a label the items add up in order.                     *)
EntryOf(tree, f, key) ==
  LET all  == KidEntries(tree, f, key) \o OwnEntry(tree, f, key)
      best == IF OwnEntry(tree, f, key) # <<>> THEN OwnEntry(tree, f, key)[1] ELSE all[1]
  IN  IF f = "labels" /\ best.isList
      THEN [all[1] EXCEPT !.items = Distinct(FlattenSeq([i \in DOMAIN all |-> all[i].items]))]
      ELSE best

RECURSIVE ScalarOf(_, _)
KidScalars(tree, f) ==
  SelectSeq([i \in DOMAIN tree.kids |-> ScalarOf(tree.kids[i], f)], LAMBDA lit : lit # Unset)
ScalarOf(tree, f) ==
  IF tree.own[f] # Unset THEN tree.own[f]
  ELSE IF KidScalars(tree, f) # <<>> THEN KidScalars(tree, f)[1] ELSE Unset

Condition(dep) == IF dep.condition = "bare" THEN "started" ELSE dep.condition

(* Two answers to one question.                                            *)
Differ(f, one, other) ==
  CASE f = "dependsOn" -> Condition(one) # Condition(other)
    [] f = "labels"    -> ~(one.isList /\ other.isList)
    [] OTHER           -> TRUE

RECURSIVE Clashes(_)
Clashes(tree) ==
  \/ \E i \in DOMAIN tree.kids : Clashes(tree.kids[i])
  \/ \E f \in Scalar : Len(KidScalars(tree, f)) > 1
  \/ \E f \in Keyed : \E k \in ToSet(AllKeys(tree, f)) :
       LET entries == KidEntries(tree, f, k)
       IN  \/ \E i, j \in DOMAIN entries : i # j /\ Differ(f, entries[i], entries[j])
           \/ f = "labels" /\ \E i \in DOMAIN entries, own \in ToSet(OwnEntry(tree, f, k)) :
                                entries[i].isList # own.isList

RECURSIVE Appended(_, _)
Appended(tree, f) ==
  FlattenSeq([i \in DOMAIN tree.kids |-> Appended(tree.kids[i], f)]) \o tree.own[f]

DistinctByText(list) ==
  LET first(i) == \A j \in 1..(i - 1) : list[j].text # list[i].text
      at == SelectSeq([i \in DOMAIN list |-> i], first)
  IN  [n \in DOMAIN at |-> list[at[n]]]

Expanded(tree) ==
  LET keyed(f) == LET keys == DistinctByText(AllKeys(tree, f))
                  IN  [i \in DOMAIN keys |-> EntryOf(tree, f, keys[i])]
  IN  [image |-> ScalarOf(tree, "image"), port |-> ScalarOf(tree, "port"),
       volume |-> keyed("volume"), labels |-> keyed("labels"), dependsOn |-> keyed("dependsOn"),
       networks |-> DistinctByText(Appended(tree, "networks")), dns |-> Appended(tree, "dns")]

ServiceTree == Tree(program.bodies, "service", <<>>)
-------------------------------------------------------------------------------
(* Properties.                                                             *)

(* A program that compiles has one answer to every field; one that is      *)
(* refused has an argument that does not fit a slot, two templates that    *)
(* answer differently, or a service the document cannot hold.  (An         *)
(* argument that does not fit is no error where an outer body overrides    *)
(* the slot before it is filled, so the two sides do not meet.)            *)
RefusedIffNoExpansion ==
  LET tree == ServiceTree
  IN  /\ outcome = "ok" =>
           ~Clashes(tree) /\ GenerateError(Expanded(tree), program.name) = None
      /\ outcome \notin {"running", "ok"} =>
           tree.ill \/ Clashes(tree) \/ GenerateError(Expanded(tree), program.name) # None

(* What is printed is what the closed bodies say, whatever the depth at    *)
(* which a value was written and the order it was merged and substituted   *)
(* in, unless a warning said that a parameter called `name` was not.       *)
DocumentIsExpansion ==
  outcome = "ok" /\ warnings = {} =>
    document = Document(Expanded(ServiceTree), program.name)
===============================================================================
