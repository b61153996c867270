------------------------------ MODULE FieldBags ------------------------------
(***************************************************************************)
(* The fields of a body and what composition does with their values        *)
(* (substitute_params and merge_tier with everything below them, in        *)
(* hl-parser's compose.rs): parameters are replaced, `{{param}}` holes in  *)
(* strings filled, lists spliced, and one tier of fields is merged into    *)
(* the tiers before it, each field by the rule of its kind.                *)
(*                                                                         *)
(* One field stands for all of its kind: `image` for the scalars, `port`   *)
(* for the numeric ones, `volume` for the maps with unique keys, `labels`, *)
(* `dependsOn`, `networks` for the lists without repeats, `dns` for the    *)
(* lists with.                                                             *)
(***************************************************************************)
EXTENDS Integers, Sequences, FiniteSets, SequencesExt

None == "none"  \* no error

(* Text is a sequence of words and holes; a hole is a `{{binding}}`.       *)
Word(w) == [hole |-> FALSE, word |-> w]
Hole(w) == [hole |-> TRUE, word |-> w]
Comma   == Word(",")

(* The binding composition leaves to codegen.                              *)
ServiceNameBinding == "name"

Ident(w)    == [kind |-> "ident", text |-> <<Word(w)>>]
Number(w)   == [kind |-> "number", text |-> <<Word(w)>>]
Str(text)   == [kind |-> "str", text |-> text]
Param(w)    == [kind |-> "param", text |-> <<Word(w)>>]
List(items) == [kind |-> "list", text |-> <<>>, items |-> items]
Unset       == [kind |-> "unset", text |-> <<>>]

ParamOf(lit) == lit.text[1].word

(* Entries of the keyed fields; a scalar label has one item.               *)
Entry(key, value)         == [key |-> key, value |-> value]
Label(key, isList, items) == [key |-> key, isList |-> isList, items |-> items]
Dependency(key, cond)     == [key |-> key, condition |-> cond]

NoFields ==
  [image |-> Unset, port |-> Unset, volume |-> <<>>, labels |-> <<>>,
   dependsOn |-> <<>>, networks |-> <<>>, dns |-> <<>>]

(* The first of several checks that fails.                                 *)
FirstError(errors) ==
  LET raised == {i \in DOMAIN errors : errors[i] # None}
  IN  IF raised = {} THEN None ELSE errors[Min(raised)]

-------------------------------------------------------------------------------
(* Interpolation of an invocation's arguments into text.  A forwarded      *)
(* parameter renames the hole, a list is joined with commas, and an        *)
(* argument that holds a list inside a list has no text.                   *)

ItemText(value) == IF value.kind = "param" THEN <<Hole(ParamOf(value))>> ELSE value.text

Joined(texts) ==
  IF texts = <<>> THEN <<>>
  ELSE FoldLeft(LAMBDA sofar, t : sofar \o <<Comma>> \o t, Head(texts), Tail(texts))

InterpolatedText(value) ==
  IF value.kind = "list" THEN Joined([i \in DOMAIN value.items |-> ItemText(value.items[i])])
                         ELSE ItemText(value)

HasText(value) == value.kind = "list" => \A i \in DOMAIN value.items : value.items[i].kind # "list"

Fills(piece, args) ==
  piece.hole /\ piece.word # ServiceNameBinding /\ piece.word \in DOMAIN args

(* Mutant: a binding the template has no parameter for is dropped.         *)
SubstituteTextOnly(text, args) ==
  FlattenSeq([i \in DOMAIN text |->
    IF Fills(text[i], args) THEN InterpolatedText(args[text[i].word])
    ELSE IF text[i].hole /\ text[i].word # ServiceNameBinding THEN <<>> ELSE <<text[i]>>])

SubstituteText(text, args) ==
  FlattenSeq([i \in DOMAIN text |->
    IF Fills(text[i], args) THEN InterpolatedText(args[text[i].word]) ELSE <<text[i]>>])

-------------------------------------------------------------------------------
(* Substitution of one slot, by what the slot can hold.                    *)

SubstituteLiteral(lit, args) ==
  CASE lit.kind = "param" -> args[ParamOf(lit)]
    [] lit.kind = "str"   -> Str(SubstituteText(lit.text, args))
    [] OTHER              -> lit

LiteralError(lit, args) ==
  CASE lit.kind = "param" ->
         IF args[ParamOf(lit)].kind = "list" THEN "TemplateArgumentNotScalar" ELSE None
    [] lit.kind = "str" ->
         IF \A i \in DOMAIN lit.text : Fills(lit.text[i], args) => HasText(args[lit.text[i].word])
         THEN None ELSE "ArgumentNotInterpolable"
    [] OTHER -> None

IsNumeric(lit) == lit.kind \in {"number", "param", "unset"}

NumericError(lit, args) ==
  IF LiteralError(lit, args) # None THEN LiteralError(lit, args)
  ELSE IF lit.kind = "param" /\ ~IsNumeric(SubstituteLiteral(lit, args)) THEN "ArgumentNotNumeric"
  ELSE None

(* A parameter in a list is replaced by the items it is bound to.          *)
Items(lit, args) ==
  IF lit.kind = "param" /\ args[ParamOf(lit)].kind = "list" THEN args[ParamOf(lit)].items
                                                           ELSE <<SubstituteLiteral(lit, args)>>

ItemError(item) ==
  CASE item.kind = "list"   -> "TemplateArgumentNotScalar"
    [] item.kind = "number" -> "ArgumentNotReferenceShaped"
    [] OTHER                -> None

ReferenceError(lit, args) ==
  IF lit.kind # "param" THEN LiteralError(lit, args)
  ELSE FirstError([i \in DOMAIN Items(lit, args) |-> ItemError(Items(lit, args)[i])])

Spliced(list, args) == FlattenSeq([i \in DOMAIN list |-> Items(list[i], args)])

(* Every item a dependency expands to inherits its condition.              *)
SplicedDependency(dep, args) ==
  LET items == Items(dep.key, args)
  IN  [i \in DOMAIN items |-> Dependency(items[i], dep.condition)]

Substitute(fields, args) ==
  LET all(list) == [i \in DOMAIN list |-> SubstituteLiteral(list[i], args)]
  IN  [image |-> SubstituteLiteral(fields.image, args),
       port |-> SubstituteLiteral(fields.port, args),
       volume |-> [i \in DOMAIN fields.volume |->
                     Entry(SubstituteLiteral(fields.volume[i].key, args),
                           SubstituteLiteral(fields.volume[i].value, args))],
       labels |-> [i \in DOMAIN fields.labels |->
                     Label(SubstituteLiteral(fields.labels[i].key, args),
                           fields.labels[i].isList, all(fields.labels[i].items))],
       dependsOn |-> FlattenSeq([i \in DOMAIN fields.dependsOn |->
                                   SplicedDependency(fields.dependsOn[i], args)]),
       networks |-> Spliced(fields.networks, args),
       dns |-> Spliced(fields.dns, args)]

(* What each slot can refuse, in the order substitute_params walks them.   *)
SubstitutionError(fields, args) ==
  LET references(list) == [i \in DOMAIN list |-> ReferenceError(list[i], args)]
      literals(list)   == [i \in DOMAIN list |-> LiteralError(list[i], args)]
  IN  FirstError(
        <<LiteralError(fields.image, args), NumericError(fields.port, args)>>
        \o FlattenSeq([i \in DOMAIN fields.volume |->
             literals(<<fields.volume[i].value, fields.volume[i].key>>)])
        \o FlattenSeq([i \in DOMAIN fields.labels |->
             literals(<<fields.labels[i].key>> \o fields.labels[i].items)])
        \o references(fields.networks) \o references(fields.dns)
        \o references([i \in DOMAIN fields.dependsOn |-> fields.dependsOn[i].key]))

(* The texts of the slots that walk reads.                                 *)
Slots(fields) ==
  {fields.image, fields.port}
    \cup (UNION {{fields.volume[i].key, fields.volume[i].value} : i \in DOMAIN fields.volume})
    \cup (UNION {{fields.labels[i].key} \cup ToSet(fields.labels[i].items) : i \in DOMAIN fields.labels})
    \cup {fields.dependsOn[i].key : i \in DOMAIN fields.dependsOn}
    \cup ToSet(fields.networks) \cup ToSet(fields.dns)

Mentions(fields, binding) == \E lit \in Slots(fields) : lit.kind = "str" /\ Contains(lit.text, Hole(binding))

-------------------------------------------------------------------------------
(* The merge of one tier into the tiers before it.  Own is the body's own  *)
(* fields and comes last; Explicit is a `with` target's.  An accumulator   *)
(* holds Explicit entries only when anything is merged into it, so only    *)
(* the incoming tier decides.                                              *)
Tiers == {"own", "explicit"}

Merged(value)  == [error |-> None, value |-> value]
Collision(err) == [error |-> err, value |-> <<>>]

MergeScalar(held, incoming, tier) ==
  IF incoming = Unset THEN Merged(held)
  ELSE IF held = Unset \/ tier = "own" THEN Merged(incoming)
  ELSE Collision("FieldCollision")

(* What becomes of an entry whose key is held.                             *)
MergeMap(old, new, tier) == IF tier = "own" THEN Merged(new) ELSE Collision("MapKeyCollision")

(* Mutant: a condition that is not written is unlike any that is.          *)
WrittenCondition(dep) == dep.condition

EffectiveCondition(dep) == IF dep.condition = "bare" THEN "started" ELSE dep.condition

(* The same answer given twice is no collision; the one that was written   *)
(* first stays as it was written.                                          *)
MergeDependsOn(old, new, tier) ==
  IF tier = "own" THEN Merged(new)
  ELSE IF EffectiveCondition(old) = EffectiveCondition(new) THEN Merged(old)
  ELSE Collision("MapKeyCollision")

(* Mutant: repeats of a name are kept.                                     *)
AppendAll(held, incoming) == held \o incoming

AddDistinct(list, lit) ==
  IF \E i \in DOMAIN list : list[i].text = lit.text THEN list ELSE Append(list, lit)

AppendDistinct(held, incoming) == FoldLeft(AddDistinct, held, incoming)

(* Mutant: the body's own list replaces what its templates supplied.       *)
OwnListReplaces(old, new, tier) ==
  IF tier = "own" THEN new ELSE [old EXCEPT !.items = AppendDistinct(@, new.items)]

LabelItems(old, new, tier) == [old EXCEPT !.items = AppendDistinct(@, new.items)]

MergeLabels(old, new, tier) ==
  IF old.isList # new.isList THEN Collision("LabelShapeMismatch")
  ELSE IF old.isList THEN Merged(LabelItems(old, new, tier))
  ELSE IF tier = "own" THEN Merged([old EXCEPT !.items = new.items])
  ELSE Collision("MapKeyCollision")

MergeHeld(field, old, new, tier) ==
  CASE field = "volume"    -> MergeMap(old, new, tier)
    [] field = "dependsOn" -> MergeDependsOn(old, new, tier)
    [] field = "labels"    -> MergeLabels(old, new, tier)

(* One entry merged; sofar is what the entries before it came to.          *)
AddKeyed(field, tier, sofar, entry) ==
  LET at     == SelectInSeq(sofar.value, LAMBDA e : e.key.text = entry.key.text)
      merged == MergeHeld(field, sofar.value[at], entry, tier)
  IN  IF sofar.error # None THEN sofar
      ELSE IF at = 0 THEN Merged(Append(sofar.value, entry))
      ELSE IF merged.error # None THEN Collision(merged.error)
      ELSE Merged(ReplaceAt(sofar.value, at, merged.value))

MergeKeyed(field, held, incoming, tier) ==
  FoldLeft(LAMBDA sofar, entry : AddKeyed(field, tier, sofar, entry), Merged(held), incoming)

(* The fields of merge_tier in its order.                                  *)
MergeTier(acc, fields, tier) ==
  LET image     == MergeScalar(acc.image, fields.image, tier)
      port      == MergeScalar(acc.port, fields.port, tier)
      volume    == MergeKeyed("volume", acc.volume, fields.volume, tier)
      labels    == MergeKeyed("labels", acc.labels, fields.labels, tier)
      dependsOn == MergeKeyed("dependsOn", acc.dependsOn, fields.dependsOn, tier)
  IN  [error |-> FirstError(<<image.error, port.error, volume.error, labels.error, dependsOn.error>>),
       value |-> [image |-> image.value, port |-> port.value, volume |-> volume.value,
                  labels |-> labels.value, dependsOn |-> dependsOn.value,
                  networks |-> AppendDistinct(acc.networks, fields.networks),
                  dns |-> acc.dns \o fields.dns]]

-------------------------------------------------------------------------------
(* generate_service of hl-codegen: a service's merged fields as the        *)
(* document prints them.  The last of the interpolations knows the name of *)
(* the service and nothing else.  Volumes are bind mounts, every network   *)
(* is declared and none is the default one.  Of the errors of several      *)
(* fields the model may report another than the code, which stops at the   *)
(* first.                                                                  *)

Rendered(text, service) ==
  [i \in DOMAIN text |-> IF text[i].hole THEN Word(service) ELSE text[i]]

Unknown(lit) == \E i \in DOMAIN lit.text : lit.text[i].hole /\ lit.text[i].word # ServiceNameBinding

Rendering(fields) ==
  {fields.image}
    \cup (UNION {{fields.volume[i].key, fields.volume[i].value} : i \in DOMAIN fields.volume})
    \cup (UNION {{fields.labels[i].key} \cup ToSet(fields.labels[i].items) : i \in DOMAIN fields.labels})

LabelKeys(fields, service) ==
  [i \in DOMAIN fields.labels |-> Rendered(fields.labels[i].key.text, service)]

GenerateError(fields, service) ==
  IF ~IsNumeric(fields.port) THEN "FieldNotNumeric"
  ELSE IF \E lit \in Rendering(fields) : Unknown(lit) THEN "UnknownInterpolation"
  ELSE IF ~IsInjective(LabelKeys(fields, service)) THEN "DuplicateLabelKey"
  ELSE IF fields.image = Unset THEN "MissingImageOrBuild"
  ELSE None

(* The long form as soon as one condition is written.                      *)
DependsOnDocument(deps) ==
  IF \A i \in DOMAIN deps : deps[i].condition = "bare"
  THEN [long |-> FALSE, entries |-> [i \in DOMAIN deps |-> deps[i].key.text]]
  ELSE [long |-> TRUE, entries |-> [i \in DOMAIN deps |->
                                      <<deps[i].key.text, EffectiveCondition(deps[i])>>]]

Texts(list) == [i \in DOMAIN list |-> list[i].text]

Document(fields, service) ==
  [image |-> Rendered(fields.image.text, service),
   expose |-> fields.port.text,
   volumes |-> [i \in DOMAIN fields.volume |->
                  <<Rendered(fields.volume[i].value.text, service),
                    Rendered(fields.volume[i].key.text, service)>>],
   labels |-> [i \in DOMAIN fields.labels |->
                 <<LabelKeys(fields, service)[i],
                   Rendered(Joined(Texts(fields.labels[i].items)), service)>>],
   dependsOn |-> DependsOnDocument(fields.dependsOn),
   networks |-> Texts(fields.networks),
   dns |-> Texts(fields.dns)]
===============================================================================
