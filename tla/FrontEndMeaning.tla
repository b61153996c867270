----------------------------- MODULE FrontEndMeaning -----------------------------
(***************************************************************************)
(* The front end against what was written: a program is a sequence of      *)
(* declarations, each with its statements and the way each is spelled,     *)
(* which the text is made of and which says, with no tokens, what the      *)
(* declarations are.                                                       *)
(***************************************************************************)
EXTENDS FrontEnd

-------------------------------------------------------------------------------
(* Spelling.                                                               *)
Joined(parts, separator) ==
  FlattenSeq([i \in DOMAIN parts |-> IF i = 1 THEN parts[i] ELSE separator \o parts[i]])

Quoted(content) ==
  LET escape(c) == CASE c = Newline -> <<"\\", "n">> [] c \in {"\"", "\\"} -> <<"\\", c>> [] OTHER -> <<c>>
  IN  <<"\"">> \o FlattenSeq([i \in DOMAIN content |-> escape(content[i])]) \o <<"\"">>

RECURSIVE SpellLit(_), SpellRaw(_)
SpellLit(lit) ==
  CASE lit.kind = "str"       -> Quoted(lit.text)
    [] lit.kind = "param"     -> <<"$">> \o lit.text
    [] lit.kind = "qualified" -> lit.alias \o <<".">> \o lit.text
    [] lit.kind = "field"     -> SpellLit(lit.base) \o <<".">> \o lit.text
    [] OTHER                  -> lit.text

Comma == <<",", " ">>
Spelled(lits) == [i \in DOMAIN lits |-> SpellLit(lits[i])]
Brackets(spelled) == <<"[">> \o Joined(spelled, Comma) \o <<"]">>

(* A nested mapping is the list of its pairs.                              *)
IsMapping(value) == value.kind = "list" /\ value.items # <<>> /\ value.items[1].kind = "pair"
RawPair(pair)    == SpellLit(pair.key) \o <<":", " ">> \o SpellRaw(pair.value)
SpellRaw(value) ==
  IF value.kind # "list" THEN SpellLit(value)
  ELSE IF IsMapping(value)
  THEN <<"{">> \o Joined([i \in DOMAIN value.items |-> RawPair(value.items[i])], Comma) \o <<"}">>
  ELSE <<"[">> \o Joined([i \in DOMAIN value.items |-> SpellRaw(value.items[i])], Comma) \o <<"]">>

SpellItem(item) ==
  CASE item.kind = "dependency" ->
         SpellLit(item.ref) \o (IF item.condition = <<>> THEN <<>>
                                ELSE <<" ", "{", "condition", ":", " ">> \o item.condition \o <<"}">>)
    [] item.kind = "pair" ->  \* an invocation
         SpellLit(item.key) \o (IF item.value.items = <<>> THEN <<>> ELSE <<" ">> \o SpellRaw(item.value))
    [] OTHER -> SpellLit(item)

SpellEntry(f, entry, colon) ==
  LET key   == SpellLit(entry.key)
      value == CASE f = "raw" -> SpellRaw(entry.value)
                 [] f # "raw" /\ entry.value.kind = "list" -> Brackets(Spelled(entry.value.items))
                 [] OTHER -> SpellLit(entry.value)
      between == IF colon \/ f = "raw" THEN <<":", " ">>
                 ELSE CASE Separator[f] = "->" -> <<" ", "-", ">", " ">> [] OTHER -> <<Separator[f]>>
      mode  == IF f = "volume" /\ entry.readOnly THEN <<" ", "{", "read_only", "}">> ELSE <<>>
  IN  key \o between \o value \o mode

SpellMap(f, entries, style) ==
  LET spelled == [i \in DOMAIN entries |-> SpellEntry(f, entries[i], style.colon)]
  IN  IF style.braced THEN <<"{">> \o Joined(spelled, style.between) \o <<"}">> ELSE spelled[1]

SpellScalar(value) == IF value.kind = "list" THEN Brackets(Spelled(value.items)) ELSE SpellLit(value)

(* A struct in braces, or its primary field and the others after commas.   *)
SpellStruct(f, value, style) ==
  LET one(g) == <<g>> \o (IF Fields[f][g] = "flag" THEN <<>> ELSE <<":", " ">> \o SpellScalar(value[g]))
      fields == SetToSeq(DOMAIN value)
      others == SelectSeq(fields, LAMBDA g : g # PrimaryField[f])
  IN  IF style.braced THEN <<"{">> \o Joined([i \in DOMAIN fields |-> one(fields[i])], <<Newline>>) \o <<"}">>
      ELSE SpellScalar(value[PrimaryField[f]]) \o FlattenSeq([i \in DOMAIN others |-> Comma \o one(others[i])])

SpellValue(f, kind, value, style) ==
  CASE f = "with"        -> IF style.braced
                            THEN <<"{", "templates">> \o Brackets([i \in DOMAIN value.items |-> SpellItem(value.items[i])])
                                   \o <<"}">>
                            ELSE Joined([i \in DOMAIN value.items |-> SpellItem(value.items[i])], Comma)
    [] kind = "struct" /\ f # "with" -> SpellStruct(f, value, style)
    [] kind = "map"      -> SpellMap(f, value.items, style)
    [] kind \in {"references", "dependencies"} ->
         LET items_ == [i \in DOMAIN value.items |-> SpellItem(value.items[i])]
         IN  IF style.braced THEN Brackets(items_) ELSE Joined(items_, Comma)
    [] kind = "flag"     -> <<>>
    [] OTHER             -> SpellScalar(value)

KindOf(type, f) == IF f \in DOMAIN Fields[type] THEN Fields[type][f] ELSE "scalar"

SpellStatement(type, s) ==
  <<s.field>> \o (IF s.style.colon /\ KindOf(type, s.field) # "flag" THEN <<":">> ELSE <<>>) \o <<" ">>
    \o SpellValue(s.field, KindOf(type, s.field), s.value, s.style)

SpellDecl(d) ==
  IF d.type = "use" THEN <<"use", " ">> \o Quoted(d.path) \o <<" ", "as", " ">> \o d.name \o <<Newline>>
  ELSE <<d.type, " ">> \o d.name
         \o (IF d.type = "template" /\ d.params # <<>> THEN <<"(">> \o Joined(d.params, Comma) \o <<")">> ELSE <<>>)
         \o <<"{", " ">> \o Joined([i \in DOMAIN d.statements |-> SpellStatement(d.type, d.statements[i])], d.between)
         \o <<"}", Newline>>

Spell(program) == FlattenSeq([i \in DOMAIN program |-> SpellDecl(program[i])])

-------------------------------------------------------------------------------
(* What is written.                                                        *)
Holding(d, f) == SelectSeq(d.statements, LAMBDA s : s.field = f)
Written(d)    == {d.statements[i].field : i \in DOMAIN d.statements}

(* A list or a map is all of its statements', in order.                    *)
ValueWritten(d, f) ==
  LET kind == KindOf(d.type, f)
      all  == Holding(d, f)
  IN  IF kind \in Accumulating THEN Listed(FlattenSeq([i \in DOMAIN all |-> all[i].value.items])) ELSE all[1].value

FieldsWritten(d) ==
  [f \in Written(d) |->
     IF f = "publish" THEN Listed([i \in DOMAIN ValueWritten(d, f).items |-> Mount(ValueWritten(d, f).items[i], FALSE)])
     ELSE ValueWritten(d, f)]

Meaning(d) ==
  IF d.type = "use" THEN d
  ELSE IF d.type = "template" THEN [type |-> d.type, name |-> d.name, params |-> d.params, fields |-> FieldsWritten(d)]
  ELSE [type |-> d.type, name |-> d.name, fields |-> FieldsWritten(d)]

RECURSIVE Leaves(_), Depth(_), KeysDistinct(_)
Leaves(value) ==
  CASE value.kind = "list"       -> UNION {Leaves(item) : item \in ToSet(value.items)}
    [] value.kind = "pair"       -> Leaves(value.key) \cup Leaves(value.value)
    [] value.kind = "mount"      -> Leaves(value.key) \cup Leaves(value.value)
    [] value.kind = "dependency" -> {value.ref}
    [] value.kind = "field"      -> {value.base}
    [] OTHER                     -> {value}

Depth(value) ==
  IF value.kind # "list" THEN 1
  ELSE 1 + Max({0} \cup {Depth(IF item.kind = "pair" THEN item.value ELSE item) : item \in ToSet(value.items)})

KeysDistinct(value) ==
  value.kind = "list" =>
    /\ IsMapping(value) => \A i, j \in DOMAIN value.items : i < j => value.items[i].key.text # value.items[j].key.text
    /\ \A item \in ToSet(value.items) : KeysDistinct(IF item.kind = "pair" THEN item.value ELSE item)

LeavesOf(type, s) ==
  IF KindOf(type, s.field) = "struct" /\ s.field # "with"
  THEN UNION {Leaves(s.value[g]) : g \in DOMAIN s.value} ELSE Leaves(s.value)

(* The raw values of a statement: what `raw` and the arguments of an       *)
(* invocation hold.                                                        *)
RawValues(s) ==
  IF s.field = "raw" THEN {e.value : e \in ToSet(s.value.items)}
  ELSE IF s.field = "with" THEN UNION {{e.value : e \in ToSet(call.value.items)} : call \in ToSet(s.value.items)}
  ELSE {}

(* What a body may say: fields on lines of their own, each known, a value  *)
(* once, an entry once and apart from the next, parameters only of the     *)
(* template they are in, nothing too large or too deep.                    *)
EntriesApart(type, s) ==
  KindOf(type, s.field) = "map" /\ s.style.braced /\ Len(s.value.items) > 1 => s.style.between # <<" ">>

WellFormedBody(d) ==
  /\ Len(d.statements) > 1 => d.between # <<" ">>
  /\ Written(d) \subseteq DOMAIN Fields[d.type]
  /\ \A f \in Written(d) :
       /\ KindOf(d.type, f) \notin Accumulating => Len(Holding(d, f)) = 1
       /\ KindOf(d.type, f) = "map" =>
            LET entries == ValueWritten(d, f).items
            IN  \A i, j \in DOMAIN entries : Unique(f, entries[i]) = Unique(f, entries[j]) => i = j
  /\ \A s \in ToSet(d.statements) :
       /\ EntriesApart(d.type, s)
       /\ \A leaf \in LeavesOf(d.type, s) :
            /\ leaf.kind = "param"  => d.type = "template" /\ Contains(d.params, leaf.text)
            /\ leaf.kind = "number" => leaf.text \notin OutOfRange
       /\ \A value \in RawValues(s) : KeysDistinct(value) /\ Depth(value) <= MaxRawDepth

WellFormed(d) ==
  d.type # "use" => WellFormedBody(d) /\ (d.type = "template" => IsInjective(d.params))

(* A text that was written to say a program is its spelling.               *)
ASSUME SourcesAreSpelled ==
  \A source \in Sources : source.program # <<>> => source.text = Spell(source.program)

-------------------------------------------------------------------------------
(* Properties.                                                             *)

(* A file is accepted exactly when what it says is well formed.            *)
AcceptedIffWellFormed ==
  written # <<>> /\ outcome # "running" =>
    (outcome = "ok" <=> \A i \in DOMAIN written : WellFormed(written[i]))

(* The declarations parsed are those written, whatever sugar, separators,  *)
(* quotes and lines spelled them.                                          *)
ParsedAsWritten ==
  written # <<>> /\ outcome = "ok" => decls = [i \in DOMAIN written |-> Meaning(written[i])]

(* "A field access has no meaningful text form of its own before           *)
(* composition resolves it ..., so nothing downstream ever asks"           *)
(* (crates/hl-parser/src/ast.rs:157-161): two keys that read different     *)
(* declarations are not one key.                                           *)
ClashesAreOfOneKey ==
  outcome = "DuplicateMapKey" /\ written # <<>> =>
    \E d \in ToSet(written) : \E s, u \in ToSet(d.statements) :
      /\ s.field = u.field
      /\ \E e \in ToSet(s.value.items), g \in ToSet(u.value.items) : e # g /\ e.key = g.key
===============================================================================
