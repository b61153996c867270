------------------------------ MODULE FieldMeaning ------------------------------
(***************************************************************************)
(* What a value or a reference means, without an order of passes: a name   *)
(* in a body is the argument of that body's own parameter, or else what    *)
(* the file the body is written in calls by that name; an argument means   *)
(* what it means where it is written.                                      *)
(***************************************************************************)
EXTENDS FieldAccess

(* The bodies the service is made of, outermost first.                     *)
Chain ==
  LET with(b) == program.bodies[b].with
      second  == with("service")
  IN  <<"service">> \o (IF second = "none" THEN <<>>
                        ELSE IF with(second) = "none" THEN <<second>> ELSE <<second, with(second)>>)

(* Meanings: a name, a declaration, a number, a text, or nothing at all.   *)
Named(w)   == [means |-> "name", text |-> <<Word(w)>>]
TextOf(t)  == [means |-> "text", text |-> t]
Digits(t)  == [means |-> "number", text |-> t]
The(decl)  == [means |-> "decl", text |-> <<Word(decl.name)>>, decl |-> decl]
Nothing    == [means |-> "nothing", text |-> <<>>]

(* What could be looked up means As of it, what could not nothing.         *)
Means(looked, As(_)) == IF looked.error # None THEN Nothing ELSE As(looked.value)

FieldRead(value, field) ==
  Means(Then(CASE value.means = "decl" -> Ok(value.decl)
               [] value.means = "name" -> BareDecl(value.text[1].path[1])
               [] OTHER -> Fail("no declaration"),
             LAMBDA decl : ReadField(decl, field)),
        LAMBDA read : TextOf(<<Word(read)>>))

Aliased(file, kinds, path) == Means(AliasedDecl(file, kinds, path[1], path[2]), The)

Slot    == [network |-> "networks", volume |-> "mounts"]
AnyKind == DOMAIN Slot

(* A hole, in a body of the given file whose parameter p means env.        *)
PieceMeaning(piece, file, p, env) ==
  LET path == piece.path
  IN  CASE ~piece.hole                    -> TextOf(<<piece>>)
        [] path = <<ServiceNameBinding>>  -> TextOf(<<Word(program.name)>>)
        [] Len(path) = 1                  -> IF path[1] = p THEN env ELSE Nothing
        [] Len(path) > 3                  -> Nothing
        [] OTHER -> FieldRead(IF Len(path) = 3 THEN Aliased(file, AnyKind, path)
                              ELSE IF path[1] = p THEN env ELSE Named(path[1]), Last(path))

StringMeaning(lit, pieces) ==
  IF Len(pieces) = 1 /\ ~lit.text[1].hole THEN Named(NameIn(lit))
  ELSE IF \E i \in DOMAIN pieces : pieces[i].means = "nothing" THEN Nothing
  ELSE TextOf(FlattenSeq([i \in DOMAIN pieces |-> pieces[i].text]))

Meaning(lit, file, p, env) ==
  CASE lit.kind = "ident"     -> Named(NameIn(lit))
    [] lit.kind = "param"     -> env
    [] lit.kind = "qualified" -> Aliased(file, AnyKind, Path(lit))
    [] lit.kind = "field"     ->
         FieldRead(CASE lit.base.kind = "param"     -> env
                     [] lit.base.kind = "qualified" -> Aliased(file, AnyKind, Path(lit.base))
                     [] OTHER                       -> Named(NameIn(lit.base)), FieldOf(lit))
    [] lit.kind = "str"       ->
         StringMeaning(lit, [i \in DOMAIN lit.text |-> PieceMeaning(lit.text[i], file, p, env)])
    [] OTHER -> Digits(lit.text)

(* In an argument, a base the program does not declare is an alias; what   *)
(* is read off a base that is no parameter is a name like any string.      *)
AsArgument(lit, value) ==
  IF value.means = "text" /\ lit.base.kind # "param" THEN Named(value.text[1].path[1]) ELSE value

ArgumentMeaning(lit, file, p, env) ==
  IF /\ lit.kind = "field" /\ lit.base.kind = "ident"
     /\ Declared(Entry, AnyKind \cup {"service"}, NameIn(lit.base)) = {}
  THEN Aliased(file, AnyKind, <<NameIn(lit.base), FieldOf(lit)>>)
  ELSE AsArgument(lit, Meaning(lit, file, p, env))

(* What the parameter of each body in the chain means.                     *)
Env[i \in 1..3] ==
  IF i = 1 THEN Nothing
  ELSE LET caller == program.bodies[Chain[i - 1]]
       IN  ArgumentMeaning(caller.arg, caller.file, caller.param, Env[i - 1])

BodyAt(i)      == program.bodies[Chain[i]]
MeaningAt(i, lit) == Meaning(lit, BodyAt(i).file, BodyAt(i).param, Env[i])

(* The declaration a reference attaches: behind an alias the one of its    *)
(* kind, and by a bare name the program's own or an imported one.          *)
Reference(i, lit, kind) ==
  IF lit.kind = "qualified" THEN Aliased(BodyAt(i).file, {kind}, Path(lit)) ELSE MeaningAt(i, lit)

References(kind, field) ==
  UNION {{Reference(i, lit, kind) : lit \in ToSet(BodyAt(i).fields[field])} : i \in DOMAIN Chain}

Imported ==
  {m.decl : m \in {r \in UNION {References(kind, Slot[kind]) : kind \in AnyKind} : r.means = "decl"}}

Attachable(kind) == {d \in Files[Entry].decls \cup Imported : d.kind = kind}

Attaches(m, kind) ==
  IF m.means = "decl" THEN {d \in {m.decl} : d.kind = kind}
  ELSE {d \in Attachable(kind) : <<Word(d.name)>> = m.text}

(* The innermost body's references come first, each declaration once.      *)
AttachedInOrder ==
  LET inward == [n \in DOMAIN Chain |-> Len(Chain) + 1 - n]
      of(i)  == [j \in DOMAIN BodyAt(i).fields.networks |->
                   CHOOSE d \in Attaches(Reference(i, BodyAt(i).fields.networks[j], "network"), "network") : TRUE]
      all    == FlattenSeq([n \in DOMAIN inward |-> of(inward[n])])
  IN  FoldLeft(LAMBDA list, d : IF Contains(list, d) THEN list ELSE Append(list, d), <<>>, all)

(* The outermost image that is set.                                        *)
Setters     == {i \in DOMAIN Chain : BodyAt(i).fields.image # Unset}
Setter       == CHOOSE j \in Setters : \A k \in Setters : j <= k
ImageMeaning == IF Setters = {} THEN TextOf(<<>>) ELSE MeaningAt(Setter, BodyAt(Setter).fields.image)

(* A slot or an argument that means nothing, or nothing its place takes.   *)
UnreadableImage(i) ==
  LET lit   == BodyAt(i).fields.image
      image == MeaningAt(i, lit)
  IN  image.means = "nothing" \/ (lit.kind \in {"param", "qualified"} /\ image.means = "decl")

UnreadableArgument(i) ==
  LET body == BodyAt(i)
  IN  body.arg # Unset /\ ArgumentMeaning(body.arg, body.file, body.param, Env[i]).means = "nothing"

Unattachable(i) ==
  LET refs(kind, field) == {Reference(i, lit, kind) : lit \in ToSet(BodyAt(i).fields[field])}
  IN  \/ \E kind \in AnyKind : \E m \in refs(kind, Slot[kind]) : Attaches(m, kind) = {}
      \/ \E m \in refs("none", "dns") : m.means \in {"nothing", "decl", "number"}

Meaningless(i) == UnreadableImage(i) \/ UnreadableArgument(i) \/ Unattachable(i)

Collide == \E kind \in AnyKind : \E d, e \in Attachable(kind) : d # e /\ d.name = e.name

(* Names that are read in another scope than their own.  A word an         *)
(* argument or a reference writes, or the head of a binding that is no     *)
(* parameter of its body, is the name of a parameter of the caller or of   *)
(* the body itself.                                                        *)
Heads(lit) == IF lit.kind = "str" THEN {lit.text[i].path[1] : i \in {j \in DOMAIN lit.text : lit.text[j].hole}} ELSE {}
Words(lit) == IF lit.kind \in {"ident", "str"} THEN {lit.text[i].path[1] : i \in DOMAIN lit.text} ELSE {}

Captured ==
  LET params == {program.bodies[b].param : b \in DOMAIN program.bodies}
      loose(b) == LET body == program.bodies[b]
                  IN  Words(body.arg) \cup UNION {Words(lit) : lit \in ToSet(body.fields.networks)}
                        \cup (Heads(body.fields.image) \ {body.param})
  IN  \E b \in DOMAIN program.bodies : loose(b) \cap params # {}

(* An argument that reads a field of a parameter, for use inside a string. *)
ForwardsAccess ==
  \E i \in DOMAIN Chain :
    /\ i > 1 /\ BodyAt(i - 1).arg.kind = "field" /\ BodyAt(i - 1).arg.base.kind = "param"
    /\ <<BodyAt(i).param>> \in {BodyAt(i).fields.image.text[j].path : j \in DOMAIN BodyAt(i).fields.image.text}
-------------------------------------------------------------------------------
(* Properties.                                                             *)

(* Each frame below the top has called the one above it, and what is       *)
(* attached is of the kind the position takes.                             *)
TypeOK ==
  /\ frames[1].body = "service"
  /\ \A i \in 1..(Len(frames) - 1) :
       frames[i].stage = "called" /\ frames[i + 1].body = program.bodies[frames[i].body].with
  /\ \A d \in ToSet(document.networks) : d.kind = "network"
  /\ \A d \in ToSet(document.mounts) : d.kind = "volume"
  /\ document # NoFields => outcome = "ok"

(* Names are lexically scoped: the image a document prints and the         *)
(* networks it attaches are what the bodies that wrote them meant, where   *)
(* they were written, through any forwarding of arguments and any number   *)
(* of files, unless a name coincides with a parameter of another scope.    *)
DocumentIsLexical ==
  outcome = "ok" /\ ~Captured =>
    /\ document.image = ImageMeaning.text
    /\ document.networks = AttachedInOrder

(* A program is refused for a name only if one means nothing or something *)
(* its place cannot hold, or two declarations would share a name in the    *)
(* document, and it is refused if that is so of anything the document      *)
(* would show.                                                             *)
RefusedIffMeaningless ==
  ~Captured =>
    /\ outcome \notin {"running", "ok"} /\ ~ForwardsAccess =>
         Collide \/ \E i \in DOMAIN Chain : Meaningless(i)
    /\ outcome = "ok" =>
         /\ ~Collide
         /\ \A i \in DOMAIN Chain : ~Unattachable(i)
         /\ Setters # {} => ~UnreadableImage(Setter)

(* An alias means something in one file only: what a template is resolved  *)
(* to holds none of its own, and what an invocation returns to its caller  *)
(* none at all, before the scope is left.                                  *)
AliasesStayHome ==
  \A f \in DOMAIN frames : \A lit \in Slots(frames[f].acc) :
    /\ lit.kind # "qualified"
    /\ lit.kind = "field" => lit.base.kind # "qualified"
    /\ lit.kind = "str" => \A i \in DOMAIN lit.text : lit.text[i].hole => Len(lit.text[i].path) < 3

(* "A field-access argument defers exactly the way a forwarded parameter   *)
(* does, as the dotted binding it already spells"                          *)
(* (crates/hl-parser/src/compose.rs:3308-3310).                            *)
ForwardedAccessIsRead ==
  outcome \notin {"running", "ok"} /\ ~Captured =>
    Collide \/ \E i \in DOMAIN Chain : Meaningless(i)
===============================================================================
