------------------------------ MODULE FieldAccess ------------------------------
(***************************************************************************)
(* Field accesses (`proxy.name`, `lib.proxy.name`, `$net.name` and the     *)
(* same inside a string) and references through an import alias, from the  *)
(* body that writes them to the document (hl-parser's compose.rs).         *)
(*                                                                         *)
(* They are resolved in three passes.  Written: in the scope a body was    *)
(* written in, before its `with` list.  Substituted: in the scope of an    *)
(* invocation, over what its arguments left in the body they were bound    *)
(* into.  Bound: over the finished service.  A service uses at most one    *)
(* template, which uses at most one; merges of several are FieldBags'.     *)
(***************************************************************************)
EXTENDS Integers, Sequences, FiniteSets, SequencesExt

CONSTANTS
  Files,    \* the declarations and the aliases of each file
  Programs  \* the programs to compile

None  == "none"   \* no error
Entry == "entry"  \* the file of the service, whose declarations a bare name sees

ServiceNameBinding == "name"

(* Text is a sequence of words and holes; the binding in a hole is a path. *)
Word(w)    == [hole |-> FALSE, path |-> <<w>>]
Hole(path) == [hole |-> TRUE, path |-> path]

Ident(w)       == [kind |-> "ident", text |-> <<Word(w)>>]
Number(w)      == [kind |-> "number", text |-> <<Word(w)>>]
Param(w)       == [kind |-> "param", text |-> <<Word(w)>>]
Qualified(a, d) == [kind |-> "qualified", text |-> <<Word(a), Word(d)>>]
Str(text)      == [kind |-> "str", text |-> text]
Access(base, f) == [kind |-> "field", text |-> <<Word(f)>>, base |-> base]
Unset          == [kind |-> "unset", text |-> <<>>]

(* The words of a literal that holds no hole.                              *)
Path(lit)    == [i \in DOMAIN lit.text |-> lit.text[i].path[1]]
NameIn(lit)  == Path(lit)[1]
FieldOf(acc) == Path(acc)[1]

(* One field stands for all of its kind: `image` for the values,           *)
(* `networks` for the references an alias may qualify, `mounts` for named  *)
(* volumes, which take no parameter, `dns` for references that refuse an   *)
(* alias.                                                                  *)
NoFields == [image |-> Unset, networks |-> <<>>, mounts |-> <<>>, dns |-> <<>>]
Lists    == {"networks", "mounts", "dns"}

(* The literals of a body.                                                 *)
Slots(fields) == {fields.image} \cup UNION {ToSet(fields[l]) : l \in Lists}

IsLiteral(lit) ==
  /\ lit.text \in Seq(ToSet(lit.text))
  /\ lit.kind = "field" => lit = [kind |-> "field", text |-> lit.text, base |-> lit.base]

(* A program as the parser lets it be written: where a value belongs `a.b` *)
(* is a field access, never a reference behind an alias.                   *)
IsProgram(p) ==
  /\ "service" \in DOMAIN p.bodies
  /\ \A b \in DOMAIN p.bodies :
       LET body == p.bodies[b]
       IN  /\ body.with \in DOMAIN p.bodies \cup {"none"}
           /\ body.fields = [l \in DOMAIN NoFields |-> body.fields[l]]
           /\ \A l \in Lists : body.fields[l] \in Seq(ToSet(body.fields[l]))
           /\ \A lit \in Slots(body.fields) \cup {body.arg} : IsLiteral(lit)
           /\ body.fields.image.kind # "qualified"

ASSUME ProgramsAssumption == \A p \in Programs : IsProgram(p)

Ok(value)   == [error |-> None, value |-> value]
Fail(error) == [error |-> error, value |-> <<>>]

(* The `?` of the code: the next step, or the error of this one.           *)
Then(result, Step(_)) == IF result.error # None THEN result ELSE Step(result.value)

(* A program maps the body of the service and of each template to its      *)
(* file, its parameter, its fields, the template it uses ("none" for none) *)
(* and the argument it passes.                                             *)
VARIABLES
  program,   \* the program being compiled
  frames,    \* the bodies being resolved
  imports,   \* the declarations references through an alias brought in
  document,  \* the document, once there is one
  outcome    \* "running", "ok" or the error that ended it

vars == <<program, frames, imports, document, outcome>>

Frame(b) == [body |-> b, stage |-> "entered", fields |-> program.bodies[b].fields,
             arg |-> program.bodies[b].arg, acc |-> NoFields]

Init ==
  /\ program \in Programs
  /\ frames = <<Frame("service")>>
  /\ imports = {}
  /\ document = NoFields
  /\ outcome = "running"

-------------------------------------------------------------------------------
(* Declarations.                                                           *)
Declared(file, kinds, name) == {d \in Files[file].decls : d.kind \in kinds /\ d.name = name}

(* read_field: a field is readable when it holds a value.                  *)
ReadField(decl, field) ==
  CASE field = "name" -> Ok(decl.real)
    [] field = "driver" /\ decl.kind = "volume" ->
         IF decl.driver = "" THEN Fail("DeclarationFieldUnset") ELSE Ok(decl.driver)
    [] field = "external" \/ (field = "driver_opts" /\ decl.kind = "volume") -> Fail("DeclarationFieldNotAValue")
    [] OTHER -> Fail("UnknownDeclarationField")

(* A network before a volume of the same name.                             *)
Preferred(decls) ==
  IF \E d \in decls : d.kind = "network" THEN CHOOSE d \in decls : d.kind = "network"
                                         ELSE CHOOSE d \in decls : TRUE

(* A bare base: the entry program's own declarations, wherever it is       *)
(* written.                                                                *)
BareDecl(name) ==
  LET decls == Declared(Entry, {"network", "volume"}, name)
  IN  IF decls # {} THEN Ok(Preferred(decls))
      ELSE IF Declared(Entry, {"service"}, name) # {} THEN Fail("FieldBaseNotDeclaration")
      ELSE Fail("FieldBaseNotDeclared")

(* A base behind an alias of the given file.                               *)
AliasedDecl(file, kinds, alias, name) ==
  IF alias \notin DOMAIN Files[file].aliases THEN Fail("UnknownAlias")
  ELSE LET decls == Declared(Files[file].aliases[alias], kinds, name)
       IN  IF decls = {} THEN Fail("UnknownQualifiedDeclaration") ELSE Ok(Preferred(decls))

QualifiedDecl(file, kinds, lit) == AliasedDecl(file, kinds, Path(lit)[1], Path(lit)[2])

-------------------------------------------------------------------------------
(* One pass over one literal.                                              *)
Passes == {"written", "substituted", "bound"}

(* Mutant: arguments are read where they are written only.                 *)
ClaimsUnlessSubstituted(pass, base) == pass # "substituted"

Claims(pass, base) == pass # "substituted" \/ base.kind = "qualified"

(* Mutant: a pass takes every binding it can read as an access.            *)
ClaimsAnyBinding(pass, base) == TRUE

(* A binding `{{a.b}}` may still be a parameter's until the service is     *)
(* finished; `{{a.b.c}}` cannot.                                           *)
ClaimsBinding(pass, base) == pass = "bound" \/ base.kind = "qualified"

(* Mutant: an alias is looked up where the service is written.             *)
ValueInEntryScope(acc, file) ==
  Then(IF acc.base.kind = "qualified" THEN QualifiedDecl(Entry, {"network", "volume"}, acc.base)
                                      ELSE BareDecl(NameIn(acc.base)),
       LAMBDA decl : ReadField(decl, FieldOf(acc)))

ValueOf(acc, file) ==
  Then(IF acc.base.kind = "qualified" THEN QualifiedDecl(file, {"network", "volume"}, acc.base)
                                      ELSE BareDecl(NameIn(acc.base)),
       LAMBDA decl : ReadField(decl, FieldOf(acc)))

(* binding_field_access, of a dotted binding of two or three parts.        *)
BindingAccess(path) ==
  IF Len(path) = 2 THEN Access(Ident(path[1]), path[2]) ELSE Access(Qualified(path[1], path[2]), path[3])

ResolvedPiece(piece, file, pass) ==
  IF ~piece.hole \/ Len(piece.path) = 1 THEN Ok(piece)
  ELSE IF Len(piece.path) > 3 THEN Fail("InterpolatedFieldAccessTooDeep")
  ELSE LET acc == BindingAccess(piece.path)
       IN  IF ~ClaimsBinding(pass, acc.base) THEN Ok(piece)
           ELSE Then(ValueOf(acc, file), LAMBDA value : Ok(Word(value)))

(* The results of a sequence of steps: the first error, or their values.   *)
Collected(results) ==
  LET failed == {i \in DOMAIN results : results[i].error # None}
  IN  IF failed # {} THEN results[Min(failed)] ELSE Ok([i \in DOMAIN results |-> results[i].value])

ResolveLiteral(lit, file, pass) ==
  CASE lit.kind = "field" /\ lit.base.kind # "param" /\ Claims(pass, lit.base) ->
         Then(ValueOf(lit, file), LAMBDA value : Ok(Str(<<Word(value)>>)))
    [] lit.kind = "str" ->
         Then(Collected([i \in DOMAIN lit.text |-> ResolvedPiece(lit.text[i], file, pass)]),
              LAMBDA text : Ok(Str(text)))
    [] OTHER -> Ok(lit)

(* A step over every slot of a body.                                       *)
OverSlots(fields, Value(_), Reference(_)) ==
  LET list(f) == Collected([i \in DOMAIN fields[f] |-> Reference(fields[f][i])])
  IN  Then(Collected(<<Value(fields.image), list("mounts"), list("networks"), list("dns")>>),
           LAMBDA read : Ok([image |-> read[1], mounts |-> read[2], networks |-> read[3], dns |-> read[4]]))

ResolveFields(fields, file, pass) ==
  OverSlots(fields, LAMBDA lit : ResolveLiteral(lit, file, pass), LAMBDA lit : ResolveLiteral(lit, file, pass))

(* In an argument, `a.b` passes the declaration b of the alias a, unless   *)
(* the program declares an a.                                              *)
ReinterpretArgument(lit, file) ==
  IF \/ lit.kind # "field" \/ lit.base.kind # "ident"
     \/ Declared(Entry, {"network", "volume", "service"}, NameIn(lit.base)) # {}
     \/ NameIn(lit.base) \notin DOMAIN Files[file].aliases
  THEN Ok(lit)
  ELSE Then(AliasedDecl(file, {"network", "volume"}, NameIn(lit.base), FieldOf(lit)),
            LAMBDA decl : Ok(Qualified(NameIn(lit.base), FieldOf(lit))))

-------------------------------------------------------------------------------
(* Substitution of the argument for the parameter p.  A string argument is *)
(* a plain name here.                                                      *)

(* The text an argument has in a string: of a parameter a hole for the     *)
(* scope that passed it, of an access to a parameter's field one with the  *)
(* sigil in it, which no scope binds and no program declares.              *)
ArgumentText(arg) ==
  CASE arg.kind = "param"     -> <<Hole(Path(arg))>>
    [] arg.kind = "field"     -> <<Hole(<<"$", FieldOf(arg)>>)>>
    [] arg.kind = "qualified" -> <<arg.text[2]>>
    [] OTHER                  -> arg.text

CarriesField(arg) == arg.kind \in {"ident", "str", "param", "qualified"}

SubstitutedPiece(piece, p, arg) ==
  IF ~piece.hole \/ piece.path[1] # p \/ piece.path = <<ServiceNameBinding>> THEN Ok(<<piece>>)
  ELSE IF Len(piece.path) = 1 THEN Ok(ArgumentText(arg))
  ELSE IF CarriesField(arg) THEN Ok(<<Hole(Path(arg) \o Tail(piece.path))>>)
  ELSE Fail("ArgumentCantCarryField")

SubstituteLiteral(lit, p, arg) ==
  CASE lit.kind = "param" -> Ok(arg)
    [] lit.kind = "field" /\ lit.base.kind = "param" ->
         IF CarriesField(arg) THEN Ok([lit EXCEPT !.base = arg]) ELSE Fail("ArgumentCantCarryField")
    [] lit.kind = "str" ->
         Then(Collected([i \in DOMAIN lit.text |-> SubstitutedPiece(lit.text[i], p, arg)]),
              LAMBDA text : Ok(Str(FlattenSeq(text))))
    [] OTHER -> Ok(lit)

SubstituteReference(lit, p, arg) ==
  IF lit.kind = "param" /\ arg.kind = "number" THEN Fail("ArgumentNotReferenceShaped")
  ELSE SubstituteLiteral(lit, p, arg)

Substitute(fields, p, arg) ==
  OverSlots(fields, LAMBDA lit : SubstituteLiteral(lit, p, arg), LAMBDA lit : SubstituteReference(lit, p, arg))

(* resolve_qualified_references: a reference behind an alias becomes the   *)
(* bare name of the declaration, which it brings into the program.  (The   *)
(* code names the kind in the error.)                                      *)
Bare(lit, kind, file) ==
  IF lit.kind # "qualified" THEN Ok(lit)
  ELSE Then(QualifiedDecl(file, {kind}, lit), LAMBDA decl : Ok(Ident(decl.name)))

QualifiedReferences(fields, file) ==
  LET networks == Collected([i \in DOMAIN fields.networks |-> Bare(fields.networks[i], "network", file)])
      mounts   == Collected([i \in DOMAIN fields.mounts |-> Bare(fields.mounts[i], "volume", file)])
  IN  Then(Collected(<<networks, mounts>>), LAMBDA lists :
        IF \E lit \in ToSet(fields.dns) : lit.kind = "qualified" THEN Fail("UnsupportedQualifiedReference")
        ELSE Ok([fields EXCEPT !.networks = lists[1], !.mounts = lists[2]]))

ImportsOf(fields, file) ==
  {QualifiedDecl(file, {"network"}, lit).value : lit \in {l \in ToSet(fields.networks) : l.kind = "qualified"}}
    \cup {QualifiedDecl(file, {"volume"}, lit).value : lit \in {l \in ToSet(fields.mounts) : l.kind = "qualified"}}

(* reject_qualified_values.                                                *)
NotAValue(fields) == fields.image.kind = "qualified"

(* A body's own fields over those of the template it uses.                 *)
AddDistinct(list, lit) ==
  IF \E i \in DOMAIN list : list[i].text = lit.text THEN list ELSE Append(list, lit)

Merge(acc, own) ==
  [image |-> IF own.image # Unset THEN own.image ELSE acc.image,
   networks |-> FoldLeft(AddDistinct, acc.networks, own.networks),
   mounts |-> acc.mounts \o own.mounts, dns |-> acc.dns \o own.dns]

-------------------------------------------------------------------------------
(* The document: codegen fills `{{name}}` and knows declarations only by   *)
(* their bare names, the program's own and the imported ones together.     *)
Composed(kind) == {d \in Files[Entry].decls \cup imports : d.kind = kind}

Printed(text) ==
  [i \in DOMAIN text |-> IF text[i].hole THEN Word(program.name) ELSE text[i]]

Attached(refs, kind) == [i \in DOMAIN refs |-> CHOOSE d \in Composed(kind) : Ident(d.name).text = refs[i].text]

GenerateError(fields) ==
  IF \E kind \in {"network", "volume"} : \E d, e \in Composed(kind) : d # e /\ d.name = e.name
  THEN "CollidingImportedDeclaration"
  ELSE IF \E i \in DOMAIN fields.image.text :
            fields.image.text[i].hole /\ fields.image.text[i].path # <<ServiceNameBinding>>
  THEN "UnknownInterpolation"
  ELSE IF \E lit \in ToSet(fields.mounts) : \A d \in Composed("volume") : Ident(d.name).text # lit.text
  THEN "UnknownVolume"
  ELSE IF \E lit \in ToSet(fields.networks) : \A d \in Composed("network") : Ident(d.name).text # lit.text
  THEN "UnknownNetwork"
  ELSE None

-------------------------------------------------------------------------------
Top       == frames[Len(frames)]
Caller    == frames[Len(frames) - 1]
FileOf(b) == program.bodies[b].file
At(stage) == outcome = "running" /\ Top.stage = stage

Callee == program.bodies[Top.body].with

(* What the step the top body is at comes to.                              *)
Scoped ==
  LET file == FileOf(Top.body)
  IN  Then(ReinterpretArgument(Top.arg, file), LAMBDA arg :
      Then(ResolveFields(Top.fields, file, "written"), LAMBDA fields :
      Then(ResolveLiteral(arg, file, "written"), LAMBDA read :
        Ok([Top EXCEPT !.stage = "scoped", !.fields = fields, !.arg = read]))))

Owned == QualifiedReferences(Top.fields, FileOf(Top.body))

Accessed ==
  Then(Substitute(Top.acc, program.bodies[Top.body].param, Caller.arg), LAMBDA fields :
    ResolveFields(fields, FileOf(Caller.body), "substituted"))

Delivered ==
  Then(Accessed, LAMBDA accessed :
  Then(QualifiedReferences(accessed, FileOf(Caller.body)), LAMBDA fields :
    IF NotAValue(fields) THEN Fail("QualifiedArgumentNotAValue") ELSE Ok(fields)))

Generated ==
  Then(ResolveFields(Top.acc, Entry, "bound"), LAMBDA fields :
    IF GenerateError(fields) # None THEN Fail(GenerateError(fields))
    ELSE Ok([image |-> Printed(fields.image.text), networks |-> Attached(fields.networks, "network"),
             mounts |-> Attached(fields.mounts, "volume"), dns |-> fields.dns]))

Error ==
  CASE Top.stage = "entered" -> Scoped.error
    [] Top.stage = "scoped"  -> IF Callee # "none" THEN None ELSE Owned.error
    [] Top.stage = "called"  -> Owned.error
    [] Top.stage = "merged" /\ Len(frames) > 1 -> Delivered.error
    [] OTHER -> Generated.error

SetTop(frame) == [frames EXCEPT ![Len(frames)] = frame]

(* The body's own accesses and arguments, where they are written.          *)
ResolveScoped ==
  /\ At("entered") /\ Error = None
  /\ frames' = SetTop(Scoped.value)
  /\ UNCHANGED <<program, imports, document, outcome>>

(* Mutant: the caller is taken up again where it was left.                 *)
InvokeUnmarked ==
  /\ At("scoped") /\ Callee # "none"
  /\ frames' = Append(frames, Frame(Callee))
  /\ UNCHANGED <<program, imports, document, outcome>>

Invoke ==
  /\ At("scoped") /\ Callee # "none"
  /\ frames' = Append(SetTop([Top EXCEPT !.stage = "called"]), Frame(Callee))
  /\ UNCHANGED <<program, imports, document, outcome>>

MergeOwn ==
  /\ At("called") \/ (At("scoped") /\ Callee = "none")
  /\ Error = None
  /\ frames' = SetTop([Top EXCEPT !.stage = "merged", !.acc = Merge(Top.acc, Owned.value)])
  /\ imports' = imports \cup ImportsOf(Top.fields, FileOf(Top.body))
  /\ UNCHANGED <<program, document, outcome>>

Return ==
  /\ At("merged") /\ Len(frames) > 1 /\ Error = None
  /\ frames' = Append(SubSeq(frames, 1, Len(frames) - 2), [Caller EXCEPT !.acc = Merge(@, Delivered.value)])
  /\ imports' = imports \cup ImportsOf(Accessed.value, FileOf(Caller.body))
  /\ UNCHANGED <<program, document, outcome>>

Finish ==
  /\ At("merged") /\ Len(frames) = 1 /\ Error = None
  /\ document' = Generated.value
  /\ outcome' = "ok"
  /\ UNCHANGED <<program, frames, imports>>

Reject ==
  /\ outcome = "running" /\ Error # None
  /\ outcome' = Error
  /\ UNCHANGED <<program, frames, imports, document>>

Next ==
  \/ ResolveScoped
  \/ Invoke
  \/ MergeOwn
  \/ Return
  \/ Finish
  \/ Reject

Spec == Init /\ [][Next]_vars
===============================================================================
