--------------------------------- MODULE Parser ---------------------------------
(***************************************************************************)
(* The parser (hl-parser's parser.rs, over the tables of schema.rs): a     *)
(* recursive descent, here its call stack.  The goal on top of `todo` is   *)
(* the call being made; it takes tokens, leaves values on `built` and      *)
(* calls others, or refuses the text.  A span is not kept of what it       *)
(* spans.                                                                  *)
(***************************************************************************)
EXTENDS Lexer, TLC

CONSTANTS
  MaxRawDepth,  \* MAX_RAW_VALUE_DEPTH, 128 in the code
  OutOfRange    \* the digits of no 64-bit number

VARIABLES
  pos,     \* the token the parser looks at
  todo,    \* the calls, innermost first
  built,   \* the values of the calls that have returned, latest last
  scope,   \* whether a template is open, and its parameters
  decls,   \* the declarations so far
  outcome  \* "running", "ok" or the error that ended it

parserVars == <<pos, todo, built, scope, decls, outcome>>

Outside == [open |-> FALSE, params |-> <<>>]

ParserInit ==
  /\ pos = 1
  /\ todo = <<<<"program">>>>
  /\ built = <<>> /\ decls = <<>>
  /\ scope = Outside
  /\ outcome = "running"

-------------------------------------------------------------------------------
(* schema.rs.  One field stands for all of its kind: `container_name` for  *)
(* the scalars, `command` for those that are a value or a list, `networks` *)
(* for the references, `env` and `publish` for the other maps.             *)
ServiceFields ==
  [image |-> "struct", build |-> "struct", expose |-> "struct", healthcheck |-> "struct", with |-> "struct",
   publish |-> "map", volume |-> "map", env |-> "map", labels |-> "map", raw |-> "map",
   container_name |-> "scalar", command |-> "scalarOrList", privileged |-> "flag",
   networks |-> "references", depends_on |-> "dependencies"]

NetworkFields     == [external |-> "flag", name |-> "scalar"]
VolumeFields      == [external |-> "flag", name |-> "scalar", driver |-> "scalar", driver_opts |-> "map"]
BuildFields       == [context |-> "scalar", dockerfile |-> "scalar"]
HealthcheckFields == [test |-> "scalarOrList", interval |-> "scalar", disable |-> "flag"]

Fields ==
  [service |-> ServiceFields, template |-> ServiceFields, network |-> NetworkFields, volume |-> VolumeFields,
   build |-> BuildFields, healthcheck |-> HealthcheckFields,
   image |-> [ref |-> "scalar"], expose |-> [port |-> "scalar"], with |-> [templates |-> "invocations"]]

TopLevel     == {"network", "volume", "service"}
PrimaryField == [image |-> "ref", build |-> "context", expose |-> "port", with |-> "templates"]
Separator    == [publish |-> "->", volume |-> "->", env |-> "=", labels |-> ":", driver_opts |-> ":"]
ByValue      == {"publish", "volume"}  \* the maps with one entry for each value
Moved        == {"router", "traefik", "middleware"}
Bodies       == {"service", "template"}

(* resolve_field.                                                          *)
Knows(type, word) == \E f \in DOMAIN Fields[type] : word = <<f>>
Named(type, word) == CHOOSE f \in DOMAIN Fields[type] : word = <<f>>

-------------------------------------------------------------------------------
(* Literals and lists.                                                     *)
Lit(kind, word)  == [kind |-> kind, text |-> word]
Listed(values)   == [kind |-> "list", items |-> values]
Qualified(a, n)  == [kind |-> "qualified", alias |-> a, text |-> n]
Access(base, f)  == [kind |-> "field", base |-> base, text |-> f]
Flag             == Lit("flag", <<>>)
NoFields         == [f \in {} |-> Flag]

(* Looking ahead, past the end is the end.                                 *)
Token(i) == IF i <= Len(items) THEN items[i] ELSE items[Len(items)]
Peek     == Token(pos)
Next2    == Token(pos + 1)
Is(kind) == Peek.kind = kind
Word(w)  == Is("Ident") /\ Peek.lexeme = <<w>>

TextOf(token) == IF token.kind = "Str" THEN Unescaped(token.lexeme) ELSE token.lexeme
KeyKinds      == {"Ident", "Str"}
Key(token)    == Lit(IF token.kind = "Str" THEN "str" ELSE "ident", TextOf(token))
AtValueStart  == Peek.kind \in {"Ident", "Str", "Number", "[", "$"}
SameLine      == Token(pos - 1).span.line = Peek.span.line

At(goal)  == outcome = "running" /\ lexed /\ errors = <<>> /\ todo[1][1] = goal
Goal      == todo[1]
Top       == built[Len(built)]
Beneath   == built[Len(built) - 1]

(* Takes n tokens, leaves values and makes calls in the goal's place.      *)
Continue(n, values, goals) ==
  /\ pos' = pos + n
  /\ built' = built \o values
  /\ todo' = goals \o Tail(todo)
  /\ UNCHANGED <<scope, decls, outcome>>

(* Takes n tokens and puts a value in the place of the last k.             *)
Replace(n, k, value) ==
  /\ pos' = pos + n
  /\ built' = Append(SubSeq(built, 1, Len(built) - k), value)
  /\ todo' = Tail(todo)
  /\ UNCHANGED <<scope, decls, outcome>>

Refuse(error) ==
  /\ outcome' = error
  /\ UNCHANGED <<pos, todo, built, scope, decls>>

Unexpected == Refuse("UnexpectedToken")

-------------------------------------------------------------------------------
(* Literals and references.                                                *)
ParamError ==
  IF Next2.kind # "Ident" THEN "UnexpectedToken"
  ELSE IF ~scope.open THEN "ParamReferenceOutsideTemplate"
  ELSE IF ~Contains(scope.params, Next2.lexeme) THEN "UnknownTemplateParam"
  ELSE "none"

(* `$name`, and what may follow it.                                        *)
ParamReference(after) ==
  IF ParamError # "none" THEN Refuse(ParamError) ELSE Continue(2, <<Lit("param", Next2.lexeme)>>, <<after>>)

ParseLiteral ==
  /\ At("literal")
  /\ \/ Is("Str") /\ Continue(1, <<Key(Peek)>>, <<>>)
     \/ Is("Ident") /\ Continue(1, <<Key(Peek)>>, <<<<"access">>>>)
     \/ Is("Number") /\ IF Peek.lexeme \in OutOfRange THEN Refuse("NumberOutOfRange")
                        ELSE Continue(1, <<Lit("number", Peek.lexeme)>>, <<>>)
     \/ Is("$") /\ ParamReference(<<"access">>)
     \/ Peek.kind \notin {"Str", "Ident", "Number", "$"} /\ Unexpected

(* The `.word`s from here on, of which the last may lack its word.         *)
Segments ==
  CHOOSE n \in 0..Len(items) :
    /\ \A i \in 0..(n - 1) : Token(pos + 2 * i).kind = "." /\ Token(pos + 2 * i + 1).kind = "Ident"
    /\ ~(Token(pos + 2 * n).kind = "." /\ Token(pos + 2 * n + 1).kind = "Ident")
Segment(i) == Token(pos + 2 * i - 1).lexeme
Dangling   == Token(pos + 2 * Segments).kind = "."

Accessed(value) == Replace(2 * Segments, 1, value)

(* parse_field_access: `base.field`, or `alias.decl.field`.                *)
ParseFieldAccess ==
  /\ At("access")
  /\ \/ Dangling /\ Unexpected
     \/ ~Dangling /\ Segments = 0 /\ Accessed(Top)
     \/ ~Dangling /\ Segments = 1 /\ Accessed(Access(Top, Segment(1)))
     \/ ~Dangling /\ Segments = 2 /\ Top.kind # "param"
          /\ Accessed(Access(Qualified(Top.text, Segment(1)), Segment(2)))
     \/ ~Dangling /\ (Segments > 2 \/ (Segments = 2 /\ Top.kind = "param")) /\ Refuse("FieldAccessTooDeep")

(* parse_literal_reference: `name`, `alias.name` or `$param`, of which no  *)
(* field is read.                                                          *)
ParseReference ==
  /\ At("reference")
  /\ \/ Is("$") /\ ParamReference(<<"no access">>)
     \/ Is("Ident") /\ Next2.kind = "."
          /\ IF Token(pos + 2).kind # "Ident" THEN Unexpected
             ELSE Continue(3, <<Qualified(Peek.lexeme, Token(pos + 2).lexeme)>>, <<<<"no access">>>>)
     \/ Peek.kind \in KeyKinds /\ ~(Is("Ident") /\ Next2.kind = ".") /\ Continue(1, <<Key(Peek)>>, <<>>)
     \/ Peek.kind \notin KeyKinds \cup {"$"} /\ Unexpected

RejectFieldAccess ==
  /\ At("no access")
  /\ IF Is(".") THEN Refuse(IF Dangling THEN "UnexpectedToken" ELSE "FieldAccessInReferencePosition")
     ELSE Continue(0, <<>>, <<>>)

-------------------------------------------------------------------------------
(* Lists: `open item, item close`, and without brackets `item, item`.      *)
Bracketed(item, close) == Continue(1, <<Listed(<<>>)>>, <<<<"first", item, close>>>>)
Bare(item)             == Continue(0, <<Listed(<<>>)>>, <<item, <<"add">>, <<"rest", item>>>>)

ParseFirst ==
  /\ At("first")
  /\ IF Is(Goal[3]) THEN Continue(1, <<>>, <<>>)
     ELSE Continue(0, <<>>, <<Goal[2], <<"add">>, <<"more", Goal[2], Goal[3]>>>>)

ParseMore ==
  /\ At("more")
  /\ \/ Is(",") /\ Continue(1, <<>>, <<Goal[2], <<"add">>, Goal>>)
     \/ Is(Goal[3]) /\ Continue(1, <<>>, <<>>)
     \/ ~Is(",") /\ ~Is(Goal[3]) /\ Unexpected

(* A comma before `key:` is not the list's.                                *)
CommaStartsField == Next2.kind \in KeyKinds /\ Token(pos + 2).kind = ":"

ParseRest ==
  /\ At("rest")
  /\ IF Is(",") /\ (Goal[2] = <<"invocation">> \/ ~CommaStartsField)
     THEN Continue(1, <<>>, <<Goal[2], <<"add">>, Goal>>)
     ELSE Continue(0, <<>>, <<>>)

Add == At("add") /\ Replace(0, 2, Listed(Append(Beneath.items, Top)))

ParseListValue ==
  /\ At("list")
  /\ \/ Is("[") /\ Bracketed(Goal[2], "]")
     \/ ~Is("[") /\ AtValueStart /\ Bare(Goal[2])
     \/ ~AtValueStart /\ Unexpected

ParseScalarOrList ==
  /\ At("scalarOrList")
  /\ IF Is("[") THEN Bracketed(<<"literal">>, "]") ELSE Continue(0, <<>>, <<<<"literal">>>>)

(* parse_depends_on_entry: a reference and perhaps `{ condition: word }`.  *)
ParseDependency ==
  /\ At("dependency")
  /\ Continue(0, <<>>, <<<<"reference">>, <<"condition">>>>)

Conditions == {<<"service_started">>, <<"service_healthy">>}

Dependency(condition) == [kind |-> "dependency", ref |-> Top, condition |-> condition]

ConditionError ==
  LET value == Token(pos + 3)
  IN  IF Next2.kind # "Ident" THEN "UnexpectedToken"
      ELSE IF Next2.lexeme # <<"condition">> THEN "UnknownField"
      ELSE IF Token(pos + 2).kind # ":" \/ value.kind \notin KeyKinds THEN "UnexpectedToken"
      ELSE IF value.lexeme \notin Conditions THEN "InvalidDependsOnCondition"
      ELSE IF Token(pos + 4).kind # "}" THEN "UnexpectedToken" ELSE "none"

ParseCondition ==
  /\ At("condition")
  /\ \/ ~Is("{") /\ Replace(0, 1, Dependency(<<>>))
     \/ Is("{") /\ ConditionError = "none" /\ Replace(5, 1, Dependency(Token(pos + 3).lexeme))
     \/ Is("{") /\ ConditionError # "none" /\ Refuse(ConditionError)

(* parse_template_invocation: `name`, `alias.name`, and perhaps arguments. *)
Invoked(n, name) ==
  \/ Token(pos + n).kind = "{" /\ Continue(n + 1, <<name, Listed(<<>>)>>, <<<<"entries", "raw">>, <<"pair">>>>)
  \/ Token(pos + n).kind # "{" /\ Continue(n, <<name, Listed(<<>>)>>, <<<<"pair">>>>)

ParseInvocation ==
  /\ At("invocation")
  /\ \/ Is("Ident") /\ Next2.kind # "." /\ Invoked(1, Key(Peek))
     \/ Is("Ident") /\ Next2.kind = "." /\ Token(pos + 2).kind = "Ident"
          /\ Invoked(3, Qualified(Peek.lexeme, Token(pos + 2).lexeme))
     \/ ~Is("Ident") /\ Unexpected
     \/ Is("Ident") /\ Next2.kind = "." /\ Token(pos + 2).kind # "Ident" /\ Unexpected

Pair == At("pair") /\ Replace(0, 2, [kind |-> "pair", key |-> Beneath, value |-> Top])

-------------------------------------------------------------------------------
(* Maps.  `{ entry, entry }`, where a newline may stand for the comma, or  *)
(* one entry.                                                              *)
ParseMap ==
  /\ At("map")
  /\ \/ Is("{") /\ Continue(1, <<Listed(<<>>)>>, <<<<"entries", Goal[2]>>>>)
     \/ AtValueStart /\ Continue(0, <<Listed(<<>>)>>, <<<<"entry", Goal[2]>>, <<"add">>>>)
     \/ ~Is("{") /\ ~AtValueStart /\ Unexpected

ParseMapBody ==
  /\ At("entries")
  /\ IF Is("}") THEN Continue(1, <<>>, <<>>)
     ELSE Continue(0, <<>>, <<<<"entry", Goal[2]>>, <<"add">>, <<"separated">>, Goal>>)

ParseSeparated ==
  /\ At("separated")
  /\ \/ Is(",") /\ Continue(1, <<>>, <<>>)
     \/ ~Is(",") /\ (Is("}") \/ ~SameLine) /\ Continue(0, <<>>, <<>>)
     \/ ~Is(",") /\ ~Is("}") /\ SameLine /\ Unexpected

RawKey == Peek.kind \in KeyKinds /\ Next2.kind = ":"

ParseEntry ==
  /\ At("entry")
  /\ \/ Goal[2] = "raw" /\ IF RawKey THEN Continue(2, <<Key(Peek)>>, <<<<"raw", 1>>, <<"pair">>>>) ELSE Unexpected
     \/ Goal[2] = "volume"
          /\ Continue(0, <<>>, <<<<IF Is("Ident") THEN "reference" ELSE "literal">>, <<"separator", "volume">>,
                                <<"literal">>, <<"pair">>, <<"read only">>>>)
     \/ Goal[2] \notin {"raw", "volume"}
          /\ Continue(0, <<>>, <<<<"literal">>, <<"separator", Goal[2]>>,
                                <<IF Goal[2] = "labels" THEN "scalarOrList" ELSE "literal">>, <<"pair">>>>)

ParseSeparator ==
  /\ At("separator")
  /\ IF Peek.kind \in {":", Separator[Goal[2]]} THEN Continue(1, <<>>, <<>>)
     ELSE Refuse("MapEntryMissingSeparator")

Mount(entry, readOnly) == [kind |-> "mount", key |-> entry.key, value |-> entry.value, readOnly |-> readOnly]

ReadOnlyError ==
  IF Next2.kind # "Ident" THEN "UnexpectedToken"
  ELSE IF Next2.lexeme # <<"read_only">> THEN "UnknownField"
  ELSE IF Token(pos + 2).kind # "}" THEN "UnexpectedToken" ELSE "none"

ParseReadOnly ==
  /\ At("read only")
  /\ \/ ~Is("{") /\ Replace(0, 1, Mount(Top, FALSE))
     \/ Is("{") /\ ReadOnlyError = "none" /\ Replace(3, 1, Mount(Top, TRUE))
     \/ Is("{") /\ ReadOnlyError # "none" /\ Refuse(ReadOnlyError)

(* parse_raw_value, at its level of nesting.                               *)
ParseRawValue ==
  /\ At("raw")
  /\ LET level == Goal[2]
     IN  \/ level > MaxRawDepth /\ Refuse("RawValueTooDeep")
         \/ level <= MaxRawDepth /\ Is("[") /\ Bracketed(<<"raw", level + 1>>, "]")
         \/ level <= MaxRawDepth /\ Is("{") /\ Continue(1, <<Listed(<<>>)>>, <<<<"raw map", level + 1>>>>)
         \/ level <= MaxRawDepth /\ Peek.kind \notin {"[", "{"} /\ Continue(0, <<>>, <<<<"literal">>>>)

ParseRawMap ==
  /\ At("raw map")
  /\ \/ Is("}") /\ Continue(1, <<>>, <<>>)
     \/ RawKey /\ Continue(2, <<Key(Peek)>>, <<<<"raw", Goal[2]>>, <<"pair">>, <<"raw pair">>, Goal>>)
     \/ ~Is("}") /\ ~RawKey /\ Unexpected

HasKey(entries, key) == \E i \in DOMAIN entries : entries[i].key.text = key.text

(* An entry of a nested mapping, and the comma that may follow it.         *)
AddRawPair ==
  /\ At("raw pair")
  /\ IF HasKey(Beneath.items, Top.key) THEN Refuse("DuplicateMapKey")
     ELSE Replace(IF Is(",") THEN 1 ELSE 0, 2, Listed(Append(Beneath.items, Top)))

-------------------------------------------------------------------------------
(* Bodies and the statements in them.                                      *)
ParseBody ==
  /\ At("body")
  /\ IF Is("{") THEN Continue(1, <<NoFields>>, <<<<"fields", Goal[2], TRUE>>>>) ELSE Unexpected

(* Mutant: fields of one body may share a line.                            *)
ParseFieldsAnyLayout ==
  /\ At("fields")
  /\ \/ Is("}") /\ Continue(1, <<>>, <<>>)
     \/ ~Is("}") /\ Continue(0, <<>>, <<<<"statement", Goal[2]>>, <<"fields", Goal[2], FALSE>>>>)

ParseFields ==
  /\ At("fields")
  /\ \/ Is("}") /\ Continue(1, <<>>, <<>>)
     \/ ~Is("}") /\ (Goal[3] \/ ~SameLine)
          /\ Continue(0, <<>>, <<<<"statement", Goal[2]>>, <<"fields", Goal[2], FALSE>>>>)
     \/ ~Is("}") /\ ~Goal[3] /\ SameLine /\ Unexpected

ValueGoal(type, f) ==
  LET kind == Fields[type][f]
  IN  CASE kind = "scalar"       -> <<"literal">>
        [] kind = "scalarOrList" -> <<"scalarOrList">>
        [] kind = "references"   -> <<"list", <<"reference">>>>
        [] kind = "dependencies" -> <<"list", <<"dependency">>>>
        [] kind = "invocations"  -> <<"list", <<"invocation">>>>
        [] kind = "struct"       -> <<"nested", f>>
        [] kind = "map"          -> <<"map", f>>

StatementError(type, word) ==
  IF Peek.kind \notin KeyKinds THEN "UnexpectedToken"
  ELSE IF ~Knows(type, word)
  THEN IF type \in Bodies /\ \E m \in Moved : word = <<m>> THEN "MovedField" ELSE "UnknownField"
  ELSE IF Fields[type][Named(type, word)] = "flag" /\ Next2.kind = ":" THEN "UnexpectedToken" ELSE "none"

ParseStatement ==
  /\ At("statement")
  /\ LET type  == Goal[2]
         error == StatementError(type, TextOf(Peek))
         f     == Named(type, TextOf(Peek))
         insert == <<"insert", type, f>>
     IN  \/ error # "none" /\ Refuse(error)
         \/ error = "none" /\ Fields[type][f] = "flag" /\ Continue(1, <<Flag>>, <<insert>>)
         \/ error = "none" /\ Fields[type][f] # "flag"
              /\ Continue(IF Next2.kind = ":" THEN 2 ELSE 1, <<>>, <<ValueGoal(type, f), insert>>)

(* A struct's body, or its primary field's value and then other fields,    *)
(* each after a comma.                                                     *)
ParseNested ==
  /\ At("nested")
  /\ LET t       == Goal[2]
         bare    == t \in DOMAIN PrimaryField /\ AtValueStart
         primary == PrimaryField[t]
     IN  \/ Is("{") /\ Continue(0, <<>>, <<<<"body", t>>>>)
         \/ bare /\ Continue(0, <<NoFields>>, <<ValueGoal(t, primary), <<"insert", t, primary>>, <<"secondary", t>>>>)
         \/ ~Is("{") /\ ~bare /\ Unexpected

ParseSecondary ==
  /\ At("secondary")
  /\ LET continues == Is(",") /\ Next2.kind \in KeyKinds /\ Knows(Goal[2], Next2.lexeme)
         as        == Goal[2] = "expose" /\ Word("as")
     IN  \/ continues /\ Continue(1, <<>>, <<<<"statement", Goal[2]>>, Goal>>)
         \/ as /\ Refuse("RemovedExposeAsSugar")
         \/ ~continues /\ ~as /\ Continue(0, <<>>, <<>>)

(* Accumulation.  The text an entry must not share with another's.         *)
Unique(f, entry) == IF f \in ByValue THEN entry.value.text ELSE entry.key.text

Clash(f, entries) == \E i, j \in DOMAIN entries : i < j /\ Unique(f, entries[i]) = Unique(f, entries[j])

Accumulating == {"map", "references", "dependencies", "invocations"}

(* Mutant: a later field takes the place of an earlier one.                *)
InsertLatest == At("insert") /\ Replace(0, 2, (Goal[3] :> Top) @@ Beneath)

Insert ==
  /\ At("insert")
  /\ LET f    == Goal[3]
         kind == Fields[Goal[2]][f]
         held == f \in DOMAIN Beneath
         all  == IF held THEN Beneath[f].items \o Top.items ELSE Top.items
     IN  \/ kind \in Accumulating
             /\ IF kind = "map" /\ Clash(f, all) THEN Refuse("DuplicateMapKey")
                ELSE Replace(0, 2, (f :> Listed(all)) @@ Beneath)
         \/ kind \notin Accumulating
             /\ IF held THEN Refuse("DuplicateField") ELSE Replace(0, 2, (f :> Top) @@ Beneath)

-------------------------------------------------------------------------------
(* Declarations.                                                           *)
TopDeclError ==
  IF ~Is("Ident") THEN "UnexpectedToken"
  ELSE IF \A t \in TopLevel \cup {"template", "use"} : ~Word(t) THEN "UnknownTopLevelType"
  ELSE IF ~Word("use") /\ Next2.kind # "Ident" THEN "UnexpectedToken" ELSE "none"

ParseTopDecl ==
  /\ At("program") /\ ~Is("Eof")
  /\ LET header(type, goals) ==
           Continue(2, <<Key(Next2)>>, goals \o <<<<"body", type>>, <<"declare", type>>, <<"program">>>>)
     IN  \/ TopDeclError # "none" /\ Refuse(TopDeclError)
         \/ TopDeclError = "none" /\ Word("use") /\ Continue(0, <<>>, <<<<"use">>, <<"program">>>>)
         \/ TopDeclError = "none" /\ Word("template") /\ header("template", <<<<"params">>>>)
         \/ TopDeclError = "none" /\ \E type \in TopLevel : Word(type) /\ header(type, <<>>)

Declare(decl) == decls' = Append(decls, decl)

ParseUse ==
  /\ At("use")
  /\ LET as == Token(pos + 2)
     IN  IF Next2.kind # "Str" \/ as.kind # "Ident" \/ as.lexeme # <<"as">> \/ Token(pos + 3).kind # "Ident"
         THEN Unexpected
         ELSE /\ pos' = pos + 4
              /\ todo' = Tail(todo)
              /\ Declare([type |-> "use", name |-> Token(pos + 3).lexeme, path |-> TextOf(Next2)])
              /\ UNCHANGED <<built, scope, outcome>>

ParseParams ==
  /\ At("params")
  /\ IF Is("(") THEN Continue(1, <<Listed(<<>>)>>, <<<<"first", <<"param">>, ")">>, <<"scope">>>>)
     ELSE Continue(0, <<Listed(<<>>)>>, <<<<"scope">>>>)

ParseParam ==
  /\ At("param")
  /\ IF ~Is("Ident") THEN Unexpected
     ELSE IF Contains(Top.items, Peek.lexeme) THEN Refuse("DuplicateTemplateParam")
     ELSE Continue(1, <<Peek.lexeme>>, <<>>)

OpenScope ==
  /\ At("scope")
  /\ scope' = [open |-> TRUE, params |-> Top.items]
  /\ todo' = Tail(todo)
  /\ UNCHANGED <<pos, built, decls, outcome>>

(* lower_*: a body's fields as the declaration holds them.                 *)
Lowered(fields) ==
  [f \in DOMAIN fields |->
     CASE f = "with"    -> IF "templates" \in DOMAIN fields[f] THEN fields[f]["templates"] ELSE Listed(<<>>)
       [] f = "publish" -> Listed([i \in DOMAIN fields[f].items |-> Mount(fields[f].items[i], FALSE)])
       [] OTHER         -> fields[f]]

Declared(type, fields) ==
  IF type = "template"
  THEN [type |-> type, name |-> built[Len(built) - 2].text, params |-> Beneath.items, fields |-> fields]
  ELSE [type |-> type, name |-> Beneath.text, fields |-> fields]

(* Mutant: the parameters of a template outlive its body.                  *)
FinishDeclInScope ==
  /\ At("declare")
  /\ Declare(Declared(Goal[2], Lowered(Top)))
  /\ built' = <<>>
  /\ todo' = Tail(todo)
  /\ UNCHANGED <<pos, scope, outcome>>

FinishDecl ==
  /\ At("declare")
  /\ Declare(Declared(Goal[2], Lowered(Top)))
  /\ built' = <<>>
  /\ scope' = Outside
  /\ todo' = Tail(todo)
  /\ UNCHANGED <<pos, outcome>>

FinishProgram ==
  /\ At("program") /\ Is("Eof")
  /\ outcome' = "ok"
  /\ UNCHANGED <<pos, todo, built, scope, decls>>

(* parse_in_file: a text with a lexical error is not parsed.               *)
RefuseText ==
  /\ outcome = "running" /\ lexed /\ errors # <<>>
  /\ Refuse("Lex")

Parse ==
  \/ ParseLiteral \/ ParseFieldAccess \/ ParseReference \/ RejectFieldAccess
  \/ ParseFirst \/ ParseMore \/ ParseRest \/ Add \/ ParseListValue \/ ParseScalarOrList
  \/ ParseDependency \/ ParseCondition \/ ParseInvocation \/ Pair
  \/ ParseMap \/ ParseMapBody \/ ParseSeparated \/ ParseEntry \/ ParseSeparator \/ ParseReadOnly
  \/ ParseRawValue \/ ParseRawMap \/ AddRawPair
  \/ ParseBody \/ ParseFields \/ ParseStatement \/ ParseNested \/ ParseSecondary \/ Insert
  \/ ParseTopDecl \/ ParseUse \/ ParseParams \/ ParseParam \/ OpenScope \/ FinishDecl
  \/ FinishProgram \/ RefuseText
===============================================================================
