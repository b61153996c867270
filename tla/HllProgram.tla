------------------------------ MODULE HllProgram ------------------------------
(***************************************************************************)
(* A program of the language as composition sees it (hl-parser's           *)
(* compose.rs): templates declared in scopes (one scope per source file),  *)
(* the services of the entry file, the networks each scope declares, and   *)
(* the `use` aliases of each scope.  The operators of this module are the  *)
(* pure helpers composition calls: name lookup, argument checking,         *)
(* parameter substitution, qualified reference resolution and the merge    *)
(* of one tier of fields into an accumulator.                              *)
(*                                                                         *)
(* Of a body's fields two are kept, one of each kind that composes in a    *)
(* way of its own: `env`, a keyed field that collides, and `networks`, a   *)
(* reference list that concatenates and drops repeats.                     *)
(***************************************************************************)
EXTENDS Integers, Sequences, FiniteSets, SequencesExt

CONSTANTS
  Scope,       \* the source files of the program
  EntryScope,  \* the file whose services are compiled
  Alias,       \* names bound by `use ... as alias`
  NoAlias,     \* the qualifier of an unqualified name
  Name,        \* template names
  Text,        \* network names and parameter names
  EnvKey,      \* keys of the env field
  Unset,       \* the value of an env key nobody wrote
  NoError      \* the absence of an error

ASSUME EntryScopeAssumption == EntryScope \in Scope

(* The ComposeError variants composition can end in: those about templates *)
(* and their arguments, about an argument that names a declaration, about  *)
(* what is merged or reached through an alias, and the first of the enum.  *)
TemplateErrors ==
  {"TemplateCycle", "TemplateNestingTooDeep", "UnknownTemplateArgument",
   "MissingTemplateArgument", "DuplicateTemplateArgument"}

DeclarationErrors == {"UnknownQualifiedDeclaration", "QualifiedArgumentNotAValue"}

MergeErrors ==
  {"MapKeyCollision", "UnknownAlias", "UnknownQualifiedNetwork", "CollidingImportedNetwork"}

ComposeErrors == {"UnknownTemplate"} \cup TemplateErrors \cup DeclarationErrors \cup MergeErrors

ASSUME NoErrorAssumption == NoError \notin ComposeErrors

-------------------------------------------------------------------------------
(* Literals and field bags.                                                *)

Literal == [kind : {"ident", "param", "qualified"},
            alias : Alias \cup {NoAlias},
            text : Text]

Ident(n)        == [kind |-> "ident", alias |-> NoAlias, text |-> n]
Param(n)        == [kind |-> "param", alias |-> NoAlias, text |-> n]
Qualified(a, n) == [kind |-> "qualified", alias |-> a, text |-> n]

(* ServiceFields::default, what MergeAcc::default holds.                   *)
NoFields == [env |-> [k \in EnvKey |-> Unset], networks |-> <<>>]

(* A template or service body: its own fields and its `with` list.         *)
Own(body) == [env |-> body.env, networks |-> body.networks]

-------------------------------------------------------------------------------
(* Name lookup: the SymbolResolver of the linker's module graph.           *)

Key == Scope \X Name

KnownAlias(p, scope, alias) == alias = NoAlias \/ alias \in DOMAIN p.aliases[scope]

AliasTarget(p, scope, alias) ==
  IF alias = NoAlias THEN scope ELSE p.aliases[scope][alias]

(* A template's body is looked up in, and will be read in, the scope that  *)
(* declares it, never the scope the invocation is written in.              *)
TargetKey(p, scope, inv) == <<AliasTarget(p, scope, inv.alias), inv.name>>

LookupError(p, scope, inv) ==
  IF ~KnownAlias(p, scope, inv.alias) THEN "UnknownAlias"
  ELSE IF TargetKey(p, scope, inv) \notin DOMAIN p.templates THEN "UnknownTemplate"
  ELSE NoError

(* The first faulty argument in written order decides; a parameter left    *)
(* unbound is looked for only when no argument is faulty.                  *)
ArgumentError(params, args) ==
  LET repeated(i) == \E j \in 1..(i - 1) : args[j].param = args[i].param
      faulty == {i \in DOMAIN args : repeated(i) \/ args[i].param \notin params}
      first == CHOOSE i \in faulty : \A j \in faulty : i <= j
  IN  IF faulty # {}
      THEN IF repeated(first) THEN "DuplicateTemplateArgument"
                              ELSE "UnknownTemplateArgument"
      ELSE IF \E q \in params : \A i \in DOMAIN args : args[i].param # q
           THEN "MissingTemplateArgument"
           ELSE NoError

-------------------------------------------------------------------------------
(* Substitution of an invocation's arguments for a template's parameters.  *)

SubstituteLiteral(lit, args) ==
  IF lit # Unset /\ lit.kind = "param"
  THEN args[CHOOSE i \in DOMAIN args : args[i].param = lit.text].value
  ELSE lit

(* Mutant: the visitor of env values is remembered, that of lists is not.  *)
SubstituteEnvOnly(fields, args) ==
  [fields EXCEPT !.env = [k \in EnvKey |-> SubstituteLiteral(@[k], args)]]

Substitute(fields, args) ==
  [env |-> [k \in EnvKey |-> SubstituteLiteral(fields.env[k], args)],
   networks |-> [i \in DOMAIN fields.networks |->
                   SubstituteLiteral(fields.networks[i], args)]]

-------------------------------------------------------------------------------
(* Qualified references: `networks [alias.name]` becomes the bare name of  *)
(* the declaration it reaches, which is imported into the program.         *)

IsQualified(lit) == lit # Unset /\ lit.kind = "qualified"

ReferenceError(p, scope, lit) ==
  IF ~IsQualified(lit) THEN NoError
  ELSE IF ~KnownAlias(p, scope, lit.alias) THEN "UnknownAlias"
  ELSE IF lit.text \notin p.networks[AliasTarget(p, scope, lit.alias)]
       THEN "UnknownQualifiedNetwork"
  ELSE NoError

QualifiedError(p, scope, fields) ==
  LET bad == {i \in DOMAIN fields.networks :
                ReferenceError(p, scope, fields.networks[i]) # NoError}
  IN  IF bad = {} THEN NoError
      ELSE ReferenceError(p, scope,
             fields.networks[CHOOSE i \in bad : \A j \in bad : i <= j])

ResolveQualified(fields) ==
  [fields EXCEPT !.networks =
     [i \in DOMAIN @ |-> IF IsQualified(@[i]) THEN Ident(@[i].text) ELSE @[i]]]

(* Mutant: only what the template makes of the argument is looked at.      *)
ScopedErrorIgnored(p, scope, body) == NoError

(* resolve_scoped_field_accesses: an argument that names a declaration is  *)
(* looked up where it is written, before anything the body invokes is      *)
(* resolved, whether the template uses the parameter or not.               *)
ScopedError(p, scope, body) ==
  IF \E i \in DOMAIN body.with : \E j \in DOMAIN body.with[i].args :
       ReferenceError(p, scope, body.with[i].args[j].value) # NoError
  THEN "UnknownQualifiedDeclaration" ELSE NoError

(* The declarations, as <<scope, name>>, those references pull in.         *)
Imported(p, scope, fields) ==
  {<<AliasTarget(p, scope, fields.networks[i].alias), fields.networks[i].text>> :
     i \in {j \in DOMAIN fields.networks : IsQualified(fields.networks[j])}}

(* An argument can put a declaration reference where only a value fits.    *)
HasQualifiedValue(fields) == \E k \in EnvKey : IsQualified(fields.env[k])

-------------------------------------------------------------------------------
(* One tier of fields merged into an accumulator.                          *)

HoldsText(list, lit) == \E i \in DOMAIN list : list[i].text = lit.text

AppendDistinct(held, incoming) ==
  FoldLeft(LAMBDA list, lit : IF HoldsText(list, lit) THEN list ELSE Append(list, lit),
           held, incoming)

(* Two `with` targets that set one key collide.                            *)
Collides(acc, fields) == \E k \in EnvKey : acc.env[k] # Unset /\ fields.env[k] # Unset

(* An accumulator never holds a key both it and an Explicit tier set       *)
(* (Collides was refused), so for either tier the incoming value wins.     *)
MergeTier(acc, fields) ==
  [env |-> [k \in EnvKey |-> IF fields.env[k] # Unset THEN fields.env[k] ELSE acc.env[k]],
   networks |-> AppendDistinct(acc.networks, fields.networks)]

-------------------------------------------------------------------------------
(* Declarations imported by the services join the entry file's own; two    *)
(* different declarations under one bare name are refused.                 *)

Declarations(p, imports) ==
  {<<EntryScope, n>> : n \in p.networks[EntryScope]} \cup imports

ImportsCollide(p, imports) ==
  \E d, e \in Declarations(p, imports) : d # e /\ d[2] = e[2]

===============================================================================
