# A TLA+ model of the hl-lang compiler

This directory holds a model of `hllc`, the compiler that turns `.hll` sources
into Docker Compose documents: TLA+ modules that describe what its stages do,
TLC configurations that check them on small programs, file trees and import
graphs, and TLAPS proofs that hold for all of them. The reference is the code
under `crates/`. Line numbers in comments and in `PROJECT.json` are those of
that code.

Contents: [the system](#the-system), [the modules](#the-modules),
[the runs](#the-runs), [what the runs found](#disagreements-the-runs-show),
[fairness](#fairness), [the assumptions](#modelling-assumptions),
[the proofs](#the-proofs), [what is left out](#what-is-not-modelled),
[the plan](#plan).

## The system

`hllc build` and `hllc check` are one sequential thread through five stages.
The command line finds entry files. For each, the linker loads the entry and
everything its `use` tree reaches into a graph of modules; composition resolves
the `with` targets of every service against that graph and substitutes
parameters; codegen prints the composed program as a Compose document; the
command line writes it. Every stage returns its first error with `?`, which ends
the run (a directory build included). There are no threads and no shared memory:
what is hard is recursion over user-made graphs that may be cyclic, tables and
caches that outlive one step of that recursion, names that mean different things
in different files, the order in which partial results are merged, and a file
system other people write to.

| component | source | state | operations | what makes it correct |
|---|---|---|---|---|
| composition | `hl-parser/src/compose.rs` 1600-2800 | call stack, `in_progress`, `cache`, imported declarations | `compose_with_resolver`, `compose_service`, `resolve_template`, `resolve_invocation`, `merge_imported`, the three `resolve_*_field_accesses` | terminates; the result is the in-place expansion, whatever the cache held; a name means what it means where it is written; a cycle is reported if and only if there is one |
| field merge | `compose.rs` 3940-4819 | `MergeAcc` | `merge_tier` and one rule per kind of field | own fields win, two `with` targets never set one scalar, a list loses nothing but repeats |
| substitution, interpolation | `compose.rs` 2226-3700, `interp.rs` | none | `substitute_params`, `{{param}}` holes, list splices, field accesses | nothing unbound reaches codegen; text is replaced once |
| module graph | `hl-linker/src/graph.rs` | `modules`, `queue`, `path_to_id`, `std_to_id`, `warnings` | `build`, one arm per kind of declaration, resolver lookups | each source is loaded once, the graph is the closure of the entry, warnings are exact and in order |
| paths, bundled modules | `hl-linker/src/path.rs`, `stdlib.rs` | none | `normalize`, `resolve_relative`, `resolve_sibling` | one identity per file, no path out of the tree, no user file in the bundled namespace |
| file loader | `hl-linker/src/loader.rs` | the file system | `load` | none of its own |
| command line: build, check | `hl-cli/src/lib.rs` | the walk, the output files, stdout | `run_pipeline`, `build_flat_directory`, `build_colocated_tree`, `write_output` | no foreign file is overwritten, success means everything is built, the walk ends |
| command line: parse, tokens | `hl-cli/src/lib.rs` | none | printing | none of its own |
| lexer | `hl-lexer/src/lexer.rs` | position in bytes, lines and columns | `next_token`, `unescape` | every character is in one token or is trivia, and each place is the one it says |
| source map | `hl-lexer/src` | interned paths | lookup | none of its own |
| parser | `hl-parser/src/parser.rs` | position, call stack, parameters in scope | recursive descent | what is written is what is parsed, through every sugar; what is malformed is refused |
| syntax tree, schema | `hl-parser/src/ast.rs`, `schema.rs` | tables | lookups | none of its own |
| codegen, raw overrides | `hl-codegen/src` | the document, warnings | `generate`, `generate_service`, `resolve_networks`, `apply_raw_overrides` | what a service names is declared, a key is printed once, nothing is lost without a word |
| diagnostics | `error.rs`, `warning.rs` of each crate | none | rendering | which error, which warnings, in which order |

Interactions: composition calls the linker's module graph through the
`TemplateResolver` trait (lookups by scope and name); the linker calls the parser
on each file it loads; the command line calls link, compose and generate in a
row for each entry and keeps nothing between entries, so all state that outlives
an entry is on disk.

`PROJECT.json` lists the components with their status and, under "hazards", what
can go wrong in this code that a unit test would hardly reach, each at its line.

## The modules

```
Lexer  ->  Parser         text to tokens, tokens to declarations
  FrontEnd                both, one after the other
    FrontEnd_proofs
    FrontEndMeaning         against the program that was spelled
      MCFrontEnd
HllProgram                programs, lookup, arguments, substitution, the merge of one tier
  TemplateResolution        the machine composition runs       -- implements -->  ProgramComposition
    TemplateResolution_proofs
    MCTemplateGraph, MCTemplateScopes
HllPaths                  paths, `..`, bundled names
  ModuleGraph               the linker                         -- implements -->  ModuleClosure
    ModuleGraph_proofs
    MCModuleGraph
FieldBags                 the kinds of field: substitution, interpolation, merge, printing
  FieldComposition          composition of one service's fields
    FieldComposition_proofs
    FieldExpansion            what it promises
      MCFieldComposition
  ComposeDocument           code generation of a whole program
    ComposeDocument_proofs
    MCComposeDocument
FieldAccess               names across files and templates: three passes
  FieldMeaning              what a name means, without passes
    FieldAccess_proofs
    MCFieldAccess
BuildOutput               the command line and the file system
    BuildOutput_proofs
    MCBuildOutput
SequenceLemmas            what the proofs share: sequences, least elements, folds
```

**Lexer** is `next_token`: one action per scanner, an error as a token that is
not emitted, and a place as three counters (bytes, lines, columns) that are
bumped together. A character of the model is a class: a letter stands for a word,
a digit for a number, `eacute` for a character of two bytes.

**Parser** is the recursive descent with its call stack made explicit: `todo`
holds the goals still to be met, `built` the values of those that have returned.
The goals are the productions, and the tables of `schema.rs` say which production
a field's value takes (one field stands for all of a kind). The code has a copy
of the comma list for each kind of item; the model has one, `list`, and "map"
names a copy for each of its parts. **FrontEnd** runs one after the other and says where
tokens and errors are. Its texts come from `Sources`, some with the program they were
written to say. **FrontEndMeaning** says what that is: a *program* is a sequence of
declarations with a way to spell each statement (braces or not, colon or not, commas, lines
or nothing between, one statement or several). `Spell` writes it out, `WellFormed` and
`Meaning` say, without a token, whether it should be accepted and as what. These three are
reference definitions, so "map" does not list them; they are recursive, which is why they
have a module of their own.

**HllProgram** holds the pure helpers of composition: a program is a function
from `<<file, template>>` to bodies, a list of services, the networks and aliases
of each file. A body has the two kinds of field whose composition differs
most: `env`, keyed, colliding when two `with` targets set one key, overridden by
the body's own; and `networks`, a list that concatenates, drops repeats and may
hold qualified references.

**TemplateResolution** unrolls the mutual recursion of `resolve_template` and
`resolve_invocation` into a stack machine. Frame 1 is `compose_service`, frame
*i* + 1 the `resolve_template` of `inProgress[i]`; `next` and `acc` are each
frame's loop position and `MergeAcc`. `EnterTemplate` is the call,
`LeaveTemplate` the return with everything the caller then does (substitute,
resolve the references the arguments brought, merge), `UseCached` the same from
the cache. The tests keep their order in the code: lookup, arguments, cache,
cycle, depth, and then, before the body's own `with` list, whether what it gives as
arguments is declared (`RejectTemplate`, and `RejectService` for a service). An error keeps the stack it was raised in. `CacheIsExact` and `ImportsExact`
say what reuse must not show: fields left over from the invocation a template was first
resolved for, or the imports of its references counted only then.

**ProgramComposition** is the promise: each service becomes its body with each
`with` target expanded in place, arguments bound *before* the fields are
merged, no cache, no stack. A program is refused exactly when a service has no expansion
or nests too deep. Of the depth the order matters, as it does in the code: a chain
counts as far as it goes through templates that no earlier service, and no
earlier entry of a `with` list on the way, has reached (`NestsTooDeep`).

**FieldBags**, **FieldComposition** and **FieldExpansion** look at the values.
TemplateResolution has one keyed field, one list and atomic arguments; here a
body has one field of each merge rule (`image` a scalar, `port` a numeric one,
`volume` a map, `labels` with scalar and list values, `dependsOn` with
conditions, `networks` a list without repeats, `dns` one with), text is a
sequence of words and `{{holes}}`, and an argument is an identifier, a number, a
string, a parameter or a list. In return names, scopes, cycles and the cache are
gone: `Invoke` and `Return` are the same recursion on a `with` tree, `Return`
being the whole of `resolve_invocation` after its call (own fields merged,
substitution, the caller's merge), and `Generate` is codegen's
`generate_service`. FieldExpansion states the promise as two invariants over a
tree built the other way round: every body closed with its arguments from the
service inwards, and each field read off the closed bodies. A `{{binding}}` that is no
parameter of the body that writes it is closed by the next body outwards that has one.

**FieldAccess** follows names instead of values: `proxy.name`, `lib.proxy.name`,
`$net.name`, the same three inside a string, and references through an import
alias. The code resolves them in three passes (where a body is written, where an
argument is substituted into it, over the finished service), each of which takes
some and leaves the rest; which ones is `claims` and `claims_binding`. A frame is
a body with the stage it is at; `Error` is the first failure of that stage's
step, and `Reject` ends the run with it. **FieldMeaning** says what a name means
with no passes at all: the argument of the body's own parameter, or what the file
that wrote it calls by that name.

**ComposeDocument** is `generate`: each service in turn is rendered whole, its
networks and volumes join the document's, `raw` entries replace the built-in keys
they name, and at the end the networks nothing referenced are warned about.
`Generated` is the service before the overrides and `Overridden` after them; a
service's first error (`ServiceError`) is the first in the order of the code.

**HllPaths** and **ModuleGraph** are `path.rs`, `stdlib.rs` and `build` of
`graph.rs`: a queue of module ids, the two tables that memoize sources, one
action per kind of declaration and per error, the module stored when its last
declaration is processed, the `defaults` warnings spliced in at the end.
**ModuleClosure** is its promise, in one step: the least set of sources that holds
the entry and is closed under `use`, with where each alias leads, or a refusal if
and only if a source of that set is faulty. The set is characterised, not computed.

**BuildOutput** is the file-system view of a run: the three shapes of input, the
two walks with their frames, and a write in the three steps the code performs
(inspect, truncate, fill), so that a kill or an error can fall between any two.
The command runs several times over one tree, and a user may put a file or a
link at an output path, or remove one, between runs.

`PROJECT.json` "map" names the code each definition stands for. Definitions whose
comment starts with "Mutant" are not part of the model: each is a plausible bug
that some property is shown to catch.

## The runs

| run | states | shows |
|---|---|---|
| `template_graph` | 103,071 | `TypeOK`, `Implements`, `Termination` for every `with` graph of three templates |
| `template_scopes` | 146,844 | `StackIsPath`, `NoResidue`, `CacheIsExact`, `ImportsExact`, `Implements` for two files that import each other |
| `module_graph` | 156,318 | `TypeOK`, `TablesAgree`, `OneModulePerFile`, `WarningsInLoadOrder`, `WarningsExact`, `Implements`, `Termination` for the import graphs of four files and two bundled modules, and for all short declaration lists of three files |
| `build_output` | 24,727 | `TypeOK`, `HandwrittenKept`, `LinksNotFollowed`, `CheckWritesNothing`, `SuccessMeansBuilt`, `AnnouncedIsWritten`, `Termination` for two runs over each shape of tree |
| `field_composition` | 54,039 | `TypeOK`, `RefusedIffNoExpansion`, `DocumentIsExpansion` for the values of a service's fields |
| `field_access` | 90,452 | `TypeOK`, `DocumentIsLexical`, `RefusedIffMeaningless`, `AliasesStayHome` for names written in a service and two templates of two files |
| `compose_document` | 8,507 | `TypeOK`, `NamesResolve`, `ServicesReachEachOther`, `WarnedIffAbsent`, `NothingLostSilently`, `RunnableOrRefused` for programs of up to three services |
| `front_end` | 174,630 | `TypeOK`, `ItemsLocated`, `AcceptedIffWellFormed`, `ParsedAsWritten`, `Terminates` for some 16,000 texts |
| `template_clash`, `raw_entry_lost`, `access_forwarded`, `access_keys` | | each refutes one statement of the documentation or of a comment, see below |

Bounds, and why they are enough.

- *Three templates, `with` lists of at most two entries* (`template_graph`) give
  self loops, two- and three-cycles, cycles reached from outside, diamonds, a
  template reached twice from one list, and chains one longer than `MaxDepth = 2`.
  A second service runs with whatever the first left in the cache, so every
  cache state a first service can leave is met with every graph, and a chain past
  the limit is met both fresh and with its lower part in the cache. One template
  sets the env key, so both collisions and their absence occur.
- *Two files, one template name declared in both* (`template_scopes`) is the
  least that tells a name from a `<<file, name>>` key. Arguments are an
  identifier, a forwarded parameter or a qualified reference, which forwarding
  carries over two file boundaries; there is one invocation per
  kind of mistake, and one that gives an undeclared name for a parameter a template
  never uses.
- *Path spellings* (`module_graph`): a file directly, through `.`, through its
  parent directory; the entry imported by others; a path that leaves the tree; a
  bundled module with and without extension, from a user file and from a
  bundled one; a user file named like a bundled module; a missing and an
  unparsable file.
- *Three files with up to two declarations each* (`module_graph`, its second
  family of worlds) put a
  `template defaults` before, between and after other warnings, and a service
  that names it into any file; two splice indices may coincide.
- *Two commands on one tree* (`build_output`), of every request, separated by a
  user's interference: enough for a run to meet what an earlier one left, whole,
  torn or partial. `MaxDepth = 3` and a link that leads back up exercise the
  limit of the walk.

- *One field per program, three bodies* (`field_composition`): fields do not
  interact before codegen, so each family writes one of them in the service, in
  `outer(p)` and in `inner(q)`, which outer uses, with outer, or outer and inner
  in either order, under the service. That gives two levels of forwarding and
  two `with` targets that may agree, collide or add up; arguments take every
  shape the field tells apart, lists in lists included. In one family `inner` writes a
  binding that only `outer`, or nobody, has a parameter for. No body writes, as a key
  or item, the text its own parameter is bound to: that is `template_clash`'s
  matter.

- *A service, `outer(p)` and `inner(m)`* (`field_access`), each in the entry file
  or in an imported one: two levels of forwarding and two file boundaries. Two
  files give one alias to different files, and one name is declared in both, so a
  lookup in the wrong scope finds another declaration rather than none. Every
  argument shape meets every spelling of a value, with and without a field that
  can be read.
- *Up to three services* (`compose_document`), since the default network needs two
  and its table of references a third that is silent. One service that sets every
  built-in key is printed under every pair of `raw` keys; a `raw` key may be
  `{{name}}`, so what it names depends on the service.
- *Texts* (`front_end`): every field kind under every spelling, every two
  statements in one body, declarations in a row (parameters must not leak from one
  template into the next body), raw values one below, at and above the depth limit
  of 3 (128 in the code; the counter is the same). And texts that are no
  program: all sequences of up to four of the lexer's nine classes of character,
  all bodies of up to three of the parser's tokens, for termination and places.

The cfgs that state a deadlock exemption do so because a finished link,
composition, parse, document or sequence of runs has no successor.

### Disagreements the runs show

Four runs end in a counterexample; `PROJECT.json` "findings" quotes the text each refutes.

1. `template_clash`: the repeat test of list fields compares `Literal::text`,
   and the text of an unsubstituted `$x` is `x`. A literal network `x` and a
   parameter `$x` in two templates of one chain lose one of the two, silently.
2. `raw_entry_lost`: a repeated `raw` key is refused by its spelling. `"{{name}}"`
   and `web` in the service `web` are one key once they are rendered, and the later
   entry replaces the earlier without a word.
3. `access_forwarded`: `with inner { m: $p.name }` becomes the binding
   `{{$p.name}}` in a string of `inner`, which no scope binds; the program is
   refused although every name in it is declared.
4. `access_keys`: the keys `net.name` and `proxy.name` of one map are compared by
   `Literal::text`, which is `name` for both, and refused as one key.

### Disagreements without a run

Met while modelling, and left to this list. The model follows the code in each.

- The nesting limit (`MAX_TEMPLATE_DEPTH`) is a limit on what is resolved, not on
  what nests: the cache is consulted before the depth test, so a chain past the
  limit composes if an earlier service already resolved its lower part. `Implements` of
  `template_graph` says which ones do.
- `normalize` keeps a `..` after the root, so with an absolute entry path one file
  can be two modules.
- "template `defaults` is not applied to anything" is printed for a `defaults` that
  is applied through another template.
- `fs::write` truncates before it writes. After a kill or a full disk the next build
  refuses `hllc`'s own output as foreign, although "Rebuilding never needs a flag"
  (`book/src/cli.md:145`).
- A `{{binding}}` that is no parameter of the template that writes it is filled by a
  template in between that has a parameter of that name (`Captured` in
  FieldMeaning); the book (`templates-and-composition.md`) says it stops the build.
- The same page says a list argument to `{{param}}` fails to compile; the code joins
  the items with commas.
- Bare adjacency on one line is a parse error for the entries of a map
  (`docs/DESIGN.md:421-422`), except in a `raw` mapping inside a `raw` value, where no
  separator is asked for.
- `docs/DESIGN.md:498` spells the body of a `volume` declaration with commas, which
  `parse_struct_body` refuses.
- Map keys are compared by `Literal::text`, so `$p` and `p` are one key, and a
  template's `$k: ...` collides or not with a `with` target's literal key by the
  parameter's name.

## Fairness

The compiler is one sequential thread that runs until it returns and waits for
nobody, so weak fairness of its next step is what the operating system gives any
process: `WF_vars(Next)` in TemplateResolution, ModuleGraph and FrontEnd,
`WF_vars(Step)` in BuildOutput. Users, readers of stdout and signals are actions outside `Step`
and owe nothing. The four termination properties hold under this alone: what
ends composition is the cycle test and the finite set of templates, what ends the
link is that each source gets one id, what ends the walk is its depth limit, and what ends
the front end is that every call of the lexer and every turn of a loop of the parser
takes something.

## Modelling assumptions

- A link in an output's place leads to a file that is neither an output path nor one
  where the user puts something else (`OutsideAssumption`).
- Files do not change while a link reads them; users act between runs of the
  command, not during one. A file swapped between the inspection of an output
  path and the write to it is outside every promise the code makes.
- The parser guarantees `ProgramShape` (of a body's parameters, `front_end` checks it
  on the parser itself): a body and its invocation arguments
  mention only the parameters of the template they are in, a service mentions
  none, a value position holds no qualified reference. TLC evaluates it on every
  program of the runs, and the proofs take it as an assumption on `Programs`.
- In TemplateResolution `env` and `networks` stand for all keyed and all list
  fields; in FieldBags each field stands for those that share its rule.
- Of several errors in one service FieldComposition may report another than the
  code, which stops at the first; whether there is one does not depend on it.
- `RefusedIffNoExpansion` is not quite an equivalence: an argument that does not
  fit a slot is no error when a body further out overrides the slot before the
  argument reaches it, so a program may be accepted that has one.
- `DocumentIsExpansion` excuses programs for which `hllc` warned that `{{name}}`
  is not the parameter `name` (forwarding a parameter of that name into a hole
  makes it the service's name).
- `DocumentIsLexical` and `RefusedIffMeaningless` leave out the programs `Captured`
  describes: a name that coincides with a parameter of another scope is rewritten by
  that parameter (see the list above; the book warns of it for a network that is
  called like a parameter). `RefusedIffMeaningless` also leaves out forwarded
  accesses in strings, the matter of `access_forwarded`.
- In FieldAccess a service uses one template, which uses one; a declaration's real
  name holds no `{{}}` of its own (codegen would fill it once more in a value, but not
  under `networks:`).
- In ComposeDocument the four durations of a healthcheck are one, and the values in a
  `raw` list or mapping are literals.
- In `build_output` and `module_graph` a file's content is its sequence of declarations; text, spans and wording are
  abstracted from. What a file compiles to is, in BuildOutput, whether it does.
- A torn document is one cut before its header is complete; a document cut after
  it is recognised as `hllc`'s own, like a whole one, and needs no state.
- Counters are bounded by the constants: `MaxDepth` (the program's own
  constants, made small) and `MaxRuns` (a bound of the model, not of the code).

## The proofs

Each theorem holds for every value of the constants: any set of programs, worlds or
trees, any depth limit. Theorems that state a property of a run:

| module | theorem | states |
|---|---|---|
| TemplateResolution_proofs | `TypeCorrect` | `[]TypeOK`: one frame per template in progress, never more than `MaxDepth`, each within its `with` list |
| | `NoSelfResolution` | `[]StackIsPath`: `in_progress` is a path of `with` entries without repetition, and a reported cycle closes it |
| | `NothingResidual` | `[]NoResidue`: no composed service holds a parameter or a reference through an alias |
| | `ReuseIsResolution` | `[]CacheIsExact`: the cache is closed under `with` and disjoint from what is in progress, and a cached template, and a composed service, is what resolving it again would give |
| | `ImportsAreReferred` | `[]ImportsExact`: the imports are what the bodies used so far refer to, no more and no less |
| ModuleGraph_proofs | `TypeCorrect` | `[]TypeOK`: ids are loaded in order, the queue holds the ones not loaded, aliases lead to modules |
| | `OneIdPerSource` | `[]TablesAgree`: the two tables and the modules say the same |
| | `LinkIsClosure` | `Implements`: the linker implements ModuleClosure |
| | `OneIdPerFile` | `[]OneModulePerFile`, if the entry's path is relative |
| | `OneIdUnlessAbove` | `[](OneModulePerFile \/ AboveRoot)`, for every path |
| | `InLoadOrder` | `[]WarningsInLoadOrder` |
| | `NothingDroppedSilently` | `[]WarningsExact` |
| BuildOutput_proofs | `TypeCorrect` | `[]TypeOK` |
| | `NeverThroughLinks` | `[]LinksNotFollowed` |
| | `PrintedOnceWhole` | `[]AnnouncedIsWritten` |
| | `UnforcedKeepsFiles` | `HandwrittenKept`, of every step |
| | `CheckLeavesDisk` | `CheckWritesNothing`, of every step |
| | `SuccessIsWhole` | `[]SuccessMeansBuilt` |
| FrontEnd_proofs | `CallsFindTheirValues` | `[]TypeOK`: each production finds the values it takes, and an accepted file leaves none |
| | `ItemsAreWhereTheySay` | `[]ItemsLocated` |
| FieldAccess_proofs | `TypeCorrect` | `[]TypeOK`: the bodies in progress are a chain of callers |
| | `AliasesNeverLeave` | `[]AliasesStayHome` |
| FieldComposition_proofs | `TypeCorrect` | `[]TypeOK`: no key or network twice in any accumulator, a document exactly when nothing was refused |
| ComposeDocument_proofs | `TypeCorrect` | `[]TypeOK` |
| | `NothingDangles` | `[]NamesResolve` |
| | `OneStack` | `[]ServicesReachEachOther` |
| | `AbsenceIsSaid` | `[]WarnedIffAbsent` |
| | `ReplacedIsSaid` | `[]NothingLostSilently` |
| | `SomethingToRun` | `[]RunnableOrRefused` |

*What they assume* is what the modules declare, by name:

- `MaxDepthAssumption`, `MaxRunsAssumption`, `EntryScopeAssumption`, `NoErrorAssumption`,
  `UnsetAssumption`: numbers are numbers, and the values that stand for nothing are no
  values.
- `ProgramsAssumption` of TemplateResolution is `ProgramShape`: what a body mentions are
  its own template's parameters, which `parse_param_reference` sees to where it is
  written (`ParamReferenceOutsideTemplate`, `UnknownTemplateParam`); a value holds no
  reference through an alias, which the grammar has no place for; and an argument `a.b`
  is a reference only if `a` is an alias of its file, because
  `reinterpret_argument_reference` leaves any other a field access.
- `WorldsAssumption`, `PathsAssumption`: declarations and path components come in
  sequences.
- `TreesAssumption`: a directory's entries are a sequence, and its subdirectories are
  directories of the tree, links included. `OutsideAssumption` is the modelling
  assumption on links above.
- `ProgramsAssumption` of FieldAccess is `IsProgram`: literals and bodies have their shape,
  a body that uses a template uses one there is (`UnknownTemplate` is TemplateResolution's
  matter), and a value holds no reference behind an alias, because `parse_field_access`
  reads `a.b` as a field access where a value belongs. Templates may use each other in circles.
- `ProgramsAssumption` of FieldComposition is `IsProgram`: fields are sequences, a reference
  or list slot of a body holds that body's own parameters only (`parse_param_reference`), and
  an invocation gives its target's parameters, each of them and no other, a value
  (`UnknownTemplateArgument`, `MissingTemplateArgument`). Nothing is assumed of repeats: a body or an
  argument may list a key as often as it likes.
- `SourcesAssumption` of FrontEnd: a text is a sequence of characters, any characters.
  `WideAssumption` of Lexer: the quote is one byte long. Nothing is assumed of what a text says.
  (`SourcesAreSpelled` of FrontEndMeaning, that a text written to say a program is its spelling, is
  for the runs alone.)
- `ProgramsAssumption` of ComposeDocument: services have different names (the linker's
  `DuplicateServiceName`), and no service lists a network twice (`merge_tier` drops repeats).

*TemplateResolution.* `TypeOK` alone is not inductive: that the frame above a template
is the one its `with` entry names is what lets `LeaveTemplate` return to a caller
at the right place. `IInv` adds the link between neighbouring frames
(`inProgress[d]` is the target of the entry frame *d* is at) and that the program
is one of `Programs`. On top of it, `PathInv` adds distinctness of `inProgress`
(from the cycle test), that everything a frame has passed in its `with` list is
in the cache (`Visited`: each entry is passed by `UseCached` or by the
`LeaveTemplate` that stores it), and `CacheClosed`, a part of `CacheIsExact`. A template enters the cache
when its list is exhausted, so `Visited` gives exactly the closure; it is not in
progress any more because `inProgress` is repetition free. `StackIsPath` follows
from the frame link, and its part `CycleIsReal` from the path and the state the error is
raised in. `Settled` says what each frame's `acc` and each cached body may hold:
parameters of the template that is being resolved, never of another, and no reference
through an alias once the scope it was written in has been left. A substitution takes the
parameters of one scope to those of the next; the service has none, so nothing is left.

`CacheIsExact` and `ImportsExact` need `Exact` and `Sources` on top of all of it: each frame's
`acc` is the fold of `MergeTier` over what the entries it has passed bring it *as the cache
has them now*, and what those entries refer to is in `imports`. That the tiers of a frame do
not change under it is the point of the proof: they are in the cache (`Visited`), a step adds
one key only, and that one is new because it was in progress (`CacheClosed`). `MergedOne`
says what a fold comes to with one tier more; a frame that closes has folded them all, which is
what resolving the body anew gives (`FrameCloses`). Since a cached body holds what its targets'
entries give, and each of those what its own give, this unfolds level by level to the whole
expansion. ProgramComposition binds the arguments before it merges, the code after: that both
come to the same is `Implements`, recursive and left to TLC.

*ModuleGraph.* `Tables` is inductive: the tables, the queue and the list of modules grow
together. The refinement adds that a loaded module is sound and its aliases are what its
text says (`Loaded`, and `Loading` for the one being read), and that every module is in
every set closed under `use` (`Reached`). When the queue is empty the modules are such a
set, by `Reached` the least; and a source the link refuses is in all of them. `Placed`
adds that every path is in normal form. A walk along a path in normal form goes where
the path says, by induction over its components, unless it starts with `..` at the root of
the file system; there `..` leads nowhere and two paths can name one file, hence
`AboveRoot`. A relative entry can have no module above the root. `Noting` says of
the two lists of warnings that between them they hold every declaration passed so far
that has to be warned about, each list in load order, and that each `defaults` block knows how
many warnings of the first list stand before it; the splice from the last entry to the
first then keeps every remaining count true.

*BuildOutput.* `Control` is the shape of a run. `Output` adds what the write under way
has found at its path, that the file outside is the user's, and that what was printed is
what was written, with at most one document whole and not yet printed. `Coverage` adds
that a frame's directory is a child of the one above, and that every service the walk has
passed, at whatever depth, is built: `SuccessMeansBuilt` is the case of a walk that has passed everything.

*ComposeDocument.* `SoFar` says what each variable is in terms of the services generated
so far and the program alone: which names the sections hold, which are warned about, and
how the run may have ended. The loops of the code are folds, and a fold is what its steps say.

*FieldComposition.* That no accumulator holds a key twice is not inductive alone: the
fields that reach a merge have been through substitutions that splice lists into lists.
`StackOK` adds that every accumulator holds what its body may hold (`IsFields`: sequences, and
the body's own parameters in the slots that are spliced) and that each frame is at the
invocation that entered the frame above it, so that the arguments bound in `Return` are those of
the right template (`Binds`). `Substituted` then takes fields over one body's parameters to
fields over its caller's, and `TierMerged` merges them: `merge_map`, `merge_depends_on`
and `merge_labels` each leave an entry of the key they found (`KeepsKeys`), or none, and the
lists without repeats add only what is not there. An error is always one of `Refusals`, never
"ok", so a run that is refused has no document.

*FieldAccess.* `AliasesStayHome` alone is not inductive: what an invocation returns was
read in two scopes. `Scoping` says of each body in progress that its own fields hold
no alias inside a value once its first pass is over, and that what it has merged so far holds none at
all (`Home`). Substitution is the step that brings aliases in, with the argument,
into literals of every kind; of what it returns the proof keeps the shape only. The pass that
follows in the scope of the invocation reads every access and every binding behind an alias
(`FieldsRead`), the one after it every reference (`OwnReferences`), and the test of
`reject_qualified_values` refuses the one slot left, a value; so each of the three, in this
order, is needed.

*FrontEnd.* That the top call finds the values it takes depends on what every call below it
will leave. `Parsing` says that the stack of calls, from the top to the declaration they are
part of, *runs*: there is a count of values for each call, the number built for the first,
enough for each, changed by each by what it gives, and for the last the two or three that
`Declare` takes. Each production replaces its call by calls whose effects sum to its own (`RunsPrepended`
and its like), so `InOrder`, with the lexer's side (`Scanned`: `Eof` is there once, and
last), is inductive. A parser that runs never passes the last token, because no production
takes `Eof`. For `ItemsLocated`, `Placed` says that the cursor is at a place of the text, that every
item made so far is from one place to a later one (`Located`), and that what lies between two
tokens, and after the last, is blank or in a comment (`SetApart`). A place is three counts over one
prefix (`PlaceOf`); `Bump` takes one place to the next, a scanner is a loop of it (`MovedPlace`), and
an escape that is refused is a part of its string (`EscapeLocated`).

*Folds.* No theorem of the library does induction over data with the provers at hand,
but what the proofs need of a loop is within reach: `SequenceLemmas` defines what it is
to be the fold over a finite set of indices (`IsFold`), shows that there is one
(`FoldExists`) and only one (`FoldUnique`), and carries a property along it
(`FoldInduction`), each by the least set of indices that would be a counterexample.
Loops over sequences are then folds over their indices from the first to the
last (`FoldOrders`).

*Not proved, checked by TLC only.* Liveness (`Termination` and its like), since the
prover has no rule for it. That TemplateResolution implements ProgramComposition, and what
FieldExpansion, FieldMeaning and FrontEndMeaning say of values: these promises are defined by
recursion over programs or texts of any depth.

## What is not modelled

- The source map interns paths for diagnostics: a list and a search of it.
- `hllc parse` and `hllc tokens` print and keep nothing; the lexer's fusing iterator
  serves them alone.
- The tables of the schema appear with one field for each kind of value, and spans only
  as far as tokens and lexical errors carry them.
- Of substitution: parameters inside the values of `raw`, and the warning for an inert
  `$param` in a string.
- The file loader is a map from paths to contents, read once; a file that changes during a
  link, or an output path that is replaced between its inspection and the write to it, is
  outside every promise the code makes.
- Wording and layout of diagnostics, and the YAML printer, which is a library.

## Plan

Done, in this order: composition with its promise and its proofs, the linker
with its promise, the command line, the values of fields from the bodies to the
document, code generation of a whole program, field accesses, and the front end.

The proofs of composition with the values of fields, the linker with its refinement, the
command line, code generation, names across files and the front end are done. What a run
checks and no theorem states is listed under [the proofs](#the-proofs).
