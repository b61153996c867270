-------------------------- MODULE TemplateResolution --------------------------
(***************************************************************************)
(* Template composition (compose_with_resolver, compose_service,           *)
(* resolve_template and resolve_invocation of hl-parser's compose.rs) as   *)
(* the machine those mutually recursive functions run: a Rust call stack   *)
(* of bodies being resolved, the `in_progress` list that detects cycles    *)
(* and bounds depth, and the cache of resolved templates that all          *)
(* services of a program share.                                            *)
(*                                                                         *)
(* Frame 1 of the stack is compose_service; frame i + 1 is the             *)
(* resolve_template of inProgress[i].  A frame holds the position in its   *)
(* `with` list (next) and its MergeAcc (acc).                              *)
(*                                                                         *)
(* The program compiled is chosen from Programs in the initial state and   *)
(* never changes; an error is the `?` that unwinds everything at once, so  *)
(* a failed state keeps the stack the error was raised in.                 *)
(***************************************************************************)
EXTENDS HllProgram

CONSTANTS
  Programs,  \* the programs to compile
  MaxDepth   \* MAX_TEMPLATE_DEPTH

(* What the parser and the linker guarantee of a program that reaches      *)
(* composition: a template's parameters are the only ones its body and its *)
(* invocation arguments mention, a service mentions none, a value position *)
(* holds no qualified reference, and an argument `a.b` is one only behind  *)
(* an alias (reinterpret_argument_reference leaves others field accesses,  *)
(* which FieldAccess follows).                                             *)
Mentionable(params) == {lit \in Literal : lit.kind = "param" => lit.text \in params}
ValueWith(params)   == {lit \in Mentionable(params) : lit.kind # "qualified"}

BodyShape(body) ==
  /\ body.params \subseteq Text
  /\ body.env \in [EnvKey -> ValueWith(body.params) \cup {Unset}]
  /\ body.networks \in Seq(Mentionable(body.params))
  /\ body.with \in Seq([alias : Alias \cup {NoAlias}, name : Name,
                        args : Seq([param : Text, value : Mentionable(body.params)])])

Reinterpreted(p, scope, body) ==
  \A i \in DOMAIN body.with : \A j \in DOMAIN body.with[i].args :
    IsQualified(body.with[i].args[j].value) =>
      body.with[i].args[j].value.alias \in DOMAIN p.aliases[scope]

ProgramShape(p) ==
  /\ DOMAIN p.templates \subseteq Key
  /\ \A key \in DOMAIN p.templates :
       BodyShape(p.templates[key]) /\ Reinterpreted(p, key[1], p.templates[key])
  /\ p.services = [i \in 1..Len(p.services) |-> p.services[i]]
  /\ Len(p.services) \in Nat
  /\ \A i \in 1..Len(p.services) :
       /\ BodyShape(p.services[i]) /\ p.services[i].params = {}
       /\ Reinterpreted(p, EntryScope, p.services[i])
  /\ \A s \in Scope : \A a \in DOMAIN p.aliases[s] : p.aliases[s][a] \in Scope

ASSUME UnsetAssumption == Unset \notin Literal
ASSUME MaxDepthAssumption == MaxDepth \in Nat \ {0}
ASSUME ProgramsAssumption == \A p \in Programs : ProgramShape(p)

VARIABLES
  program,     \* the linked program being compiled
  current,     \* the service being composed, counted in source order
  inProgress,  \* in_progress: the templates being resolved, outermost first
  next,        \* per frame, the `with` entry it is at
  acc,         \* per frame, the tiers merged so far
  cache,       \* the resolved templates, still parameterized
  imports,     \* the declarations reached through qualified references
  composed,    \* the services composed so far
  outcome      \* the result of compose_with_resolver

vars == <<program, current, inProgress, next, acc, cache, imports, composed, outcome>>

Running     == [status |-> "running", error |-> NoError, chain |-> <<>>]
Composed    == [status |-> "ok", error |-> NoError, chain |-> <<>>]
Failed(e)   == [status |-> "failed", error |-> e, chain |-> <<>>]
Cyclic(ns)  == [status |-> "failed", error |-> "TemplateCycle", chain |-> ns]

Init ==
  /\ program \in Programs
  /\ current = 1
  /\ inProgress = <<>>
  /\ next = <<>>
  /\ acc = <<>>
  /\ cache = <<>>
  /\ imports = {}
  /\ composed = <<>>
  /\ outcome = Running

-------------------------------------------------------------------------------
(* The frames.                                                             *)

Depth == Len(next)

BodyAt(d)  == IF d = 1 THEN program.services[current]
                       ELSE program.templates[inProgress[d - 1]]

(* Mutant: every body is read in the file being compiled.                  *)
ScopeIsEntry(d) == EntryScope

ScopeAt(d) == IF d = 1 THEN EntryScope ELSE inProgress[d - 1][1]

InvocationAt(d) == BodyAt(d).with[next[d]]
TargetAt(d)     == TargetKey(program, ScopeAt(d), InvocationAt(d))

(* The top frame is about to resolve a `with` entry, or has resolved them  *)
(* all and is about to merge its own fields.                               *)
Invoking == outcome = Running /\ Depth > 0 /\ next[Depth] <= Len(BodyAt(Depth).with)

(* Mutants: the loop over the `with` list stops one entry early, or its    *)
(* end is missed by a body without entries.                                *)
ClosingEarly  == outcome = Running /\ Depth > 0 /\ next[Depth] >= Len(BodyAt(Depth).with)
ClosingMissed == outcome = Running /\ Depth > 0 /\ next[Depth] = Len(BodyAt(Depth).with)

Closing  == outcome = Running /\ Depth > 0 /\ next[Depth] > Len(BodyAt(Depth).with)

-------------------------------------------------------------------------------
(* resolve_invocation before the template is resolved: lookup, then the    *)
(* arguments.                                                              *)

InvocationError ==
  LET lookup == LookupError(program, ScopeAt(Depth), InvocationAt(Depth))
  IN  IF lookup # NoError THEN lookup
      ELSE ArgumentError(program.templates[TargetAt(Depth)].params,
                         InvocationAt(Depth).args)

(* Mutants: the body being resolved is left out of the test, a template is *)
(* identified by its name without its file, the limit is off by one.       *)
OnStackBelowTop(key) == \E i \in 1..(Len(inProgress) - 1) : inProgress[i] = key
OnStackByName(key)   == \E i \in DOMAIN inProgress : inProgress[i][2] = key[2]
TooDeepByOne         == Len(inProgress) > MaxDepth

(* The tests resolve_template makes on entry, in this order.               *)
OnStack(key) == \E i \in DOMAIN inProgress : inProgress[i] = key
TooDeep == Len(inProgress) + 1 > MaxDepth

TargetScopedError ==
  ScopedError(program, TargetAt(Depth)[1], program.templates[TargetAt(Depth)])

Resolvable == Invoking /\ InvocationError = NoError
Hit        == Resolvable /\ TargetAt(Depth) \in DOMAIN cache
Miss       == Resolvable /\ TargetAt(Depth) \notin DOMAIN cache

(* resolve_invocation after it, in frame d: the arguments are substituted, *)
(* the references they brought are resolved in the scope of the            *)
(* invocation, and the result is merged as an Explicit tier.               *)
Bound(d, fields) == Substitute(fields, InvocationAt(d).args)

DeliveryError(d, fields) ==
  LET bound == Bound(d, fields)
      reference == QualifiedError(program, ScopeAt(d), bound)
  IN  IF reference # NoError THEN reference
      ELSE IF HasQualifiedValue(bound) THEN "QualifiedArgumentNotAValue"
      ELSE IF Collides(acc[d], bound) THEN "MapKeyCollision"
      ELSE NoError

Delivered(d, fields) == MergeTier(acc[d], ResolveQualified(Bound(d, fields)))

(* A body's own fields, merged last, as the Own tier.                      *)
OwnError(d) == QualifiedError(program, ScopeAt(d), Own(BodyAt(d)))

(* Mutant: the tiers merged in the opposite order.                         *)
ClosedOwnFirst(d) == MergeTier(ResolveQualified(Own(BodyAt(d))), acc[d])

Closed(d)   == MergeTier(acc[d], ResolveQualified(Own(BodyAt(d))))

-------------------------------------------------------------------------------
Return(result) ==
  /\ outcome' = result
  /\ UNCHANGED <<program, current, inProgress, next, acc, cache, imports, composed>>

(* compose_service, entered for the next service in source order.          *)
StartService ==
  /\ outcome = Running
  /\ Depth = 0
  /\ current <= Len(program.services)
  /\ ScopedError(program, EntryScope, program.services[current]) = NoError
  /\ next' = <<1>>
  /\ acc' = <<NoFields>>
  /\ UNCHANGED <<program, current, inProgress, cache, imports, composed, outcome>>

(* The service, or the template about to be resolved, gives an argument    *)
(* behind an alias that declares no such thing.                            *)
RejectService ==
  /\ outcome = Running
  /\ Depth = 0
  /\ current <= Len(program.services)
  /\ LET error == ScopedError(program, EntryScope, program.services[current])
     IN  error # NoError /\ Return(Failed(error))

RejectTemplate ==
  /\ Miss
  /\ ~OnStack(TargetAt(Depth))
  /\ ~TooDeep
  /\ TargetScopedError # NoError
  /\ Return(Failed(TargetScopedError))

RejectInvocation ==
  /\ Invoking
  /\ InvocationError # NoError
  /\ Return(Failed(InvocationError))

(* Mutant: what is taken from the cache has its references already.        *)
UseCachedSilently ==
  /\ Hit
  /\ LET fields == cache[TargetAt(Depth)] IN
     /\ DeliveryError(Depth, fields) = NoError
     /\ acc' = [acc EXCEPT ![Depth] = Delivered(Depth, fields)]
  /\ next' = [next EXCEPT ![Depth] = @ + 1]
  /\ UNCHANGED <<program, current, inProgress, cache, imports, composed, outcome>>

(* A template resolved before, by this service or an earlier one, is taken *)
(* from the cache before anything else is tested.                          *)
UseCached ==
  /\ Hit
  /\ LET fields == cache[TargetAt(Depth)] IN
     /\ DeliveryError(Depth, fields) = NoError
     /\ acc' = [acc EXCEPT ![Depth] = Delivered(Depth, fields)]
     /\ imports' = imports \cup Imported(program, ScopeAt(Depth), Bound(Depth, fields))
  /\ next' = [next EXCEPT ![Depth] = @ + 1]
  /\ UNCHANGED <<program, current, inProgress, cache, composed, outcome>>

RejectCached ==
  /\ Hit
  /\ DeliveryError(Depth, cache[TargetAt(Depth)]) # NoError
  /\ Return(Failed(DeliveryError(Depth, cache[TargetAt(Depth)])))

RejectCycle ==
  /\ Miss
  /\ OnStack(TargetAt(Depth))
  /\ Return(Cyclic(Append([i \in DOMAIN inProgress |-> inProgress[i][2]],
                        TargetAt(Depth)[2])))

(* Mutant: the limit is tested before the cache is.                        *)
RejectDepthFirst ==
  /\ Resolvable
  /\ ~OnStack(TargetAt(Depth))
  /\ TooDeep
  /\ Return(Failed("TemplateNestingTooDeep"))

RejectDepth ==
  /\ Miss
  /\ ~OnStack(TargetAt(Depth))
  /\ TooDeep
  /\ Return(Failed("TemplateNestingTooDeep"))

EnterTemplate ==
  /\ Miss
  /\ ~OnStack(TargetAt(Depth))
  /\ ~TooDeep
  /\ TargetScopedError = NoError
  /\ inProgress' = Append(inProgress, TargetAt(Depth))
  /\ next' = Append(next, 1)
  /\ acc' = Append(acc, NoFields)
  /\ UNCHANGED <<program, current, cache, imports, composed, outcome>>

RejectBody ==
  /\ Closing
  /\ OwnError(Depth) # NoError
  /\ Return(Failed(OwnError(Depth)))

(* Mutant: the fields are cached with the arguments they were asked for.   *)
LeaveBound ==
  /\ Closing
  /\ Depth > 1
  /\ OwnError(Depth) = NoError
  /\ LET caller == Depth - 1
         key == inProgress[caller]
         fields == Closed(Depth)
     IN /\ DeliveryError(caller, fields) = NoError
        /\ inProgress' = SubSeq(inProgress, 1, caller - 1)
        /\ cache' = [k \in DOMAIN cache \cup {key} |->
                       IF k = key THEN Bound(caller, fields) ELSE cache[k]]
        /\ next' = [SubSeq(next, 1, caller) EXCEPT ![caller] = @ + 1]
        /\ acc' = [SubSeq(acc, 1, caller) EXCEPT ![caller] = Delivered(caller, fields)]
        /\ imports' = imports
             \cup Imported(program, ScopeAt(Depth), Own(BodyAt(Depth)))
             \cup Imported(program, ScopeAt(caller), Bound(caller, fields))
  /\ UNCHANGED <<program, current, composed, outcome>>

(* resolve_template returns to the resolve_invocation of the frame below.  *)
LeaveTemplate ==
  /\ Closing
  /\ Depth > 1
  /\ OwnError(Depth) = NoError
  /\ LET caller == Depth - 1
         key == inProgress[caller]
         fields == Closed(Depth)
     IN /\ DeliveryError(caller, fields) = NoError
        /\ inProgress' = SubSeq(inProgress, 1, caller - 1)
        /\ cache' = [k \in DOMAIN cache \cup {key} |->
                       IF k = key THEN fields ELSE cache[k]]
        /\ next' = [SubSeq(next, 1, caller) EXCEPT ![caller] = @ + 1]
        /\ acc' = [SubSeq(acc, 1, caller) EXCEPT ![caller] = Delivered(caller, fields)]
        /\ imports' = imports
             \cup Imported(program, ScopeAt(Depth), Own(BodyAt(Depth)))
             \cup Imported(program, ScopeAt(caller), Bound(caller, fields))
  /\ UNCHANGED <<program, current, composed, outcome>>

RejectReturn ==
  /\ Closing
  /\ Depth > 1
  /\ OwnError(Depth) = NoError
  /\ DeliveryError(Depth - 1, Closed(Depth)) # NoError
  /\ Return(Failed(DeliveryError(Depth - 1, Closed(Depth))))

FinishService ==
  /\ Closing
  /\ Depth = 1
  /\ OwnError(1) = NoError
  /\ composed' = Append(composed, Closed(1))
  /\ imports' = imports \cup Imported(program, EntryScope, Own(BodyAt(1)))
  /\ current' = current + 1
  /\ next' = <<>>
  /\ acc' = <<>>
  /\ UNCHANGED <<program, inProgress, cache, outcome>>

(* merge_imported, once every service is composed.                         *)
MergeImports ==
  /\ outcome = Running
  /\ Depth = 0
  /\ current > Len(program.services)
  /\ Return(IF ImportsCollide(program, imports) THEN Failed("CollidingImportedNetwork")
                                              ELSE Composed)

Next ==
  \/ StartService
  \/ RejectService
  \/ RejectInvocation
  \/ UseCached
  \/ RejectCached
  \/ RejectCycle
  \/ RejectDepth
  \/ RejectTemplate
  \/ EnterTemplate
  \/ RejectBody
  \/ LeaveTemplate
  \/ RejectReturn
  \/ FinishService
  \/ MergeImports

Spec == Init /\ [][Next]_vars

(* The compiler is one sequential thread that runs until it returns.       *)
FairSpec == Spec /\ WF_vars(Next)
-------------------------------------------------------------------------------
(* Properties.                                                             *)

(* The control state is well formed: a frame for the service and one per   *)
(* template in progress, each at an entry of its `with` list or past the   *)
(* last; in_progress is never longer than the limit; everything resolved   *)
(* or being resolved is a declared template.                               *)
TypeOK ==
  /\ current \in 1..(Len(program.services) + 1)
  /\ inProgress \in Seq(DOMAIN program.templates)
  /\ Len(inProgress) <= MaxDepth
  /\ next \in Seq(Nat)
  /\ IF next = <<>> THEN inProgress = <<>> ELSE Len(next) = Len(inProgress) + 1
  /\ next # <<>> => current <= Len(program.services)
  /\ \A d \in 1..Depth : next[d] \in 1..(Len(BodyAt(d).with) + 1)
  /\ DOMAIN cache \subseteq DOMAIN program.templates

(* `caller` invokes `callee` somewhere in its `with` list.                 *)
Invokes(caller, callee) ==
  \E i \in 1..Len(program.templates[caller].with) :
    callee = TargetKey(program, caller[1], program.templates[caller].with[i])

(* in_progress is a path: no template is resolved inside itself (the       *)
(* unbounded recursion of issue #72), and each one is there because the    *)
(* one before it invokes it.                                               *)
PathInProgress ==
  /\ \A i, j \in 1..Len(inProgress) : inProgress[i] = inProgress[j] => i = j
  /\ \A i \in 1..(Len(inProgress) - 1) : Invokes(inProgress[i], inProgress[i + 1])

(* TemplateCycle is reported only for a real cycle: the template about to  *)
(* be resolved is in progress, so the in_progress entries from it on, each *)
(* invoking the next, lead back to it.                                     *)
CycleIsReal ==
  outcome.error = "TemplateCycle" =>
    \E i \in 1..Len(inProgress) :
      /\ Invokes(inProgress[Len(inProgress)], inProgress[i])
      /\ \A j \in i..(Len(inProgress) - 1) : Invokes(inProgress[j], inProgress[j + 1])

(* Composition resolves along the paths of the `with` graph, and refuses a *)
(* program for a cycle only where one closes: two templates of one name in *)
(* two files are none.                                                     *)
StackIsPath == PathInProgress /\ CycleIsReal

(* What an invocation brings the body that makes it, as the cache has it,  *)
(* and what the body comes to over its first n invocations.                *)
Brings(scope, inv) == Substitute(cache[TargetKey(program, scope, inv)], inv.args)

Merged(tiers)         == FoldLeft(MergeTier, NoFields, tiers)
Tiers(scope, body, n) == [i \in 1..n |-> ResolveQualified(Brings(scope, body.with[i]))]
Anew(scope, body)     == MergeTier(Merged(Tiers(scope, body, Len(body.with))),
                                   ResolveQualified(Own(body)))

(* The declarations those invocations refer to, and the whole body.        *)
Passed(scope, body, n) == UNION {Imported(program, scope, Brings(scope, body.with[i])) : i \in 1..n}
Refers(scope, body)    == Imported(program, scope, Own(body)) \cup Passed(scope, body, Len(body.with))

(* The cache holds finished work only: every template a cached one invokes *)
(* is cached too, and none of them is still in progress, so a cycle never  *)
(* enters it.                                                              *)
CacheClosed ==
  \A key \in DOMAIN cache :
    /\ \A i \in 1..Len(program.templates[key].with) :
         TargetKey(program, key[1], program.templates[key].with[i]) \in DOMAIN cache
    /\ \A i \in 1..Len(inProgress) : inProgress[i] # key

(* A template taken from the cache is finished, and what resolving it      *)
(* again would give: its own fields over those of its targets, each with   *)
(* the arguments of that invocation, in that order, and nothing of the     *)
(* body, the arguments or the service it was first resolved for.  So is    *)
(* every service.                                                          *)
CacheIsExact ==
  /\ CacheClosed
  /\ \A key \in DOMAIN cache : cache[key] = Anew(key[1], program.templates[key])
  /\ \A s \in 1..Len(composed) : composed[s] = Anew(EntryScope, program.services[s])

(* Between services, the imports are what the bodies used so far refer to: *)
(* a template from the cache brings what its arguments refer to, its own   *)
(* references are not forgotten, and nothing else is imported.             *)
ImportsExact ==
  next = <<>> =>
    imports = UNION ({Refers(key[1], program.templates[key]) : key \in DOMAIN cache}
                       \cup {Refers(EntryScope, program.services[s]) : s \in 1..Len(composed)})

(* Composition hands codegen concrete names only: no `$param` and no       *)
(* qualified reference survives in a composed service (the "compiler       *)
(* invariant" of CodegenError::UnsubstitutedParameter).                    *)
NoResidue ==
  \A s \in 1..Len(composed) :
    /\ \A i \in DOMAIN composed[s].networks : composed[s].networks[i].kind = "ident"
    /\ \A k \in EnvKey : composed[s].env[k] # Unset => composed[s].env[k].kind = "ident"

(* Composition returns, on every program: the mutual recursion of          *)
(* resolve_template and resolve_invocation is bounded.                     *)
Termination == <>(outcome # Running)

===============================================================================
