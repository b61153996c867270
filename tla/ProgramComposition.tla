-------------------------- MODULE ProgramComposition --------------------------
(***************************************************************************)
(* What composition promises, without stack, cache or order of evaluation: *)
(* each service is its body with every `with` target expanded in place,    *)
(* the arguments bound first and the fields merged after, so a template is *)
(* expanded anew for each invocation.  A program is refused exactly when a *)
(* service has no such expansion or its `with` chains are too long.        *)
(*                                                                         *)
(* TemplateResolution implements this specification under the mapping its  *)
(* model checking module gives; RECURSIVE keeps it out of proofs.          *)
(***************************************************************************)
EXTENDS HllProgram

CONSTANT MaxDepth  \* MAX_TEMPLATE_DEPTH

VARIABLES
  program,  \* the program being compiled
  done,     \* the services composed, in source order
  verdict   \* "running", "ok" or "failed"

vars == <<program, done, verdict>>

-------------------------------------------------------------------------------
(* A literal with its reading environment: a parameter is replaced by what *)
(* it is bound to, a qualified reference remembers the scope its alias     *)
(* means something in.                                                     *)
Close(lit, scope, bindings) ==
  IF lit = Unset THEN lit
  ELSE IF lit.kind = "param"
       THEN bindings[CHOOSE i \in DOMAIN bindings : bindings[i].param = lit.text].value
       ELSE [kind |-> lit.kind, alias |-> lit.alias, text |-> lit.text, scope |-> scope]

(* An expansion, or that there is none.                                    *)
None == [ok |-> FALSE, env |-> [k \in EnvKey |-> Unset], networks |-> <<>>, imports |-> {}]
Empty == [None EXCEPT !.ok = TRUE]

(* A body's own fields, read in its scope under its bindings.              *)
OwnExpansion(p, scope, body, bindings) ==
  LET env == [k \in EnvKey |-> Close(body.env[k], scope, bindings)]
      refs == [i \in DOMAIN body.networks |-> Close(body.networks[i], scope, bindings)]
      bad == \/ \E k \in EnvKey : env[k] # Unset /\ env[k].kind = "qualified"
             \/ \E i \in DOMAIN refs : ReferenceError(p, refs[i].scope, refs[i]) # NoError
      reached == {i \in DOMAIN refs : refs[i].kind = "qualified"}
  IN  IF bad THEN None
      ELSE [ok |-> TRUE,
            env |-> [k \in EnvKey |-> IF env[k] = Unset THEN Unset ELSE Ident(env[k].text)],
            networks |-> [i \in DOMAIN refs |-> Ident(refs[i].text)],
            imports |-> {<<AliasTarget(p, refs[i].scope, refs[i].alias), refs[i].text>> :
                           i \in reached}]

(* Two expansions side by side; own fields override, `with` targets must   *)
(* not set one key twice.                                                  *)
Beside(left, right, isOwn) ==
  IF ~left.ok \/ ~right.ok \/ (~isOwn /\ Collides(left, right)) THEN None
  ELSE [ok |-> TRUE,
        env |-> [k \in EnvKey |-> IF right.env[k] # Unset THEN right.env[k] ELSE left.env[k]],
        networks |-> AppendDistinct(left.networks, right.networks),
        imports |-> left.imports \cup right.imports]

(* What an argument names behind an alias is declared there, whatever the  *)
(* template makes of it.                                                   *)
ArgumentsDeclared(p, scope, body) ==
  \A i \in DOMAIN body.with : \A j \in DOMAIN body.with[i].args :
    LET value == body.with[i].args[j].value
    IN  value.kind = "qualified" => value.text \in p.networks[p.aliases[scope][value.alias]]

(* The expansion of a body; fuel bounds the nesting, and only a cycle can  *)
(* exhaust it when it starts at the number of templates.                   *)
RECURSIVE ExpandBody(_, _, _, _, _)
ExpandBody(p, scope, body, bindings, fuel) ==
  LET invoked(inv) ==
        LET key == TargetKey(p, scope, inv) IN
        IF \/ fuel = 0
           \/ LookupError(p, scope, inv) # NoError
           \/ ArgumentError(p.templates[key].params, inv.args) # NoError
        THEN None
        ELSE ExpandBody(p, key[1], p.templates[key],
               [i \in DOMAIN inv.args |->
                  [param |-> inv.args[i].param,
                   value |-> Close(inv.args[i].value, scope, bindings)]],
               fuel - 1)
      targets == FoldLeft(LAMBDA sofar, inv : IF sofar.ok THEN Beside(sofar, invoked(inv), FALSE)
                                                          ELSE None,
                          Empty, body.with)
  IN  IF ArgumentsDeclared(p, scope, body) /\ targets.ok
      THEN Beside(targets, OwnExpansion(p, scope, body, bindings), TRUE)
      ELSE None

ServiceExpansion(p, i) ==
  ExpandBody(p, EntryScope, p.services[i], <<>>, Cardinality(DOMAIN p.templates))

(* The fields of an expansion, as composition delivers them.               *)
FieldsOf(expansion) == [env |-> expansion.env, networks |-> expansion.networks]

(* The templates `with` entries written in `scope` lead to, in at most     *)
(* fuel steps.                                                             *)
RECURSIVE Reached(_, _, _, _)
Reached(p, scope, with, fuel) ==
  LET found == {TargetKey(p, scope, with[i]) :
                  i \in {j \in DOMAIN with : LookupError(p, scope, with[j]) = NoError}}
  IN  IF fuel = 0 THEN {}
      ELSE found \cup UNION {Reached(p, key[1], p.templates[key].with, fuel - 1) : key \in found}

(* MAX_TEMPLATE_DEPTH limits how deep a chain of `with` goes through       *)
(* templates that nothing before it leads to: what an earlier service, or  *)
(* an earlier entry of a list on the way, has reached counts for nothing.  *)
RECURSIVE NestsTooDeep(_, _, _, _, _)
NestsTooDeep(p, scope, with, seen, limit) ==
  \E i \in DOMAIN with :
    LET key == TargetKey(p, scope, with[i])
        before == seen \cup Reached(p, scope, SubSeq(with, 1, i - 1), Cardinality(DOMAIN p.templates))
    IN  /\ LookupError(p, scope, with[i]) = NoError
        /\ key \notin before
        /\ limit = 0 \/ NestsTooDeep(p, key[1], p.templates[key].with, before, limit - 1)

TooDeep(p, i) ==
  LET seen == UNION {Reached(p, EntryScope, p.services[j].with, Cardinality(DOMAIN p.templates)) :
                       j \in 1..(i - 1)}
  IN  NestsTooDeep(p, EntryScope, p.services[i].with, seen, MaxDepth)

-------------------------------------------------------------------------------
(* For any program at all.                                                 *)
Init == done = <<>> /\ verdict = "running"

Pending == Len(done) + 1

Fine(i) == ServiceExpansion(program, i).ok /\ ~TooDeep(program, i)

AcceptService ==
  /\ verdict = "running"
  /\ Pending <= Len(program.services)
  /\ Fine(Pending)
  /\ done' = Append(done, FieldsOf(ServiceExpansion(program, Pending)))
  /\ UNCHANGED <<program, verdict>>

RejectService ==
  /\ verdict = "running"
  /\ Pending <= Len(program.services)
  /\ ~Fine(Pending)
  /\ verdict' = "failed"
  /\ UNCHANGED <<program, done>>

Conclude ==
  /\ verdict = "running"
  /\ Pending > Len(program.services)
  /\ LET imports == UNION {ServiceExpansion(program, i).imports :
                             i \in 1..Len(program.services)}
     IN verdict' = IF ImportsCollide(program, imports) THEN "failed" ELSE "ok"
  /\ UNCHANGED <<program, done>>

Next == AcceptService \/ RejectService \/ Conclude

Spec == Init /\ [][Next]_vars
===============================================================================
