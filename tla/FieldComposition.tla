--------------------------- MODULE FieldComposition ---------------------------
(***************************************************************************)
(* What becomes of the values of one service's fields on the way from the  *)
(* bodies that write them to the document: templates are resolved from the *)
(* inside out, a body's own fields merged over those of its `with`         *)
(* targets, the result substituted with the arguments of the invocation    *)
(* and merged into the body that invoked it.                               *)
(*                                                                         *)
(* The names, scopes, cycles and the cache of the same recursion are       *)
(* TemplateResolution's; here every template is known, no `with` is        *)
(* cyclic, and each invocation resolves its template anew.                 *)
(***************************************************************************)
EXTENDS FieldBags

CONSTANT Programs  \* the programs to compile

(* A program names its service and maps the body of the service and of     *)
(* each template to its own fields, parameters and `with` list.  A body    *)
(* mentions its own parameters only (parse_param_reference), and an        *)
(* invocation binds just those of its target (resolve_invocation).         *)
InScope(lit, params) == lit.kind = "param" => ParamOf(lit) \in params

IsFields(fields, params) ==
  /\ \A f \in {"volume", "labels", "dependsOn", "networks", "dns"} : fields[f] \in Seq(ToSet(fields[f]))
  /\ \A label \in ToSet(fields.labels) :
       label = Label(label.key, label.isList, label.items) /\ label.items \in Seq(ToSet(label.items))
  /\ \A lit \in {dep.key : dep \in ToSet(fields.dependsOn)} \cup ToSet(fields.networks) \cup ToSet(fields.dns) :
       InScope(lit, params)

IsArgument(value, params) ==
  IF value.kind = "list"
  THEN value.items \in Seq(ToSet(value.items)) /\ \A item \in ToSet(value.items) : InScope(item, params)
  ELSE InScope(value, params)

IsProgram(p) ==
  /\ "service" \in DOMAIN p.bodies
  /\ \A b \in DOMAIN p.bodies :
       LET body == p.bodies[b]
       IN  /\ IsFields(body.fields, body.params)
           /\ body.with \in Seq(ToSet(body.with))
           /\ \A call \in ToSet(body.with) :
                /\ call.target \in DOMAIN p.bodies
                /\ DOMAIN call.args = p.bodies[call.target].params
                /\ \A q \in DOMAIN call.args : IsArgument(call.args[q], body.params)

ASSUME ProgramsAssumption == \A p \in Programs : IsProgram(p)

VARIABLES
  program,   \* the program being compiled
  frames,    \* the bodies being resolved: where each is, and its MergeAcc
  warnings,  \* the templates NameParameterNotInterpolated was raised for
  document,  \* the document, once there is one
  outcome    \* "running", "ok" or the error that ended it

vars == <<program, frames, warnings, document, outcome>>

Frame(body) == [body |-> body, next |-> 1, acc |-> NoFields]

Init ==
  /\ program \in Programs
  /\ frames = <<Frame("service")>>
  /\ warnings = {}
  /\ document = <<>>
  /\ outcome = "running"

-------------------------------------------------------------------------------
Depth    == Len(frames)
Top      == frames[Depth]
Body     == program.bodies[Top.body]
Caller   == frames[Depth - 1]

(* The invocation the caller of the top body is at.                        *)
Invocation == program.bodies[Caller.body].with[Caller.next]

Invoking == outcome = "running" /\ Top.next <= Len(Body.with)
Closing  == outcome = "running" /\ Top.next > Len(Body.with)

(* Mutant: the body's own fields are merged like a `with` target's.        *)
ResolvedAsExplicit == MergeTier(Top.acc, Body.fields, "explicit")

(* The top body, resolved.                                                 *)
Resolved == MergeTier(Top.acc, Body.fields, "own")

(* And what the invocation of it contributes to the caller.                *)
Bound     == Substitute(Resolved.value, Invocation.args)
Delivered == MergeTier(Caller.acc, Bound, "explicit")

DeliveryError ==
  IF Resolved.error # None THEN Resolved.error
  ELSE IF SubstitutionError(Resolved.value, Invocation.args) # None
       THEN SubstitutionError(Resolved.value, Invocation.args)
  ELSE Delivered.error

(* Mutant: only a hole the template writes itself is looked at.            *)
WarnsOfOwnHole ==
  ServiceNameBinding \in DOMAIN Invocation.args /\ Mentions(Body.fields, ServiceNameBinding)

(* A template that has a parameter `name` and mentions `{{name}}`.         *)
Warns ==
  ServiceNameBinding \in DOMAIN Invocation.args /\ Mentions(Resolved.value, ServiceNameBinding)

-------------------------------------------------------------------------------
Invoke ==
  /\ Invoking
  /\ frames' = Append(frames, Frame(Body.with[Top.next].target))
  /\ UNCHANGED <<program, warnings, document, outcome>>

Return ==
  /\ Closing /\ Depth > 1
  /\ DeliveryError = None
  /\ warnings' = IF Warns THEN warnings \cup {Top.body} ELSE warnings
  /\ frames' = [i \in 1..(Depth - 1) |->
                  IF i < Depth - 1 THEN frames[i]
                  ELSE [Caller EXCEPT !.next = @ + 1, !.acc = Delivered.value]]
  /\ UNCHANGED <<program, document, outcome>>

RejectReturn ==
  /\ Closing /\ Depth > 1
  /\ DeliveryError # None
  /\ outcome' = DeliveryError
  /\ UNCHANGED <<program, frames, warnings, document>>

(* The service is composed, and codegen prints it.                         *)
Generate ==
  /\ Closing /\ Depth = 1
  /\ Resolved.error = None
  /\ GenerateError(Resolved.value, program.name) = None
  /\ document' = Document(Resolved.value, program.name)
  /\ outcome' = "ok"
  /\ UNCHANGED <<program, frames, warnings>>

RejectService ==
  /\ Closing /\ Depth = 1
  /\ LET error == FirstError(<<Resolved.error, GenerateError(Resolved.value, program.name)>>)
     IN  error # None /\ outcome' = error
  /\ UNCHANGED <<program, frames, warnings, document>>

Next ==
  \/ Invoke
  \/ Return
  \/ RejectReturn
  \/ Generate
  \/ RejectService

Spec == Init /\ [][Next]_vars
-------------------------------------------------------------------------------
(* Properties.                                                             *)

(* Each frame was entered by the invocation the frame below is at, no      *)
(* accumulator holds one key of a keyed field or one name of `networks`    *)
(* twice, and nothing is printed before everything is merged.              *)
KeysUnique(fields) ==
  /\ \A f \in {"volume", "labels", "dependsOn"} :
       \A i, j \in DOMAIN fields[f] : fields[f][i].key.text = fields[f][j].key.text => i = j
  /\ IsInjective(Texts(fields.networks))

TypeOK ==
  /\ frames # <<>> /\ frames[1].body = "service"
  /\ \A d \in 1..(Depth - 1) :
       frames[d + 1].body = program.bodies[frames[d].body].with[frames[d].next].target
  /\ \A d \in 1..Depth : KeysUnique(frames[d].acc)
  /\ document # <<>> <=> outcome = "ok"
===============================================================================
