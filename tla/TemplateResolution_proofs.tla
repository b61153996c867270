----------------------- MODULE TemplateResolution_proofs -----------------------
(***************************************************************************)
(* Proofs about template composition, for every set of programs and every  *)
(* depth limit.  The inductive invariant adds to the checked properties    *)
(* that each template in progress is the target of the `with` entry the    *)
(* frame below it is at (Linked), that what a frame has passed is cached,  *)
(* and that its tiers so far are what those cached bodies bring (Exact,    *)
(* Sources).                                                               *)
(***************************************************************************)
EXTENDS TemplateResolution, SequenceLemmas

(* The template the i-th `with` entry of frame d names.                    *)
Entry(d, i) == TargetKey(program, ScopeAt(d), BodyAt(d).with[i])

(* The frames are linked: a template is in progress because the frame      *)
(* below is at the `with` entry that names it.                             *)
Linked ==
  \A d \in 1..Len(inProgress) :
    /\ next[d] <= Len(BodyAt(d).with)
    /\ inProgress[d] = TargetAt(d)

-------------------------------------------------------------------------------
(* What the guards of the actions establish.                               *)

(* An invocation without error names a declared template.                  *)
LEMMA ResolvableTarget ==
  ASSUME Resolvable
  PROVE  TargetAt(Depth) \in DOMAIN program.templates
<1>1. LookupError(program, ScopeAt(Depth), InvocationAt(Depth)) = NoError
  BY DEF Resolvable, InvocationError
<1>2. "UnknownAlias" # NoError /\ "UnknownTemplate" # NoError
  BY NoErrorAssumption DEF ComposeErrors, TemplateErrors, DeclarationErrors, MergeErrors
<1> QED
  BY <1>1, <1>2 DEF LookupError, TargetAt

(* The body of every frame is one the program declares.                    *)
LEMMA FrameBody ==
  ASSUME program \in Programs, TypeOK, NEW d \in 1..Depth
  PROVE  BodyShape(BodyAt(d)) /\ (d = 1 => BodyAt(d).params = {})
<1>1. ProgramShape(program)
  BY ProgramsAssumption
<1>2. CASE d = 1
  <2>1. current \in 1..Len(program.services)
    BY <1>1, <1>2 DEF TypeOK, Depth, ProgramShape
  <2> QED
    BY <1>1, <1>2, <2>1 DEF ProgramShape, BodyAt
<1>3. CASE d # 1
  <2>1. inProgress[d - 1] \in DOMAIN program.templates
    BY <1>3 DEF TypeOK, Depth
  <2> QED
    BY <1>1, <1>3, <2>1 DEF ProgramShape, BodyAt
<1> QED
  BY <1>2, <1>3

(* The body of every frame has a finite `with` list, and all frames but    *)
(* the lowest belong to a template in progress.                            *)
LEMMA FramesShaped ==
  ASSUME program \in Programs, TypeOK
  PROVE  /\ Depth \in Nat
         /\ Len(inProgress) \in Nat
         /\ Depth > 0 => Len(inProgress) = Depth - 1
         /\ Depth = 0 => inProgress = <<>>
         /\ \A d \in 1..Depth : Len(BodyAt(d).with) \in Nat
<1>1. /\ Depth \in Nat
      /\ Len(inProgress) \in Nat
      /\ Depth > 0 => Len(inProgress) = Depth - 1
      /\ Depth = 0 => inProgress = <<>>
  BY DEF TypeOK, Depth
<1>2. ASSUME NEW d \in 1..Depth
      PROVE  Len(BodyAt(d).with) \in Nat
  BY FrameBody DEF BodyShape
<1> QED
  BY <1>1, <1>2

(* A prefix of a sequence, and a sequence with one entry incremented.      *)
LEMMA Prefix ==
  ASSUME NEW S, NEW s \in Seq(S), NEW n \in 0..Len(s)
  PROVE  /\ SubSeq(s, 1, n) \in Seq(S)
         /\ Len(SubSeq(s, 1, n)) = n
         /\ \A i \in 1..n : SubSeq(s, 1, n)[i] = s[i]
<1>1. Len(s) \in Nat /\ \A i \in 1..n : s[i] \in S
  BY LenProperties
<1>2. /\ SubSeq(s, 1, n) \in Seq(S)
      /\ Len(SubSeq(s, 1, n)) = IF 1 <= n THEN n - 1 + 1 ELSE 0
      /\ \A i \in 1..(n - 1 + 1) : SubSeq(s, 1, n)[i] = s[1 + i - 1]
  BY <1>1, SubSeqProperties
<1> QED
  BY <1>1, <1>2

LEMMA Advanced ==
  ASSUME NEW s \in Seq(Nat), NEW i \in 1..Len(s)
  PROVE  /\ [s EXCEPT ![i] = @ + 1] \in Seq(Nat)
         /\ Len([s EXCEPT ![i] = @ + 1]) = Len(s)
         /\ \A j \in 1..Len(s) :
              [s EXCEPT ![i] = @ + 1][j] = IF j = i THEN s[i] + 1 ELSE s[j]
<1>1. s[i] + 1 \in Nat
  BY LenProperties
<1> QED
  BY <1>1, ExceptSeq

(* A frame whose template and position stay has the same body and target.  *)
LEMMA FrameKept ==
  ASSUME NEW d \in Nat,
         program' = program, current' = current,
         d # 1 => inProgress'[d - 1] = inProgress[d - 1]
  PROVE  /\ BodyAt(d)' = BodyAt(d)
         /\ next'[d] = next[d] => TargetAt(d)' = TargetAt(d)
         /\ \A i : Entry(d, i)' = Entry(d, i)
<1>1. BodyAt(d)' = BodyAt(d) /\ ScopeAt(d)' = ScopeAt(d)
  BY DEF BodyAt, ScopeAt
<1>2. next'[d] = next[d] => TargetAt(d)' = TargetAt(d)
  BY <1>1 DEF TargetAt, TargetKey, AliasTarget, InvocationAt
<1>3. ASSUME NEW i
      PROVE  Entry(d, i)' = Entry(d, i)
  BY <1>1 DEF Entry, TargetKey, AliasTarget
<1> QED
  BY <1>1, <1>2, <1>3

-------------------------------------------------------------------------------
(* The inductive invariant: the control state is well formed and linked.   *)

IInv == program \in Programs /\ TypeOK /\ Linked

LEMMA InitIInv == Init => IInv
<1> SUFFICES ASSUME Init PROVE IInv
  OBVIOUS
<1>1. program \in Programs
  BY DEF Init
<1>2. ProgramShape(program)
  BY <1>1, ProgramsAssumption
<1>3. current \in 1..(Len(program.services) + 1)
  BY <1>2 DEF Init, ProgramShape
<1>4. TypeOK
  BY <1>3, MaxDepthAssumption DEF Init, TypeOK, Depth
<1>5. Linked
  BY DEF Init, Linked
<1> QED
  BY <1>1, <1>4, <1>5 DEF IInv

(* Entering a template adds a frame on top of frames that stay.            *)
LEMMA EnterStep ==
  ASSUME IInv, EnterTemplate
  PROVE  /\ Depth \in Nat \ {0} /\ Depth' = Depth + 1
         /\ Len(inProgress) = Depth - 1 /\ Len(inProgress') = Depth
         /\ inProgress' \in Seq(DOMAIN program.templates)
         /\ next' \in Seq(Nat)
         /\ \A d \in 1..(Depth - 1) : inProgress'[d] = inProgress[d]
         /\ inProgress'[Depth] = TargetAt(Depth)
         /\ next'[Depth + 1] = 1
         /\ \A d \in 1..Depth :
              /\ next'[d] = next[d] /\ BodyAt(d)' = BodyAt(d)
              /\ TargetAt(d)' = TargetAt(d) /\ \A i : Entry(d, i)' = Entry(d, i)
<1>1. /\ program' = program /\ current' = current
      /\ inProgress' = Append(inProgress, TargetAt(Depth))
      /\ next' = Append(next, 1)
  BY DEF EnterTemplate
<1>2. TargetAt(Depth) \in DOMAIN program.templates
  BY ResolvableTarget DEF EnterTemplate, Miss
<1>3. /\ Depth \in Nat \ {0}
      /\ Depth = Len(next)
      /\ Len(inProgress) = Depth - 1
      /\ next \in Seq(Nat)
      /\ inProgress \in Seq(DOMAIN program.templates)
  BY FramesShaped DEF IInv, TypeOK, Depth, EnterTemplate, Miss, Resolvable, Invoking
<1>4. /\ inProgress' \in Seq(DOMAIN program.templates)
      /\ Len(inProgress') = Depth
      /\ \A d \in 1..(Depth - 1) : inProgress'[d] = inProgress[d]
      /\ inProgress'[Depth] = TargetAt(Depth)
  <2> HIDE DEF Depth
  <2> QED
    BY <1>1, <1>2, <1>3, AppendProperties
<1>5. /\ next' \in Seq(Nat)
      /\ Depth' = Depth + 1
      /\ \A d \in 1..Depth : next'[d] = next[d]
      /\ next'[Depth + 1] = 1
  BY <1>1, <1>3 DEF Depth
<1>6. ASSUME NEW d \in 1..Depth
      PROVE  /\ BodyAt(d)' = BodyAt(d) /\ TargetAt(d)' = TargetAt(d)
             /\ \A i : Entry(d, i)' = Entry(d, i)
  <2>1. d \in Nat /\ (d # 1 => inProgress'[d - 1] = inProgress[d - 1])
    BY <1>3, <1>4
  <2> QED
    BY <1>1, <1>5, <2>1, FrameKept
<1> QED
  BY <1>3, <1>4, <1>5, <1>6

LEMMA EnterIInv ==
  ASSUME IInv, EnterTemplate
  PROVE  IInv'
<1>1. program' = program /\ current' = current /\ cache' = cache
  BY DEF EnterTemplate
<1>2. Depth \in Nat \ {0} /\ Depth' = Depth + 1 /\ Len(inProgress') = Depth
  BY EnterStep
<1>3. next[Depth] <= Len(BodyAt(Depth).with)
  BY DEF EnterTemplate, Miss, Resolvable, Invoking
<1>4. ASSUME NEW d \in 1..Depth'
      PROVE  next'[d] \in 1..(Len(BodyAt(d)'.with) + 1)
  <2>1. CASE d <= Depth
    <3>1. d \in 1..Depth
      BY <1>2, <2>1
    <3>2. next[d] \in 1..(Len(BodyAt(d).with) + 1)
      BY <3>1 DEF IInv, TypeOK
    <3> QED
      BY <3>1, <3>2, EnterStep
  <2>2. CASE d > Depth
    <3>1. d = Depth + 1 /\ d # 1 /\ d - 1 = Depth
      BY <1>2, <2>2
    <3>2. next'[d] = 1 /\ inProgress'[d - 1] = TargetAt(Depth)
      BY <3>1, EnterStep
    <3>3. BodyAt(d)' = program.templates[TargetAt(Depth)]
      BY <1>1, <3>1, <3>2 DEF BodyAt
    <3>4. TargetAt(Depth) \in DOMAIN program.templates
      BY ResolvableTarget DEF EnterTemplate, Miss
    <3>5. Len(BodyAt(d)'.with) \in Nat
      BY <3>3, <3>4, ProgramsAssumption DEF IInv, ProgramShape, BodyShape
    <3> QED
      BY <3>2, <3>5
  <2> QED
    BY <1>2, <2>1, <2>2
<1>5. TypeOK'
  <2>1. inProgress' \in Seq(DOMAIN program'.templates) /\ next' \in Seq(Nat)
    BY <1>1, EnterStep
  <2>2. Len(inProgress') <= MaxDepth
    <3>1. ~(Len(inProgress) + 1 > MaxDepth)
      BY DEF EnterTemplate, TooDeep
    <3> QED
      BY <1>2, <3>1, EnterStep, MaxDepthAssumption
  <2>3. next' # <<>> /\ Len(next') = Len(inProgress') + 1
    <3>1. Len(next') = Depth + 1
      BY <1>2 DEF Depth
    <3> QED
      BY <1>2, <2>1, <3>1
  <2>4. /\ current' \in 1..(Len(program'.services) + 1)
        /\ current' <= Len(program'.services)
        /\ DOMAIN cache' \subseteq DOMAIN program'.templates
    <3>1. next # <<>>
      BY <1>2 DEF Depth
    <3> QED
      BY <1>1, <3>1 DEF IInv, TypeOK
  <2> QED
    BY <1>4, <2>1, <2>2, <2>3, <2>4 DEF TypeOK
<1>6. ASSUME NEW d \in 1..Len(inProgress')
      PROVE  next'[d] <= Len(BodyAt(d)'.with) /\ inProgress'[d] = TargetAt(d)'
  <2>1. d \in 1..Depth
    BY <1>2
  <2>2. CASE d < Depth
    <3>1. d \in 1..(Depth - 1) /\ d \in 1..Len(inProgress)
      BY <1>2, <2>1, <2>2, EnterStep
    <3>2. next[d] <= Len(BodyAt(d).with) /\ inProgress[d] = TargetAt(d)
      BY <3>1 DEF IInv, Linked
    <3> QED
      BY <2>1, <3>1, <3>2, EnterStep
  <2>3. CASE d = Depth
    BY <1>3, <2>1, <2>3, EnterStep
  <2> QED
    BY <1>2, <2>1, <2>2, <2>3
<1>7. Linked'
  BY <1>6 DEF Linked
<1> QED
  BY <1>1, <1>5, <1>7 DEF IInv

(* Leaving a template drops the top frame and moves the one below to its   *)
(* next entry.                                                             *)
LEMMA LeaveStep ==
  ASSUME IInv, LeaveTemplate,
         NEW caller, caller = Depth - 1
  PROVE  /\ caller \in Nat \ {0} /\ Depth = caller + 1 /\ Depth' = caller
         /\ Len(inProgress) = caller /\ Len(inProgress') = caller - 1
         /\ inProgress' \in Seq(DOMAIN program.templates)
         /\ next' \in Seq(Nat)
         /\ \A d \in 1..(caller - 1) : inProgress'[d] = inProgress[d]
         /\ DOMAIN cache' = DOMAIN cache \cup {inProgress[caller]}
         /\ next'[caller] = next[caller] + 1
         /\ \A d \in 1..(caller - 1) : next'[d] = next[d]
         /\ \A d \in 1..caller :
              /\ BodyAt(d)' = BodyAt(d)
              /\ next'[d] = next[d] => TargetAt(d)' = TargetAt(d)
              /\ \A i : Entry(d, i)' = Entry(d, i)
<1>1. /\ caller \in Nat \ {0}
      /\ Depth = caller + 1
      /\ Len(next) = caller + 1
      /\ Len(inProgress) = caller
      /\ inProgress \in Seq(DOMAIN program.templates)
      /\ next \in Seq(Nat)
  <2>1. Depth \in Nat /\ Depth > 1 /\ Len(inProgress) = Depth - 1
    BY FramesShaped DEF IInv, LeaveTemplate
  <2>2. /\ Len(next) = Depth
        /\ inProgress \in Seq(DOMAIN program.templates)
        /\ next \in Seq(Nat)
    BY DEF IInv, TypeOK, Depth
  <2> QED
    BY <2>1, <2>2
<1>2. /\ program' = program /\ current' = current
      /\ inProgress' = SubSeq(inProgress, 1, caller - 1)
      /\ next' = [SubSeq(next, 1, caller) EXCEPT ![caller] = @ + 1]
      /\ DOMAIN cache' = DOMAIN cache \cup {inProgress[caller]}
  BY DEF LeaveTemplate
<1>3. /\ inProgress' \in Seq(DOMAIN program.templates)
      /\ Len(inProgress') = caller - 1
      /\ \A d \in 1..(caller - 1) : inProgress'[d] = inProgress[d]
  <2>1. caller - 1 \in 0..Len(inProgress)
    BY <1>1
  <2> QED
    BY ZenonT(30), <1>1, <1>2, <2>1, Prefix
<1>4. /\ next' \in Seq(Nat)
      /\ Depth' = caller
      /\ \A d \in 1..(caller - 1) : next'[d] = next[d]
      /\ next'[caller] = next[caller] + 1
  <2> DEFINE below == SubSeq(next, 1, caller)
  <2>1. caller \in 0..Len(next) /\ caller \in 1..caller
    BY <1>1
  <2>2. below \in Seq(Nat) /\ Len(below) = caller /\ \A d \in 1..caller : below[d] = next[d]
    BY <1>1, <2>1, Prefix
  <2>3. /\ next' \in Seq(Nat)
        /\ Len(next') = caller
        /\ \A d \in 1..caller : next'[d] = IF d = caller THEN below[caller] + 1 ELSE below[d]
    <3> HIDE DEF below
    <3>1. next' = [below EXCEPT ![caller] = @ + 1]
      BY <1>2 DEF below
    <3> QED
      BY <2>1, <2>2, <3>1, Advanced
  <2> HIDE DEF below
  <2>4. Depth' = caller
    BY <2>3 DEF Depth
  <2> QED
    BY <1>1, <2>1, <2>2, <2>3, <2>4
<1>5. ASSUME NEW d \in 1..caller
      PROVE  /\ BodyAt(d)' = BodyAt(d)
             /\ next'[d] = next[d] => TargetAt(d)' = TargetAt(d)
             /\ \A i : Entry(d, i)' = Entry(d, i)
  <2>1. d \in Nat /\ (d # 1 => inProgress'[d - 1] = inProgress[d - 1])
    BY <1>1, <1>3
  <2> QED
    BY <1>2, <2>1, FrameKept
<1> QED
  BY <1>1, <1>2, <1>3, <1>4, <1>5

(* The frame below stays in range because it was at the entry that named   *)
(* the template that returns.                                              *)
LEMMA LeaveIInv ==
  ASSUME IInv, LeaveTemplate
  PROVE  IInv'
<1> PICK caller : caller = Depth - 1
  OBVIOUS
<1>1. program' = program /\ current' = current
  BY DEF LeaveTemplate
<1>2. /\ caller \in Nat \ {0} /\ Depth = caller + 1 /\ Depth' = caller
      /\ Len(inProgress) = caller /\ Len(inProgress') = caller - 1
  BY LeaveStep
<1>3. ASSUME NEW d \in 1..Depth'
      PROVE  next'[d] \in 1..(Len(BodyAt(d)'.with) + 1)
  <2>1. d \in 1..Depth /\ d \in 1..caller
    BY <1>2
  <2>2. next[d] \in 1..(Len(BodyAt(d).with) + 1) /\ Len(BodyAt(d).with) \in Nat
    BY <2>1, FramesShaped DEF IInv, TypeOK
  <2>3. BodyAt(d)' = BodyAt(d)
    BY <2>1, LeaveStep
  <2>4. CASE d < caller
    <3>1. d \in 1..(caller - 1)
      BY <1>2, <2>1, <2>4
    <3>2. next'[d] = next[d]
      BY <3>1, LeaveStep
    <3> QED
      BY <2>2, <2>3, <3>2
  <2>5. CASE d = caller
    <3>1. next[d] <= Len(BodyAt(d).with)
      BY <1>2, <2>1 DEF IInv, Linked
    <3>2. next'[d] = next[d] + 1
      BY <2>5, LeaveStep
    <3> QED
      BY <2>2, <2>3, <3>1, <3>2
  <2> QED
    BY <1>2, <2>1, <2>4, <2>5
<1>4. TypeOK'
  <2>1. inProgress' \in Seq(DOMAIN program'.templates) /\ next' \in Seq(Nat)
    BY <1>1, LeaveStep
  <2>2. Len(inProgress') <= MaxDepth
    <3>1. Len(inProgress) <= MaxDepth
      BY DEF IInv, TypeOK
    <3> QED
      BY <1>2, <3>1, MaxDepthAssumption
  <2>3. next' # <<>> /\ Len(next') = Len(inProgress') + 1
    <3>1. Len(next') = caller
      BY <1>2 DEF Depth
    <3> QED
      BY <1>2, <2>1, <3>1
  <2>4. current' \in 1..(Len(program'.services) + 1) /\ current' <= Len(program'.services)
    <3>1. next # <<>>
      BY <1>2 DEF Depth
    <3> QED
      BY <1>1, <3>1 DEF IInv, TypeOK
  <2>5. DOMAIN cache' \subseteq DOMAIN program'.templates
    <3>1. inProgress[caller] \in DOMAIN program.templates
      BY <1>2 DEF IInv, TypeOK
    <3>2. DOMAIN cache' = DOMAIN cache \cup {inProgress[caller]}
      BY LeaveStep
    <3> QED
      BY <1>1, <3>1, <3>2 DEF IInv, TypeOK
  <2> QED
    BY <1>3, <2>1, <2>2, <2>3, <2>4, <2>5 DEF TypeOK
<1>5. ASSUME NEW d \in 1..Len(inProgress')
      PROVE  next'[d] <= Len(BodyAt(d)'.with) /\ inProgress'[d] = TargetAt(d)'
  <2>1. d \in 1..(caller - 1) /\ d \in 1..caller /\ d \in 1..Len(inProgress)
    BY <1>2
  <2>2. next[d] <= Len(BodyAt(d).with) /\ inProgress[d] = TargetAt(d)
    BY <2>1 DEF IInv, Linked
  <2> QED
    BY <2>1, <2>2, LeaveStep
<1>6. Linked'
  BY <1>5 DEF Linked
<1> QED
  BY <1>1, <1>4, <1>6 DEF IInv

(* Starting a service: its frame is the only one.                          *)
LEMMA StartIInv ==
  ASSUME IInv, StartService
  PROVE  IInv'
<1>1. /\ program' = program /\ current' = current /\ inProgress' = inProgress
      /\ cache' = cache /\ next' = <<1>>
      /\ inProgress = <<>>
      /\ current <= Len(program.services)
  BY FramesShaped DEF IInv, StartService
<1>2. current \in 1..Len(program.services) /\ ProgramShape(program)
  <2>1. ProgramShape(program)
    BY ProgramsAssumption DEF IInv
  <2>2. Len(program.services) \in Nat
    BY <2>1 DEF ProgramShape
  <2>3. current \in 1..(Len(program.services) + 1)
    BY DEF IInv, TypeOK
  <2> QED
    BY <1>1, <2>1, <2>2, <2>3
<1>3. Depth' = 1 /\ next'[1] = 1
  BY <1>1 DEF Depth
<1>4. Len(BodyAt(1)'.with) \in Nat
  BY <1>1, <1>2 DEF BodyAt, ProgramShape, BodyShape
<1>5. TypeOK'
  BY <1>1, <1>2, <1>3, <1>4 DEF IInv, TypeOK
<1>6. Linked'
  BY <1>1 DEF Linked
<1> QED
  BY <1>1, <1>5, <1>6 DEF IInv

(* Finishing a service: no frame is left.                                  *)
LEMMA FinishIInv ==
  ASSUME IInv, FinishService
  PROVE  IInv'
<1>1. /\ program' = program /\ current' = current + 1 /\ inProgress' = inProgress
      /\ cache' = cache /\ next' = <<>>
  BY DEF FinishService
<1>2. inProgress = <<>>
  BY FramesShaped DEF IInv, FinishService, TypeOK
<1>3. current \in 1..Len(program.services) /\ Len(program.services) \in Nat
  <2>1. next # <<>>
    BY DEF FinishService, Depth
  <2>2. Len(program.services) \in Nat
    BY ProgramsAssumption DEF IInv, ProgramShape
  <2> QED
    BY <2>1, <2>2 DEF IInv, TypeOK
<1>4. Depth' = 0
  BY <1>1 DEF Depth
<1>5. TypeOK'
  BY <1>1, <1>2, <1>3, <1>4 DEF IInv, TypeOK
<1>6. Linked'
  BY <1>1, <1>2 DEF Linked
<1> QED
  BY <1>1, <1>5, <1>6 DEF IInv

(* Taking a template from the cache moves the top frame to its next entry. *)
LEMMA UseStep ==
  ASSUME IInv, UseCached
  PROVE  /\ Depth \in Nat \ {0} /\ Depth' = Depth
         /\ inProgress' = inProgress /\ cache' = cache
         /\ Len(inProgress) = Depth - 1
         /\ next' \in Seq(Nat)
         /\ next[Depth] <= Len(BodyAt(Depth).with)
         /\ TargetAt(Depth) \in DOMAIN cache
         /\ next'[Depth] = next[Depth] + 1
         /\ \A d \in 1..(Depth - 1) : next'[d] = next[d]
         /\ \A d \in 1..Depth :
              /\ BodyAt(d)' = BodyAt(d)
              /\ next'[d] = next[d] => TargetAt(d)' = TargetAt(d)
              /\ \A i : Entry(d, i)' = Entry(d, i)
<1>1. /\ program' = program /\ current' = current /\ inProgress' = inProgress
      /\ cache' = cache
      /\ next' = [next EXCEPT ![Depth] = @ + 1]
  BY DEF UseCached
<1>2. /\ Depth \in Nat \ {0}
      /\ Len(next) = Depth
      /\ next \in Seq(Nat)
      /\ Len(inProgress) = Depth - 1
      /\ next[Depth] <= Len(BodyAt(Depth).with)
      /\ TargetAt(Depth) \in DOMAIN cache
  BY FramesShaped DEF IInv, TypeOK, UseCached, Hit, Resolvable, Invoking, Depth
<1>3. /\ next' \in Seq(Nat)
      /\ Depth' = Depth
      /\ \A d \in 1..(Depth - 1) : next'[d] = next[d]
      /\ next'[Depth] = next[Depth] + 1
  BY <1>1, <1>2 DEF Depth
<1>4. ASSUME NEW d \in 1..Depth
      PROVE  /\ BodyAt(d)' = BodyAt(d)
             /\ next'[d] = next[d] => TargetAt(d)' = TargetAt(d)
             /\ \A i : Entry(d, i)' = Entry(d, i)
  BY <1>1, <1>2, FrameKept
<1> QED
  BY <1>1, <1>2, <1>3, <1>4

LEMMA UseIInv ==
  ASSUME IInv, UseCached
  PROVE  IInv'
<1>1. program' = program /\ current' = current
  BY DEF UseCached
<1>2. /\ Depth \in Nat \ {0} /\ Depth' = Depth
      /\ inProgress' = inProgress /\ cache' = cache
      /\ Len(inProgress) = Depth - 1
  BY UseStep
<1>3. ASSUME NEW d \in 1..Depth'
      PROVE  next'[d] \in 1..(Len(BodyAt(d)'.with) + 1)
  <2>1. d \in 1..Depth
    BY <1>2
  <2>2. next[d] \in 1..(Len(BodyAt(d).with) + 1) /\ Len(BodyAt(d).with) \in Nat
    BY <2>1, FramesShaped DEF IInv, TypeOK
  <2>3. BodyAt(d)' = BodyAt(d)
    BY <2>1, UseStep
  <2>4. CASE d < Depth
    <3>1. d \in 1..(Depth - 1)
      BY <1>2, <2>1, <2>4
    <3>2. next'[d] = next[d]
      BY <3>1, UseStep
    <3> QED
      BY <2>2, <2>3, <3>2
  <2>5. CASE d = Depth
    <3>1. next[d] <= Len(BodyAt(d).with) /\ next'[d] = next[d] + 1
      BY <2>5, UseStep
    <3> QED
      BY <2>2, <2>3, <3>1
  <2> QED
    BY <1>2, <2>1, <2>4, <2>5
<1>4. TypeOK'
  <2>1. next' \in Seq(Nat) /\ next' # <<>> /\ Len(next') = Len(inProgress') + 1
    <3>1. next' \in Seq(Nat) /\ Len(next') = Depth
      BY <1>2, UseStep DEF Depth
    <3> QED
      BY <1>2, <3>1
  <2>2. next # <<>>
    BY <1>2 DEF Depth
  <2>3. current' \in 1..(Len(program'.services) + 1) /\ current' <= Len(program'.services)
    BY <1>1, <2>2 DEF IInv, TypeOK
  <2>4. /\ inProgress' \in Seq(DOMAIN program'.templates)
        /\ Len(inProgress') <= MaxDepth
        /\ DOMAIN cache' \subseteq DOMAIN program'.templates
    BY <1>1, <1>2 DEF IInv, TypeOK
  <2> QED
    BY <1>3, <2>1, <2>3, <2>4 DEF TypeOK
<1>5. ASSUME NEW d \in 1..Len(inProgress')
      PROVE  next'[d] <= Len(BodyAt(d)'.with) /\ inProgress'[d] = TargetAt(d)'
  <2>1. d \in 1..(Depth - 1) /\ d \in 1..Depth /\ d \in 1..Len(inProgress)
    BY <1>2
  <2>2. next[d] <= Len(BodyAt(d).with) /\ inProgress[d] = TargetAt(d)
    BY <2>1 DEF IInv, Linked
  <2> QED
    BY <1>2, <2>1, <2>2, UseStep
<1>6. Linked'
  BY <1>5 DEF Linked
<1> QED
  BY <1>1, <1>4, <1>6 DEF IInv

(* Ending, well or not, leaves all of it as it is.                         *)
LEMMA KeptIInv ==
  ASSUME IInv,
         UNCHANGED <<program, current, inProgress, next, cache>>
  PROVE  IInv'
<1>1. ASSUME NEW d \in Nat
      PROVE  BodyAt(d)' = BodyAt(d) /\ TargetAt(d)' = TargetAt(d)
  BY FrameKept
<1>2. Depth' = Depth /\ Depth \in Nat /\ Len(inProgress) \in Nat
  BY FramesShaped DEF IInv, Depth
<1>3. TypeOK'
  BY <1>1, <1>2 DEF IInv, TypeOK
<1>4. Linked'
  BY <1>1, <1>2 DEF IInv, Linked
<1> QED
  BY <1>3, <1>4 DEF IInv

(* The actions that end in an error, and the one that ends composition.    *)
Ending ==
  \/ RejectService \/ RejectInvocation \/ RejectCached \/ RejectCycle \/ RejectDepth
  \/ RejectTemplate \/ RejectBody \/ RejectReturn \/ MergeImports

LEMMA EndingKeeps ==
  ASSUME Ending
  PROVE  UNCHANGED <<program, current, inProgress, next, acc, cache, imports, composed>>
BY DEF Ending, RejectService, RejectInvocation, RejectCached, RejectCycle, RejectDepth,
       RejectTemplate, RejectBody, RejectReturn, MergeImports, Return

LEMMA NextIInv == IInv /\ [Next]_vars => IInv'
<1> SUFFICES ASSUME IInv, [Next]_vars PROVE IInv'
  OBVIOUS
<1>1. CASE StartService
  BY <1>1, StartIInv
<1>2. CASE UseCached
  BY <1>2, UseIInv
<1>3. CASE EnterTemplate
  BY <1>3, EnterIInv
<1>4. CASE LeaveTemplate
  BY <1>4, LeaveIInv
<1>5. CASE FinishService
  BY <1>5, FinishIInv
<1>6. CASE Ending
  BY <1>6, EndingKeeps, KeptIInv
<1>7. CASE UNCHANGED vars
  BY <1>7, KeptIInv DEF vars
<1> QED
  BY <1>1, <1>2, <1>3, <1>4, <1>5, <1>6, <1>7 DEF Next, Ending

(* TypeOK, for every program and limit: no frame runs past its `with`      *)
(* list and in_progress never outgrows MAX_TEMPLATE_DEPTH.                 *)
THEOREM TypeCorrect == Spec => []TypeOK
<1>1. Init => IInv
  BY InitIInv
<1>2. IInv /\ [Next]_vars => IInv'
  BY NextIInv
<1>3. IInv => TypeOK
  BY DEF IInv
<1> QED
  BY <1>1, <1>2, <1>3, PTL DEF Spec

-------------------------------------------------------------------------------
(* The path and the cache.  A frame has every entry it is past in the      *)
(* cache, which is why a template's entries are all there when it gets     *)
(* there itself.                                                           *)

Distinct == \A i, j \in 1..Len(inProgress) : inProgress[i] = inProgress[j] => i = j

Visited == \A d \in 1..Depth : \A i \in 1..(next[d] - 1) : Entry(d, i) \in DOMAIN cache

PathInv == IInv /\ Distinct /\ Visited /\ CacheClosed

(* CacheClosed for one key.                                                *)
EntriesCached(key) ==
  \A i \in 1..Len(program.templates[key].with) :
    TargetKey(program, key[1], program.templates[key].with[i]) \in DOMAIN cache

NotInProgress(key) == \A i \in 1..Len(inProgress) : inProgress[i] # key

LEMMA CacheClosedByKey ==
  CacheClosed <=> \A key \in DOMAIN cache : EntriesCached(key) /\ NotInProgress(key)
BY DEF CacheClosed, EntriesCached, NotInProgress

LEMMA InitPath == Init => PathInv
<1> SUFFICES ASSUME Init PROVE PathInv
  OBVIOUS
<1>1. IInv
  BY InitIInv
<1>2. Distinct /\ Visited /\ CacheClosed
  BY DEF Init, Distinct, Visited, CacheClosed, Depth
<1> QED
  BY <1>1, <1>2 DEF PathInv

LEMMA EnterPath ==
  ASSUME PathInv, EnterTemplate
  PROVE  PathInv'
<1>1. IInv /\ IInv'
  BY EnterIInv DEF PathInv
<1>2. program' = program /\ cache' = cache
  BY DEF EnterTemplate
<1>3. /\ Depth \in Nat \ {0} /\ Depth' = Depth + 1
      /\ Len(inProgress) = Depth - 1 /\ Len(inProgress') = Depth
      /\ \A d \in 1..(Depth - 1) : inProgress'[d] = inProgress[d]
      /\ inProgress'[Depth] = TargetAt(Depth)
  BY <1>1, EnterStep
<1>4. \A i \in 1..(Depth - 1) : inProgress[i] # TargetAt(Depth)
  <2>1. DOMAIN inProgress = 1..(Depth - 1)
    BY <1>1, <1>3, LenProperties DEF IInv, TypeOK
  <2> QED
    BY <2>1 DEF EnterTemplate, OnStack
<1>5. Distinct'
  <2> SUFFICES ASSUME NEW i \in 1..Depth, NEW j \in 1..Depth, inProgress'[i] = inProgress'[j]
               PROVE  i = j
    BY <1>3 DEF Distinct
  <2>1. CASE i < Depth /\ j < Depth
    <3>1. i \in 1..(Depth - 1) /\ j \in 1..(Depth - 1)
      BY <1>3, <2>1
    <3> QED
      BY <1>3, <3>1 DEF PathInv, Distinct
  <2>2. CASE i = Depth /\ j < Depth
    <3>1. j \in 1..(Depth - 1)
      BY <1>3, <2>2
    <3> QED
      BY <1>3, <1>4, <2>2, <3>1
  <2>3. CASE i < Depth /\ j = Depth
    <3>1. i \in 1..(Depth - 1)
      BY <1>3, <2>3
    <3> QED
      BY <1>3, <1>4, <2>3, <3>1
  <2> QED
    BY <1>3, <2>1, <2>2, <2>3
<1>6. Visited'
  <2> SUFFICES ASSUME NEW d \in 1..(Depth + 1), NEW i \in 1..(next'[d] - 1)
               PROVE  Entry(d, i)' \in DOMAIN cache
    BY <1>2, <1>3 DEF Visited
  <2>1. CASE d \in 1..Depth
    <3>1. next'[d] = next[d] /\ Entry(d, i)' = Entry(d, i)
      BY <1>1, <2>1, EnterStep
    <3> QED
      BY <2>1, <3>1 DEF PathInv, Visited
  <2>2. CASE d = Depth + 1
    <3>1. next'[d] = 1
      BY <1>1, <2>2, EnterStep
    <3> QED
      BY <3>1
  <2> QED
    BY <1>3, <2>1, <2>2
<1>7. CacheClosed'
  <2> SUFFICES ASSUME NEW key \in DOMAIN cache
               PROVE  EntriesCached(key)' /\ NotInProgress(key)'
    BY <1>2 DEF CacheClosed, EntriesCached, NotInProgress
  <2>1. EntriesCached(key) /\ NotInProgress(key)
    BY CacheClosedByKey DEF PathInv
  <2>2. EntriesCached(key)'
    BY <1>2, <2>1 DEF EntriesCached, TargetKey, AliasTarget
  <2>3. key # TargetAt(Depth)
    BY DEF EnterTemplate, Miss
  <2>4. ASSUME NEW i \in 1..Len(inProgress')
        PROVE  inProgress'[i] # key
    <3>1. i \in 1..Depth
      BY <1>3
    <3>2. CASE i = Depth
      BY <1>3, <2>3, <3>2
    <3>3. CASE i < Depth
      <4>1. i \in 1..(Depth - 1) /\ i \in 1..Len(inProgress)
        BY <1>3, <3>1, <3>3
      <4> QED
        BY <1>3, <2>1, <4>1 DEF NotInProgress
    <3> QED
      BY <1>3, <3>1, <3>2, <3>3
  <2> QED
    BY <2>2, <2>4 DEF NotInProgress
<1> QED
  BY <1>1, <1>5, <1>6, <1>7 DEF PathInv

LEMMA LeavePath ==
  ASSUME PathInv, LeaveTemplate
  PROVE  PathInv'
<1> PICK caller : caller = Depth - 1
  OBVIOUS
<1> DEFINE key == inProgress[caller]
<1>1. IInv /\ IInv'
  BY LeaveIInv DEF PathInv
<1>2. program' = program
  BY DEF LeaveTemplate
<1>3. /\ caller \in Nat \ {0} /\ Depth = caller + 1 /\ Depth' = caller
      /\ Len(inProgress) = caller /\ Len(inProgress') = caller - 1
      /\ \A d \in 1..(caller - 1) : inProgress'[d] = inProgress[d]
      /\ DOMAIN cache' = DOMAIN cache \cup {key}
  BY <1>1, LeaveStep
<1>4. Distinct'
  <2> SUFFICES ASSUME NEW i \in 1..(caller - 1), NEW j \in 1..(caller - 1),
                      inProgress'[i] = inProgress'[j]
               PROVE  i = j
    BY <1>3 DEF Distinct
  <2>1. i \in 1..Len(inProgress) /\ j \in 1..Len(inProgress)
    BY <1>3
  <2> QED
    BY <1>3, <2>1 DEF PathInv, Distinct
<1>5. Visited'
  <2> SUFFICES ASSUME NEW d \in 1..caller, NEW i \in 1..(next'[d] - 1)
               PROVE  Entry(d, i)' \in DOMAIN cache'
    BY <1>3 DEF Visited
  <2>1. Entry(d, i)' = Entry(d, i) /\ d \in 1..Depth
    <3>1. Entry(d, i)' = Entry(d, i)
      BY <1>1, LeaveStep
    <3> QED
      BY <1>3, <3>1
  <2>2. next[d] \in Nat
    BY <1>1, <2>1 DEF IInv, TypeOK
  <2>3. CASE i \in 1..(next[d] - 1)
    BY <1>3, <2>1, <2>3 DEF PathInv, Visited
  <2>4. CASE i \notin 1..(next[d] - 1)
    <3>1. d = caller
      <4>1. ASSUME d # caller PROVE FALSE
        <5>1. d \in 1..(caller - 1)
          BY <1>3, <4>1
        <5>2. next'[d] = next[d]
          BY <1>1, <5>1, LeaveStep
        <5> QED
          BY <2>4, <5>2
      <4> QED
        BY <4>1
    <3>2. next'[d] = next[d] + 1
      BY <1>1, <3>1, LeaveStep
    <3>3. i = next[d]
      BY <2>2, <2>4, <3>2
    <3>4. Entry(d, i) = TargetAt(d)
      BY <3>3 DEF Entry, TargetAt, InvocationAt
    <3>5. TargetAt(d) = key
      BY <1>1, <1>3, <3>1 DEF IInv, Linked
    <3> QED
      BY <1>3, <2>1, <3>4, <3>5
  <2> QED
    BY <2>3, <2>4
<1>6. CacheClosed'
  <2> SUFFICES ASSUME NEW k \in DOMAIN cache'
               PROVE  EntriesCached(k)' /\ NotInProgress(k)'
    BY DEF CacheClosed, EntriesCached, NotInProgress
  <2>1. CASE k \in DOMAIN cache
    <3>1. EntriesCached(k) /\ NotInProgress(k)
      BY <2>1, CacheClosedByKey DEF PathInv
    <3>2. EntriesCached(k)'
      BY <1>2, <1>3, <3>1 DEF EntriesCached, TargetKey, AliasTarget
    <3>3. ASSUME NEW i \in 1..Len(inProgress')
          PROVE  inProgress'[i] # k
      <4>1. i \in 1..(caller - 1) /\ i \in 1..Len(inProgress)
        BY <1>3
      <4> QED
        BY <1>3, <3>1, <4>1 DEF NotInProgress
    <3> QED
      BY <3>2, <3>3 DEF NotInProgress
  <2>2. CASE k = key
    <3>1. BodyAt(Depth) = program.templates[key] /\ ScopeAt(Depth) = key[1]
      BY <1>3 DEF BodyAt, ScopeAt
    <3>2. Len(BodyAt(Depth).with) \in Nat /\ next[Depth] \in Nat
      <4>1. Depth \in 1..Depth
        BY <1>3
      <4> QED
        BY SMTT(30), <1>1, <4>1, FramesShaped DEF IInv, TypeOK
    <3>3. next[Depth] > Len(BodyAt(Depth).with)
      BY DEF LeaveTemplate, Closing
    <3>4. ASSUME NEW i \in 1..Len(program.templates[key].with)
          PROVE  TargetKey(program, key[1], program.templates[key].with[i]) \in DOMAIN cache
      <4>1. i \in 1..(next[Depth] - 1) /\ Depth \in 1..Depth
        BY <1>3, <3>1, <3>2, <3>3
      <4>2. Entry(Depth, i) \in DOMAIN cache
        BY <4>1 DEF PathInv, Visited
      <4> QED
        BY <3>1, <4>2 DEF Entry
    <3>5. EntriesCached(k)'
      BY <1>2, <1>3, <2>2, <3>4 DEF EntriesCached, TargetKey, AliasTarget
    <3>6. ASSUME NEW i \in 1..Len(inProgress')
          PROVE  inProgress'[i] # k
      <4>1. /\ i \in 1..(caller - 1) /\ i \in 1..Len(inProgress)
            /\ caller \in 1..Len(inProgress) /\ i # caller
        BY <1>3
      <4> QED
        BY <1>3, <2>2, <4>1 DEF PathInv, Distinct
    <3> QED
      BY <3>5, <3>6 DEF NotInProgress
  <2> QED
    BY <1>3, <2>1, <2>2
<1> QED
  BY <1>1, <1>4, <1>5, <1>6 DEF PathInv

LEMMA UsePath ==
  ASSUME PathInv, UseCached
  PROVE  PathInv'
<1>1. IInv /\ IInv'
  BY UseIInv DEF PathInv
<1>2. /\ program' = program /\ inProgress' = inProgress /\ cache' = cache
      /\ Depth \in Nat \ {0} /\ Depth' = Depth
  BY <1>1, UseStep DEF UseCached
<1>3. Distinct' /\ CacheClosed'
  BY <1>2 DEF PathInv, Distinct, CacheClosed, TargetKey, AliasTarget
<1>4. Visited'
  <2> SUFFICES ASSUME NEW d \in 1..Depth, NEW i \in 1..(next'[d] - 1)
               PROVE  Entry(d, i)' \in DOMAIN cache
    BY <1>2 DEF Visited
  <2>1. Entry(d, i)' = Entry(d, i)
    BY <1>1, UseStep
  <2>2. next[d] \in Nat
    BY <1>1 DEF IInv, TypeOK
  <2>3. CASE i \in 1..(next[d] - 1)
    BY <2>1, <2>3 DEF PathInv, Visited
  <2>4. CASE i \notin 1..(next[d] - 1)
    <3>1. d = Depth
      <4>1. ASSUME d # Depth PROVE FALSE
        <5>1. d \in 1..(Depth - 1)
          BY <1>2, <4>1
        <5>2. next'[d] = next[d]
          BY <1>1, <5>1, UseStep
        <5> QED
          BY <2>4, <5>2
      <4> QED
        BY <4>1
    <3>2. next'[d] = next[d] + 1 /\ TargetAt(d) \in DOMAIN cache
      BY <1>1, <3>1, UseStep
    <3>3. i = next[d]
      BY <2>2, <2>4, <3>2
    <3> QED
      BY <2>1, <3>2, <3>3 DEF Entry, TargetAt, InvocationAt
  <2> QED
    BY <2>3, <2>4
<1> QED
  BY <1>1, <1>3, <1>4 DEF PathInv

LEMMA NextPath == PathInv /\ [Next]_vars => PathInv'
<1> SUFFICES ASSUME PathInv, [Next]_vars PROVE PathInv'
  OBVIOUS
<1>1. CASE EnterTemplate
  BY <1>1, EnterPath
<1>2. CASE LeaveTemplate
  BY <1>2, LeavePath
<1>3. CASE UseCached
  BY <1>3, UsePath
<1>4. CASE StartService \/ FinishService
  <2>1. IInv'
    BY <1>4, StartIInv, FinishIInv DEF PathInv
  <2>2. program' = program /\ inProgress' = inProgress /\ cache' = cache
    BY <1>4 DEF StartService, FinishService
  <2>3. Distinct' /\ CacheClosed'
    BY <2>2 DEF PathInv, Distinct, CacheClosed, TargetKey, AliasTarget
  <2>4. Visited'
    <3>1. next' = <<1>> \/ next' = <<>>
      BY <1>4 DEF StartService, FinishService
    <3> QED
      BY <3>1 DEF Visited, Depth
  <2> QED
    BY <2>1, <2>3, <2>4 DEF PathInv
<1>5. CASE Ending \/ UNCHANGED vars
  <2>1. UNCHANGED <<program, current, inProgress, next, cache>>
    BY <1>5, EndingKeeps DEF vars
  <2>2. IInv'
    BY <2>1, KeptIInv DEF PathInv
  <2>3. Distinct' /\ CacheClosed'
    BY <2>1 DEF PathInv, Distinct, CacheClosed, TargetKey, AliasTarget
  <2>4. Visited'
    <3>1. Depth' = Depth /\ Depth \in Nat
      BY <2>1, FramesShaped DEF PathInv, IInv, Depth
    <3>2. \A d \in Nat : \A i : Entry(d, i)' = Entry(d, i)
      BY <2>1, FrameKept
    <3> QED
      BY <2>1, <3>1, <3>2 DEF PathInv, Visited
  <2> QED
    BY <2>2, <2>3, <2>4 DEF PathInv
<1> QED
  BY <1>1, <1>2, <1>3, <1>4, <1>5 DEF Next, Ending

(* Distinct entries, each the target of the one before it, are a path.     *)
LEMMA PathIsPath == PathInv => PathInProgress
<1> SUFFICES ASSUME PathInv, NEW i \in 1..(Len(inProgress) - 1)
             PROVE  Invokes(inProgress[i], inProgress[i + 1])
  BY DEF PathInv, PathInProgress, Distinct
<1>1. i \in Nat \ {0} /\ i + 1 \in 1..Len(inProgress) /\ i + 1 \in 1..Depth
  BY FramesShaped DEF PathInv, IInv
<1>2. inProgress[i + 1] = TargetAt(i + 1) /\ next[i + 1] <= Len(BodyAt(i + 1).with)
  BY <1>1 DEF PathInv, IInv, Linked
<1>3. next[i + 1] \in 1..(Len(BodyAt(i + 1).with) + 1)
  BY <1>1 DEF PathInv, IInv, TypeOK
<1>4. BodyAt(i + 1) = program.templates[inProgress[i]] /\ ScopeAt(i + 1) = inProgress[i][1]
  BY <1>1 DEF BodyAt, ScopeAt
<1>5. next[i + 1] \in 1..Len(program.templates[inProgress[i]].with)
  <2>1. Len(BodyAt(i + 1).with) \in Nat
    BY <1>1, FramesShaped DEF PathInv, IInv
  <2> QED
    BY <1>2, <1>3, <1>4, <2>1
<1> QED
  BY <1>2, <1>4, <1>5 DEF Invokes, TargetAt, InvocationAt

-------------------------------------------------------------------------------
(* Cycles.  No error but RejectCycle's is a TemplateCycle, and that one is *)
(* raised on a path whose last template invokes one of the path.           *)

LEMMA OtherErrors ==
  /\ NoError # "TemplateCycle"
  /\ InvocationError # "TemplateCycle"
  /\ \A p, scope, body : ScopedError(p, scope, body) # "TemplateCycle"
  /\ \A d : OwnError(d) # "TemplateCycle"
  /\ \A d, fields : DeliveryError(d, fields) # "TemplateCycle"
<1>1. NoError # "TemplateCycle"
  BY NoErrorAssumption DEF ComposeErrors, TemplateErrors, DeclarationErrors, MergeErrors
<1>2. \A p, scope, inv : LookupError(p, scope, inv) # "TemplateCycle"
  BY <1>1 DEF LookupError
<1>3. \A params, args : ArgumentError(params, args) # "TemplateCycle"
  BY <1>1 DEF ArgumentError
<1>4. \A p, scope, lit : ReferenceError(p, scope, lit) # "TemplateCycle"
  BY <1>1 DEF ReferenceError
<1>5. \A p, scope, fields : QualifiedError(p, scope, fields) # "TemplateCycle"
  BY <1>1, <1>4 DEF QualifiedError
<1>6. \A p, scope, body : ScopedError(p, scope, body) # "TemplateCycle"
  BY <1>1 DEF ScopedError
<1> QED
  BY <1>1, <1>2, <1>3, <1>5, <1>6 DEF InvocationError, OwnError, DeliveryError

LEMMA NextCycle == PathInv /\ CycleIsReal /\ [Next]_vars => CycleIsReal'
<1> SUFFICES ASSUME PathInv, CycleIsReal, [Next]_vars, outcome'.error = "TemplateCycle"
             PROVE  CycleIsReal'
  BY DEF CycleIsReal
<1>1. CASE RejectCycle
  <2>1. UNCHANGED <<program, inProgress>>
    BY <1>1, EndingKeeps DEF Ending
  <2>2. PICK i \in 1..Len(inProgress) : inProgress[i] = TargetAt(Depth)
    <3>1. DOMAIN inProgress = 1..Len(inProgress)
      BY LenProperties DEF PathInv, IInv, TypeOK
    <3> QED
      BY <1>1, <3>1 DEF RejectCycle, OnStack
  <2>3. /\ Depth \in Nat /\ Depth > 1 /\ Len(inProgress) = Depth - 1
        /\ Depth \in 1..Depth
        /\ Len(BodyAt(Depth).with) \in Nat
    BY <2>2, FramesShaped DEF PathInv, IInv
  <2>4. next[Depth] \in 1..Len(BodyAt(Depth).with)
    <3>1. next[Depth] \in 1..(Len(BodyAt(Depth).with) + 1)
      BY <2>3 DEF PathInv, IInv, TypeOK
    <3>2. next[Depth] <= Len(BodyAt(Depth).with)
      BY <1>1 DEF RejectCycle, Miss, Resolvable, Invoking
    <3> QED
      BY <2>3, <3>1, <3>2
  <2>5. /\ BodyAt(Depth) = program.templates[inProgress[Len(inProgress)]]
        /\ ScopeAt(Depth) = inProgress[Len(inProgress)][1]
    BY <2>3 DEF BodyAt, ScopeAt
  <2>6. Invokes(inProgress[Len(inProgress)], inProgress[i])
    BY <2>2, <2>4, <2>5 DEF Invokes, TargetAt, InvocationAt
  <2>7. \A j \in i..(Len(inProgress) - 1) : Invokes(inProgress[j], inProgress[j + 1])
    BY <2>3, PathIsPath DEF PathInProgress
  <2> QED
    BY <2>1, <2>6, <2>7 DEF CycleIsReal, Invokes, TargetKey, AliasTarget
<1>2. CASE UNCHANGED vars
  <2>1. outcome.error = "TemplateCycle"
    BY <1>2 DEF vars
  <2> QED
    BY <1>2, <2>1 DEF vars, CycleIsReal, Invokes, TargetKey, AliasTarget
<1>3. CASE StartService \/ UseCached \/ EnterTemplate \/ LeaveTemplate \/ FinishService
  <2>1. outcome'.error = NoError
    BY <1>3 DEF StartService, UseCached, EnterTemplate, LeaveTemplate, FinishService, Hit,
                Miss, Resolvable, Invoking, Closing, Running
  <2> QED
    BY <2>1, OtherErrors
<1>4. CASE RejectInvocation \/ RejectCached \/ RejectDepth \/ RejectBody \/ RejectReturn
           \/ MergeImports
  BY <1>4, OtherErrors DEF RejectInvocation, RejectCached, RejectDepth, RejectBody,
                           RejectReturn, MergeImports, Return, Failed, Composed
<1>5. CASE RejectService \/ RejectTemplate
  BY <1>5, OtherErrors DEF RejectService, RejectTemplate, TargetScopedError, Return, Failed
<1> QED
  BY <1>1, <1>2, <1>3, <1>4, <1>5 DEF Next

(* StackIsPath, for every program and limit: composition never resolves a  *)
(* template inside itself, however templates invoke each other, and a      *)
(* program without a `with` cycle is never refused for one.                *)
THEOREM NoSelfResolution == Spec => []StackIsPath
<1>1. Init => PathInv /\ CycleIsReal
  <2>1. Init => outcome.error = NoError
    BY DEF Init, Running
  <2> QED
    BY <2>1, InitPath, OtherErrors DEF CycleIsReal
<1>2. PathInv /\ CycleIsReal /\ [Next]_vars => (PathInv /\ CycleIsReal)'
  BY NextPath, NextCycle
<1>3. PathInv /\ CycleIsReal => StackIsPath
  BY PathIsPath DEF StackIsPath
<1> QED
  BY <1>1, <1>2, <1>3, PTL DEF Spec

-------------------------------------------------------------------------------
(* Nothing is left to substitute or to resolve.  First, what the helpers do*)
(* to the literals of a body.                                              *)
(*                                                                         *)
(* Dropping repeats keeps to the literals there are.                       *)
LEMMA AppendDistinctOver ==
  ASSUME NEW T, NEW held \in Seq(T), NEW incoming \in Seq(T)
  PROVE  AppendDistinct(held, incoming) \in Seq(T)
<1> DEFINE n == Len(incoming)
           D == 1..n
           S == Seq(T)
           pick == [s \in SUBSET D |-> Max(s)]
           g == [x \in S \X D |-> IF HoldsText(x[1], incoming[x[2]]) THEN x[1]
                                  ELSE Append(x[1], incoming[x[2]])]
           folding(r) == [s \in SUBSET D |->
             IF s = {} THEN held
             ELSE IF HoldsText(r[s \ {Max(s)}], incoming[Max(s)]) THEN r[s \ {Max(s)}]
                  ELSE Append(r[s \ {Max(s)}], incoming[Max(s)])]
           iter == CHOOSE r : r = folding(r)
<1>1. n \in Nat /\ DOMAIN incoming = D /\ \A i \in D : incoming[i] \in T
  BY LenProperties
<1>2. AppendDistinct(held, incoming) = iter[D]
  BY <1>1 DEF AppendDistinct, FoldLeft, MapThenFoldSet
<1>3. \A i \in D : \A a \in S :
        g[<<a, i>>] = IF HoldsText(a, incoming[i]) THEN a ELSE Append(a, incoming[i])
  OBVIOUS
<1>4. \A s \in SUBSET D : pick[s] = Max(s)
  OBVIOUS
<1> HIDE DEF g, n, pick
<1>5. IsFiniteSet(D) /\ \A s \in SUBSET D : s # {} => Max(s) \in s /\ pick[s] \in s
  BY <1>1, <1>4, FoldOrders
<1> HIDE DEF D
<1>6. ASSUME NEW i \in D, NEW a \in S
      PROVE  g[<<a, i>>] \in S
  <2> HIDE DEF folding, iter
  <2>1. Append(a, incoming[i]) \in S
    BY <1>1, AppendProperties
  <2> HIDE DEF S
  <2>2. g[<<a, i>>] = a \/ g[<<a, i>>] = Append(a, incoming[i])
    BY <1>3
  <2> QED
    BY <2>1, <2>2
<1>7. held \in S
  OBVIOUS
<1> HIDE DEF S
<1>8. PICK f \in [SUBSET D -> S] : IsFold(f, D, held, g, pick)
  BY <1>5, <1>6, <1>7, FoldExists
<1>9. f = folding(f)
  <2>1. \A s \in SUBSET D : s # {} => f[s \ {Max(s)}] \in S /\ Max(s) \in D
    BY <1>5
  <2> HIDE DEF iter
  <2>2. \A s \in SUBSET D :
          f[s] = IF s = {} THEN held
                 ELSE IF HoldsText(f[s \ {Max(s)}], incoming[Max(s)]) THEN f[s \ {Max(s)}]
                      ELSE Append(f[s \ {Max(s)}], incoming[Max(s)])
    <3>1. \A s \in SUBSET D :
            f[s] = IF s = {} THEN held ELSE g[<<f[s \ {Max(s)}], Max(s)>>]
      BY <1>4, <1>8 DEF IsFold
    <3> QED
      BY <1>3, <2>1, <3>1
  <2> QED
    BY <1>8, <2>2
<1>10. iter = folding(iter)
  <2> HIDE DEF folding
  <2> QED
    BY <1>9
<1> HIDE DEF iter
<1> DEFINE G == [s \in SUBSET D |-> S]
<1>11. iter[{}] \in G[{}]
  BY <1>7, <1>10
<1>12. ASSUME NEW s \in SUBSET D, s # {}, iter[s \ {pick[s]}] \in G[s \ {pick[s]}]
       PROVE  iter[s] \in G[s]
  <2>1. Max(s) \in D /\ pick[s] = Max(s) /\ incoming[Max(s)] \in T
    BY <1>1, <1>4, <1>5, <1>12
  <2>2. iter[s \ {Max(s)}] \in S
    BY <1>12, <2>1
  <2>3. iter[s] = IF HoldsText(iter[s \ {Max(s)}], incoming[Max(s)]) THEN iter[s \ {Max(s)}]
                  ELSE Append(iter[s \ {Max(s)}], incoming[Max(s)])
    BY <1>10, <1>12
  <2> QED
    BY <2>1, <2>2, <2>3, AppendProperties DEF S
<1>13. \A s \in SUBSET D : iter[s] \in G[s]
  <2> HIDE DEF G
  <2> QED
    BY <1>5, <1>11, <1>12, FoldInduction
<1>14. iter[D] \in S
  BY <1>13
<1> QED
  BY <1>2, <1>14 DEF S

(* Fields whose literals are names or the parameters `params`.             *)
Fields(params) == [env : [EnvKey -> ValueWith(params) \cup {Unset}],
                   networks : Seq(ValueWith(params))]

(* What an invocation's arguments make of a template's fields: names,      *)
(* parameters of the invoking body and references its arguments hold.      *)
Substituted(params) == [env : [EnvKey -> Mentionable(params) \cup {Unset}],
                        networks : Seq(Mentionable(params))]

Arguments(params) == Seq([param : Text, value : Mentionable(params)])

(* Arguments without error bind every parameter of the template.           *)
LEMMA EveryParameterBound ==
  ASSUME NEW params, NEW own, NEW args \in Arguments(params),
         ArgumentError(own, args) = NoError, NEW q \in own
  PROVE  \E i \in DOMAIN args : args[i].param = q
<1> DEFINE repeated(i) == \E j \in 1..(i - 1) : args[j].param = args[i].param
           faulty == {i \in DOMAIN args : repeated(i) \/ args[i].param \notin own}
           first == CHOOSE i \in faulty : \A j \in faulty : i <= j
<1>1. /\ "DuplicateTemplateArgument" # NoError
      /\ "UnknownTemplateArgument" # NoError
      /\ "MissingTemplateArgument" # NoError
  BY NoErrorAssumption DEF ComposeErrors, TemplateErrors, DeclarationErrors, MergeErrors
<1>2. ArgumentError(own, args) =
        IF faulty # {}
        THEN IF repeated(first) THEN "DuplicateTemplateArgument" ELSE "UnknownTemplateArgument"
        ELSE IF \E p \in own : \A i \in DOMAIN args : args[i].param # p
             THEN "MissingTemplateArgument"
             ELSE NoError
  BY DEF ArgumentError
<1> HIDE DEF faulty, repeated, first
<1> QED
  BY <1>1, <1>2

(* A value with arguments for its parameters mentions those of the         *)
(* invoking body only.                                                     *)
LEMMA LiteralSubstituted ==
  ASSUME NEW own, NEW params, NEW args \in Arguments(params),
         ArgumentError(own, args) = NoError,
         NEW lit \in ValueWith(own)
  PROVE  SubstituteLiteral(lit, args) \in Mentionable(params)
<1>1. CASE lit.kind = "param"
  <2>1. lit.text \in own /\ lit # Unset
    BY <1>1, UnsetAssumption DEF ValueWith, Mentionable
  <2> DEFINE i == CHOOSE i \in DOMAIN args : args[i].param = lit.text
  <2>2. i \in DOMAIN args
    BY <2>1, EveryParameterBound
  <2>3. SubstituteLiteral(lit, args) = args[i].value
    BY <1>1, <2>1 DEF SubstituteLiteral
  <2> HIDE DEF i
  <2>4. args[i] \in [param : Text, value : Mentionable(params)]
    BY <2>2, LenProperties DEF Arguments
  <2> QED
    BY <2>3, <2>4
<1>2. CASE lit.kind # "param"
  <2>1. SubstituteLiteral(lit, args) = lit
    BY <1>2 DEF SubstituteLiteral
  <2> QED
    BY <1>2, <2>1 DEF ValueWith, Mentionable
<1> QED
  BY <1>1, <1>2

(* So do a template's fields.                                              *)
LEMMA FieldsSubstituted ==
  ASSUME NEW own, NEW params, NEW args \in Arguments(params),
         ArgumentError(own, args) = NoError,
         NEW fields \in Fields(own)
  PROVE  Substitute(fields, args) \in Substituted(params)
<1> DEFINE bound == Substitute(fields, args)
<1>1. /\ fields.env \in [EnvKey -> ValueWith(own) \cup {Unset}]
      /\ fields.networks \in Seq(ValueWith(own))
  BY DEF Fields
<1>2. ASSUME NEW k \in EnvKey
      PROVE  SubstituteLiteral(fields.env[k], args) \in Mentionable(params) \cup {Unset}
  <2>1. fields.env[k] = Unset => SubstituteLiteral(fields.env[k], args) = Unset
    BY DEF SubstituteLiteral
  <2> QED
    BY <1>1, <2>1, LiteralSubstituted
<1>3. /\ Len(fields.networks) \in Nat
      /\ DOMAIN fields.networks = 1..Len(fields.networks)
      /\ \A i \in DOMAIN fields.networks : fields.networks[i] \in ValueWith(own)
  BY <1>1, LenProperties
<1>4. \A i \in DOMAIN fields.networks :
        SubstituteLiteral(fields.networks[i], args) \in Mentionable(params)
  BY <1>3, LiteralSubstituted
<1>5. [i \in DOMAIN fields.networks |-> SubstituteLiteral(fields.networks[i], args)]
        \in Seq(Mentionable(params))
  BY <1>3, <1>4
<1>6. [k \in EnvKey |-> SubstituteLiteral(fields.env[k], args)]
        \in [EnvKey -> Mentionable(params) \cup {Unset}]
  BY <1>2
<1> QED
  BY <1>5, <1>6 DEF Substitute, Substituted

(* Resolving the references that substitution brought leaves none.         *)
LEMMA ReferencesResolved ==
  ASSUME NEW params, NEW fields \in Substituted(params), ~HasQualifiedValue(fields)
  PROVE  ResolveQualified(fields) \in Fields(params)
<1> DEFINE nets == fields.networks
<1>1. /\ fields.env \in [EnvKey -> Mentionable(params) \cup {Unset}]
      /\ nets \in Seq(Mentionable(params))
  BY DEF Substituted
<1>2. fields.env \in [EnvKey -> ValueWith(params) \cup {Unset}]
  <2>1. ASSUME NEW k \in EnvKey PROVE fields.env[k] \in ValueWith(params) \cup {Unset}
    BY <1>1 DEF HasQualifiedValue, IsQualified, ValueWith
  <2> QED
    BY <1>1, <2>1
<1>3. /\ Len(nets) \in Nat
      /\ DOMAIN nets = 1..Len(nets)
      /\ \A i \in DOMAIN nets : nets[i] \in Mentionable(params)
  BY <1>1, LenProperties
<1>4. ASSUME NEW lit \in Mentionable(params)
      PROVE  (IF IsQualified(lit) THEN Ident(lit.text) ELSE lit) \in ValueWith(params)
  <2>1. lit \in Literal /\ lit # Unset
    BY UnsetAssumption DEF Mentionable
  <2>2. Ident(lit.text) \in ValueWith(params)
    BY <2>1 DEF Literal, Ident, ValueWith, Mentionable
  <2> QED
    BY <2>1, <2>2 DEF IsQualified, ValueWith
<1> DEFINE resolved == [i \in DOMAIN nets |-> IF IsQualified(nets[i]) THEN Ident(nets[i].text) ELSE nets[i]]
<1>5. resolved \in Seq(ValueWith(params))
  <2>1. \A i \in DOMAIN nets :
          (IF IsQualified(nets[i]) THEN Ident(nets[i].text) ELSE nets[i]) \in ValueWith(params)
    BY <1>3, <1>4
  <2> HIDE DEF nets
  <2> QED
    BY <1>3, <2>1
<1>6. ResolveQualified(fields) = [env |-> fields.env, networks |-> resolved]
  BY SMTT(30) DEF ResolveQualified, Substituted
<1> QED
  BY <1>2, <1>5, <1>6 DEF Fields

(* Merging brings in no literal of its own.                                *)
LEMMA TierMerged ==
  ASSUME NEW params, NEW a \in Fields(params), NEW fields \in Fields(params)
  PROVE  MergeTier(a, fields) \in Fields(params)
<1>1. AppendDistinct(a.networks, fields.networks) \in Seq(ValueWith(params))
  BY AppendDistinctOver DEF Fields
<1>2. [k \in EnvKey |-> IF fields.env[k] # Unset THEN fields.env[k] ELSE a.env[k]]
        \in [EnvKey -> ValueWith(params) \cup {Unset}]
  BY DEF Fields
<1> QED
  BY <1>1, <1>2 DEF MergeTier, Fields

(* A body's own fields.                                                    *)
LEMMA OwnSettled ==
  ASSUME NEW body, BodyShape(body)
  PROVE  ResolveQualified(Own(body)) \in Fields(body.params)
<1>1. Own(body) \in Substituted(body.params)
  <2>1. body.env \in [EnvKey -> Mentionable(body.params) \cup {Unset}]
    BY DEF BodyShape, ValueWith
  <2> QED
    BY <2>1 DEF BodyShape, Own, Substituted
<1>2. ~HasQualifiedValue(Own(body))
  BY UnsetAssumption DEF HasQualifiedValue, IsQualified, Own, BodyShape, ValueWith
<1> QED
  BY <1>1, <1>2, ReferencesResolved

(* Fields of any body, to type the frames.                                 *)
AnyFields == [env : [EnvKey -> Literal \cup {Unset}], networks : Seq(Literal)]

LEMMA FieldsAreAny ==
  ASSUME NEW params
  PROVE  Fields(params) \subseteq AnyFields
<1>1. ValueWith(params) \subseteq Literal
  BY DEF ValueWith, Mentionable
<1>2. Seq(ValueWith(params)) \subseteq Seq(Literal)
  BY <1>1, SeqMonotonic
<1> QED
  BY <1>1, <1>2 DEF Fields, AnyFields

(* What the frames, the cache and the composed services hold mentions no   *)
(* parameter but those of its body, and each template in progress was      *)
(* given all of its own.                                                   *)
Settled ==
  /\ acc \in Seq(AnyFields)
  /\ Len(acc) = Depth
  /\ \A d \in 1..Depth : acc[d] \in Fields(BodyAt(d).params)
  /\ \A key \in DOMAIN cache : cache[key] \in Fields(program.templates[key].params)
  /\ \A d \in 1..Len(inProgress) :
       ArgumentError(program.templates[inProgress[d]].params, InvocationAt(d).args) = NoError
  /\ composed \in Seq(Fields({}))

(* What an invocation brings the frame that makes it.                      *)
LEMMA BroughtSettled ==
  ASSUME IInv, Settled, NEW d \in 1..Depth, next[d] <= Len(BodyAt(d).with),
         NEW own, ArgumentError(own, InvocationAt(d).args) = NoError,
         NEW fields \in Fields(own), DeliveryError(d, fields) = NoError
  PROVE  ResolveQualified(Bound(d, fields)) \in Fields(BodyAt(d).params)
<1> DEFINE params == BodyAt(d).params
<1>1. InvocationAt(d).args \in Arguments(params)
  <2>1. BodyShape(BodyAt(d))
    BY FrameBody DEF IInv
  <2>2. BodyAt(d).with \in Seq([alias : Alias \cup {NoAlias}, name : Name, args : Arguments(params)])
    BY <2>1 DEF BodyShape, Arguments
  <2>3. next[d] \in 1..Len(BodyAt(d).with)
    BY DEF IInv, TypeOK
  <2> HIDE DEF params
  <2>4. BodyAt(d).with[next[d]] \in [alias : Alias \cup {NoAlias}, name : Name, args : Arguments(params)]
    BY <2>2, <2>3, LenProperties
  <2> QED
    BY <2>4 DEF InvocationAt
<1>2. Bound(d, fields) \in Substituted(params)
  BY <1>1, FieldsSubstituted DEF Bound
<1>3. ~HasQualifiedValue(Bound(d, fields))
  <2>1. "QualifiedArgumentNotAValue" # NoError
    BY NoErrorAssumption DEF ComposeErrors, TemplateErrors, DeclarationErrors, MergeErrors
  <2> QED
    BY <2>1 DEF DeliveryError
<1> QED
  BY <1>2, <1>3, ReferencesResolved

(* And what comes of merging it.                                           *)
LEMMA DeliveredSettled ==
  ASSUME IInv, Settled, NEW d \in 1..Depth, next[d] <= Len(BodyAt(d).with),
         NEW own, ArgumentError(own, InvocationAt(d).args) = NoError,
         NEW fields \in Fields(own), DeliveryError(d, fields) = NoError
  PROVE  Delivered(d, fields) \in Fields(BodyAt(d).params)
<1>1. ResolveQualified(Bound(d, fields)) \in Fields(BodyAt(d).params)
  BY BroughtSettled
<1>2. acc[d] \in Fields(BodyAt(d).params)
  BY DEF Settled
<1> QED
  BY <1>1, <1>2, TierMerged DEF Delivered

(* What a body resolves to.                                                *)
LEMMA ClosedSettled ==
  ASSUME IInv, Settled, NEW d \in 1..Depth
  PROVE  Closed(d) \in Fields(BodyAt(d).params)
<1>1. ResolveQualified(Own(BodyAt(d))) \in Fields(BodyAt(d).params)
  BY FrameBody, OwnSettled DEF IInv
<1>2. acc[d] \in Fields(BodyAt(d).params)
  BY DEF Settled
<1> QED
  BY <1>1, <1>2, TierMerged DEF Closed

(* A frame starts with nothing.                                            *)
LEMMA NothingSettled ==
  ASSUME NEW params
  PROVE  NoFields \in Fields(params)
BY DEF NoFields, Fields

(* A template is entered with all its parameters bound.                    *)
LEMMA ArgumentsAccepted ==
  ASSUME Resolvable
  PROVE  ArgumentError(program.templates[TargetAt(Depth)].params, InvocationAt(Depth).args) = NoError
BY DEF Resolvable, InvocationError

-------------------------------------------------------------------------------
(* The invariant, action by action.                                        *)
LEMMA InitSettled == Init => Settled
BY DEF Init, Settled, Depth

LEMMA StartSettled ==
  ASSUME IInv, Settled, StartService
  PROVE  Settled'
<1>1. /\ acc' = <<NoFields>> /\ next' = <<1>> /\ inProgress' = inProgress /\ cache' = cache
      /\ program' = program /\ composed' = composed
      /\ Len(inProgress) = 0
  BY FramesShaped DEF StartService, IInv
<1>2. acc' \in Seq(AnyFields) /\ Len(acc') = Depth' /\ Depth' = 1 /\ acc'[1] = NoFields
  BY <1>1, NothingSettled, FieldsAreAny DEF Depth
<1>3. \A d \in 1..Depth' : acc'[d] \in Fields(BodyAt(d)'.params)
  BY <1>2, NothingSettled
<1> QED
  BY <1>1, <1>2, <1>3 DEF Settled

LEMMA EnterSettled ==
  ASSUME IInv, Settled, EnterTemplate
  PROVE  Settled'
<1>1. /\ acc' = Append(acc, NoFields) /\ cache' = cache /\ program' = program /\ composed' = composed
      /\ Depth \in Nat \ {0} /\ Depth' = Depth + 1 /\ Len(inProgress') = Depth
      /\ Len(inProgress) = Depth - 1
  BY EnterStep DEF EnterTemplate
<1>2. acc' \in Seq(AnyFields) /\ Len(acc') = Depth' /\ acc'[Depth + 1] = NoFields
      /\ \A d \in 1..Depth : acc'[d] = acc[d]
  <2>1. NoFields \in AnyFields
    BY NothingSettled, FieldsAreAny
  <2>2. acc \in Seq(AnyFields) /\ Len(acc) = Depth
    BY DEF Settled
  <2> QED
    BY <1>1, <2>1, <2>2, AppendProperties
<1>3. ASSUME NEW d \in 1..Depth' PROVE acc'[d] \in Fields(BodyAt(d)'.params)
  <2>1. CASE d = Depth + 1
    BY <1>2, <2>1, NothingSettled
  <2>2. CASE d \in 1..Depth
    <3>1. BodyAt(d)' = BodyAt(d)
      BY <2>2, EnterStep
    <3> QED
      BY <1>2, <2>2, <3>1 DEF Settled
  <2>3. Depth \in Nat /\ d \in 1..(Depth + 1)
    BY <1>1
  <2>4. d = Depth + 1 \/ d \in 1..Depth
    BY <2>3
  <2> QED
    BY <2>1, <2>2, <2>4
<1>4. ASSUME NEW d \in 1..Len(inProgress')
      PROVE  ArgumentError(program'.templates[inProgress'[d]].params, InvocationAt(d)'.args) = NoError
  <2>1. InvocationAt(d)' = InvocationAt(d)
    BY <1>1, EnterStep DEF InvocationAt
  <2>2. CASE d = Depth
    BY <1>1, <2>1, <2>2, EnterStep, ArgumentsAccepted DEF EnterTemplate, Miss
  <2>3. CASE d \in 1..(Depth - 1)
    <3>1. inProgress'[d] = inProgress[d]
      BY <2>3, EnterStep
    <3> QED
      BY <1>1, <2>1, <2>3, <3>1 DEF Settled
  <2> QED
    BY <1>1, <2>2, <2>3
<1> QED
  BY <1>1, <1>2, <1>3, <1>4 DEF Settled

LEMMA UseSettled ==
  ASSUME IInv, Settled, UseCached
  PROVE  Settled'
<1> DEFINE fields == cache[TargetAt(Depth)]
<1>1. /\ acc' = [acc EXCEPT ![Depth] = Delivered(Depth, fields)]
      /\ program' = program /\ composed' = composed /\ inProgress' = inProgress /\ cache' = cache
      /\ DeliveryError(Depth, fields) = NoError
      /\ Depth \in Nat \ {0} /\ Depth' = Depth /\ Len(inProgress) = Depth - 1
      /\ next[Depth] <= Len(BodyAt(Depth).with)
      /\ TargetAt(Depth) \in DOMAIN cache
  BY UseStep DEF UseCached
<1>2. Delivered(Depth, fields) \in Fields(BodyAt(Depth).params)
  <2>1. fields \in Fields(program.templates[TargetAt(Depth)].params)
    BY <1>1 DEF Settled
  <2>2. Resolvable
    BY DEF UseCached, Hit
  <2> HIDE DEF fields
  <2> QED
    BY <1>1, <2>1, <2>2, ArgumentsAccepted, DeliveredSettled
<1> HIDE DEF fields
<1>3. /\ acc' \in Seq(AnyFields) /\ Len(acc') = Depth
      /\ \A d \in 1..Depth : acc'[d] = IF d = Depth THEN Delivered(Depth, fields) ELSE acc[d]
  <2>1. acc \in Seq(AnyFields) /\ Len(acc) = Depth /\ Delivered(Depth, fields) \in AnyFields
    BY <1>2, FieldsAreAny DEF Settled
  <2> QED
    BY <1>1, <2>1, ExceptSeq
<1>4. ASSUME NEW d \in 1..Depth' PROVE acc'[d] \in Fields(BodyAt(d)'.params)
  <2>1. d \in 1..Depth /\ BodyAt(d)' = BodyAt(d)
    BY <1>1, UseStep
  <2> QED
    BY <1>2, <1>3, <2>1 DEF Settled
<1>5. ASSUME NEW d \in 1..Len(inProgress')
      PROVE  ArgumentError(program'.templates[inProgress'[d]].params, InvocationAt(d)'.args) = NoError
  <2>1. d \in 1..(Depth - 1) /\ d \in 1..Depth /\ d \in 1..Len(inProgress)
    BY <1>1
  <2>2. InvocationAt(d)' = InvocationAt(d)
    BY <2>1, UseStep DEF InvocationAt
  <2> QED
    BY <1>1, <2>1, <2>2 DEF Settled
<1> QED
  BY <1>1, <1>3, <1>4, <1>5 DEF Settled

LEMMA LeaveSettled ==
  ASSUME IInv, Settled, LeaveTemplate
  PROVE  Settled'
<1> PICK caller : caller = Depth - 1
  OBVIOUS
<1> DEFINE key == inProgress[caller]
           fields == Closed(Depth)
<1>1. /\ caller \in Nat \ {0} /\ Depth = caller + 1 /\ Depth' = caller
      /\ Len(inProgress) = caller /\ Len(inProgress') = caller - 1
  BY LeaveStep
<1>2. /\ acc' = [SubSeq(acc, 1, caller) EXCEPT ![caller] = Delivered(caller, fields)]
      /\ cache' = [k \in DOMAIN cache \cup {key} |-> IF k = key THEN fields ELSE cache[k]]
      /\ program' = program /\ composed' = composed
      /\ DeliveryError(caller, fields) = NoError
  BY DEF LeaveTemplate
<1>3. fields \in Fields(program.templates[key].params)
  <2>1. fields \in Fields(BodyAt(Depth).params)
    BY <1>1, ClosedSettled
  <2>2. BodyAt(Depth) = program.templates[key]
    BY <1>1 DEF BodyAt
  <2> QED
    BY <2>1, <2>2
<1>4. /\ ArgumentError(program.templates[key].params, InvocationAt(caller).args) = NoError
      /\ next[caller] <= Len(BodyAt(caller).with)
  BY <1>1 DEF Settled, IInv, Linked
<1> HIDE DEF key, fields
<1>5. Delivered(caller, fields) \in Fields(BodyAt(caller).params)
  BY <1>1, <1>2, <1>3, <1>4, DeliveredSettled
<1>6. /\ acc' \in Seq(AnyFields) /\ Len(acc') = caller
      /\ \A d \in 1..caller : acc'[d] = IF d = caller THEN Delivered(caller, fields) ELSE acc[d]
  <2> DEFINE below == SubSeq(acc, 1, caller)
  <2>1. acc \in Seq(AnyFields) /\ Len(acc) = caller + 1 /\ Delivered(caller, fields) \in AnyFields
    BY <1>1, <1>5, FieldsAreAny DEF Settled
  <2>2. below \in Seq(AnyFields) /\ Len(below) = caller /\ \A d \in 1..caller : below[d] = acc[d]
    <3>1. caller \in 0..Len(acc)
      BY <1>1, <2>1
    <3> QED
      BY <2>1, <3>1, Prefix
  <2>3. acc' = [below EXCEPT ![caller] = Delivered(caller, fields)] /\ caller \in 1..caller
    BY <1>1, <1>2
  <2> HIDE DEF below
  <2> QED
    BY <2>1, <2>2, <2>3, ExceptSeq
<1>7. ASSUME NEW d \in 1..Depth' PROVE acc'[d] \in Fields(BodyAt(d)'.params)
  <2>1. d \in 1..caller /\ d \in 1..Depth
    BY <1>1
  <2>2. BodyAt(d)' = BodyAt(d)
    BY <2>1, LeaveStep
  <2> QED
    BY <1>5, <1>6, <2>1, <2>2 DEF Settled
<1>8. ASSUME NEW k \in DOMAIN cache' PROVE cache'[k] \in Fields(program'.templates[k].params)
  BY <1>2, <1>3 DEF Settled
<1>9. ASSUME NEW d \in 1..Len(inProgress')
      PROVE  ArgumentError(program'.templates[inProgress'[d]].params, InvocationAt(d)'.args) = NoError
  <2>1. d \in 1..(caller - 1) /\ d \in 1..caller /\ d \in 1..Len(inProgress)
    BY <1>1
  <2>2. InvocationAt(d)' = InvocationAt(d) /\ inProgress'[d] = inProgress[d]
    BY <2>1, LeaveStep DEF InvocationAt
  <2> QED
    BY <1>2, <2>1, <2>2 DEF Settled
<1> QED
  BY <1>1, <1>2, <1>6, <1>7, <1>8, <1>9 DEF Settled

LEMMA FinishSettled ==
  ASSUME IInv, Settled, FinishService
  PROVE  Settled'
<1>1. /\ acc' = <<>> /\ next' = <<>> /\ inProgress' = inProgress /\ cache' = cache
      /\ program' = program /\ composed' = Append(composed, Closed(1))
      /\ Depth = 1
      /\ inProgress = <<>>
  BY FramesShaped DEF FinishService, IInv, TypeOK
<1>2. Closed(1) \in Fields({})
  <2>1. 1 \in 1..Depth
    BY <1>1
  <2>2. BodyAt(1).params = {}
    BY <2>1, FrameBody DEF IInv
  <2>3. Closed(1) \in Fields(BodyAt(1).params)
    BY <2>1, ClosedSettled
  <2> QED
    BY <2>2, <2>3
<1>3. composed' \in Seq(Fields({}))
  BY <1>1, <1>2, AppendProperties DEF Settled
<1>4. acc' \in Seq(AnyFields) /\ Len(acc') = 0 /\ Depth' = 0
  BY <1>1 DEF Depth
<1> QED
  BY <1>1, <1>3, <1>4 DEF Settled

LEMMA NextSettled == IInv /\ Settled /\ [Next]_vars => Settled'
<1> SUFFICES ASSUME IInv, Settled, [Next]_vars PROVE Settled'
  OBVIOUS
<1>1. CASE UNCHANGED <<program, current, inProgress, next, acc, cache, composed>>
  BY <1>1 DEF Settled, Depth, BodyAt, InvocationAt
<1>2. CASE Ending
  BY <1>1, <1>2, EndingKeeps
<1> QED
  BY <1>1, <1>2, StartSettled, EnterSettled, UseSettled, LeaveSettled, FinishSettled
     DEF Next, Ending, vars

LEMMA SettledIsConcrete == Settled => NoResidue
<1> SUFFICES ASSUME Settled, NEW s \in 1..Len(composed)
             PROVE  /\ \A i \in DOMAIN composed[s].networks : composed[s].networks[i].kind = "ident"
                    /\ \A k \in EnvKey : composed[s].env[k] # Unset => composed[s].env[k].kind = "ident"
  BY DEF NoResidue
<1>1. composed[s] \in Fields({})
  BY LenProperties DEF Settled
<1>2. \A lit \in ValueWith({}) : lit.kind = "ident"
  BY DEF ValueWith, Mentionable, Literal
<1>3. \A i \in DOMAIN composed[s].networks : composed[s].networks[i] \in ValueWith({})
  BY <1>1, LenProperties DEF Fields
<1> QED
  BY <1>1, <1>2, <1>3 DEF Fields

(* NoResidue, for every program and limit: codegen is never handed a       *)
(* parameter or a qualified reference.                                     *)
THEOREM NothingResidual == Spec => []NoResidue
<1>1. Init => IInv /\ Settled
  BY InitIInv, InitSettled
<1>2. IInv /\ Settled /\ [Next]_vars => (IInv /\ Settled)'
  BY NextIInv, NextSettled
<1> QED
  BY <1>1, <1>2, SettledIsConcrete, PTL DEF Spec

-------------------------------------------------------------------------------
(* What is cached is what resolving it again would give.  First, tiers     *)
(* merged one after the other: the last is merged over the others.         *)
LEMMA AnyMerged ==
  ASSUME NEW a \in AnyFields, NEW fields \in AnyFields
  PROVE  MergeTier(a, fields) \in AnyFields
<1>1. AppendDistinct(a.networks, fields.networks) \in Seq(Literal)
  BY AppendDistinctOver DEF AnyFields
<1>2. [k \in EnvKey |-> IF fields.env[k] # Unset THEN fields.env[k] ELSE a.env[k]]
        \in [EnvKey -> Literal \cup {Unset}]
  BY DEF AnyFields
<1> QED
  BY <1>1, <1>2 DEF MergeTier, AnyFields

LEMMA MergedFold ==
  ASSUME NEW tiers \in Seq(AnyFields), NEW n, n = Len(tiers), NEW D, D = 1..n,
         NEW g, g = [x \in AnyFields \X D |-> MergeTier(x[1], tiers[x[2]])]
  PROVE  \E f \in [SUBSET D -> AnyFields] :
           IsLeftFold(f, D, NoFields, g) /\ Merged(tiers) = f[D]
<1> DEFINE S == AnyFields
           folding(r) == [s \in SUBSET D |->
             IF s = {} THEN NoFields ELSE MergeTier(r[s \ {Max(s)}], tiers[Max(s)])]
           iter == CHOOSE r : r = folding(r)
<1>1. n \in Nat /\ DOMAIN tiers = D /\ \A i \in D : tiers[i] \in S
  BY LenProperties
<1>2. Merged(tiers) = iter[D]
  BY <1>1 DEF Merged, FoldLeft, MapThenFoldSet
<1>3. \A i \in D : \A a \in S : g[<<a, i>>] = MergeTier(a, tiers[i])
  OBVIOUS
<1>4. NoFields \in S
  BY NothingSettled, FieldsAreAny
<1> HIDE DEF folding, S
<1>5. ASSUME NEW i \in D, NEW a \in S PROVE g[<<a, i>>] \in S
  <2>1. g[<<a, i>>] = MergeTier(a, tiers[i]) /\ a \in AnyFields /\ tiers[i] \in AnyFields
    BY <1>1, <1>3 DEF S
  <2> QED
    BY <2>1, AnyMerged DEF S
<1>6. PICK f \in [SUBSET D -> S] : IsLeftFold(f, D, NoFields, g)
  <2> HIDE DEF iter
  <2> QED
    BY <1>1, <1>4, <1>5, LeftFold
<1> HIDE DEF iter
<1>7. \A s \in SUBSET D : s # {} => Max(s) \in s /\ Max(s) \in D /\ f[s \ {Max(s)}] \in S
  <2>1. \A s \in SUBSET D : s # {} => Max(s) \in s
    BY <1>1, FoldOrders
  <2> QED
    BY <1>6, <2>1
<1>8. \E r : r = folding(r)
  <2>1. \A s \in SUBSET D : f[s] = IF s = {} THEN NoFields ELSE MergeTier(f[s \ {Max(s)}], tiers[Max(s)])
    BY <1>3, <1>6, <1>7 DEF IsLeftFold
  <2>2. f = folding(f)
    BY <1>6, <2>1 DEF folding
  <2> QED
    BY <2>2
<1>9. iter = folding(iter)
  BY <1>8 DEF iter
<1>10. \A s \in SUBSET D : iter[s] = IF s = {} THEN NoFields ELSE MergeTier(iter[s \ {Max(s)}], tiers[Max(s)])
  BY <1>9 DEF folding
<1>11. \A s \in SUBSET D : iter[s] \in S
  <2>1. iter[{}] \in S
    BY <1>4, <1>10
  <2>2. \A s \in SUBSET D : s # {} /\ Max(s) \in D /\ iter[s \ {Max(s)}] \in S => iter[s] \in S
    BY <1>1, <1>10, AnyMerged DEF S
  <2> QED
    BY <1>1, <2>1, <2>2, LeftFoldStays
<1>12. IsLeftFold(iter, D, NoFields, g)
  <2> SUFFICES ASSUME NEW s \in SUBSET D
               PROVE  iter[s] = IF s = {} THEN NoFields ELSE g[<<iter[s \ {Max(s)}], Max(s)>>]
    BY DEF IsLeftFold
  <2>1. s # {} => Max(s) \in D /\ iter[s \ {Max(s)}] \in S
    BY <1>7, <1>11
  <2> QED
    BY <1>3, <1>10, <2>1
<1>13. iter \in [SUBSET D -> S]
  <2>1. iter = [s \in SUBSET D |-> iter[s]]
    BY <1>9 DEF folding
  <2> QED
    BY <1>11, <2>1
<1> QED
  BY <1>2, <1>12, <1>13 DEF S

LEMMA MergedNone == Merged(<<>>) = NoFields
<1>1. PICK none, n : none = <<>> /\ n = 0
  OBVIOUS
<1>2. none \in Seq(AnyFields) /\ n = Len(none)
  BY <1>1
<1>3. PICK D : D = 1..n
  OBVIOUS
<1>4. PICK g : g = [x \in AnyFields \X D |-> MergeTier(x[1], none[x[2]])]
  OBVIOUS
<1>5. PICK f \in [SUBSET D -> AnyFields] : IsLeftFold(f, D, NoFields, g) /\ Merged(none) = f[D]
  BY <1>2, <1>3, <1>4, MergedFold
<1>6. D = {} /\ D \in SUBSET D
  BY <1>1, <1>3
<1> QED
  BY <1>1, <1>5, <1>6 DEF IsLeftFold

LEMMA MergedOne ==
  ASSUME NEW tiers \in Seq(AnyFields), NEW tier \in AnyFields,
         NEW more, more = Append(tiers, tier)
  PROVE  Merged(more) = MergeTier(Merged(tiers), tier)
<1>1. PICK n, all : n = Len(tiers) /\ all = more
  OBVIOUS
<1>2. PICK D, E, m : D = 1..n /\ m = n + 1 /\ E = 1..m
  OBVIOUS
<1>3. /\ n \in Nat /\ m \in Nat /\ all \in Seq(AnyFields) /\ Len(all) = m
      /\ all[m] = tier /\ \A i \in D : all[i] = tiers[i]
  BY <1>1, <1>2, AppendProperties, LenProperties
<1>4. PICK g : g = [x \in AnyFields \X D |-> MergeTier(x[1], tiers[x[2]])]
  OBVIOUS
<1>5. PICK h : h = [x \in AnyFields \X E |-> MergeTier(x[1], all[x[2]])]
  OBVIOUS
<1>6. \E f \in [SUBSET D -> AnyFields] : IsLeftFold(f, D, NoFields, g) /\ Merged(tiers) = f[D]
  BY ZenonT(30), <1>1, <1>2, <1>4, MergedFold
<1>7. \E e \in [SUBSET E -> AnyFields] : IsLeftFold(e, E, NoFields, h) /\ Merged(all) = e[E]
  <2>1. all \in Seq(AnyFields)
    BY <1>3
  <2>2. m = Len(all)
    BY <1>3
  <2>3. E = 1..m
    BY <1>2
  <2> QED
    BY <1>5, <2>1, <2>2, <2>3, MergedFold, ZenonT(30)
<1>8. PICK f \in [SUBSET D -> AnyFields] : IsLeftFold(f, D, NoFields, g) /\ Merged(tiers) = f[D]
  BY <1>6
<1>9. PICK e \in [SUBSET E -> AnyFields] : IsLeftFold(e, E, NoFields, h) /\ Merged(all) = e[E]
  BY <1>7
<1>10. D \subseteq E /\ m \in E /\ m \notin D /\ E \ {m} = D
  BY <1>2, <1>3
<1>11. Max(E) = m
  <2>1. Max(E) \in E /\ \A j \in E : j <= Max(E)
    BY <1>2, <1>3, <1>10, FoldOrders
  <2> QED
    BY <1>2, <1>3, <1>10, <2>1
<1>12. PICK pick : pick = [s \in SUBSET E |-> Max(s)]
  OBVIOUS
<1>13. \A s \in SUBSET E : s # {} => pick[s] \in s /\ pick[s] = Max(s)
  BY <1>2, <1>3, <1>12, FoldOrders
<1>14. IsFold(e, E, NoFields, h, pick)
  BY <1>9, <1>12 DEF IsFold, IsLeftFold
<1>15. IsFold(f, D, NoFields, h, pick)
  <2> SUFFICES ASSUME NEW s \in SUBSET D
               PROVE  f[s] = IF s = {} THEN NoFields ELSE h[<<f[s \ {pick[s]}], pick[s]>>]
    BY DEF IsFold
  <2>1. CASE s = {}
    BY <1>8, <2>1 DEF IsLeftFold
  <2>2. CASE s # {}
    <3>1. PICK i, t : i = Max(s) /\ t = s \ {Max(s)}
      OBVIOUS
    <3>2. i \in D /\ i \in E /\ pick[s] = i /\ t \in SUBSET D
      BY <1>10, <1>13, <2>2, <3>1
    <3>3. f[t] \in AnyFields
      BY <1>8, <3>2
    <3>4. f[s] = g[<<f[t], i>>]
      BY <1>8, <2>2, <3>1 DEF IsLeftFold
    <3>5. g[<<f[t], i>>] = MergeTier(f[t], tiers[i])
      BY <1>4, <3>2, <3>3
    <3>6. h[<<f[t], i>>] = MergeTier(f[t], all[i])
      BY <1>5, <3>2, <3>3
    <3> QED
      BY <1>3, <2>2, <3>1, <3>2, <3>4, <3>5, <3>6
  <2> QED
    BY <2>1, <2>2
<1>16. f[D] = e[D]
  <2>1. IsFiniteSet(D) /\ \A s \in SUBSET D : s # {} => pick[s] \in s
    BY <1>2, <1>3, <1>10, <1>13, FoldOrders
  <2>2. D \subseteq E
    BY <1>10
  <2>3. \A s \in SUBSET D : f[s] = e[s]
    <3>1. PICK a, b, base : a = f /\ b = e /\ base = NoFields
      OBVIOUS
    <3>2. IsFold(a, D, base, h, pick) /\ IsFold(b, E, base, h, pick)
      BY <1>14, <1>15, <3>1
    <3>3. \A s \in SUBSET D : a[s] = b[s]
      BY <2>1, <2>2, <3>2, FoldUnique
    <3> QED
      BY <3>1, <3>3
  <2> QED
    BY <2>3
<1>17. e[E] = h[<<e[D], m>>]
  <2>1. E \in SUBSET E /\ E # {}
    BY <1>10
  <2> QED
    BY <1>9, <1>10, <1>11, <2>1 DEF IsLeftFold
<1>18. h[<<e[D], m>>] = MergeTier(e[D], all[m])
  <2>1. e[D] \in AnyFields
    BY <1>9, <1>10
  <2> QED
    BY <1>5, <1>10, <2>1
<1> QED
  BY <1>1, <1>3, <1>8, <1>9, <1>16, <1>17, <1>18

-------------------------------------------------------------------------------
(* The tiers and the references of a body's first n invocations, for any   *)
(* program p and cache c.                                                  *)
BringsIn(p, c, s, inv) == Substitute(c[TargetKey(p, s, inv)], inv.args)

TiersIn(p, c, s, body, n) == [i \in 1..n |-> ResolveQualified(BringsIn(p, c, s, body.with[i]))]

PassedIn(p, c, s, body, n) == UNION {Imported(p, s, BringsIn(p, c, s, body.with[i])) : i \in 1..n}

AnewIn(p, c, s, body) ==
  MergeTier(Merged(TiersIn(p, c, s, body, Len(body.with))), ResolveQualified(Own(body)))

RefersIn(p, c, s, body) == Imported(p, s, Own(body)) \cup PassedIn(p, c, s, body, Len(body.with))

LEMMA NowIn ==
  /\ \A s, body : Anew(s, body) = AnewIn(program, cache, s, body)
  /\ \A s, body : Refers(s, body) = RefersIn(program, cache, s, body)
BY DEF Anew, AnewIn, Tiers, TiersIn, Brings, BringsIn, Refers, RefersIn, Passed, PassedIn

(* The first n of them name templates of the cache c, which the cache e    *)
(* has too.                                                                *)
Known(p, c, s, body, n) == \A i \in 1..n : TargetKey(p, s, body.with[i]) \in DOMAIN c

Grows(c, e) == \A key \in DOMAIN c : key \in DOMAIN e /\ e[key] = c[key]

LEMMA TiersStay ==
  ASSUME NEW p, NEW c, NEW e, Grows(c, e), NEW s, NEW body, NEW n, Known(p, c, s, body, n)
  PROVE  /\ TiersIn(p, e, s, body, n) = TiersIn(p, c, s, body, n)
         /\ PassedIn(p, e, s, body, n) = PassedIn(p, c, s, body, n)
         /\ Known(p, e, s, body, n)
<1>1. \A i \in 1..n : BringsIn(p, e, s, body.with[i]) = BringsIn(p, c, s, body.with[i])
  BY DEF Known, Grows, BringsIn
<1>2. TiersIn(p, e, s, body, n) = TiersIn(p, c, s, body, n)
  BY <1>1 DEF TiersIn
<1>3. PassedIn(p, e, s, body, n) = PassedIn(p, c, s, body, n)
  BY <1>1 DEF PassedIn
<1> QED
  BY <1>2, <1>3 DEF Known, Grows

LEMMA BodiesStay ==
  ASSUME NEW p, NEW c, NEW e, Grows(c, e), NEW s, NEW body, Known(p, c, s, body, Len(body.with))
  PROVE  /\ AnewIn(p, e, s, body) = AnewIn(p, c, s, body)
         /\ RefersIn(p, e, s, body) = RefersIn(p, c, s, body)
         /\ Known(p, e, s, body, Len(body.with))
<1>1. PICK n : n = Len(body.with)
  OBVIOUS
<1>2. /\ TiersIn(p, e, s, body, n) = TiersIn(p, c, s, body, n)
      /\ PassedIn(p, e, s, body, n) = PassedIn(p, c, s, body, n)
      /\ Known(p, e, s, body, n)
  BY <1>1, TiersStay
<1> QED
  BY <1>1, <1>2 DEF AnewIn, RefersIn

(* One invocation more.                                                    *)
LEMMA TierAdded ==
  ASSUME NEW p, NEW c, NEW s, NEW body, NEW n \in Nat \ {0},
         TiersIn(p, c, s, body, n - 1) \in Seq(AnyFields),
         NEW tier \in AnyFields, tier = ResolveQualified(BringsIn(p, c, s, body.with[n]))
  PROVE  /\ TiersIn(p, c, s, body, n) \in Seq(AnyFields)
         /\ Merged(TiersIn(p, c, s, body, n)) = MergeTier(Merged(TiersIn(p, c, s, body, n - 1)), tier)
         /\ PassedIn(p, c, s, body, n) =
              PassedIn(p, c, s, body, n - 1) \cup Imported(p, s, BringsIn(p, c, s, body.with[n]))
<1>1. PICK m : m = n - 1
  OBVIOUS
<1>2. m \in Nat /\ n = m + 1 /\ n \in 1..n /\ \A i \in 1..n : i = n \/ i \in 1..m
  BY <1>1
<1>3. PICK held : held = TiersIn(p, c, s, body, m)
  OBVIOUS
<1>4. PICK more : more = TiersIn(p, c, s, body, n)
  OBVIOUS
<1>5. /\ held \in Seq(AnyFields) /\ Len(held) = m
      /\ \A i \in 1..m : held[i] = ResolveQualified(BringsIn(p, c, s, body.with[i]))
  <2>1. held = [i \in 1..m |-> ResolveQualified(BringsIn(p, c, s, body.with[i]))]
    BY <1>3 DEF TiersIn
  <2>2. held \in Seq(AnyFields)
    BY <1>1, <1>3
  <2> QED
    BY <1>2, <2>1, <2>2, LenProperties
<1>6. more = [i \in 1..n |-> ResolveQualified(BringsIn(p, c, s, body.with[i]))]
  BY <1>4 DEF TiersIn
<1>7. \A i \in 1..n : more[i] = IF i = n THEN tier ELSE held[i]
  BY <1>2, <1>5, <1>6
<1>8. PICK grown : grown = Append(held, tier)
  OBVIOUS
<1>9. /\ grown \in Seq(AnyFields) /\ DOMAIN grown = 1..n
      /\ \A i \in 1..n : grown[i] = IF i = n THEN tier ELSE held[i]
  BY <1>2, <1>5, <1>8, AppendProperties, LenProperties
<1>10. more = grown
  <2>1. DOMAIN more = 1..n /\ \A i \in 1..n : more[i] = grown[i]
    BY <1>6, <1>7, <1>9
  <2>2. grown = [i \in 1..n |-> grown[i]]
    BY <1>9
  <2> QED
    BY <1>6, <2>1, <2>2
<1>11. Merged(grown) = MergeTier(Merged(held), tier)
  BY <1>5, <1>8, MergedOne
<1>12. PassedIn(p, c, s, body, n) =
         PassedIn(p, c, s, body, m) \cup Imported(p, s, BringsIn(p, c, s, body.with[n]))
  BY <1>2 DEF PassedIn
<1> QED
  BY <1>1, <1>3, <1>4, <1>9, <1>10, <1>11, <1>12

LEMMA NoTiers ==
  ASSUME NEW p, NEW c, NEW s, NEW body
  PROVE  /\ TiersIn(p, c, s, body, 0) \in Seq(AnyFields)
         /\ Merged(TiersIn(p, c, s, body, 0)) = NoFields
         /\ PassedIn(p, c, s, body, 0) = {}
<1>1. PICK none : none = TiersIn(p, c, s, body, 0)
  OBVIOUS
<1>2. none = <<>>
  BY <1>1 DEF TiersIn
<1>3. none \in Seq(AnyFields)
  BY <1>2
<1>4. Merged(none) = NoFields
  BY <1>2, MergedNone
<1>5. PassedIn(p, c, s, body, 0) = {}
  BY DEF PassedIn
<1> QED
  BY <1>1, <1>3, <1>4, <1>5

-------------------------------------------------------------------------------
(* The inductive invariant.  A frame has merged the tiers of the entries   *)
(* it is past, as the cache has them now: what is cached never changes.    *)
FrameTiers(d)  == TiersIn(program, cache, ScopeAt(d), BodyAt(d), next[d] - 1)
FramePassed(d) == PassedIn(program, cache, ScopeAt(d), BodyAt(d), next[d] - 1)
FrameExact(d)  == FrameTiers(d) \in Seq(AnyFields) /\ acc[d] = Merged(FrameTiers(d))

CachedExact ==
  \A key \in DOMAIN cache : cache[key] = AnewIn(program, cache, key[1], program.templates[key])

ServicesKnown ==
  \A s \in 1..Len(composed) :
    Known(program, cache, EntryScope, program.services[s], Len(program.services[s].with))

ServicesExact ==
  \A s \in 1..Len(composed) :
    composed[s] = AnewIn(program, cache, EntryScope, program.services[s])

Exact ==
  /\ Len(composed) = current - 1
  /\ CachedExact
  /\ ServicesKnown
  /\ ServicesExact
  /\ \A d \in 1..Depth : FrameExact(d)

(* A frame no call returns to keeps its tiers.                             *)
LEMMA FrameStays ==
  ASSUME PathInv, NEW d \in 1..Depth,
         program' = program, current' = current, Grows(cache, cache'),
         d # 1 => inProgress'[d - 1] = inProgress[d - 1],
         next'[d] = next[d]
  PROVE  FrameTiers(d)' = FrameTiers(d) /\ FramePassed(d)' = FramePassed(d)
<1>1. d \in Nat
  BY FramesShaped DEF PathInv, IInv
<1>2. BodyAt(d)' = BodyAt(d) /\ ScopeAt(d)' = ScopeAt(d)
  BY <1>1, FrameKept DEF ScopeAt
<1>3. PICK s, body, n : s = ScopeAt(d) /\ body = BodyAt(d) /\ n = next[d] - 1
  OBVIOUS
<1>4. Known(program, cache, s, body, n)
  BY <1>3 DEF PathInv, Visited, Entry, Known
<1>5. /\ TiersIn(program, cache', s, body, n) = TiersIn(program, cache, s, body, n)
      /\ PassedIn(program, cache', s, body, n) = PassedIn(program, cache, s, body, n)
  BY <1>4, TiersStay
<1>6. FrameTiers(d)' = TiersIn(program, cache', s, body, n)
  BY <1>2, <1>3 DEF FrameTiers
<1>7. FramePassed(d)' = PassedIn(program, cache', s, body, n)
  BY <1>2, <1>3 DEF FramePassed
<1> QED
  BY <1>3, <1>5, <1>6, <1>7 DEF FrameTiers, FramePassed

(* A frame a call returns to has the tier of that entry over them.         *)
LEMMA FrameMoves ==
  ASSUME PathInv, NEW d \in 1..Depth, FrameExact(d),
         program' = program, current' = current, Grows(cache, cache'),
         d # 1 => inProgress'[d - 1] = inProgress[d - 1],
         next'[d] = next[d] + 1,
         NEW fields, fields = cache'[TargetAt(d)],
         ResolveQualified(Bound(d, fields)) \in AnyFields,
         acc'[d] = Delivered(d, fields)
  PROVE  /\ FrameExact(d)'
         /\ FramePassed(d)' = FramePassed(d) \cup Imported(program, ScopeAt(d), Bound(d, fields))
<1>1. d \in Nat
  BY FramesShaped DEF PathInv, IInv
<1>2. BodyAt(d)' = BodyAt(d) /\ ScopeAt(d)' = ScopeAt(d)
  BY <1>1, FrameKept DEF ScopeAt
<1>3. PICK s, body, n : s = ScopeAt(d) /\ body = BodyAt(d) /\ n = next[d]
  OBVIOUS
<1>4. n \in Nat \ {0}
  <2>1. Len(BodyAt(d).with) \in Nat /\ next[d] \in 1..(Len(BodyAt(d).with) + 1)
    BY FramesShaped DEF PathInv, IInv, TypeOK
  <2> QED
    BY <1>3, <2>1
<1>5. Known(program, cache, s, body, n - 1)
  BY <1>3 DEF PathInv, Visited, Entry, Known
<1>6. PICK held : held = TiersIn(program, cache, s, body, n - 1)
  OBVIOUS
<1>7. held = FrameTiers(d) /\ held \in Seq(AnyFields) /\ acc[d] = Merged(held)
  BY <1>3, <1>6 DEF FrameTiers, FrameExact
<1>8. /\ TiersIn(program, cache', s, body, n - 1) = held
      /\ PassedIn(program, cache', s, body, n - 1) = PassedIn(program, cache, s, body, n - 1)
  BY <1>5, <1>6, TiersStay
<1>9. PICK tier : tier = ResolveQualified(Bound(d, fields))
  OBVIOUS
<1>10. BringsIn(program, cache', s, body.with[n]) = Bound(d, fields)
  BY <1>3 DEF BringsIn, Bound, TargetAt, InvocationAt
<1>11. PICK more : more = TiersIn(program, cache', s, body, n)
  OBVIOUS
<1>12. /\ more \in Seq(AnyFields)
       /\ Merged(more) = MergeTier(Merged(held), tier)
       /\ PassedIn(program, cache', s, body, n) =
            PassedIn(program, cache, s, body, n - 1) \cup Imported(program, s, Bound(d, fields))
  <2>1. tier \in AnyFields /\ tier = ResolveQualified(BringsIn(program, cache', s, body.with[n]))
    BY <1>9, <1>10
  <2>2. TiersIn(program, cache', s, body, n - 1) \in Seq(AnyFields)
    BY <1>7, <1>8
  <2>3. /\ TiersIn(program, cache', s, body, n) \in Seq(AnyFields)
        /\ Merged(TiersIn(program, cache', s, body, n)) =
             MergeTier(Merged(TiersIn(program, cache', s, body, n - 1)), tier)
        /\ PassedIn(program, cache', s, body, n) =
             PassedIn(program, cache', s, body, n - 1)
               \cup Imported(program, s, BringsIn(program, cache', s, body.with[n]))
    BY <1>4, <2>1, <2>2, TierAdded
  <2> QED
    BY <1>8, <1>10, <1>11, <2>3
<1>13. next'[d] - 1 = n
  BY <1>3, <1>4
<1>14. FrameTiers(d)' = more /\ FramePassed(d)' = PassedIn(program, cache', s, body, n)
  BY <1>2, <1>3, <1>11, <1>13 DEF FrameTiers, FramePassed
<1>15. acc'[d] = MergeTier(Merged(held), tier)
  BY <1>7, <1>9 DEF Delivered
<1>16. FrameExact(d)'
  BY <1>12, <1>14, <1>15 DEF FrameExact
<1> QED
  BY <1>3, <1>12, <1>14, <1>16 DEF FramePassed

(* A frame just entered has none.                                          *)
LEMMA FrameStarts ==
  ASSUME NEW d, next'[d] = 1, acc'[d] = NoFields
  PROVE  FrameExact(d)' /\ FramePassed(d)' = {}
<1>1. PICK p, c, s, body : p = program' /\ c = cache' /\ s = ScopeAt(d)' /\ body = BodyAt(d)'
  OBVIOUS
<1>2. FrameTiers(d)' = TiersIn(p, c, s, body, 0) /\ FramePassed(d)' = PassedIn(p, c, s, body, 0)
  BY <1>1 DEF FrameTiers, FramePassed
<1>3. /\ TiersIn(p, c, s, body, 0) \in Seq(AnyFields)
      /\ Merged(TiersIn(p, c, s, body, 0)) = NoFields
      /\ PassedIn(p, c, s, body, 0) = {}
  BY NoTiers
<1> QED
  BY <1>2, <1>3 DEF FrameExact

(* What a frame past its last entry comes to, and what it has referred to. *)
LEMMA FrameCloses ==
  ASSUME PathInv, NEW d \in 1..Depth, FrameExact(d), next[d] > Len(BodyAt(d).with)
  PROVE  /\ Closed(d) = AnewIn(program, cache, ScopeAt(d), BodyAt(d))
         /\ Known(program, cache, ScopeAt(d), BodyAt(d), Len(BodyAt(d).with))
         /\ RefersIn(program, cache, ScopeAt(d), BodyAt(d)) =
              FramePassed(d) \cup Imported(program, ScopeAt(d), Own(BodyAt(d)))
<1>1. PICK s, body, n : s = ScopeAt(d) /\ body = BodyAt(d) /\ n = Len(BodyAt(d).with)
  OBVIOUS
<1>2. next[d] - 1 = n
  <2>1. Len(BodyAt(d).with) \in Nat /\ next[d] \in 1..(Len(BodyAt(d).with) + 1)
    BY FramesShaped DEF PathInv, IInv, TypeOK
  <2> QED
    BY <1>1, <2>1
<1>3. acc[d] = Merged(TiersIn(program, cache, s, body, n))
  BY <1>1, <1>2 DEF FrameExact, FrameTiers
<1>4. Closed(d) = AnewIn(program, cache, s, body)
  BY <1>1, <1>3 DEF Closed, AnewIn
<1>5. Known(program, cache, s, body, n)
  BY <1>1, <1>2 DEF PathInv, Visited, Entry, Known
<1>6. RefersIn(program, cache, s, body) = FramePassed(d) \cup Imported(program, s, Own(body))
  BY <1>1, <1>2 DEF RefersIn, FramePassed
<1> QED
  BY <1>1, <1>4, <1>5, <1>6

(* Nothing that is finished changes when the cache grows.                  *)
LEMMA FinishedStays ==
  ASSUME PathInv, Exact, program' = program, Grows(cache, cache')
  PROVE  /\ \A key \in DOMAIN cache :
              /\ AnewIn(program, cache', key[1], program.templates[key]) = cache[key]
              /\ RefersIn(program, cache', key[1], program.templates[key]) =
                   RefersIn(program, cache, key[1], program.templates[key])
         /\ \A s \in 1..Len(composed) :
              /\ AnewIn(program, cache', EntryScope, program.services[s]) = composed[s]
              /\ Known(program, cache', EntryScope, program.services[s], Len(program.services[s].with))
              /\ RefersIn(program, cache', EntryScope, program.services[s]) =
                   RefersIn(program, cache, EntryScope, program.services[s])
<1>1. ASSUME NEW key \in DOMAIN cache
      PROVE  /\ AnewIn(program, cache', key[1], program.templates[key]) = cache[key]
             /\ RefersIn(program, cache', key[1], program.templates[key]) =
                  RefersIn(program, cache, key[1], program.templates[key])
  <2>1. Known(program, cache, key[1], program.templates[key], Len(program.templates[key].with))
    BY DEF PathInv, CacheClosed, Known
  <2>2. cache[key] = AnewIn(program, cache, key[1], program.templates[key])
    BY DEF Exact, CachedExact
  <2> QED
    BY <2>1, <2>2, BodiesStay
<1>2. ASSUME NEW s \in 1..Len(composed)
      PROVE  /\ AnewIn(program, cache', EntryScope, program.services[s]) = composed[s]
             /\ Known(program, cache', EntryScope, program.services[s], Len(program.services[s].with))
             /\ RefersIn(program, cache', EntryScope, program.services[s]) =
                  RefersIn(program, cache, EntryScope, program.services[s])
  <2>1. PICK body : body = program.services[s]
    OBVIOUS
  <2>2. Known(program, cache, EntryScope, body, Len(body.with))
    BY <2>1 DEF Exact, ServicesKnown
  <2>3. composed[s] = AnewIn(program, cache, EntryScope, body)
    BY <2>1 DEF Exact, ServicesExact
  <2>4. /\ AnewIn(program, cache', EntryScope, body) = AnewIn(program, cache, EntryScope, body)
        /\ RefersIn(program, cache', EntryScope, body) = RefersIn(program, cache, EntryScope, body)
        /\ Known(program, cache', EntryScope, body, Len(body.with))
    BY <2>2, BodiesStay
  <2> QED
    BY <2>1, <2>3, <2>4
<1> QED
  BY <1>1, <1>2

-------------------------------------------------------------------------------
(* Where the imports come from: the templates in the cache, the services   *)
(* composed, and the invocations the frames are past.                      *)
Finished ==
  {RefersIn(program, cache, key[1], program.templates[key]) : key \in DOMAIN cache}
    \cup {RefersIn(program, cache, EntryScope, program.services[s]) : s \in 1..Len(composed)}

Underway == {FramePassed(d) : d \in 1..Depth}

Sources == imports = (UNION Finished) \cup (UNION Underway)

LEMMA UnionMore ==
  ASSUME NEW S, NEW x
  PROVE  UNION (S \cup {x}) = (UNION S) \cup x
<1>1. ASSUME NEW e PROVE e \in UNION (S \cup {x}) <=> e \in (UNION S) \cup x
  OBVIOUS
<1> QED
  BY <1>1

LEMMA UnionBoth ==
  ASSUME NEW S, NEW T
  PROVE  UNION (S \cup T) = (UNION S) \cup (UNION T)
<1>1. ASSUME NEW e PROVE e \in UNION (S \cup T) <=> e \in (UNION S) \cup (UNION T)
  OBVIOUS
<1> QED
  BY <1>1

(* What is finished stays so in a step that only adds frames.              *)
LEMMA FinishedKept ==
  ASSUME PathInv, Exact, program' = program, cache' = cache, composed' = composed
  PROVE  CachedExact' /\ ServicesKnown' /\ ServicesExact' /\ Finished' = Finished
<1>1. CachedExact'
  BY DEF Exact, CachedExact
<1>2. ServicesKnown'
  BY DEF Exact, ServicesKnown
<1>3. ServicesExact'
  BY DEF Exact, ServicesExact
<1>4. Finished' = Finished
  BY DEF Finished
<1> QED
  BY <1>1, <1>2, <1>3, <1>4

LEMMA SameGrows == ASSUME NEW c PROVE Grows(c, c)
BY DEF Grows

LEMMA InitExact == Init => Exact /\ Sources
<1> SUFFICES ASSUME Init PROVE Exact /\ Sources
  OBVIOUS
<1>1. current = 1 /\ cache = <<>> /\ composed = <<>> /\ imports = {} /\ Depth = 0
  BY DEF Init, Depth
<1>2. Exact
  BY <1>1 DEF Exact, CachedExact, ServicesKnown, ServicesExact
<1>3. Sources
  BY <1>1 DEF Sources, Finished, Underway
<1> QED
  BY <1>2, <1>3

LEMMA StartExact ==
  ASSUME PathInv, Settled, Exact, Sources, StartService
  PROVE  Exact' /\ Sources'
<1>1. /\ program' = program /\ current' = current /\ cache' = cache /\ composed' = composed
      /\ imports' = imports /\ next' = <<1>> /\ acc' = <<NoFields>> /\ Depth = 0
  BY DEF StartService
<1>2. Depth' = 1 /\ next'[1] = 1 /\ acc'[1] = NoFields
  BY <1>1 DEF Depth
<1>3. FrameExact(1)' /\ FramePassed(1)' = {}
  BY <1>2, FrameStarts
<1>4. CachedExact' /\ ServicesKnown' /\ ServicesExact' /\ Finished' = Finished
  BY <1>1, FinishedKept
<1>5. \A d \in 1..Depth' : d = 1
  BY <1>2
<1>6. Exact'
  BY <1>1, <1>3, <1>4, <1>5 DEF Exact
<1>7. Underway = {} /\ Underway' = {{}}
  BY <1>1, <1>2, <1>3, <1>5 DEF Underway
<1> QED
  BY <1>1, <1>4, <1>6, <1>7 DEF Sources

LEMMA EnterExact ==
  ASSUME PathInv, Settled, Exact, Sources, EnterTemplate
  PROVE  Exact' /\ Sources'
<1>1. /\ program' = program /\ current' = current /\ cache' = cache /\ composed' = composed
      /\ imports' = imports /\ acc' = Append(acc, NoFields)
  BY DEF EnterTemplate
<1>2. PICK n, top : n = Depth /\ top = Depth + 1
  OBVIOUS
<1>3. /\ n \in Nat \ {0} /\ top = n + 1 /\ Depth = n /\ Depth' = top /\ next'[top] = 1
      /\ \A d \in 1..(n - 1) : inProgress'[d] = inProgress[d]
      /\ \A d \in 1..n : next'[d] = next[d]
  BY <1>2, EnterStep DEF PathInv
<1>4. acc'[top] = NoFields /\ \A d \in 1..n : acc'[d] = acc[d]
  <2>1. acc \in Seq(AnyFields) /\ Len(acc) = n /\ NoFields \in AnyFields
    BY <1>2, NothingSettled, FieldsAreAny DEF Settled
  <2> QED
    BY <1>1, <1>3, <2>1, AppendProperties
<1>5. FrameExact(top)' /\ FramePassed(top)' = {}
  BY <1>3, <1>4, FrameStarts
<1>6. ASSUME NEW d \in 1..n
      PROVE  FrameExact(d)' /\ FramePassed(d)' = FramePassed(d)
  <2>1. d \in 1..Depth /\ (d # 1 => inProgress'[d - 1] = inProgress[d - 1])
    BY <1>3
  <2>2. FrameTiers(d)' = FrameTiers(d) /\ FramePassed(d)' = FramePassed(d)
    BY <1>1, <1>3, <2>1, SameGrows, FrameStays
  <2>3. FrameExact(d) /\ acc'[d] = acc[d]
    BY <1>4, <2>1 DEF Exact
  <2> QED
    BY <2>2, <2>3 DEF FrameExact
<1>7. CachedExact' /\ ServicesKnown' /\ ServicesExact' /\ Finished' = Finished
  BY <1>1, FinishedKept
<1>8. 1..top = 1..n \cup {top}
  BY <1>3
<1>9. Exact'
  <2>1. \A d \in 1..Depth' : FrameExact(d)'
    BY <1>3, <1>5, <1>6, <1>8
  <2> QED
    BY <1>1, <1>7, <2>1 DEF Exact
<1>10. Underway' = Underway \cup {{}}
  <2>1. Underway = {FramePassed(d) : d \in 1..n}
    BY <1>3 DEF Underway
  <2>2. Underway' = {FramePassed(d)' : d \in 1..top}
    BY <1>3 DEF Underway
  <2> QED
    BY <1>5, <1>6, <1>8, <2>1, <2>2
<1> QED
  BY <1>1, <1>7, <1>9, <1>10 DEF Sources

LEMMA UseExact ==
  ASSUME PathInv, Settled, Exact, Sources, UseCached
  PROVE  Exact' /\ Sources'
<1>1. PICK n, fields : n = Depth /\ fields = cache[TargetAt(Depth)]
  OBVIOUS
<1>2. PICK brought : brought = Imported(program, ScopeAt(n), Bound(n, fields))
  OBVIOUS
<1>3. /\ program' = program /\ current' = current /\ cache' = cache /\ composed' = composed
      /\ DeliveryError(n, fields) = NoError
      /\ acc' = [acc EXCEPT ![n] = Delivered(n, fields)]
      /\ imports' = imports \cup brought
  BY <1>1, <1>2 DEF UseCached
<1>4. /\ n \in Nat \ {0} /\ Depth = n /\ Depth' = n
      /\ inProgress' = inProgress /\ TargetAt(n) \in DOMAIN cache
      /\ next[n] <= Len(BodyAt(n).with) /\ next'[n] = next[n] + 1
      /\ \A d \in 1..(n - 1) : next'[d] = next[d]
  BY <1>1, UseStep DEF PathInv
<1>5. ResolveQualified(Bound(n, fields)) \in AnyFields /\ Delivered(n, fields) \in AnyFields
  <2>1. PICK own : own = program.templates[TargetAt(n)].params
    OBVIOUS
  <2>2. fields \in Fields(own)
    BY <1>1, <1>4, <2>1 DEF Settled
  <2>3. ArgumentError(own, InvocationAt(n).args) = NoError
    BY <1>1, <2>1, ArgumentsAccepted DEF UseCached, Hit
  <2>4. n \in 1..Depth /\ IInv
    BY <1>4 DEF PathInv
  <2>5. ResolveQualified(Bound(n, fields)) \in Fields(BodyAt(n).params)
    BY <1>3, <1>4, <2>2, <2>3, <2>4, BroughtSettled
  <2>6. Delivered(n, fields) \in Fields(BodyAt(n).params)
    BY <1>3, <1>4, <2>2, <2>3, <2>4, DeliveredSettled
  <2> QED
    BY <2>5, <2>6, FieldsAreAny
<1>6. \A d \in 1..n : acc'[d] = IF d = n THEN Delivered(n, fields) ELSE acc[d]
  <2>1. acc \in Seq(AnyFields) /\ Len(acc) = n
    BY <1>1 DEF Settled
  <2> QED
    BY <1>3, <1>4, <1>5, <2>1, ExceptSeq
<1>7. FrameExact(n)' /\ FramePassed(n)' = FramePassed(n) \cup brought
  <2>1. n \in 1..Depth /\ FrameExact(n) /\ acc'[n] = Delivered(n, fields)
    BY <1>4, <1>6 DEF Exact
  <2>2. fields = cache'[TargetAt(n)] /\ Grows(cache, cache')
    BY <1>1, <1>3, SameGrows
  <2> QED
    BY <1>2, <1>3, <1>4, <1>5, <2>1, <2>2, FrameMoves
<1>8. ASSUME NEW d \in 1..(n - 1)
      PROVE  FrameExact(d)' /\ FramePassed(d)' = FramePassed(d)
  <2>1. d \in 1..Depth /\ d \in 1..n /\ d # n
    BY <1>4
  <2>2. FrameTiers(d)' = FrameTiers(d) /\ FramePassed(d)' = FramePassed(d)
    BY <1>3, <1>4, <2>1, SameGrows, FrameStays
  <2>3. FrameExact(d) /\ acc'[d] = acc[d]
    BY <1>6, <2>1 DEF Exact
  <2> QED
    BY <2>2, <2>3 DEF FrameExact
<1>9. CachedExact' /\ ServicesKnown' /\ ServicesExact' /\ Finished' = Finished
  BY <1>3, FinishedKept
<1>10. 1..n = 1..(n - 1) \cup {n}
  BY <1>4
<1>11. Exact'
  <2>1. \A d \in 1..Depth' : FrameExact(d)'
    BY <1>4, <1>7, <1>8, <1>10
  <2> QED
    BY <1>3, <1>9, <2>1 DEF Exact
<1>12. UNION Underway' = (UNION Underway) \cup brought
  <2>1. Underway = {FramePassed(d) : d \in 1..n}
    BY <1>4 DEF Underway
  <2>2. Underway' = {FramePassed(d)' : d \in 1..n}
    BY <1>4 DEF Underway
  <2>3. PICK below, passed : below = {FramePassed(d) : d \in 1..(n - 1)} /\ passed = FramePassed(n)
    OBVIOUS
  <2>4. Underway = below \cup {passed}
    BY <1>10, <2>1, <2>3
  <2>5. Underway' = below \cup {passed \cup brought}
    BY <1>7, <1>8, <1>10, <2>2, <2>3
  <2>6. UNION Underway = (UNION below) \cup passed
    BY <2>4, UnionMore
  <2>7. UNION Underway' = (UNION below) \cup (passed \cup brought)
    BY <2>5, UnionMore
  <2> QED
    BY <2>6, <2>7
<1>13. Sources'
  BY <1>3, <1>9, <1>12 DEF Sources
<1> QED
  BY <1>11, <1>13

(* A template returns: what is cached for it is what it comes to now.      *)
LEMMA LeaveExact ==
  ASSUME PathInv, Settled, Exact, Sources, LeaveTemplate
  PROVE  Exact' /\ Sources'
<1>1. PICK top, n : top = Depth /\ n = Depth - 1
  OBVIOUS
<1>2. PICK key, fields : key = inProgress[n] /\ fields = Closed(top)
  OBVIOUS
<1>3. PICK own, brought : /\ own = Imported(program, ScopeAt(top), Own(BodyAt(top)))
                          /\ brought = Imported(program, ScopeAt(n), Bound(n, fields))
  OBVIOUS
<1>4. /\ program' = program /\ current' = current /\ composed' = composed
      /\ DeliveryError(n, fields) = NoError
      /\ cache' = [k \in DOMAIN cache \cup {key} |-> IF k = key THEN fields ELSE cache[k]]
      /\ acc' = [SubSeq(acc, 1, n) EXCEPT ![n] = Delivered(n, fields)]
      /\ imports' = imports \cup own \cup brought
      /\ next[top] > Len(BodyAt(top).with)
  BY <1>1, <1>2, <1>3 DEF LeaveTemplate, Closing
<1>5. /\ n \in Nat \ {0} /\ top = n + 1 /\ Depth = top /\ Depth' = n
      /\ Len(inProgress) = n
      /\ next'[n] = next[n] + 1
      /\ \A d \in 1..(n - 1) : inProgress'[d] = inProgress[d]
      /\ \A d \in 1..(n - 1) : next'[d] = next[d]
  BY <1>1, LeaveStep DEF PathInv
<1>6. key = TargetAt(n) /\ next[n] <= Len(BodyAt(n).with)
  BY <1>2, <1>5 DEF PathInv, IInv, Linked
<1>7. key \notin DOMAIN cache
  <2>1. n \in 1..Len(inProgress)
    BY <1>5
  <2> QED
    BY <1>2, <2>1 DEF PathInv, CacheClosed
<1>8. DOMAIN cache' = DOMAIN cache \cup {key} /\ cache'[key] = fields /\ Grows(cache, cache')
  BY <1>4, <1>7 DEF Grows
<1>9. PICK body : body = program.templates[key]
  OBVIOUS
<1>10. /\ fields = AnewIn(program, cache, key[1], body)
       /\ Known(program, cache, key[1], body, Len(body.with))
       /\ RefersIn(program, cache, key[1], body) = FramePassed(top) \cup own
  <2>1. BodyAt(top) = body /\ ScopeAt(top) = key[1]
    BY <1>2, <1>5, <1>9 DEF BodyAt, ScopeAt
  <2>2. top \in 1..Depth /\ FrameExact(top)
    BY <1>5 DEF Exact
  <2> QED
    BY <1>2, <1>3, <1>4, <2>1, <2>2, FrameCloses
<1>11. /\ cache'[key] = AnewIn(program, cache', key[1], body)
       /\ RefersIn(program, cache', key[1], body) = FramePassed(top) \cup own
  <2>1. /\ AnewIn(program, cache', key[1], body) = AnewIn(program, cache, key[1], body)
        /\ RefersIn(program, cache', key[1], body) = RefersIn(program, cache, key[1], body)
    BY <1>8, <1>10, BodiesStay
  <2> QED
    BY <1>8, <1>10, <2>1
<1>12. ResolveQualified(Bound(n, fields)) \in AnyFields /\ Delivered(n, fields) \in AnyFields
  <2>1. PICK params : params = body.params
    OBVIOUS
  <2>2. fields \in Fields(params)
    <3>1. top \in 1..Depth /\ IInv
      BY <1>5 DEF PathInv
    <3>2. fields \in Fields(BodyAt(top).params)
      BY <1>2, <3>1, ClosedSettled
    <3>3. BodyAt(top) = body
      BY <1>2, <1>5, <1>9 DEF BodyAt
    <3> QED
      BY <2>1, <3>2, <3>3
  <2>3. ArgumentError(params, InvocationAt(n).args) = NoError
    BY <1>2, <1>5, <1>9, <2>1 DEF Settled
  <2>4. n \in 1..Depth /\ IInv
    BY <1>5 DEF PathInv
  <2>5. ResolveQualified(Bound(n, fields)) \in Fields(BodyAt(n).params)
    BY <1>4, <1>6, <2>2, <2>3, <2>4, BroughtSettled
  <2>6. Delivered(n, fields) \in Fields(BodyAt(n).params)
    BY <1>4, <1>6, <2>2, <2>3, <2>4, DeliveredSettled
  <2> QED
    BY <2>5, <2>6, FieldsAreAny
<1>13. \A d \in 1..n : acc'[d] = IF d = n THEN Delivered(n, fields) ELSE acc[d]
  <2>1. acc \in Seq(AnyFields) /\ Len(acc) = top
    BY <1>1 DEF Settled
  <2>2. PICK below : below = SubSeq(acc, 1, n)
    OBVIOUS
  <2>3. n \in 0..Len(acc)
    BY <1>5, <2>1
  <2>4. below \in Seq(AnyFields) /\ Len(below) = n /\ \A d \in 1..n : below[d] = acc[d]
    BY <2>1, <2>2, <2>3, Prefix
  <2>5. acc' = [below EXCEPT ![n] = Delivered(n, fields)] /\ n \in 1..n
    BY <1>4, <1>5, <2>2
  <2> QED
    BY <1>12, <2>4, <2>5, ExceptSeq
<1>14. FrameExact(n)' /\ FramePassed(n)' = FramePassed(n) \cup brought
  <2>1. n \in 1..Depth /\ FrameExact(n) /\ acc'[n] = Delivered(n, fields)
    BY <1>5, <1>13 DEF Exact
  <2>2. fields = cache'[TargetAt(n)]
    BY <1>6, <1>8
  <2>3. n # 1 => inProgress'[n - 1] = inProgress[n - 1]
    BY <1>5
  <2> QED
    BY <1>3, <1>4, <1>5, <1>8, <1>12, <2>1, <2>2, <2>3, FrameMoves
<1>15. ASSUME NEW d \in 1..(n - 1)
       PROVE  FrameExact(d)' /\ FramePassed(d)' = FramePassed(d)
  <2>1. d \in 1..Depth /\ d \in 1..n /\ d # n /\ (d # 1 => inProgress'[d - 1] = inProgress[d - 1])
    BY <1>5
  <2>2. FrameTiers(d)' = FrameTiers(d) /\ FramePassed(d)' = FramePassed(d)
    BY <1>4, <1>5, <1>8, <2>1, FrameStays
  <2>3. FrameExact(d) /\ acc'[d] = acc[d]
    BY <1>13, <2>1 DEF Exact
  <2> QED
    BY <2>2, <2>3 DEF FrameExact
<1>16. 1..n = 1..(n - 1) \cup {n} /\ 1..top = 1..(n - 1) \cup {n, top}
  BY <1>5
<1>17. Exact'
  <2>1. \A d \in 1..Depth' : FrameExact(d)'
    BY <1>5, <1>14, <1>15, <1>16
  <2>2. CachedExact'
    <3>1. ASSUME NEW k \in DOMAIN cache'
          PROVE  cache'[k] = AnewIn(program, cache', k[1], program.templates[k])
      <4>1. CASE k = key
        BY <1>9, <1>11, <4>1
      <4>2. CASE k \in DOMAIN cache
        <5>1. AnewIn(program, cache', k[1], program.templates[k]) = cache[k]
          BY <1>4, <1>8, <4>2, FinishedStays
        <5> QED
          BY <1>8, <4>2, <5>1 DEF Grows
      <4> QED
        BY <1>8, <4>1, <4>2
    <3> QED
      BY <1>4, <3>1 DEF CachedExact
  <2>3. ServicesKnown'
    BY <1>4, <1>8, FinishedStays DEF ServicesKnown
  <2>4. ServicesExact'
    BY <1>4, <1>8, FinishedStays DEF ServicesExact
  <2> QED
    BY <1>4, <2>1, <2>2, <2>3, <2>4 DEF Exact
<1>18. Finished' = Finished \cup {FramePassed(top) \cup own}
  <2>1. Finished' =
          {RefersIn(program, cache', k[1], program.templates[k]) : k \in DOMAIN cache \cup {key}}
            \cup {RefersIn(program, cache', EntryScope, program.services[s]) : s \in 1..Len(composed)}
    BY <1>4, <1>8 DEF Finished
  <2>2. {RefersIn(program, cache', k[1], program.templates[k]) : k \in DOMAIN cache \cup {key}} =
          {RefersIn(program, cache, k[1], program.templates[k]) : k \in DOMAIN cache}
            \cup {FramePassed(top) \cup own}
    <3>1. \A k \in DOMAIN cache : RefersIn(program, cache', k[1], program.templates[k]) =
                                  RefersIn(program, cache, k[1], program.templates[k])
      BY <1>4, <1>8, FinishedStays
    <3>2. RefersIn(program, cache', key[1], program.templates[key]) = FramePassed(top) \cup own
      BY <1>9, <1>11
    <3> QED
      BY <3>1, <3>2
  <2>3. {RefersIn(program, cache', EntryScope, program.services[s]) : s \in 1..Len(composed)} =
          {RefersIn(program, cache, EntryScope, program.services[s]) : s \in 1..Len(composed)}
    BY <1>4, <1>8, FinishedStays
  <2> QED
    BY <2>1, <2>2, <2>3 DEF Finished
<1>19. Sources'
  <2>1. PICK below, passed, last : /\ below = {FramePassed(d) : d \in 1..(n - 1)}
                                   /\ passed = FramePassed(n) /\ last = FramePassed(top)
    OBVIOUS
  <2>2. PICK most : most = below \cup {passed}
    OBVIOUS
  <2>3. Underway = most \cup {last}
    <3>1. Underway = {FramePassed(d) : d \in 1..top}
      BY <1>5 DEF Underway
    <3> QED
      BY <1>16, <2>1, <2>2, <3>1
  <2>4. Underway' = below \cup {passed \cup brought}
    <3>1. Underway' = {FramePassed(d)' : d \in 1..n}
      BY <1>5 DEF Underway
    <3> QED
      BY <1>14, <1>15, <1>16, <2>1, <3>1
  <2>5. UNION Underway = (UNION most) \cup last
    BY <2>3, UnionMore
  <2>6. UNION most = (UNION below) \cup passed
    BY <2>2, UnionMore
  <2>7. UNION Underway' = (UNION below) \cup (passed \cup brought)
    BY <2>4, UnionMore
  <2>8. UNION Finished' = (UNION Finished) \cup (last \cup own)
    BY <1>18, <2>1, UnionMore
  <2>9. imports' = (UNION Finished) \cup (UNION Underway) \cup own \cup brought
    BY <1>4 DEF Sources
  <2>10. imports' = (UNION Finished') \cup (UNION Underway')
    BY <2>5, <2>6, <2>7, <2>8, <2>9
  <2> QED
    BY <2>10 DEF Sources
<1> QED
  BY <1>17, <1>19

LEMMA FinishExact ==
  ASSUME PathInv, Settled, Exact, Sources, FinishService
  PROVE  Exact' /\ Sources'
<1>1. PICK own, body, n : /\ own = Imported(program, EntryScope, Own(BodyAt(1)))
                          /\ body = BodyAt(1) /\ n = current
  OBVIOUS
<1>2. /\ program' = program /\ cache' = cache /\ current' = current + 1
      /\ composed' = Append(composed, Closed(1))
      /\ imports' = imports \cup own
      /\ next' = <<>> /\ acc' = <<>> /\ Depth = 1
      /\ next[1] > Len(BodyAt(1).with)
  BY <1>1 DEF FinishService, Closing
<1>3. Depth' = 0 /\ n \in Nat \ {0} /\ Len(composed) = n - 1
  <2>1. Depth' = 0
    BY <1>2 DEF Depth
  <2>2. current \in Nat \ {0}
    <3>1. Len(program.services) \in Nat
      BY ProgramsAssumption DEF PathInv, IInv, ProgramShape
    <3> QED
      BY <3>1 DEF PathInv, IInv, TypeOK
  <2> QED
    BY <1>1, <2>1, <2>2 DEF Exact
<1>4. body = program.services[n] /\ ScopeAt(1) = EntryScope
  BY <1>1 DEF BodyAt, ScopeAt
<1>5. /\ Closed(1) = AnewIn(program, cache, EntryScope, body)
      /\ Known(program, cache, EntryScope, body, Len(body.with))
      /\ RefersIn(program, cache, EntryScope, body) = FramePassed(1) \cup own
  <2>1. 1 \in 1..Depth /\ FrameExact(1)
    BY <1>2 DEF Exact
  <2> QED
    BY <1>1, <1>2, <1>4, <2>1, FrameCloses
<1>6. /\ Len(composed') = n
      /\ \A s \in 1..n : composed'[s] = IF s = n THEN Closed(1) ELSE composed[s]
  <2>1. PICK C : C = Fields({})
    OBVIOUS
  <2>2. composed \in Seq(C) /\ Closed(1) \in C
    <3>1. 1 \in 1..Depth /\ IInv
      BY <1>2 DEF PathInv
    <3>2. BodyAt(1).params = {}
      BY <3>1, FrameBody DEF IInv
    <3>3. Closed(1) \in Fields(BodyAt(1).params)
      BY <3>1, ClosedSettled
    <3> QED
      BY <2>1, <3>2, <3>3 DEF Settled
  <2> QED
    BY <1>2, <1>3, <2>2, AppendProperties
<1>7. \A s \in 1..n : s = n \/ s \in 1..Len(composed)
  BY <1>3
<1>8. CachedExact'
  BY <1>2 DEF Exact, CachedExact
<1>9. ServicesKnown'
  <2>1. ASSUME NEW s \in 1..n
        PROVE  Known(program, cache, EntryScope, program.services[s], Len(program.services[s].with))
    <3>1. CASE s = n
      BY <1>4, <1>5, <3>1
    <3>2. CASE s \in 1..Len(composed)
      BY <3>2 DEF Exact, ServicesKnown
    <3> QED
      BY <1>7, <3>1, <3>2
  <2> QED
    BY <1>2, <1>6, <2>1 DEF ServicesKnown
<1>10. ServicesExact'
  <2>1. ASSUME NEW s \in 1..n
        PROVE  composed'[s] = AnewIn(program, cache, EntryScope, program.services[s])
    <3>1. CASE s = n
      BY <1>4, <1>5, <1>6, <3>1
    <3>2. CASE s \in 1..Len(composed)
      <4>1. s # n
        BY <1>3, <3>2
      <4> QED
        BY <1>6, <3>2, <4>1 DEF Exact, ServicesExact
    <3> QED
      BY <1>7, <3>1, <3>2
  <2> QED
    BY <1>2, <1>6, <2>1 DEF ServicesExact
<1>11. Exact'
  <2>1. Len(composed') = current' - 1
    BY <1>1, <1>2, <1>3, <1>6
  <2>2. 1..Depth' = {}
    BY <1>3
  <2> QED
    BY <1>8, <1>9, <1>10, <2>1, <2>2 DEF Exact
<1>12. Finished' = Finished \cup {FramePassed(1) \cup own}
  <2>1. 1..n = 1..Len(composed) \cup {n}
    BY <1>3
  <2>2. {RefersIn(program, cache, EntryScope, program.services[s]) : s \in 1..n} =
          {RefersIn(program, cache, EntryScope, program.services[s]) : s \in 1..Len(composed)}
            \cup {FramePassed(1) \cup own}
    BY <1>4, <1>5, <2>1
  <2>3. Finished' =
          {RefersIn(program, cache, k[1], program.templates[k]) : k \in DOMAIN cache}
            \cup {RefersIn(program, cache, EntryScope, program.services[s]) : s \in 1..n}
    BY <1>2, <1>6 DEF Finished
  <2> QED
    BY <2>2, <2>3 DEF Finished
<1>13. Sources'
  <2>1. PICK passed : passed = FramePassed(1)
    OBVIOUS
  <2>2. Underway = {passed} /\ Underway' = {}
    BY <1>2, <1>3, <2>1 DEF Underway
  <2>3. UNION Finished' = (UNION Finished) \cup (passed \cup own)
    BY <1>12, <2>1, UnionMore
  <2>4. UNION Underway = passed /\ UNION Underway' = {}
    BY <2>2
  <2>5. imports' = (UNION Finished) \cup passed \cup own
    BY <1>2, <2>4 DEF Sources
  <2>6. imports' = (UNION Finished') \cup (UNION Underway')
    BY <2>3, <2>4, <2>5
  <2> QED
    BY <2>6 DEF Sources
<1> QED
  BY <1>11, <1>13

LEMMA NextExact ==
  PathInv /\ Settled /\ Exact /\ Sources /\ [Next]_vars => Exact' /\ Sources'
<1> SUFFICES ASSUME PathInv, Settled, Exact, Sources, [Next]_vars PROVE Exact' /\ Sources'
  OBVIOUS
<1>1. CASE Ending \/ UNCHANGED vars
  <2>1. UNCHANGED <<program, current, inProgress, next, acc, cache, imports, composed>>
    BY <1>1, EndingKeeps DEF vars
  <2>2. CachedExact' /\ ServicesKnown' /\ ServicesExact' /\ Finished' = Finished
    BY <2>1, FinishedKept
  <2>3. Depth' = Depth
    BY <2>1 DEF Depth
  <2>4. ASSUME NEW d \in 1..Depth
        PROVE  FrameExact(d)' /\ FramePassed(d)' = FramePassed(d)
    <3>1. FrameTiers(d)' = FrameTiers(d) /\ FramePassed(d)' = FramePassed(d)
      BY <2>1, SameGrows, FrameStays
    <3>2. FrameExact(d) /\ acc'[d] = acc[d]
      BY <2>1 DEF Exact
    <3> QED
      BY <3>1, <3>2 DEF FrameExact
  <2>5. Exact'
    BY <2>1, <2>2, <2>3, <2>4 DEF Exact
  <2>6. Underway' = Underway
    BY <2>3, <2>4 DEF Underway
  <2> QED
    BY <2>1, <2>2, <2>5, <2>6 DEF Sources
<1> QED
  BY <1>1, StartExact, EnterExact, UseExact, LeaveExact, FinishExact DEF Next, Ending

LEMMA ExactIsExact == PathInv /\ Exact => CacheIsExact
<1> SUFFICES ASSUME PathInv, Exact PROVE CacheIsExact
  OBVIOUS
<1>1. \A key \in DOMAIN cache : cache[key] = Anew(key[1], program.templates[key])
  BY NowIn DEF Exact, CachedExact
<1>2. \A s \in 1..Len(composed) : composed[s] = Anew(EntryScope, program.services[s])
  BY NowIn DEF Exact, ServicesExact
<1> QED
  BY <1>1, <1>2 DEF PathInv, CacheIsExact

LEMMA SourcesAreExact == Sources => ImportsExact
<1> SUFFICES ASSUME Sources, next = <<>> PROVE ImportsExact
  BY DEF ImportsExact
<1>1. Underway = {}
  BY DEF Underway, Depth
<1>2. {Refers(key[1], program.templates[key]) : key \in DOMAIN cache} =
        {RefersIn(program, cache, key[1], program.templates[key]) : key \in DOMAIN cache}
  BY NowIn
<1>3. {Refers(EntryScope, program.services[s]) : s \in 1..Len(composed)} =
        {RefersIn(program, cache, EntryScope, program.services[s]) : s \in 1..Len(composed)}
  BY NowIn
<1>4. imports = UNION Finished
  BY <1>1 DEF Sources
<1> QED
  BY <1>2, <1>3, <1>4 DEF ImportsExact, Finished

(* CacheIsExact, for every program and limit: what the services share is   *)
(* finished work, and a template resolved once, for one service and with   *)
(* its arguments, serves every later invocation as if it were resolved     *)
(* again.                                                                  *)
THEOREM ReuseIsResolution == Spec => []CacheIsExact
<1>1. Init => PathInv /\ Settled /\ Exact /\ Sources
  BY InitPath, InitSettled, InitExact
<1>2. PathInv /\ Settled /\ Exact /\ Sources /\ [Next]_vars => (PathInv /\ Settled /\ Exact /\ Sources)'
  BY NextPath, NextSettled, NextExact DEF PathInv
<1>3. PathInv /\ Exact => CacheIsExact
  BY ExactIsExact
<1> QED
  BY <1>1, <1>2, <1>3, PTL DEF Spec

(* ImportsExact, for every program and limit: the networks imported for    *)
(* codegen are those the bodies used refer to, whether a template was      *)
(* resolved or taken from the cache.                                       *)
THEOREM ImportsAreReferred == Spec => []ImportsExact
<1>1. Init => PathInv /\ Settled /\ Exact /\ Sources
  BY InitPath, InitSettled, InitExact
<1>2. PathInv /\ Settled /\ Exact /\ Sources /\ [Next]_vars => (PathInv /\ Settled /\ Exact /\ Sources)'
  BY NextPath, NextSettled, NextExact DEF PathInv
<1>3. Sources => ImportsExact
  BY SourcesAreExact
<1> QED
  BY <1>1, <1>2, <1>3, PTL DEF Spec

===============================================================================
