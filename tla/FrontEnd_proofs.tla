----------------------------- MODULE FrontEnd_proofs -----------------------------
(***************************************************************************)
(* What every text and every step of the front end keeps: the calls of the *)
(* parser find the tokens and the values they take (TypeOK), and a token   *)
(* or an error is where it says it is (ItemsLocated).                      *)
(***************************************************************************)
EXTENDS FrontEnd, SequenceLemmas

-------------------------------------------------------------------------------
(* Sequences.                                                              *)
IsSequence(s) == s \in Seq(ToSet(s))

LEMMA Joining ==
  ASSUME NEW s, IsSequence(s), NEW t, IsSequence(t)
  PROVE  /\ IsSequence(s \o t)
         /\ Len(s) \in Nat /\ Len(t) \in Nat /\ Len(s \o t) = Len(s) + Len(t)
         /\ \A i \in 1..Len(s) : (s \o t)[i] = s[i]
         /\ \A i \in 1..Len(t) : (s \o t)[Len(s) + i] = t[i]
<1>1. IsSequence(s \o t)
  BY OwnConcat DEF IsSequence
<1> DEFINE S == ToSet(s) \cup ToSet(t)
<1>2. s \in Seq(S) /\ t \in Seq(S)
  BY SeqMonotonic DEF IsSequence
<1> HIDE DEF S
<1> QED
  BY <1>1, <1>2, ConcatProperties, LenProperties

LEMMA Rejoining ==
  ASSUME NEW s, IsSequence(s), NEW t, IsSequence(t), NEW u, IsSequence(u)
  PROVE  (s \o t) \o u = s \o (t \o u)
<1> DEFINE S == ToSet(s) \cup ToSet(t) \cup ToSet(u)
<1>1. s \in Seq(S) /\ t \in Seq(S) /\ u \in Seq(S)
  BY SeqMonotonic DEF IsSequence
<1> HIDE DEF S
<1> QED
  BY <1>1, ConcatAssociative

(* What is left of a sequence in front of another.                         *)
LEMMA TailBefore ==
  ASSUME NEW s, IsSequence(s), s # <<>>, NEW t, IsSequence(t)
  PROVE  /\ IsSequence(Tail(s)) /\ Len(s) \in Nat \ {0} /\ Len(Tail(s)) = Len(s) - 1
         /\ \A i \in 1..(Len(s) - 1) : Tail(s)[i] = s[i + 1]
         /\ Tail(s \o t) = Tail(s) \o t
         /\ (s \o t)[1] = s[1]
<1> DEFINE S == ToSet(s) \cup ToSet(t)
<1>1. s \in Seq(S) /\ t \in Seq(S)
  BY SeqMonotonic DEF IsSequence
<1>2. Tail(s) \in Seq(ToSet(s)) /\ Len(Tail(s)) = Len(s) - 1 /\ Len(s) \in Nat \ {0}
  BY EmptySeq, LenProperties, HeadTailProperties DEF IsSequence
<1>3. \A i \in 1..(Len(s) - 1) : Tail(s)[i] = s[i + 1]
  BY <1>2 DEF IsSequence
<1>4. IsSequence(Tail(s))
  BY <1>2, OwnElements DEF IsSequence
<1>5. s \o t \in Seq(S) /\ Tail(s) \in Seq(S)
  BY <1>1, <1>4, ConcatProperties, HeadTailProperties
<1>6. Tail(s \o t) = Tail(s) \o t /\ (s \o t)[1] = s[1]
  <2> HIDE DEF S
  <2> QED
    BY <1>1, <1>2, <1>5
<1> QED
  BY <1>2, <1>3, <1>4, <1>6

LEMMA Cutting ==
  ASSUME NEW s, IsSequence(s), NEW k \in Nat, k <= Len(s), NEW e
  PROVE  /\ IsSequence(Append(SubSeq(s, 1, Len(s) - k), e))
         /\ Len(Append(SubSeq(s, 1, Len(s) - k), e)) = Len(s) - k + 1
<1>1. Len(s) \in Nat
  BY LenProperties DEF IsSequence
<1>2. SubSeq(s, 1, Len(s) - k) \in Seq(ToSet(s)) /\ Len(SubSeq(s, 1, Len(s) - k)) = Len(s) - k
  BY <1>1 DEF IsSequence
<1> QED
  BY <1>2, OwnElements, OwnAppend DEF IsSequence

-------------------------------------------------------------------------------
(* The call stack.  A call that returns leaves so many values more than it *)
(* found.                                                                  *)
Gives(goal) ==
  CASE goal[1] \in {"literal", "reference", "list", "scalarOrList", "dependency", "invocation", "map", "entry", "raw",
                    "body", "nested", "params", "param"} -> 1
    [] goal[1] \in {"add", "pair", "raw pair", "insert"} -> 0 - 1
    [] OTHER -> 0

MapFields == DOMAIN Separator \cup {"raw"}

(* The calls a list is made of each leave the value they add to it.        *)
IsItem(goal) == goal[1] \in {"literal", "param", "reference", "dependency", "invocation", "raw"}

IsCall(goal) ==
  /\ goal[1] \notin {"program", "use", "declare"}
  /\ goal[1] \in {"first", "more"} => IsItem(goal[2]) /\ goal[3] \in {"]", ")"}
  /\ goal[1] \in {"rest", "list"} => IsItem(goal[2])
  /\ goal[1] \in {"map", "entries", "entry"} => goal[2] \in MapFields
  /\ goal[1] = "separator" => goal[2] \in DOMAIN Separator
  /\ goal[1] \in {"body", "fields", "statement", "nested", "secondary"} => goal[2] \in DOMAIN Fields

(* The calls, made in turn where n values are built, find what they take   *)
(* and leave m values: h[i] is how many there are before the i-th.         *)
Follows(h, calls) ==
  \A i \in 1..Len(calls) :
    IsCall(calls[i]) /\ Takes(calls[i]) <= h[i] /\ h[i + 1] = h[i] + Gives(calls[i])

Runs(calls, n, m) ==
  /\ IsSequence(calls)
  /\ \E h \in [1..(Len(calls) + 1) -> Nat] : h[1] = n /\ h[Len(calls) + 1] = m /\ Follows(h, calls)

LEMMA Numbers == \A goal : Takes(goal) \in 0..3 /\ Gives(goal) \in {0 - 1, 0, 1}
BY DEF Takes, Gives

LEMMA RunsNone ==
  ASSUME NEW n \in Nat
  PROVE  Runs(<<>>, n, n)
<1>1. IsSequence(<<>>) /\ Len(<<>>) = 0
  BY DEF IsSequence, ToSet
<1>2. PICK h : h = [i \in 1..1 |-> n]
  OBVIOUS
<1>3. h \in [1..(0 + 1) -> Nat] /\ h[1] = n /\ h[0 + 1] = n /\ Follows(h, <<>>)
  BY <1>1, <1>2 DEF Follows
<1> QED
  BY <1>1, <1>3 DEF Runs

(* One call after others, and others after it.                             *)
LEMMA RunsJoined ==
  ASSUME NEW s, NEW n, NEW k, Runs(s, n, k), NEW t, NEW m, Runs(t, k, m)
  PROVE  Runs(s \o t, n, m)
<1>1. IsSequence(s) /\ IsSequence(t)
  BY DEF Runs
<1>2. /\ IsSequence(s \o t)
      /\ Len(s) \in Nat /\ Len(t) \in Nat /\ Len(s \o t) = Len(s) + Len(t)
      /\ \A i \in 1..Len(s) : (s \o t)[i] = s[i]
      /\ \A i \in 1..Len(t) : (s \o t)[Len(s) + i] = t[i]
  BY <1>1, Joining
<1>3. PICK f \in [1..(Len(s) + 1) -> Nat] : f[1] = n /\ f[Len(s) + 1] = k /\ Follows(f, s)
  BY DEF Runs
<1>4. PICK g \in [1..(Len(t) + 1) -> Nat] : g[1] = k /\ g[Len(t) + 1] = m /\ Follows(g, t)
  BY DEF Runs
<1>5. PICK h : h = [i \in 1..(Len(s \o t) + 1) |-> IF i <= Len(s) THEN f[i] ELSE g[i - Len(s)]]
  OBVIOUS
<1>6. h \in [1..(Len(s \o t) + 1) -> Nat] /\ h[1] = n /\ h[Len(s \o t) + 1] = m
  BY <1>2, <1>3, <1>4, <1>5
<1>7. ASSUME NEW i \in 1..Len(s \o t)
      PROVE  IsCall((s \o t)[i]) /\ Takes((s \o t)[i]) <= h[i] /\ h[i + 1] = h[i] + Gives((s \o t)[i])
  <2>1. CASE i <= Len(s)
    <3>1. (s \o t)[i] = s[i] /\ i \in 1..Len(s)
      BY <2>1, <1>2
    <3>2. h[i] = f[i] /\ h[i + 1] = f[i + 1]
      BY <2>1, <1>2, <1>3, <1>4, <1>5
    <3> QED
      BY <3>1, <3>2, <1>3 DEF Follows
  <2>2. CASE i > Len(s)
    <3>0. i - Len(s) \in 1..Len(t) /\ i = Len(s) + (i - Len(s))
      BY <2>2, <1>2
    <3>1. PICK j \in 1..Len(t) : i = Len(s) + j
      BY <3>0
    <3>2. (s \o t)[i] = t[j]
      BY <3>1, <1>2
    <3>3. h[i] = g[j] /\ h[i + 1] = g[j + 1]
      BY <2>2, <3>1, <1>2, <1>5
    <3> QED
      BY <3>1, <3>2, <3>3, <1>4 DEF Follows
  <2> QED
    BY <2>1, <2>2, <1>2
<1> QED
  BY <1>2, <1>6, <1>7 DEF Runs, Follows

LEMMA RunsOne ==
  ASSUME NEW goal, IsCall(goal), NEW n \in Nat, Takes(goal) <= n, NEW m \in Nat, m = n + Gives(goal)
  PROVE  Runs(<<goal>>, n, m)
<1>1. IsSequence(<<goal>>) /\ Len(<<goal>>) = 1 /\ <<goal>>[1] = goal
  BY OwnSingle DEF IsSequence
<1>2. PICK h : h = [i \in 1..2 |-> IF i = 1 THEN n ELSE m]
  OBVIOUS
<1>3. h \in [1..(1 + 1) -> Nat] /\ h[1] = n /\ h[1 + 1] = m
  BY <1>2
<1>4. Follows(h, <<goal>>)
  BY <1>1, <1>3 DEF Follows
<1> QED
  BY <1>1, <1>3, <1>4 DEF Runs

(* What a run says of its first call.                                      *)
LEMMA RunsFirst ==
  ASSUME NEW s, NEW n \in Nat, NEW m \in Nat, Runs(s, n, m), s # <<>>
  PROVE  /\ IsCall(s[1]) /\ Takes(s[1]) <= n /\ n + Gives(s[1]) \in Nat
         /\ Runs(Tail(s), n + Gives(s[1]), m)
<1>1. IsSequence(s)
  BY DEF Runs
<1>2. /\ IsSequence(Tail(s)) /\ Len(s) \in Nat \ {0} /\ Len(Tail(s)) = Len(s) - 1
      /\ \A i \in 1..(Len(s) - 1) : Tail(s)[i] = s[i + 1]
  BY <1>1, TailBefore
<1>3. PICK h \in [1..(Len(s) + 1) -> Nat] : h[1] = n /\ h[Len(s) + 1] = m /\ Follows(h, s)
  BY DEF Runs
<1>4. IsCall(s[1]) /\ Takes(s[1]) <= n /\ h[2] = n + Gives(s[1])
  BY <1>2, <1>3 DEF Follows
<1>5. h[2] \in Nat
  BY <1>2, <1>3
<1>6. PICK g : g = [i \in 1..(Len(Tail(s)) + 1) |-> h[i + 1]]
  OBVIOUS
<1>7. g \in [1..(Len(Tail(s)) + 1) -> Nat] /\ g[1] = h[2] /\ g[Len(Tail(s)) + 1] = m
  BY <1>2, <1>3, <1>6
<1>8. ASSUME NEW i \in 1..Len(Tail(s))
      PROVE  IsCall(Tail(s)[i]) /\ Takes(Tail(s)[i]) <= g[i] /\ g[i + 1] = g[i] + Gives(Tail(s)[i])
  <2>1. Tail(s)[i] = s[i + 1] /\ i + 1 \in 1..Len(s)
    BY <1>2
  <2>2. g[i] = h[i + 1] /\ g[i + 1] = h[(i + 1) + 1]
    BY <1>2, <1>6
  <2> QED
    BY <2>1, <2>2, <1>3 DEF Follows
<1> QED
  BY <1>2, <1>4, <1>5, <1>7, <1>8 DEF Runs, Follows

LEMMA Extension ==
  ASSUME NEW s, IsSequence(s), NEW t, IsSequence(t), Len(s) = Len(t), \A i \in 1..Len(s) : s[i] = t[i]
  PROVE  s = t
<1> DEFINE S == ToSet(s) \cup ToSet(t)
<1>1. s \in Seq(S) /\ t \in Seq(S)
  BY SeqMonotonic DEF IsSequence
<1> HIDE DEF S
<1> QED
  BY <1>1, SeqEqual

(* A sequence is its first element before the rest.                        *)
LEMMA Prepended ==
  ASSUME NEW u, IsSequence(u), NEW t, IsSequence(t), Len(u) = Len(t) + 1, \A i \in 1..Len(t) : u[i + 1] = t[i]
  PROVE  \E s : s = <<u[1]>> /\ s \o t = u
<1>1. PICK s : s = <<u[1]>>
  OBVIOUS
<1>2. IsSequence(s) /\ Len(s) = 1 /\ s[1] = u[1]
  BY <1>1, OwnSingle DEF IsSequence
<1>a. PICK w : w = s \o t
  OBVIOUS
<1>b. /\ IsSequence(w) /\ Len(t) \in Nat /\ Len(w) = Len(s) + Len(t)
      /\ \A i \in 1..Len(s) : w[i] = s[i]
      /\ \A i \in 1..Len(t) : w[Len(s) + i] = t[i]
  <2>1. IsSequence(s)
    BY <1>2
  <2>2. /\ IsSequence(s \o t) /\ Len(t) \in Nat /\ Len(s \o t) = Len(s) + Len(t)
        /\ \A i \in 1..Len(s) : (s \o t)[i] = s[i]
        /\ \A i \in 1..Len(t) : (s \o t)[Len(s) + i] = t[i]
    BY <2>1, Joining
  <2> QED
    BY <2>2, <1>a
<1>3. /\ IsSequence(w) /\ Len(t) \in Nat /\ Len(w) = 1 + Len(t)
      /\ w[1] = u[1]
      /\ \A i \in 1..Len(t) : w[1 + i] = t[i]
  BY <1>2, <1>b
<1>4. ASSUME NEW i \in 1..Len(w) PROVE w[i] = u[i]
  <2>1. CASE i = 1
    BY <2>1, <1>3
  <2>2. CASE i # 1
    <3>1. i - 1 \in 1..Len(t) /\ i = 1 + (i - 1) /\ i = (i - 1) + 1
      BY <2>2, <1>3
    <3>2. w[1 + (i - 1)] = t[i - 1] /\ u[(i - 1) + 1] = t[i - 1]
      BY <3>1, <1>3
    <3> QED
      BY <3>1, <3>2
  <2> QED
    BY <2>1, <2>2
<1>5. w = u
  <2>1. Len(w) = Len(u)
    BY <1>3
  <2> QED
    BY <2>1, <1>3, <1>4, Extension
<1> QED
  BY <1>1, <1>5, <1>a

(* Calls one after another.                                                *)
LEMMA RunsPrepended ==
  ASSUME NEW n \in Nat, NEW u, IsSequence(u), IsCall(u[1]), Takes(u[1]) <= n, n + Gives(u[1]) \in Nat,
         NEW t, NEW m, Runs(t, n + Gives(u[1]), m), Len(u) = Len(t) + 1, \A i \in 1..Len(t) : u[i + 1] = t[i]
  PROVE  Runs(u, n, m)
<1>1. IsSequence(t)
  BY DEF Runs
<1>2. PICK s : s = <<u[1]>> /\ s \o t = u
  BY <1>1, Prepended
<1>3. Runs(s, n, n + Gives(u[1]))
  BY <1>2, RunsOne
<1> QED
  BY <1>2, <1>3, RunsJoined

LEMMA RunsTwo ==
  ASSUME NEW n \in Nat, NEW a, IsCall(a), Takes(a) <= n,
         NEW b, IsCall(b), Takes(b) <= n + Gives(a),
         NEW m \in Nat, m = n + Gives(a) + Gives(b)
  PROVE  Runs(<<a, b>>, n, m)
<1>1. n + Gives(a) \in Nat
  BY Numbers
<1>3. m = (n + Gives(a)) + Gives(b)
  BY <1>1, Numbers
<1>4. Runs(<<b>>, n + Gives(a), m)
  BY <1>1, <1>3, RunsOne
<1>5. PICK u, t : u = <<a, b>> /\ t = <<b>>
  OBVIOUS
<1>6. /\ IsSequence(u) /\ u[1] = a /\ Len(u) = Len(t) + 1
      /\ \A i \in 1..Len(t) : u[i + 1] = t[i]
  <2>1. u \in Seq({a, b})
    BY <1>5
  <2>2. u[1] = a /\ Len(u) = Len(t) + 1 /\ \A i \in 1..Len(t) : u[i + 1] = t[i]
    BY <1>5
  <2> QED
    BY <2>1, <2>2, OwnElements DEF IsSequence
<1> QED
  BY <1>1, <1>4, <1>5, <1>6, RunsPrepended

LEMMA RunsThree ==
  ASSUME NEW n \in Nat, NEW a, IsCall(a), Takes(a) <= n,
         NEW b, IsCall(b), Takes(b) <= n + Gives(a),
         NEW c, IsCall(c), Takes(c) <= n + Gives(a) + Gives(b),
         NEW m \in Nat, m = n + Gives(a) + Gives(b) + Gives(c)
  PROVE  Runs(<<a, b, c>>, n, m)
<1>1. n + Gives(a) \in Nat
  BY Numbers
<1>4. Runs(<<b, c>>, n + Gives(a), m)
  BY <1>1, RunsTwo
<1>5. PICK u, t : u = <<a, b, c>> /\ t = <<b, c>>
  OBVIOUS
<1>6. /\ IsSequence(u) /\ u[1] = a /\ Len(u) = Len(t) + 1
      /\ \A i \in 1..Len(t) : u[i + 1] = t[i]
  <2>1. u \in Seq({a, b, c})
    BY <1>5
  <2>2. u[1] = a /\ Len(u) = Len(t) + 1 /\ \A i \in 1..Len(t) : u[i + 1] = t[i]
    BY <1>5
  <2> QED
    BY <2>1, <2>2, OwnElements DEF IsSequence
<1> QED
  BY ZenonT(30), <1>1, <1>4, <1>5, <1>6, RunsPrepended

LEMMA RunsFour ==
  ASSUME NEW n \in Nat, NEW a, IsCall(a), Takes(a) <= n,
         NEW b, IsCall(b), Takes(b) <= n + Gives(a),
         NEW c, IsCall(c), Takes(c) <= n + Gives(a) + Gives(b),
         NEW d, IsCall(d), Takes(d) <= n + Gives(a) + Gives(b) + Gives(c),
         NEW m \in Nat, m = n + Gives(a) + Gives(b) + Gives(c) + Gives(d)
  PROVE  Runs(<<a, b, c, d>>, n, m)
<1>1. n + Gives(a) \in Nat
  BY Numbers
<1>4. Runs(<<b, c, d>>, n + Gives(a), m)
  BY <1>1, RunsThree
<1>5. PICK u, t : u = <<a, b, c, d>> /\ t = <<b, c, d>>
  OBVIOUS
<1>6. /\ IsSequence(u) /\ u[1] = a /\ Len(u) = Len(t) + 1
      /\ \A i \in 1..Len(t) : u[i + 1] = t[i]
  <2>1. u \in Seq({a, b, c, d})
    BY <1>5
  <2>2. u[1] = a /\ Len(u) = Len(t) + 1 /\ \A i \in 1..Len(t) : u[i + 1] = t[i]
    BY <1>5
  <2> QED
    BY <2>1, <2>2, OwnElements DEF IsSequence
<1> QED
  BY ZenonT(30), <1>1, <1>4, <1>5, <1>6, RunsPrepended

LEMMA RunsFive ==
  ASSUME NEW n \in Nat, NEW a, IsCall(a), Takes(a) <= n,
         NEW b, IsCall(b), Takes(b) <= n + Gives(a),
         NEW c, IsCall(c), Takes(c) <= n + Gives(a) + Gives(b),
         NEW d, IsCall(d), Takes(d) <= n + Gives(a) + Gives(b) + Gives(c),
         NEW e, IsCall(e), Takes(e) <= n + Gives(a) + Gives(b) + Gives(c) + Gives(d),
         NEW m \in Nat, m = n + Gives(a) + Gives(b) + Gives(c) + Gives(d) + Gives(e)
  PROVE  Runs(<<a, b, c, d, e>>, n, m)
<1>1. n + Gives(a) \in Nat
  BY Numbers
<1>4. Runs(<<b, c, d, e>>, n + Gives(a), m)
  BY <1>1, RunsFour
<1>5. PICK u, t : u = <<a, b, c, d, e>> /\ t = <<b, c, d, e>>
  OBVIOUS
<1>6. /\ IsSequence(u) /\ u[1] = a /\ Len(u) = Len(t) + 1
      /\ \A i \in 1..Len(t) : u[i + 1] = t[i]
  <2>1. u \in Seq({a, b, c, d, e})
    BY <1>5
  <2>2. u[1] = a /\ Len(u) = Len(t) + 1 /\ \A i \in 1..Len(t) : u[i + 1] = t[i]
    BY <1>5
  <2> QED
    BY <2>1, <2>2, OwnElements DEF IsSequence
<1> QED
  BY ZenonT(30), <1>1, <1>4, <1>5, <1>6, RunsPrepended

-------------------------------------------------------------------------------
(* A parser at work: between declarations, at a `use`, or in a declaration *)
(* whose calls leave what it is made of.                                   *)
Parsing(calls, values, inTemplate) ==
  /\ IsSequence(values)
  /\ \/ calls \in {<<<<"program">>>>, <<<<"use">>, <<"program">>>>} /\ values = <<>> /\ ~inTemplate
     \/ \E inner, end :
          /\ calls = inner \o <<end, <<"program">>>> /\ end[1] = "declare"
          /\ Runs(inner, Len(values), Takes(end))

EndsInEof ==
  /\ IsSequence(items) /\ items # <<>>
  /\ \A i \in 1..Len(items) : items[i].kind = "Eof" <=> i = Len(items)

AtWork ==
  /\ outcome = "running" /\ lexed /\ errors = <<>>
  /\ EndsInEof /\ pos \in 1..Len(items)
  /\ Parsing(todo, built, scope.open)

(* What a step of the parser does: it refuses the text, or goes on.        *)
GoesOn ==
  /\ pos' \in pos..Len(items)
  /\ outcome' = outcome
  /\ Parsing(todo', built', scope'.open)

Steps == GoesOn \/ \E error : error \notin {"running", "ok"} /\ Refuse(error)

Inner == AtWork /\ Goal[1] \notin {"program", "use", "declare"}

LEMMA InnerCall ==
  ASSUME Inner
  PROVE  /\ IsCall(Goal) /\ Takes(Goal) <= Len(built) /\ Len(built) \in Nat /\ Len(built) + Gives(Goal) \in Nat
         /\ IsSequence(built)
         /\ \A goals, values : IsSequence(values) /\ Runs(goals, Len(values), Len(built) + Gives(Goal)) =>
              \A open : Parsing(goals \o Tail(todo), values, open)
         /\ \A values : IsSequence(values) /\ Len(values) = Len(built) + Gives(Goal) =>
              \A open : Parsing(Tail(todo), values, open)
<1>0. todo \notin {<<<<"program">>>>, <<<<"use">>, <<"program">>>>}
  BY DEF Inner, Goal
<1>1. PICK inner, end : /\ todo = inner \o <<end, <<"program">>>> /\ end[1] = "declare"
                        /\ Runs(inner, Len(built), Takes(end))
  BY <1>0 DEF Inner, AtWork, Parsing
<1>a. PICK outer : outer = <<end, <<"program">>>>
  OBVIOUS
<1>2. IsSequence(built) /\ Len(built) \in Nat /\ Takes(end) \in Nat /\ IsSequence(inner)
  BY <1>1, Numbers, LenProperties DEF Inner, AtWork, Parsing, IsSequence, Runs
<1>3. IsSequence(outer)
  BY <1>a, OwnPair DEF IsSequence
<1>4. inner # <<>>
  <2> SUFFICES ASSUME inner = <<>> PROVE FALSE
    OBVIOUS
  <2>1. todo[1] = end
    BY <1>1
  <2> QED
    BY <2>1, <1>1 DEF Inner, Goal
<1>5. todo[1] = inner[1] /\ Tail(todo) = Tail(inner) \o outer /\ IsSequence(Tail(inner))
  BY <1>1, <1>a, <1>2, <1>3, <1>4, TailBefore
<1>6. /\ IsCall(Goal) /\ Takes(Goal) <= Len(built) /\ Len(built) + Gives(Goal) \in Nat
      /\ Runs(Tail(inner), Len(built) + Gives(Goal), Takes(end))
  BY <1>1, <1>2, <1>4, <1>5, RunsFirst DEF Goal
<1>7. ASSUME NEW goals, NEW values, IsSequence(values), Runs(goals, Len(values), Len(built) + Gives(Goal)), NEW open
      PROVE  Parsing(goals \o Tail(todo), values, open)
  <2>0. IsSequence(goals)
    BY <1>7 DEF Runs
  <2>1. Runs(goals \o Tail(inner), Len(values), Takes(end))
    BY <1>6, <1>7, RunsJoined
  <2>2. goals \o Tail(todo) = (goals \o Tail(inner)) \o outer
    <3>1. PICK rest : rest = Tail(inner)
      OBVIOUS
    <3>2. IsSequence(rest) /\ Tail(todo) = rest \o outer
      BY <3>1, <1>5
    <3>3. (goals \o rest) \o outer = goals \o (rest \o outer)
      BY <3>2, <2>0, <1>3, Rejoining
    <3> QED
      BY <3>1, <3>2, <3>3
  <2> QED
    BY <2>1, <2>2, <1>1, <1>a, <1>7 DEF Parsing
<1>8. ASSUME NEW values, IsSequence(values), Len(values) = Len(built) + Gives(Goal), NEW open
      PROVE  Parsing(Tail(todo), values, open)
  BY <1>1, <1>a, <1>5, <1>6, <1>8 DEF Parsing
<1> QED
  BY <1>2, <1>6, <1>7, <1>8

(* The ways a call takes its step.                                         *)
LEMMA ByContinue ==
  ASSUME Inner, NEW n \in Nat, pos + n <= Len(items), NEW values, IsSequence(values), NEW goals,
         Runs(goals, Len(built) + Len(values), Len(built) + Gives(Goal)), Continue(n, values, goals)
  PROVE  Steps
<1>1. IsSequence(built \o values) /\ Len(built \o values) = Len(built) + Len(values)
  BY InnerCall, Joining
<1>2. /\ pos' = pos + n /\ built' = built \o values /\ todo' = goals \o Tail(todo)
      /\ outcome' = outcome
  BY DEF Continue
<1>3. Runs(goals, Len(built \o values), Len(built) + Gives(Goal))
  BY <1>1
<1>4. \A open : Parsing(goals \o Tail(todo), built \o values, open)
  BY <1>1, <1>3, InnerCall
<1>5. pos' \in pos..Len(items)
  <2>1. pos \in Int /\ Len(items) \in Int
    BY LenProperties DEF Inner, AtWork, EndsInEof, IsSequence
  <2> QED
    BY <2>1, <1>2
<1> QED
  BY <1>2, <1>4, <1>5 DEF Steps, GoesOn

LEMMA ByReplace ==
  ASSUME Inner, NEW n \in Nat, pos + n <= Len(items), NEW k \in 0..Takes(Goal), Gives(Goal) = 1 - k,
         NEW value, Replace(n, k, value)
  PROVE  Steps
<1>1. PICK values : values = Append(SubSeq(built, 1, Len(built) - k), value)
  OBVIOUS
<1>2. k \in Nat /\ k <= Len(built) /\ Len(built) \in Nat
  BY InnerCall, Numbers
<1>3. IsSequence(values) /\ Len(values) = Len(built) - k + 1
  BY <1>1, <1>2, InnerCall, Cutting
<1>4. Len(values) = Len(built) + Gives(Goal) /\ Len(values) \in Nat
  BY <1>2, <1>3
<1>6. \A open : Parsing(Tail(todo), values, open)
  BY <1>3, <1>4, InnerCall
<1>8. pos' \in pos..Len(items)
  <2>1. pos \in Int /\ Len(items) \in Int
    BY LenProperties DEF Inner, AtWork, EndsInEof, IsSequence
  <2>2. pos' = pos + n
    BY DEF Replace
  <2> QED
    BY <2>1, <2>2
<1> QED
  BY <1>1, <1>6, <1>8 DEF Steps, GoesOn, Replace

LEMMA ByRefusal ==
  ASSUME NEW error, error \notin {"running", "ok"}, Refuse(error)
  PROVE  Steps
BY DEF Steps

(* A token that is not the last is followed by another.                    *)
LEMMA Ahead ==
  ASSUME EndsInEof, NEW i \in Nat \ {0}, Token(i).kind # "Eof"
  PROVE  i + 1 <= Len(items)
<1>1. Len(items) \in Nat \ {0}
  BY EmptySeq, LenProperties DEF EndsInEof, IsSequence
<1>2. items[Len(items)].kind = "Eof"
  BY <1>1 DEF EndsInEof
<1>3. i < Len(items)
  BY <1>1, <1>2 DEF Token
<1> QED
  BY <1>1, <1>3

(* What each call costs.                                                   *)
LEMMA Costs ==
  ASSUME NEW g
  PROVE  /\ g[1] \in {"literal", "reference", "list", "scalarOrList", "dependency", "invocation", "map", "entry", "raw",
                      "body", "nested", "params"} => Takes(g) = 0 /\ Gives(g) = 1
         /\ g[1] = "param" => Takes(g) = 1 /\ Gives(g) = 1
         /\ g[1] \in {"access", "no access", "first", "more", "rest", "condition", "entries", "read only", "raw map",
                      "fields", "statement", "secondary", "scope"} => Takes(g) = 1 /\ Gives(g) = 0
         /\ g[1] \in {"separated", "separator"} => Takes(g) = 0 /\ Gives(g) = 0
         /\ g[1] \in {"add", "pair", "raw pair", "insert"} => Takes(g) = 2 /\ Gives(g) = 0 - 1
         /\ IsItem(g) => IsCall(g) /\ Gives(g) = 1 /\ Takes(g) <= 1
         /\ g[1] \in {"literal", "reference", "scalarOrList", "dependency", "invocation", "raw", "params", "param",
                      "access", "no access", "condition", "read only", "raw map", "scope", "separated",
                      "add", "pair", "raw pair", "insert"} => IsCall(g)
<1>1. g[1] \in {"literal", "reference", "list", "scalarOrList", "dependency", "invocation", "map", "entry", "raw",
                "body", "nested", "params"} => Takes(g) = 0 /\ Gives(g) = 1
  BY DEF Takes, Gives
<1>2. g[1] = "param" => Takes(g) = 1 /\ Gives(g) = 1
  BY DEF Takes, Gives
<1>3. g[1] \in {"access", "no access", "first", "more", "rest", "condition", "entries", "read only", "raw map",
                "fields", "statement", "secondary", "scope"} => Takes(g) = 1 /\ Gives(g) = 0
  BY DEF Takes, Gives
<1>4. g[1] \in {"separated", "separator"} => Takes(g) = 0 /\ Gives(g) = 0
  BY DEF Takes, Gives
<1>5. g[1] \in {"add", "pair", "raw pair", "insert"} => Takes(g) = 2 /\ Gives(g) = 0 - 1
  BY DEF Takes, Gives
<1>6. IsItem(g) => IsCall(g) /\ Gives(g) = 1 /\ Takes(g) <= 1
  BY <1>1, <1>2 DEF IsItem, IsCall
<1>7. g[1] \in {"literal", "reference", "scalarOrList", "dependency", "invocation", "raw", "params", "param",
                "access", "no access", "condition", "read only", "raw map", "scope", "separated",
                "add", "pair", "raw pair", "insert"} => IsCall(g)
  BY DEF IsCall
<1> QED
  BY <1>1, <1>2, <1>3, <1>4, <1>5, <1>6, <1>7

LEMMA Values ==
  ASSUME NEW v, NEW w
  PROVE  /\ IsSequence(<<>>) /\ Len(<<>>) = 0
         /\ IsSequence(<<v>>) /\ Len(<<v>>) = 1
         /\ IsSequence(<<v, w>>) /\ Len(<<v, w>>) = 2
<1>1. IsSequence(<<>>)
  BY DEF IsSequence, ToSet
<1> QED
  BY <1>1, OwnSingle, OwnPair DEF IsSequence

LEMMA InnerSizes ==
  ASSUME Inner
  PROVE  /\ Len(built) \in Nat /\ Takes(Goal) \in Nat /\ Takes(Goal) <= Len(built)
         /\ Gives(Goal) \in Int /\ Len(built) + Gives(Goal) \in Nat
<1>1. Len(built) \in Nat /\ Takes(Goal) <= Len(built) /\ Len(built) + Gives(Goal) \in Nat
  BY InnerCall
<1> QED
  BY <1>1, Numbers

LEMMA SizeOf == \A s : IsSequence(s) => Len(s) \in Nat
BY LenProperties DEF IsSequence

LEMMA Amounts == \A goal : Takes(goal) \in Nat /\ Gives(goal) \in Int
BY Numbers

(* A call that makes none, one, two calls or more, and what they must cost *)
(* together.                                                               *)
LEMMA Go0 ==
  ASSUME Inner, NEW n \in Nat, pos + n <= Len(items), NEW values, IsSequence(values),
         Gives(Goal) = Len(values), Continue(n, values, <<>>)
  PROVE  Steps
<1>1. Len(values) \in Nat /\ Len(built) \in Nat
  BY InnerSizes, SizeOf
<1>2. Runs(<<>>, Len(built) + Len(values), Len(built) + Gives(Goal))
  BY <1>1, RunsNone
<1> QED
  BY <1>2, ByContinue

LEMMA Go1 ==
  ASSUME Inner, NEW n \in Nat, pos + n <= Len(items), NEW values, IsSequence(values),
         NEW a, IsCall(a), Takes(a) <= Takes(Goal) + Len(values),
         Gives(Goal) = Len(values) + Gives(a), Continue(n, values, <<a>>)
  PROVE  Steps
<1>a. Len(built) + Gives(Goal) \in Nat
  BY InnerSizes
<1>1. /\ Len(values) \in Nat /\ Len(built) \in Nat /\ Takes(Goal) <= Len(built)
      /\ Takes(Goal) \in Nat /\ Takes(a) \in Nat /\ Gives(a) \in Int
  BY InnerSizes, Amounts, SizeOf
<1>2. PICK k : k = Len(built) + Len(values)
  OBVIOUS
<1>3. k \in Nat /\ Takes(a) <= k /\ Len(built) + Gives(Goal) = k + Gives(a) /\ k + Gives(a) \in Nat
  BY <1>1, <1>2, <1>a
<1>4. Runs(<<a>>, k, Len(built) + Gives(Goal))
  BY <1>3, RunsOne
<1> QED
  BY <1>2, <1>4, ByContinue

LEMMA Go2 ==
  ASSUME Inner, NEW n \in Nat, pos + n <= Len(items), NEW values, IsSequence(values),
         NEW a, IsCall(a), Takes(a) <= Takes(Goal) + Len(values),
         NEW b, IsCall(b), Takes(b) <= Takes(Goal) + Len(values) + Gives(a),
         Gives(Goal) = Len(values) + Gives(a) + Gives(b),
         Continue(n, values, <<a, b>>)
  PROVE  Steps
<1>1. PICK L \in Nat, V \in Nat, T \in Nat, G \in Int :
        L = Len(built) /\ V = Len(values) /\ T = Takes(Goal) /\ G = Gives(Goal) /\ T <= L /\ L + G \in Nat
  BY InnerSizes, SizeOf
<1>a. PICK ta \in Nat, ga \in Int : ta = Takes(a) /\ ga = Gives(a)
  BY Amounts
<1>b. PICK tb \in Nat, gb \in Int : tb = Takes(b) /\ gb = Gives(b)
  BY Amounts
<1>2. /\ ta <= T + V /\ tb <= T + V + ga /\ G = V + ga + gb
  BY <1>1, <1>a, <1>b
<1>3. PICK k \in Nat : k = L + V
  OBVIOUS
<1>4. /\ ta <= k /\ tb <= k + ga
      /\ L + G = k + ga + gb /\ L + G \in Nat
  <2>1. L + G \in Nat /\ T <= L /\ L \in Nat /\ V \in Nat /\ T \in Nat /\ G \in Int
    BY <1>1
  <2>2. ta \in Nat /\ ga \in Int /\ tb \in Nat /\ gb \in Int
    BY <1>a, <1>b
  <2>3. k \in Nat /\ k = L + V
    BY <1>3
  <2>4. ta <= k
    BY <1>2, <2>1, <2>2, <2>3
  <2>5. tb <= k + ga
    BY <1>2, <2>1, <2>2, <2>3
  <2>6. L + G = k + ga + gb
    BY <1>2, <2>1, <2>2, <2>3
  <2> QED
    BY <2>1, <2>4, <2>5, <2>6
<1>5. Runs(<<a, b>>, k, L + G)
  BY <1>4, <1>a, <1>b, RunsTwo
<1> QED
  BY <1>1, <1>3, <1>5, ByContinue

LEMMA Go3 ==
  ASSUME Inner, NEW n \in Nat, pos + n <= Len(items), NEW values, IsSequence(values),
         NEW a, IsCall(a), Takes(a) <= Takes(Goal) + Len(values),
         NEW b, IsCall(b), Takes(b) <= Takes(Goal) + Len(values) + Gives(a),
         NEW c, IsCall(c), Takes(c) <= Takes(Goal) + Len(values) + Gives(a) + Gives(b),
         Gives(Goal) = Len(values) + Gives(a) + Gives(b) + Gives(c),
         Continue(n, values, <<a, b, c>>)
  PROVE  Steps
<1>1. PICK L \in Nat, V \in Nat, T \in Nat, G \in Int :
        L = Len(built) /\ V = Len(values) /\ T = Takes(Goal) /\ G = Gives(Goal) /\ T <= L /\ L + G \in Nat
  BY InnerSizes, SizeOf
<1>a. PICK ta \in Nat, ga \in Int : ta = Takes(a) /\ ga = Gives(a)
  BY Amounts
<1>b. PICK tb \in Nat, gb \in Int : tb = Takes(b) /\ gb = Gives(b)
  BY Amounts
<1>c. PICK tc \in Nat, gc \in Int : tc = Takes(c) /\ gc = Gives(c)
  BY Amounts
<1>2. /\ ta <= T + V /\ tb <= T + V + ga /\ tc <= T + V + ga + gb /\ G = V + ga + gb + gc
  BY <1>1, <1>a, <1>b, <1>c
<1>3. PICK k \in Nat : k = L + V
  OBVIOUS
<1>4. /\ ta <= k /\ tb <= k + ga /\ tc <= k + ga + gb
      /\ L + G = k + ga + gb + gc /\ L + G \in Nat
  <2>1. L + G \in Nat /\ T <= L /\ L \in Nat /\ V \in Nat /\ T \in Nat /\ G \in Int
    BY <1>1
  <2>2. ta \in Nat /\ ga \in Int /\ tb \in Nat /\ gb \in Int /\ tc \in Nat /\ gc \in Int
    BY <1>a, <1>b, <1>c
  <2>3. k \in Nat /\ k = L + V
    BY <1>3
  <2>4. ta <= k
    BY <1>2, <2>1, <2>2, <2>3
  <2>5. tb <= k + ga
    BY <1>2, <2>1, <2>2, <2>3
  <2>6. tc <= k + ga + gb
    BY <1>2, <2>1, <2>2, <2>3
  <2>7. L + G = k + ga + gb + gc
    BY <1>2, <2>1, <2>2, <2>3
  <2> QED
    BY <2>1, <2>4, <2>5, <2>6, <2>7
<1>5. Runs(<<a, b, c>>, k, L + G)
  BY <1>4, <1>a, <1>b, <1>c, RunsThree
<1> QED
  BY <1>1, <1>3, <1>5, ByContinue

LEMMA Go4 ==
  ASSUME Inner, NEW n \in Nat, pos + n <= Len(items), NEW values, IsSequence(values),
         NEW a, IsCall(a), Takes(a) <= Takes(Goal) + Len(values),
         NEW b, IsCall(b), Takes(b) <= Takes(Goal) + Len(values) + Gives(a),
         NEW c, IsCall(c), Takes(c) <= Takes(Goal) + Len(values) + Gives(a) + Gives(b),
         NEW d, IsCall(d), Takes(d) <= Takes(Goal) + Len(values) + Gives(a) + Gives(b) + Gives(c),
         Gives(Goal) = Len(values) + Gives(a) + Gives(b) + Gives(c) + Gives(d),
         Continue(n, values, <<a, b, c, d>>)
  PROVE  Steps
<1>1. PICK L \in Nat, V \in Nat, T \in Nat, G \in Int :
        L = Len(built) /\ V = Len(values) /\ T = Takes(Goal) /\ G = Gives(Goal) /\ T <= L /\ L + G \in Nat
  BY InnerSizes, SizeOf
<1>a. PICK ta \in Nat, ga \in Int : ta = Takes(a) /\ ga = Gives(a)
  BY Amounts
<1>b. PICK tb \in Nat, gb \in Int : tb = Takes(b) /\ gb = Gives(b)
  BY Amounts
<1>c. PICK tc \in Nat, gc \in Int : tc = Takes(c) /\ gc = Gives(c)
  BY Amounts
<1>d. PICK td \in Nat, gd \in Int : td = Takes(d) /\ gd = Gives(d)
  BY Amounts
<1>2. /\ ta <= T + V /\ tb <= T + V + ga /\ tc <= T + V + ga + gb
      /\ td <= T + V + ga + gb + gc /\ G = V + ga + gb + gc + gd
  BY <1>1, <1>a, <1>b, <1>c, <1>d
<1>3. PICK k \in Nat : k = L + V
  OBVIOUS
<1>4. /\ ta <= k /\ tb <= k + ga /\ tc <= k + ga + gb
      /\ td <= k + ga + gb + gc
      /\ L + G = k + ga + gb + gc + gd /\ L + G \in Nat
  <2>1. L + G \in Nat /\ T <= L /\ L \in Nat /\ V \in Nat /\ T \in Nat /\ G \in Int
    BY <1>1
  <2>2. ta \in Nat /\ ga \in Int /\ tb \in Nat /\ gb \in Int /\ tc \in Nat /\ gc \in Int /\ td \in Nat /\ gd \in Int
    BY <1>a, <1>b, <1>c, <1>d
  <2>3. k \in Nat /\ k = L + V
    BY <1>3
  <2>4. ta <= k
    BY <1>2, <2>1, <2>2, <2>3
  <2>5. tb <= k + ga
    BY <1>2, <2>1, <2>2, <2>3
  <2>6. tc <= k + ga + gb
    BY <1>2, <2>1, <2>2, <2>3
  <2>7. td <= k + ga + gb + gc
    BY <1>2, <2>1, <2>2, <2>3
  <2>8. L + G = k + ga + gb + gc + gd
    BY <1>2, <2>1, <2>2, <2>3
  <2> QED
    BY <2>1, <2>4, <2>5, <2>6, <2>7, <2>8
<1>5. Runs(<<a, b, c, d>>, k, L + G)
  BY <1>4, <1>a, <1>b, <1>c, <1>d, RunsFour
<1> QED
  BY <1>1, <1>3, <1>5, ByContinue

LEMMA Go5 ==
  ASSUME Inner, NEW n \in Nat, pos + n <= Len(items), NEW values, IsSequence(values),
         NEW a, IsCall(a), Takes(a) <= Takes(Goal) + Len(values),
         NEW b, IsCall(b), Takes(b) <= Takes(Goal) + Len(values) + Gives(a),
         NEW c, IsCall(c), Takes(c) <= Takes(Goal) + Len(values) + Gives(a) + Gives(b),
         NEW d, IsCall(d), Takes(d) <= Takes(Goal) + Len(values) + Gives(a) + Gives(b) + Gives(c),
         NEW e, IsCall(e), Takes(e) <= Takes(Goal) + Len(values) + Gives(a) + Gives(b) + Gives(c) + Gives(d),
         Gives(Goal) = Len(values) + Gives(a) + Gives(b) + Gives(c) + Gives(d) + Gives(e),
         Continue(n, values, <<a, b, c, d, e>>)
  PROVE  Steps
<1>1. PICK L \in Nat, V \in Nat, T \in Nat, G \in Int :
        L = Len(built) /\ V = Len(values) /\ T = Takes(Goal) /\ G = Gives(Goal) /\ T <= L /\ L + G \in Nat
  BY InnerSizes, SizeOf
<1>a. PICK ta \in Nat, ga \in Int : ta = Takes(a) /\ ga = Gives(a)
  BY Amounts
<1>b. PICK tb \in Nat, gb \in Int : tb = Takes(b) /\ gb = Gives(b)
  BY Amounts
<1>c. PICK tc \in Nat, gc \in Int : tc = Takes(c) /\ gc = Gives(c)
  BY Amounts
<1>d. PICK td \in Nat, gd \in Int : td = Takes(d) /\ gd = Gives(d)
  BY Amounts
<1>e. PICK te \in Nat, ge \in Int : te = Takes(e) /\ ge = Gives(e)
  BY Amounts
<1>2. /\ ta <= T + V /\ tb <= T + V + ga /\ tc <= T + V + ga + gb
      /\ td <= T + V + ga + gb + gc /\ te <= T + V + ga + gb + gc + gd /\ G = V + ga + gb + gc + gd + ge
  BY <1>1, <1>a, <1>b, <1>c, <1>d, <1>e
<1>3. PICK k \in Nat : k = L + V
  OBVIOUS
<1>4. /\ ta <= k /\ tb <= k + ga /\ tc <= k + ga + gb
      /\ td <= k + ga + gb + gc /\ te <= k + ga + gb + gc + gd
      /\ L + G = k + ga + gb + gc + gd + ge /\ L + G \in Nat
  <2>1. L + G \in Nat /\ T <= L /\ L \in Nat /\ V \in Nat /\ T \in Nat /\ G \in Int
    BY <1>1
  <2>2. ta \in Nat /\ ga \in Int /\ tb \in Nat /\ gb \in Int /\ tc \in Nat /\ gc \in Int /\ td \in Nat /\ gd \in Int /\ te \in Nat /\ ge \in Int
    BY <1>a, <1>b, <1>c, <1>d, <1>e
  <2>3. k \in Nat /\ k = L + V
    BY <1>3
  <2>4. ta <= k
    BY <1>2, <2>1, <2>2, <2>3
  <2>5. tb <= k + ga
    BY <1>2, <2>1, <2>2, <2>3
  <2>6. tc <= k + ga + gb
    BY <1>2, <2>1, <2>2, <2>3
  <2>7. td <= k + ga + gb + gc
    BY <1>2, <2>1, <2>2, <2>3
  <2>8. te <= k + ga + gb + gc + gd
    BY <1>2, <2>1, <2>2, <2>3
  <2>9. L + G = k + ga + gb + gc + gd + ge
    BY <1>2, <2>1, <2>2, <2>3
  <2> QED
    BY <2>1, <2>4, <2>5, <2>6, <2>7, <2>8, <2>9
<1>5. Runs(<<a, b, c, d, e>>, k, L + G)
  BY <1>4, <1>a, <1>b, <1>c, <1>d, <1>e, RunsFive
<1> QED
  BY <1>1, <1>3, <1>5, ByContinue

-------------------------------------------------------------------------------
(* Every call of the parser.                                               *)
LEMMA AtCall ==
  ASSUME AtWork, NEW g, g \notin {"program", "use", "declare"}, At(g)
  PROVE  Inner /\ Goal[1] = g
BY DEF At, Inner, Goal

LEMMA Looking ==
  ASSUME AtWork
  PROVE  /\ pos + 0 <= Len(items)
         /\ Peek.kind # "Eof" => pos + 1 <= Len(items)
         /\ Next2.kind # "Eof" => pos + 2 <= Len(items)
         /\ Token(pos + 2).kind # "Eof" => pos + 3 <= Len(items)
         /\ Token(pos + 3).kind # "Eof" => pos + 4 <= Len(items)
         /\ Token(pos + 4).kind # "Eof" => pos + 5 <= Len(items)
<1>1. pos \in Nat \ {0} /\ Len(items) \in Nat /\ pos <= Len(items)
  BY LenProperties DEF AtWork, EndsInEof, IsSequence
<1>2. ASSUME NEW k \in 0..4, Token(pos + k).kind # "Eof" PROVE pos + (k + 1) <= Len(items)
  <2>1. pos + k \in Nat \ {0}
    BY <1>1
  <2>2. (pos + k) + 1 <= Len(items)
    BY <2>1, <1>2, Ahead DEF AtWork
  <2> QED
    BY <1>1, <2>2
<1>3. Peek.kind # "Eof" => pos + 1 <= Len(items)
  BY <1>1, Ahead DEF AtWork, Peek
<1>4. Next2.kind # "Eof" => pos + 2 <= Len(items)
  <2>1. ASSUME Token(pos + 1).kind # "Eof" PROVE pos + (1 + 1) <= Len(items)
    BY <2>1, <1>2
  <2> QED
    BY <2>1 DEF Next2
<1>5. Token(pos + 2).kind # "Eof" => pos + 3 <= Len(items)
  <2>1. ASSUME Token(pos + 2).kind # "Eof" PROVE pos + (2 + 1) <= Len(items)
    BY <2>1, <1>2
  <2> QED
    BY <2>1
<1>6. Token(pos + 3).kind # "Eof" => pos + 4 <= Len(items)
  <2>1. ASSUME Token(pos + 3).kind # "Eof" PROVE pos + (3 + 1) <= Len(items)
    BY <2>1, <1>2
  <2> QED
    BY <2>1
<1>7. Token(pos + 4).kind # "Eof" => pos + 5 <= Len(items)
  <2>1. ASSUME Token(pos + 4).kind # "Eof" PROVE pos + (4 + 1) <= Len(items)
    BY <2>1, <1>2
  <2> QED
    BY <2>1
<1> QED
  BY <1>1, <1>3, <1>4, <1>5, <1>6, <1>7

LEMMA ParamTaken ==
  ASSUME Inner, Takes(Goal) = 0, Gives(Goal) = 1, pos + 2 <= Len(items), NEW v, NEW after,
         IsCall(after), Takes(after) = 1, Gives(after) = 0, Continue(2, <<v>>, <<after>>)
  PROVE  Steps
<1>1. PICK values : values = <<v>>
  OBVIOUS
<1>2. IsSequence(values) /\ Len(values) = 1 /\ Continue(2, values, <<after>>)
  BY <1>1, Values
<1>3. Takes(after) <= Takes(Goal) + Len(values)
  BY <1>2
<1>4. Gives(Goal) = Len(values) + Gives(after)
  BY <1>2
<1> QED
  BY <1>2, <1>3, <1>4, Go1

LEMMA ParamErrors == ParamError \notin {"running", "ok"}
BY DEF ParamError

LEMMA LiteralSteps ==
  ASSUME AtWork, ParseLiteral
  PROVE  Steps
<1>1. Inner /\ Goal[1] = "literal"
  BY AtCall DEF ParseLiteral
<1>2. Gives(Goal) = 1 /\ Takes(Goal) = 0
  BY <1>1, Costs
<1>3. CASE Is("Str") /\ Continue(1, <<Key(Peek)>>, <<>>)
  <2>1. pos + 1 <= Len(items)
    BY <1>3, Looking DEF Is
  <2> QED
    BY <1>1, <1>2, <1>3, <2>1, Values, Go0
<1>4. CASE Is("Ident") /\ Continue(1, <<Key(Peek)>>, <<<<"access">>>>)
  <2>1. pos + 1 <= Len(items)
    BY <1>4, Looking DEF Is
  <2>2. IsCall(<<"access">>) /\ Takes(<<"access">>) = 1 /\ Gives(<<"access">>) = 0
    BY Costs
  <2>3. PICK values : values = <<Key(Peek)>>
    OBVIOUS
  <2>4. IsSequence(values) /\ Len(values) = 1 /\ Continue(1, values, <<<<"access">>>>)
    BY <1>4, <2>3, Values
  <2>5. Takes(<<"access">>) <= Takes(Goal) + Len(values) /\ Gives(Goal) = Len(values) + Gives(<<"access">>)
    BY <1>2, <2>2, <2>4
  <2> QED
    BY <1>1, <2>1, <2>2, <2>4, <2>5, Go1
<1>5. CASE Is("Number") /\ Continue(1, <<Lit("number", Peek.lexeme)>>, <<>>)
  <2>1. pos + 1 <= Len(items)
    BY <1>5, Looking DEF Is
  <2> QED
    BY <1>1, <1>2, <1>5, <2>1, Values, Go0
<1>6. CASE ParamReference(<<"access">>)
  <2>1. PICK after : after = <<"access">>
    OBVIOUS
  <2>2. after[1] = "access"
    BY <2>1
  <2>3. CASE ParamError # "none"
    <3>1. Refuse(ParamError)
      BY <1>6, <2>3 DEF ParamReference
    <3> QED
      BY <3>1, ParamErrors, ByRefusal
  <2>4. CASE ParamError = "none"
    <3>1. Continue(2, <<Lit("param", Next2.lexeme)>>, <<after>>)
      BY <1>6, <2>1, <2>4 DEF ParamReference
    <3>2. pos + 2 <= Len(items)
      BY <1>1, <2>4, Looking DEF ParamError, Inner
    <3>3. IsCall(after) /\ Takes(after) = 1 /\ Gives(after) = 0
      BY <2>2, Costs
    <3> QED
      BY <1>1, <1>2, <3>1, <3>2, <3>3, ParamTaken
  <2> QED
    BY <2>3, <2>4
<1>7. CASE Unexpected \/ Refuse("NumberOutOfRange")
  BY <1>7, ByRefusal DEF Unexpected
<1> QED
  BY <1>3, <1>4, <1>5, <1>6, <1>7 DEF ParseLiteral

LEMMA ReferenceSteps ==
  ASSUME AtWork, ParseReference
  PROVE  Steps
<1>1. Inner /\ Goal[1] = "reference"
  BY AtCall DEF ParseReference
<1>2. Takes(Goal) = 0 /\ Gives(Goal) = 1
  BY <1>1, Costs
<1>4. CASE ParamReference(<<"no access">>)
  <2>1. PICK after : after = <<"no access">>
    OBVIOUS
  <2>2. after[1] = "no access"
    BY <2>1
  <2>3. CASE ParamError # "none"
    <3>1. Refuse(ParamError)
      BY <1>4, <2>3 DEF ParamReference
    <3> QED
      BY <3>1, ParamErrors, ByRefusal
  <2>4. CASE ParamError = "none"
    <3>1. Continue(2, <<Lit("param", Next2.lexeme)>>, <<after>>)
      BY <1>4, <2>1, <2>4 DEF ParamReference
    <3>2. pos + 2 <= Len(items)
      BY <1>1, <2>4, Looking DEF ParamError, Inner
    <3>3. IsCall(after) /\ Takes(after) = 1 /\ Gives(after) = 0
      BY <2>2, Costs
    <3> QED
      BY <1>1, <1>2, <3>1, <3>2, <3>3, ParamTaken
  <2> QED
    BY <2>3, <2>4
<1>5. CASE /\ Token(pos + 2).kind = "Ident"
           /\ Continue(3, <<Qualified(Peek.lexeme, Token(pos + 2).lexeme)>>, <<<<"no access">>>>)
  <2>1. pos + 3 <= Len(items)
    BY <1>1, <1>5, Looking DEF Inner
  <2>2. PICK values : values = <<Qualified(Peek.lexeme, Token(pos + 2).lexeme)>>
    OBVIOUS
  <2>3. PICK a : a = <<"no access">>
    OBVIOUS
  <2>4. IsSequence(values) /\ Len(values) = 1 /\ Continue(3, values, <<a>>)
    BY <1>5, <2>2, <2>3, Values
  <2>5. IsCall(a) /\ Takes(a) = 1 /\ Gives(a) = 0
    BY <2>3, Costs
  <2>6. Takes(a) <= Takes(Goal) + Len(values)
    BY <1>2, <2>4, <2>5
  <2>7. Gives(Goal) = Len(values) + Gives(a)
    BY <1>2, <2>4, <2>5
  <2> QED
    BY <1>1, <2>1, <2>4, <2>5, <2>6, <2>7, Go1
<1>6. CASE Peek.kind \in KeyKinds /\ Continue(1, <<Key(Peek)>>, <<>>)
  <2>1. pos + 1 <= Len(items)
    BY <1>1, <1>6, Looking DEF Inner, KeyKinds
  <2>2. PICK values : values = <<Key(Peek)>>
    OBVIOUS
  <2>3. IsSequence(values) /\ Len(values) = 1 /\ Continue(1, values, <<>>)
    BY <1>6, <2>2, Values
  <2> QED
    BY <1>1, <1>2, <2>1, <2>3, Go0
<1>7. CASE Unexpected
  BY <1>7, ByRefusal DEF Unexpected
<1> QED
  BY <1>4, <1>5, <1>6, <1>7 DEF ParseReference

LEMMA RejectSteps ==
  ASSUME AtWork, RejectFieldAccess
  PROVE  Steps
<1>1. Inner /\ Goal[1] = "no access"
  BY AtCall DEF RejectFieldAccess
<1>2. Takes(Goal) = 1 /\ Gives(Goal) = 0
  BY <1>1, Costs
<1>4. CASE Continue(0, <<>>, <<>>)
  <2>1. pos + 0 <= Len(items)
    BY <1>1, Looking DEF Inner
  <2>2. PICK values : values = <<>>
    OBVIOUS
  <2>3. IsSequence(values) /\ Len(values) = 0 /\ Continue(0, values, <<>>)
    BY <1>4, <2>2, Values
  <2> QED
    BY <1>1, <1>2, <2>1, <2>3, Go0
<1>5. CASE Refuse(IF Dangling THEN "UnexpectedToken" ELSE "FieldAccessInReferencePosition")
  BY <1>5, ByRefusal
<1> QED
  BY <1>4, <1>5 DEF RejectFieldAccess

(* The segments are the first words, each after a dot.                     *)
LEMMA SegmentsTaken ==
  ASSUME AtWork
  PROVE  Segments \in Nat /\ 2 * Segments \in Nat /\ pos + 2 * Segments <= Len(items)
<1> DEFINE dotted(n) == Token(pos + 2 * n).kind = "." /\ Token(pos + 2 * n + 1).kind = "Ident"
           T == {k \in 1..(Len(items) + 1) : ~dotted(k - 1)}
<1>1. pos \in Nat \ {0} /\ Len(items) \in Nat \ {0} /\ pos <= Len(items)
  BY EmptySeq, LenProperties DEF AtWork, EndsInEof, IsSequence
<1>2. items[Len(items)].kind = "Eof"
  BY <1>1 DEF AtWork, EndsInEof
<1>3. ~dotted(Len(items))
  <2>1. pos + 2 * Len(items) \in Nat /\ ~(pos + 2 * Len(items) <= Len(items))
    BY <1>1
  <2>2. Token(pos + 2 * Len(items)) = items[Len(items)]
    BY <2>1 DEF Token
  <2> QED
    BY <2>2, <1>2
<1>4. Len(items) + 1 \in T
  <2>1. (Len(items) + 1) - 1 = Len(items) /\ Len(items) + 1 \in 1..(Len(items) + 1)
    BY <1>1
  <2> QED
    BY <2>1, <1>3
<1>5. Min(T) \in T /\ \A j \in T : Min(T) <= j
  <2>1. PICK N \in Nat : N = Len(items) + 1
    BY <1>1
  <2>2. T \in SUBSET (1..N) /\ T # {}
    BY <2>1, <1>4
  <2> HIDE DEF T
  <2> QED
    BY <2>2, LeastIndex
<1>6. PICK m \in 1..(Len(items) + 1) : m = Min(T)
  BY <1>5
<1>7. ~dotted(m - 1)
  BY <1>5, <1>6
<1>8. ASSUME NEW i \in 0..((m - 1) - 1) PROVE dotted(i)
  <2>1. i + 1 \in 1..(Len(items) + 1) /\ ~(m <= i + 1) /\ (i + 1) - 1 = i
    BY <1>1, <1>6
  <2>2. i + 1 \notin T
    BY <2>1, <1>5, <1>6
  <2> QED
    BY <2>1, <2>2
<1>9. m - 1 \in 0..Len(items)
  BY <1>1, <1>6
<1>10. \E n \in 0..Len(items) : (\A i \in 0..(n - 1) : dotted(i)) /\ ~dotted(n)
  BY <1>7, <1>8, <1>9
<1>11. Segments \in 0..Len(items) /\ \A i \in 0..(Segments - 1) : dotted(i)
  BY <1>10 DEF Segments
<1> HIDE DEF dotted
<1>12. PICK s \in 0..Len(items) : s = Segments
  BY <1>11
<1>13. s \in Nat /\ 2 * s \in Nat
  BY <1>12, <1>1
<1>14. CASE s = 0
  BY <1>1, <1>12, <1>13, <1>14
<1>15. CASE s # 0
  <2>1. s - 1 \in 0..(s - 1)
    BY <1>13, <1>15
  <2>2. dotted(s - 1)
    BY <2>1, <1>11, <1>12
  <2>3. pos + 2 * (s - 1) + 1 \in Nat \ {0} /\ (pos + 2 * (s - 1) + 1) + 1 = pos + 2 * s
    BY <1>1, <1>13, <1>15
  <2>4. Token(pos + 2 * (s - 1) + 1).kind # "Eof"
    BY <2>2 DEF dotted
  <2>5. (pos + 2 * (s - 1) + 1) + 1 <= Len(items)
    BY <2>3, <2>4, Ahead DEF AtWork
  <2> QED
    BY <2>3, <2>5, <1>12, <1>13
<1> QED
  BY <1>14, <1>15

LEMMA AccessSteps ==
  ASSUME AtWork, ParseFieldAccess
  PROVE  Steps
<1>1. Inner /\ Goal[1] = "access"
  BY AtCall DEF ParseFieldAccess
<1>2. Takes(Goal) = 1 /\ Gives(Goal) = 0
  BY <1>1, Costs
<1>3. ASSUME NEW value, Accessed(value) PROVE Steps
  <2>1. Replace(2 * Segments, 1, value)
    BY <1>3 DEF Accessed
  <2>2. 2 * Segments \in Nat /\ pos + 2 * Segments <= Len(items)
    BY <1>1, SegmentsTaken DEF Inner
  <2>3. PICK n \in Nat : n = 2 * Segments
    BY <2>2
  <2>4. 1 \in 0..Takes(Goal) /\ Gives(Goal) = 1 - 1
    BY <1>2
  <2> QED
    BY <1>1, <2>1, <2>2, <2>3, <2>4, ByReplace
<1>4. CASE Unexpected \/ Refuse("FieldAccessTooDeep")
  BY <1>4, ByRefusal DEF Unexpected
<1> QED
  BY <1>3, <1>4 DEF ParseFieldAccess

-------------------------------------------------------------------------------
(* Lists.                                                                  *)
LEMMA FirstSteps ==
  ASSUME AtWork, ParseFirst
  PROVE  Steps
<1>1. Inner /\ Goal[1] = "first"
  BY AtCall DEF ParseFirst
<1>2. Takes(Goal) = 1 /\ Gives(Goal) = 0
  BY <1>1, Costs
<1>3. Goal[3] \in {"]", ")"} /\ IsItem(Goal[2])
  BY <1>1, InnerCall DEF IsCall
<1>4. CASE Is(Goal[3]) /\ Continue(1, <<>>, <<>>)
  <2>1. pos + 1 <= Len(items)
    BY <1>1, <1>3, <1>4, Looking DEF Inner, Is
  <2>2. PICK values : values = <<>>
    OBVIOUS
  <2>3. IsSequence(values) /\ Len(values) = 0 /\ Continue(1, values, <<>>)
    BY <1>4, <2>2, Values
  <2> QED
    BY <1>1, <1>2, <2>1, <2>3, Go0
<1>5. CASE Continue(0, <<>>, <<Goal[2], <<"add">>, <<"more", Goal[2], Goal[3]>>>>)
  <2>1. pos + 0 <= Len(items)
    BY <1>1, Looking DEF Inner
  <2>2. PICK values : values = <<>>
    OBVIOUS
  <2>3. PICK a, b, c : a = Goal[2] /\ b = <<"add">> /\ c = <<"more", Goal[2], Goal[3]>>
    OBVIOUS
  <2>4. IsSequence(values) /\ Len(values) = 0 /\ Continue(0, values, <<a, b, c>>)
    BY <1>5, <2>2, <2>3, Values
  <2>5. IsCall(a) /\ Takes(a) <= 1 /\ Gives(a) = 1
    BY <1>3, <2>3, Costs
  <2>6. IsCall(b) /\ Takes(b) = 2 /\ Gives(b) = 0 - 1
    BY <2>3, Costs
  <2>7. IsCall(c) /\ Takes(c) = 1 /\ Gives(c) = 0
    <3>1. c[1] = "more"
      BY <1>1, <2>3
    <3> QED
      BY <1>3, <2>3, <3>1, Costs DEF IsCall
  <2>8. Takes(a) <= Takes(Goal) + Len(values)
    BY <1>2, <2>4, <2>5, <2>6, <2>7
  <2>9. Takes(b) <= Takes(Goal) + Len(values) + Gives(a)
    BY <1>2, <2>4, <2>5, <2>6, <2>7
  <2>10. Takes(c) <= Takes(Goal) + Len(values) + Gives(a) + Gives(b)
    BY <1>2, <2>4, <2>5, <2>6, <2>7
  <2>11. Gives(Goal) = Len(values) + Gives(a) + Gives(b) + Gives(c)
    BY <1>2, <2>4, <2>5, <2>6, <2>7
  <2> QED
    BY <1>1, <2>1, <2>4, <2>5, <2>6, <2>7, <2>8, <2>9, <2>10, <2>11, Go3
<1> QED
  BY <1>4, <1>5 DEF ParseFirst

LEMMA MoreSteps ==
  ASSUME AtWork, ParseMore
  PROVE  Steps
<1>1. Inner /\ Goal[1] = "more"
  BY AtCall DEF ParseMore
<1>2. Takes(Goal) = 1 /\ Gives(Goal) = 0
  BY <1>1, Costs
<1>3. Goal[3] \in {"]", ")"} /\ IsItem(Goal[2])
  BY <1>1, InnerCall DEF IsCall
<1>4. CASE Is(",") /\ Continue(1, <<>>, <<Goal[2], <<"add">>, Goal>>)
  <2>1. pos + 1 <= Len(items)
    BY <1>1, <1>4, Looking DEF Inner, Is
  <2>2. PICK values : values = <<>>
    OBVIOUS
  <2>3. PICK a, b, c : a = Goal[2] /\ b = <<"add">> /\ c = Goal
    OBVIOUS
  <2>4. IsSequence(values) /\ Len(values) = 0 /\ Continue(1, values, <<a, b, c>>)
    BY <1>4, <2>2, <2>3, Values
  <2>5. IsCall(a) /\ Takes(a) <= 1 /\ Gives(a) = 1
    BY <1>3, <2>3, Costs
  <2>6. IsCall(b) /\ Takes(b) = 2 /\ Gives(b) = 0 - 1
    BY <2>3, Costs
  <2>7. IsCall(c) /\ Takes(c) = 1 /\ Gives(c) = 0
    <3>1. c[1] = "more"
      BY <1>1, <2>3
    <3> QED
      BY <1>3, <2>3, <3>1, Costs DEF IsCall
  <2>8. Takes(a) <= Takes(Goal) + Len(values)
    BY <1>2, <2>4, <2>5, <2>6, <2>7
  <2>9. Takes(b) <= Takes(Goal) + Len(values) + Gives(a)
    BY <1>2, <2>4, <2>5, <2>6, <2>7
  <2>10. Takes(c) <= Takes(Goal) + Len(values) + Gives(a) + Gives(b)
    BY <1>2, <2>4, <2>5, <2>6, <2>7
  <2>11. Gives(Goal) = Len(values) + Gives(a) + Gives(b) + Gives(c)
    BY <1>2, <2>4, <2>5, <2>6, <2>7
  <2> QED
    BY <1>1, <2>1, <2>4, <2>5, <2>6, <2>7, <2>8, <2>9, <2>10, <2>11, Go3
<1>5. CASE Is(Goal[3]) /\ Continue(1, <<>>, <<>>)
  <2>1. pos + 1 <= Len(items)
    BY <1>1, <1>3, <1>5, Looking DEF Inner, Is
  <2>2. PICK values : values = <<>>
    OBVIOUS
  <2>3. IsSequence(values) /\ Len(values) = 0 /\ Continue(1, values, <<>>)
    BY <1>5, <2>2, Values
  <2> QED
    BY <1>1, <1>2, <2>1, <2>3, Go0
<1>6. CASE Unexpected
  BY <1>6, ByRefusal DEF Unexpected
<1> QED
  BY <1>4, <1>5, <1>6 DEF ParseMore

LEMMA RestSteps ==
  ASSUME AtWork, ParseRest
  PROVE  Steps
<1>1. Inner /\ Goal[1] = "rest"
  BY AtCall DEF ParseRest
<1>2. Takes(Goal) = 1 /\ Gives(Goal) = 0
  BY <1>1, Costs
<1>3. IsItem(Goal[2])
  BY <1>1, InnerCall DEF IsCall
<1>4. CASE Is(",") /\ Continue(1, <<>>, <<Goal[2], <<"add">>, Goal>>)
  <2>1. pos + 1 <= Len(items)
    BY <1>1, <1>4, Looking DEF Inner, Is
  <2>2. PICK values : values = <<>>
    OBVIOUS
  <2>3. PICK a, b, c : a = Goal[2] /\ b = <<"add">> /\ c = Goal
    OBVIOUS
  <2>4. IsSequence(values) /\ Len(values) = 0 /\ Continue(1, values, <<a, b, c>>)
    BY <1>4, <2>2, <2>3, Values
  <2>5. IsCall(a) /\ Takes(a) <= 1 /\ Gives(a) = 1
    BY <1>3, <2>3, Costs
  <2>6. IsCall(b) /\ Takes(b) = 2 /\ Gives(b) = 0 - 1
    BY <2>3, Costs
  <2>7. IsCall(c) /\ Takes(c) = 1 /\ Gives(c) = 0
    <3>1. c[1] = "rest"
      BY <1>1, <2>3
    <3> QED
      BY <1>3, <2>3, <3>1, Costs DEF IsCall
  <2>8. Takes(a) <= Takes(Goal) + Len(values)
    BY <1>2, <2>4, <2>5, <2>6, <2>7
  <2>9. Takes(b) <= Takes(Goal) + Len(values) + Gives(a)
    BY <1>2, <2>4, <2>5, <2>6, <2>7
  <2>10. Takes(c) <= Takes(Goal) + Len(values) + Gives(a) + Gives(b)
    BY <1>2, <2>4, <2>5, <2>6, <2>7
  <2>11. Gives(Goal) = Len(values) + Gives(a) + Gives(b) + Gives(c)
    BY <1>2, <2>4, <2>5, <2>6, <2>7
  <2> QED
    BY <1>1, <2>1, <2>4, <2>5, <2>6, <2>7, <2>8, <2>9, <2>10, <2>11, Go3
<1>5. CASE Continue(0, <<>>, <<>>)
  <2>1. pos + 0 <= Len(items)
    BY <1>1, Looking DEF Inner
  <2>2. PICK values : values = <<>>
    OBVIOUS
  <2>3. IsSequence(values) /\ Len(values) = 0 /\ Continue(0, values, <<>>)
    BY <1>5, <2>2, Values
  <2> QED
    BY <1>1, <1>2, <2>1, <2>3, Go0
<1> QED
  BY <1>4, <1>5 DEF ParseRest

LEMMA AddSteps ==
  ASSUME AtWork, Add
  PROVE  Steps
<1>1. Inner /\ Goal[1] = "add"
  BY AtCall DEF Add
<1>2. Takes(Goal) = 2 /\ Gives(Goal) = 0 - 1
  BY <1>1, Costs
<1>3. Replace(0, 2, Listed(Append(Beneath.items, Top)))
  BY DEF Add
<1> QED
  <2>1. pos + 0 <= Len(items)
    BY <1>1, Looking DEF Inner
  <2>2. 2 \in 0..Takes(Goal) /\ Gives(Goal) = 1 - 2
    BY <1>2
  <2> QED
    BY <1>1, <1>3, <2>1, <2>2, ByReplace

LEMMA ListSteps ==
  ASSUME AtWork, ParseListValue
  PROVE  Steps
<1>1. Inner /\ Goal[1] = "list"
  BY AtCall DEF ParseListValue
<1>2. Takes(Goal) = 0 /\ Gives(Goal) = 1
  BY <1>1, Costs
<1>3. IsItem(Goal[2])
  BY <1>1, InnerCall DEF IsCall
<1>4. CASE Is("[") /\ Continue(1, <<Listed(<<>>)>>, <<<<"first", Goal[2], "]">>>>)
  <2>1. pos + 1 <= Len(items)
    BY <1>1, <1>4, Looking DEF Inner, Is
  <2>2. PICK values : values = <<Listed(<<>>)>>
    OBVIOUS
  <2>3. PICK a : a = <<"first", Goal[2], "]">>
    OBVIOUS
  <2>4. IsSequence(values) /\ Len(values) = 1 /\ Continue(1, values, <<a>>)
    BY <1>4, <2>2, <2>3, Values
  <2>5. IsCall(a) /\ Takes(a) = 1 /\ Gives(a) = 0
    <3>1. a[1] = "first"
      BY <1>1, <2>3
    <3> QED
      BY <1>3, <2>3, <3>1, Costs DEF IsCall
  <2>6. Takes(a) <= Takes(Goal) + Len(values)
    BY <1>2, <2>4, <2>5
  <2>7. Gives(Goal) = Len(values) + Gives(a)
    BY <1>2, <2>4, <2>5
  <2> QED
    BY <1>1, <2>1, <2>4, <2>5, <2>6, <2>7, Go1
<1>5. CASE Continue(0, <<Listed(<<>>)>>, <<Goal[2], <<"add">>, <<"rest", Goal[2]>>>>)
  <2>1. pos + 0 <= Len(items)
    BY <1>1, Looking DEF Inner
  <2>2. PICK values : values = <<Listed(<<>>)>>
    OBVIOUS
  <2>3. PICK a, b, c : a = Goal[2] /\ b = <<"add">> /\ c = <<"rest", Goal[2]>>
    OBVIOUS
  <2>4. IsSequence(values) /\ Len(values) = 1 /\ Continue(0, values, <<a, b, c>>)
    BY <1>5, <2>2, <2>3, Values
  <2>5. IsCall(a) /\ Takes(a) <= 1 /\ Gives(a) = 1
    BY <1>3, <2>3, Costs
  <2>6. IsCall(b) /\ Takes(b) = 2 /\ Gives(b) = 0 - 1
    BY <2>3, Costs
  <2>7. IsCall(c) /\ Takes(c) = 1 /\ Gives(c) = 0
    <3>1. c[1] = "rest"
      BY <1>1, <2>3
    <3> QED
      BY <1>3, <2>3, <3>1, Costs DEF IsCall
  <2>8. Takes(a) <= Takes(Goal) + Len(values)
    BY <1>2, <2>4, <2>5, <2>6, <2>7
  <2>9. Takes(b) <= Takes(Goal) + Len(values) + Gives(a)
    BY <1>2, <2>4, <2>5, <2>6, <2>7
  <2>10. Takes(c) <= Takes(Goal) + Len(values) + Gives(a) + Gives(b)
    BY <1>2, <2>4, <2>5, <2>6, <2>7
  <2>11. Gives(Goal) = Len(values) + Gives(a) + Gives(b) + Gives(c)
    BY <1>2, <2>4, <2>5, <2>6, <2>7
  <2>12. IsCall(a) /\ IsCall(b) /\ IsCall(c)
    BY <2>5, <2>6, <2>7
  <2>13. IsSequence(values) /\ Continue(0, values, <<a, b, c>>)
    BY <2>4
  <2> QED
    BY <1>1, <2>1, <2>8, <2>9, <2>10, <2>11, <2>12, <2>13, Go3
<1>6. CASE Unexpected
  BY <1>6, ByRefusal DEF Unexpected
<1> QED
  BY <1>4, <1>5, <1>6 DEF ParseListValue, Bracketed, Bare

LEMMA ScalarOrListSteps ==
  ASSUME AtWork, ParseScalarOrList
  PROVE  Steps
<1>1. Inner /\ Goal[1] = "scalarOrList"
  BY AtCall DEF ParseScalarOrList
<1>2. Takes(Goal) = 0 /\ Gives(Goal) = 1
  BY <1>1, Costs
<1>3. \A item : IsItem(item) <=> item[1] \in {"literal", "param", "reference", "dependency", "invocation", "raw"}
  BY DEF IsItem
<1>4. CASE Is("[") /\ Continue(1, <<Listed(<<>>)>>, <<<<"first", <<"literal">>, "]">>>>)
  <2>1. pos + 1 <= Len(items)
    BY <1>1, <1>4, Looking DEF Inner, Is
  <2>2. PICK values : values = <<Listed(<<>>)>>
    OBVIOUS
  <2>3. PICK a : a = <<"first", <<"literal">>, "]">>
    OBVIOUS
  <2>4. IsSequence(values) /\ Len(values) = 1 /\ Continue(1, values, <<a>>)
    BY <1>4, <2>2, <2>3, Values
  <2>5. IsCall(a) /\ Takes(a) = 1 /\ Gives(a) = 0
    <3>1. a[1] = "first"
      BY <1>1, <2>3
    <3> QED
      BY <1>3, <2>3, <3>1, Costs DEF IsCall, IsItem
  <2>6. Takes(a) <= Takes(Goal) + Len(values)
    BY <1>2, <2>4, <2>5
  <2>7. Gives(Goal) = Len(values) + Gives(a)
    BY <1>2, <2>4, <2>5
  <2> QED
    BY <1>1, <2>1, <2>4, <2>5, <2>6, <2>7, Go1
<1>5. CASE Continue(0, <<>>, <<<<"literal">>>>)
  <2>1. pos + 0 <= Len(items)
    BY <1>1, Looking DEF Inner
  <2>2. PICK values : values = <<>>
    OBVIOUS
  <2>3. PICK a : a = <<"literal">>
    OBVIOUS
  <2>4. IsSequence(values) /\ Len(values) = 0 /\ Continue(0, values, <<a>>)
    BY <1>5, <2>2, <2>3, Values
  <2>5. IsCall(a) /\ Takes(a) = 0 /\ Gives(a) = 1
    BY <2>3, Costs
  <2>6. Takes(a) <= Takes(Goal) + Len(values)
    BY <1>2, <2>4, <2>5
  <2>7. Gives(Goal) = Len(values) + Gives(a)
    BY <1>2, <2>4, <2>5
  <2> QED
    BY <1>1, <2>1, <2>4, <2>5, <2>6, <2>7, Go1
<1> QED
  BY <1>4, <1>5 DEF ParseScalarOrList, Bracketed

LEMMA DependencySteps ==
  ASSUME AtWork, ParseDependency
  PROVE  Steps
<1>1. Inner /\ Goal[1] = "dependency"
  BY AtCall DEF ParseDependency
<1>2. Takes(Goal) = 0 /\ Gives(Goal) = 1
  BY <1>1, Costs
<1>4. Continue(0, <<>>, <<<<"reference">>, <<"condition">>>>)
  BY DEF ParseDependency
<1> QED
  <2>1. pos + 0 <= Len(items)
    BY <1>1, Looking DEF Inner
  <2>2. PICK values : values = <<>>
    OBVIOUS
  <2>3. PICK a, b : a = <<"reference">> /\ b = <<"condition">>
    OBVIOUS
  <2>4. IsSequence(values) /\ Len(values) = 0 /\ Continue(0, values, <<a, b>>)
    BY <1>4, <2>2, <2>3, Values
  <2>5. IsCall(a) /\ Takes(a) = 0 /\ Gives(a) = 1
    BY <2>3, Costs
  <2>6. IsCall(b) /\ Takes(b) = 1 /\ Gives(b) = 0
    BY <2>3, Costs
  <2>7. Takes(a) <= Takes(Goal) + Len(values)
    BY <1>2, <2>4, <2>5, <2>6
  <2>8. Takes(b) <= Takes(Goal) + Len(values) + Gives(a)
    BY <1>2, <2>4, <2>5, <2>6
  <2>9. Gives(Goal) = Len(values) + Gives(a) + Gives(b)
    BY <1>2, <2>4, <2>5, <2>6
  <2> QED
    BY <1>1, <2>1, <2>4, <2>5, <2>6, <2>7, <2>8, <2>9, Go2

LEMMA ConditionSteps ==
  ASSUME AtWork, ParseCondition
  PROVE  Steps
<1>1. Inner /\ Goal[1] = "condition"
  BY AtCall DEF ParseCondition
<1>2. Takes(Goal) = 1 /\ Gives(Goal) = 0
  BY <1>1, Costs
<1>4. CASE Replace(0, 1, Dependency(<<>>))
  <2>1. pos + 0 <= Len(items)
    BY <1>1, Looking DEF Inner
  <2>2. 1 \in 0..Takes(Goal) /\ Gives(Goal) = 1 - 1
    BY <1>2
  <2> QED
    BY <1>1, <1>4, <2>1, <2>2, ByReplace
<1>5. CASE ConditionError = "none" /\ Replace(5, 1, Dependency(Token(pos + 3).lexeme))
  <2>1. pos + 5 <= Len(items)
    BY <1>1, <1>5, Looking DEF Inner, ConditionError
  <2>2. 1 \in 0..Takes(Goal) /\ Gives(Goal) = 1 - 1
    BY <1>2
  <2> QED
    BY <1>1, <1>5, <2>1, <2>2, ByReplace
<1>6. CASE ConditionError # "none" /\ Refuse(ConditionError)
  <2>1. ConditionError \notin {"running", "ok"}
    BY DEF ConditionError
  <2> QED
    BY <1>6, <2>1, ByRefusal
<1> QED
  BY <1>4, <1>5, <1>6 DEF ParseCondition

LEMMA InvokedSteps ==
  ASSUME Inner, Takes(Goal) = 0, Gives(Goal) = 1, NEW n \in Nat, pos + n <= Len(items), NEW name, Invoked(n, name)
  PROVE  Steps
<1>1. PICK values, b : values = <<name, Listed(<<>>)>> /\ b = <<"pair">>
  OBVIOUS
<1>2. IsSequence(values) /\ Len(values) = 2
  BY <1>1, Values
<1>3. IsCall(b) /\ Takes(b) = 2 /\ Gives(b) = 0 - 1
  BY <1>1, Costs
<1>4. CASE Token(pos + n).kind = "{" /\ Continue(n + 1, values, <<<<"entries", "raw">>, b>>)
  <2>1. PICK a : a = <<"entries", "raw">>
    OBVIOUS
  <2>2. PICK k \in Nat : k = n + 1
    OBVIOUS
  <2>3. pos + k <= Len(items)
    <3>1. pos + n \in Nat \ {0} /\ (pos + n) + 1 = pos + k
      BY <2>2, LenProperties DEF Inner, AtWork, EndsInEof, IsSequence
    <3> QED
      BY <3>1, <1>4, Ahead DEF Inner, AtWork
  <2>4. IsCall(a) /\ Takes(a) = 1 /\ Gives(a) = 0
    BY <2>1, Costs DEF IsCall, MapFields
  <2>5. Continue(k, values, <<a, b>>)
    BY <1>4, <2>1, <2>2
  <2>6. Takes(a) <= Takes(Goal) + Len(values)
    BY <1>2, <2>4
  <2>7. Takes(b) <= Takes(Goal) + Len(values) + Gives(a)
    BY <1>2, <1>3, <2>4
  <2>8. Gives(Goal) = Len(values) + Gives(a) + Gives(b)
    BY <1>2, <1>3, <2>4
  <2> QED
    BY <1>2, <1>3, <2>3, <2>4, <2>5, <2>6, <2>7, <2>8, Go2
<1>5. CASE Continue(n, values, <<b>>)
  <2>1. Takes(b) <= Takes(Goal) + Len(values)
    BY <1>2, <1>3
  <2>2. Gives(Goal) = Len(values) + Gives(b)
    BY <1>2, <1>3
  <2> QED
    BY <1>2, <1>3, <1>5, <2>1, <2>2, Go1
<1> QED
  BY <1>1, <1>4, <1>5 DEF Invoked

LEMMA InvocationSteps ==
  ASSUME AtWork, ParseInvocation
  PROVE  Steps
<1>1. Inner /\ Goal[1] = "invocation"
  BY AtCall DEF ParseInvocation
<1>2. Takes(Goal) = 0 /\ Gives(Goal) = 1
  BY <1>1, Costs
<1>3. CASE Is("Ident") /\ Next2.kind # "." /\ Invoked(1, Key(Peek))
  <2>1. pos + 1 <= Len(items)
    BY <1>3, Looking DEF Is
  <2> QED
    BY <1>1, <1>2, <1>3, <2>1, InvokedSteps
<1>4. CASE Token(pos + 2).kind = "Ident" /\ Invoked(3, Qualified(Peek.lexeme, Token(pos + 2).lexeme))
  <2>1. pos + 3 <= Len(items)
    BY <1>4, Looking
  <2> QED
    BY <1>1, <1>2, <1>4, <2>1, InvokedSteps
<1>5. CASE Unexpected
  BY <1>5, ByRefusal DEF Unexpected
<1> QED
  BY <1>3, <1>4, <1>5 DEF ParseInvocation

LEMMA PairSteps ==
  ASSUME AtWork, Pair
  PROVE  Steps
<1>1. Inner /\ Goal[1] = "pair"
  BY AtCall DEF Pair
<1>2. Takes(Goal) = 2 /\ Gives(Goal) = 0 - 1
  BY <1>1, Costs
<1>3. Replace(0, 2, [kind |-> "pair", key |-> Beneath, value |-> Top])
  BY DEF Pair
<1> QED
  <2>1. pos + 0 <= Len(items)
    BY <1>1, Looking DEF Inner
  <2>2. 2 \in 0..Takes(Goal) /\ Gives(Goal) = 1 - 2
    BY <1>2
  <2> QED
    BY <1>1, <1>3, <2>1, <2>2, ByReplace

-------------------------------------------------------------------------------
(* Maps.                                                                   *)
LEMMA MapSteps ==
  ASSUME AtWork, ParseMap
  PROVE  Steps
<1>1. Inner /\ Goal[1] = "map"
  BY AtCall DEF ParseMap
<1>2. Takes(Goal) = 0 /\ Gives(Goal) = 1
  BY <1>1, Costs
<1>3. Goal[2] \in MapFields
  BY <1>1, InnerCall DEF IsCall
<1>4. CASE Is("{") /\ Continue(1, <<Listed(<<>>)>>, <<<<"entries", Goal[2]>>>>)
  <2>1. pos + 1 <= Len(items)
    BY <1>1, <1>4, Looking DEF Inner, Is
  <2>2. PICK values : values = <<Listed(<<>>)>>
    OBVIOUS
  <2>3. PICK a : a = <<"entries", Goal[2]>>
    OBVIOUS
  <2>4. IsSequence(values) /\ Len(values) = 1 /\ Continue(1, values, <<a>>)
    BY <1>4, <2>2, <2>3, Values
  <2>5. IsCall(a) /\ Takes(a) = 1 /\ Gives(a) = 0
    <3>1. a[1] = "entries"
      BY <1>1, <2>3
    <3> QED
      BY <1>3, <2>3, <3>1, Costs DEF IsCall
  <2>6. Takes(a) <= Takes(Goal) + Len(values)
    BY <1>2, <2>4, <2>5
  <2>7. Gives(Goal) = Len(values) + Gives(a)
    BY <1>2, <2>4, <2>5
  <2> QED
    BY <1>1, <2>1, <2>4, <2>5, <2>6, <2>7, Go1
<1>5. CASE Continue(0, <<Listed(<<>>)>>, <<<<"entry", Goal[2]>>, <<"add">>>>)
  <2>1. pos + 0 <= Len(items)
    BY <1>1, Looking DEF Inner
  <2>2. PICK values : values = <<Listed(<<>>)>>
    OBVIOUS
  <2>3. PICK a, b : a = <<"entry", Goal[2]>> /\ b = <<"add">>
    OBVIOUS
  <2>4. IsSequence(values) /\ Len(values) = 1 /\ Continue(0, values, <<a, b>>)
    BY <1>5, <2>2, <2>3, Values
  <2>5. IsCall(a) /\ Takes(a) = 0 /\ Gives(a) = 1
    <3>1. a[1] = "entry"
      BY <1>1, <2>3
    <3> QED
      BY <1>3, <2>3, <3>1, Costs DEF IsCall
  <2>6. IsCall(b) /\ Takes(b) = 2 /\ Gives(b) = 0 - 1
    BY <2>3, Costs
  <2>7. Takes(a) <= Takes(Goal) + Len(values)
    BY <1>2, <2>4, <2>5, <2>6
  <2>8. Takes(b) <= Takes(Goal) + Len(values) + Gives(a)
    BY <1>2, <2>4, <2>5, <2>6
  <2>9. Gives(Goal) = Len(values) + Gives(a) + Gives(b)
    BY <1>2, <2>4, <2>5, <2>6
  <2>10. IsCall(a) /\ IsCall(b)
    BY <2>5, <2>6
  <2>11. IsSequence(values) /\ Continue(0, values, <<a, b>>)
    BY <2>4
  <2> QED
    BY <1>1, <2>1, <2>7, <2>8, <2>9, <2>10, <2>11, Go2
<1>6. CASE Unexpected
  BY <1>6, ByRefusal DEF Unexpected
<1> QED
  BY <1>4, <1>5, <1>6 DEF ParseMap

LEMMA MapBodySteps ==
  ASSUME AtWork, ParseMapBody
  PROVE  Steps
<1>1. Inner /\ Goal[1] = "entries"
  BY AtCall DEF ParseMapBody
<1>2. Takes(Goal) = 1 /\ Gives(Goal) = 0
  BY <1>1, Costs
<1>3. Goal[2] \in MapFields
  BY <1>1, InnerCall DEF IsCall
<1>4. CASE Is("}") /\ Continue(1, <<>>, <<>>)
  <2>1. pos + 1 <= Len(items)
    BY <1>1, <1>4, Looking DEF Inner, Is
  <2>2. PICK values : values = <<>>
    OBVIOUS
  <2>3. IsSequence(values) /\ Len(values) = 0 /\ Continue(1, values, <<>>)
    BY <1>4, <2>2, Values
  <2> QED
    BY <1>1, <1>2, <2>1, <2>3, Go0
<1>5. CASE Continue(0, <<>>, <<<<"entry", Goal[2]>>, <<"add">>, <<"separated">>, Goal>>)
  <2>1. pos + 0 <= Len(items)
    BY <1>1, Looking DEF Inner
  <2>2. PICK values : values = <<>>
    OBVIOUS
  <2>3. PICK a, b, c, d : a = <<"entry", Goal[2]>> /\ b = <<"add">> /\ c = <<"separated">> /\ d = Goal
    OBVIOUS
  <2>4. IsSequence(values) /\ Len(values) = 0 /\ Continue(0, values, <<a, b, c, d>>)
    BY <1>5, <2>2, <2>3, Values
  <2>5. IsCall(a) /\ Takes(a) = 0 /\ Gives(a) = 1
    <3>1. a[1] = "entry"
      BY <1>1, <2>3
    <3> QED
      BY <1>3, <2>3, <3>1, Costs DEF IsCall
  <2>6. IsCall(b) /\ Takes(b) = 2 /\ Gives(b) = 0 - 1
    BY <2>3, Costs
  <2>7. IsCall(c) /\ Takes(c) = 0 /\ Gives(c) = 0
    BY <2>3, Costs
  <2>8. IsCall(d) /\ Takes(d) = 1 /\ Gives(d) = 0
    <3>1. d[1] = "entries"
      BY <1>1, <2>3
    <3> QED
      BY <1>3, <2>3, <3>1, Costs DEF IsCall
  <2>9. Takes(a) <= Takes(Goal) + Len(values)
    BY <1>2, <2>4, <2>5, <2>6, <2>7, <2>8
  <2>10. Takes(b) <= Takes(Goal) + Len(values) + Gives(a)
    BY <1>2, <2>4, <2>5, <2>6, <2>7, <2>8
  <2>11. Takes(c) <= Takes(Goal) + Len(values) + Gives(a) + Gives(b)
    BY <1>2, <2>4, <2>5, <2>6, <2>7, <2>8
  <2>12. Takes(d) <= Takes(Goal) + Len(values) + Gives(a) + Gives(b) + Gives(c)
    BY <1>2, <2>4, <2>5, <2>6, <2>7, <2>8
  <2>13. Gives(Goal) = Len(values) + Gives(a) + Gives(b) + Gives(c) + Gives(d)
    BY <1>2, <2>4, <2>5, <2>6, <2>7, <2>8
  <2>14. IsCall(a) /\ IsCall(b) /\ IsCall(c) /\ IsCall(d)
    BY <2>5, <2>6, <2>7, <2>8
  <2>15. IsSequence(values) /\ Continue(0, values, <<a, b, c, d>>)
    BY <2>4
  <2> QED
    BY <1>1, <2>1, <2>14, <2>15, <2>9, <2>10, <2>11, <2>12, <2>13, Go4
<1> QED
  BY <1>4, <1>5 DEF ParseMapBody

LEMMA SeparatedSteps ==
  ASSUME AtWork, ParseSeparated
  PROVE  Steps
<1>1. Inner /\ Goal[1] = "separated"
  BY AtCall DEF ParseSeparated
<1>2. Takes(Goal) = 0 /\ Gives(Goal) = 0
  BY <1>1, Costs
<1>4. CASE Is(",") /\ Continue(1, <<>>, <<>>)
  <2>1. pos + 1 <= Len(items)
    BY <1>1, <1>4, Looking DEF Inner, Is
  <2>2. PICK values : values = <<>>
    OBVIOUS
  <2>3. IsSequence(values) /\ Len(values) = 0 /\ Continue(1, values, <<>>)
    BY <1>4, <2>2, Values
  <2> QED
    BY <1>1, <1>2, <2>1, <2>3, Go0
<1>5. CASE Continue(0, <<>>, <<>>)
  <2>1. pos + 0 <= Len(items)
    BY <1>1, Looking DEF Inner
  <2>2. PICK values : values = <<>>
    OBVIOUS
  <2>3. IsSequence(values) /\ Len(values) = 0 /\ Continue(0, values, <<>>)
    BY <1>5, <2>2, Values
  <2> QED
    BY <1>1, <1>2, <2>1, <2>3, Go0
<1>6. CASE Unexpected
  BY <1>6, ByRefusal DEF Unexpected
<1> QED
  BY <1>4, <1>5, <1>6 DEF ParseSeparated

LEMMA EntrySteps ==
  ASSUME AtWork, ParseEntry
  PROVE  Steps
<1>1. Inner /\ Goal[1] = "entry"
  BY AtCall DEF ParseEntry
<1>2. Takes(Goal) = 0 /\ Gives(Goal) = 1
  BY <1>1, Costs
<1>3. Goal[2] \in MapFields
  BY <1>1, InnerCall DEF IsCall
<1>4. CASE RawKey /\ Continue(2, <<Key(Peek)>>, <<<<"raw", 1>>, <<"pair">>>>)
  <2>1. pos + 2 <= Len(items)
    BY <1>1, <1>4, Looking DEF Inner, RawKey
  <2>2. PICK values : values = <<Key(Peek)>>
    OBVIOUS
  <2>3. PICK a, b : a = <<"raw", 1>> /\ b = <<"pair">>
    OBVIOUS
  <2>4. IsSequence(values) /\ Len(values) = 1 /\ Continue(2, values, <<a, b>>)
    BY <1>4, <2>2, <2>3, Values
  <2>5. IsCall(a) /\ Takes(a) = 0 /\ Gives(a) = 1
    BY <2>3, Costs
  <2>6. IsCall(b) /\ Takes(b) = 2 /\ Gives(b) = 0 - 1
    BY <2>3, Costs
  <2>7. Takes(a) <= Takes(Goal) + Len(values)
    BY <1>2, <2>4, <2>5, <2>6
  <2>8. Takes(b) <= Takes(Goal) + Len(values) + Gives(a)
    BY <1>2, <2>4, <2>5, <2>6
  <2>9. Gives(Goal) = Len(values) + Gives(a) + Gives(b)
    BY <1>2, <2>4, <2>5, <2>6
  <2> QED
    BY <1>1, <2>1, <2>4, <2>5, <2>6, <2>7, <2>8, <2>9, Go2
<1>5. CASE Continue(0, <<>>, <<<<IF Is("Ident") THEN "reference" ELSE "literal">>, <<"separator", "volume">>,
                               <<"literal">>, <<"pair">>, <<"read only">>>>)
  <2>1. pos + 0 <= Len(items)
    BY <1>1, Looking DEF Inner
  <2>2. PICK values : values = <<>>
    OBVIOUS
  <2>3. PICK a, b, c, d, e : a = <<IF Is("Ident") THEN "reference" ELSE "literal">> /\ b = <<"separator", "volume">> /\ c = <<"literal">> /\ d = <<"pair">> /\ e = <<"read only">>
    OBVIOUS
  <2>4. IsSequence(values) /\ Len(values) = 0 /\ Continue(0, values, <<a, b, c, d, e>>)
    BY <1>5, <2>2, <2>3, Values
  <2>5. IsCall(a) /\ Takes(a) = 0 /\ Gives(a) = 1
    BY <2>3, Costs
  <2>6. IsCall(b) /\ Takes(b) = 0 /\ Gives(b) = 0
    <3>1. b[1] = "separator"
      BY <1>1, <2>3
    <3> QED
      BY <1>3, <2>3, <3>1, Costs DEF IsCall, Separator
  <2>7. IsCall(c) /\ Takes(c) = 0 /\ Gives(c) = 1
    BY <2>3, Costs
  <2>8. IsCall(d) /\ Takes(d) = 2 /\ Gives(d) = 0 - 1
    BY <2>3, Costs
  <2>9. IsCall(e) /\ Takes(e) = 1 /\ Gives(e) = 0
    BY <2>3, Costs
  <2>10. Takes(a) <= Takes(Goal) + Len(values)
    BY <1>2, <2>4, <2>5, <2>6, <2>7, <2>8, <2>9
  <2>11. Takes(b) <= Takes(Goal) + Len(values) + Gives(a)
    BY <1>2, <2>4, <2>5, <2>6, <2>7, <2>8, <2>9
  <2>12. Takes(c) <= Takes(Goal) + Len(values) + Gives(a) + Gives(b)
    BY <1>2, <2>4, <2>5, <2>6, <2>7, <2>8, <2>9
  <2>13. Takes(d) <= Takes(Goal) + Len(values) + Gives(a) + Gives(b) + Gives(c)
    BY <1>2, <2>4, <2>5, <2>6, <2>7, <2>8, <2>9
  <2>14. Takes(e) <= Takes(Goal) + Len(values) + Gives(a) + Gives(b) + Gives(c) + Gives(d)
    BY <1>2, <2>4, <2>5, <2>6, <2>7, <2>8, <2>9
  <2>15. Gives(Goal) = Len(values) + Gives(a) + Gives(b) + Gives(c) + Gives(d) + Gives(e)
    BY <1>2, <2>4, <2>5, <2>6, <2>7, <2>8, <2>9
  <2>16. IsCall(a) /\ IsCall(b) /\ IsCall(c) /\ IsCall(d) /\ IsCall(e)
    BY <2>5, <2>6, <2>7, <2>8, <2>9
  <2>17. IsSequence(values) /\ Continue(0, values, <<a, b, c, d, e>>)
    BY <2>4
  <2> QED
    BY <1>1, <2>1, <2>16, <2>17, <2>10, <2>11, <2>12, <2>13, <2>14, <2>15, Go5
<1>6. CASE Goal[2] \notin {"raw", "volume"} /\
           Continue(0, <<>>, <<<<"literal">>, <<"separator", Goal[2]>>,
                               <<IF Goal[2] = "labels" THEN "scalarOrList" ELSE "literal">>, <<"pair">>>>)
  <2>1. pos + 0 <= Len(items)
    BY <1>1, Looking DEF Inner
  <2>2. PICK values : values = <<>>
    OBVIOUS
  <2>3. PICK a, b, c, d : a = <<"literal">> /\ b = <<"separator", Goal[2]>> /\ c = <<IF Goal[2] = "labels" THEN "scalarOrList" ELSE "literal">> /\ d = <<"pair">>
    OBVIOUS
  <2>4. IsSequence(values) /\ Len(values) = 0 /\ Continue(0, values, <<a, b, c, d>>)
    BY <1>6, <2>2, <2>3, Values
  <2>5. IsCall(a) /\ Takes(a) = 0 /\ Gives(a) = 1
    BY <2>3, Costs
  <2>6. IsCall(b) /\ Takes(b) = 0 /\ Gives(b) = 0
    <3>1. b[1] = "separator"
      BY <1>1, <2>3
    <3> QED
      BY <1>3, <1>6, <2>3, <3>1, Costs DEF IsCall, MapFields
  <2>7. IsCall(c) /\ Takes(c) = 0 /\ Gives(c) = 1
    BY <2>3, Costs
  <2>8. IsCall(d) /\ Takes(d) = 2 /\ Gives(d) = 0 - 1
    BY <2>3, Costs
  <2>9. Takes(a) <= Takes(Goal) + Len(values)
    BY <1>2, <2>4, <2>5, <2>6, <2>7, <2>8
  <2>10. Takes(b) <= Takes(Goal) + Len(values) + Gives(a)
    BY <1>2, <2>4, <2>5, <2>6, <2>7, <2>8
  <2>11. Takes(c) <= Takes(Goal) + Len(values) + Gives(a) + Gives(b)
    BY <1>2, <2>4, <2>5, <2>6, <2>7, <2>8
  <2>12. Takes(d) <= Takes(Goal) + Len(values) + Gives(a) + Gives(b) + Gives(c)
    BY <1>2, <2>4, <2>5, <2>6, <2>7, <2>8
  <2>13. Gives(Goal) = Len(values) + Gives(a) + Gives(b) + Gives(c) + Gives(d)
    BY <1>2, <2>4, <2>5, <2>6, <2>7, <2>8
  <2>14. IsCall(a) /\ IsCall(b) /\ IsCall(c) /\ IsCall(d)
    BY <2>5, <2>6, <2>7, <2>8
  <2>15. IsSequence(values) /\ Continue(0, values, <<a, b, c, d>>)
    BY <2>4
  <2> QED
    BY <1>1, <2>1, <2>14, <2>15, <2>9, <2>10, <2>11, <2>12, <2>13, Go4
<1>7. CASE Unexpected
  BY <1>7, ByRefusal DEF Unexpected
<1> QED
  BY <1>4, <1>5, <1>6, <1>7 DEF ParseEntry

LEMMA SeparatorSteps ==
  ASSUME AtWork, ParseSeparator
  PROVE  Steps
<1>1. Inner /\ Goal[1] = "separator"
  BY AtCall DEF ParseSeparator
<1>2. Takes(Goal) = 0 /\ Gives(Goal) = 0
  BY <1>1, Costs
<1>3. Goal[2] \in DOMAIN Separator
  BY <1>1, InnerCall DEF IsCall
<1>4. CASE Peek.kind \in {":", Separator[Goal[2]]} /\ Continue(1, <<>>, <<>>)
  <2>1. pos + 1 <= Len(items)
    BY <1>1, <1>3, <1>4, Looking DEF Inner, Separator
  <2>2. PICK values : values = <<>>
    OBVIOUS
  <2>3. IsSequence(values) /\ Len(values) = 0 /\ Continue(1, values, <<>>)
    BY <1>4, <2>2, Values
  <2> QED
    BY <1>1, <1>2, <2>1, <2>3, Go0
<1>5. CASE Refuse("MapEntryMissingSeparator")
  BY <1>5, ByRefusal
<1> QED
  BY <1>4, <1>5 DEF ParseSeparator

LEMMA ReadOnlySteps ==
  ASSUME AtWork, ParseReadOnly
  PROVE  Steps
<1>1. Inner /\ Goal[1] = "read only"
  BY AtCall DEF ParseReadOnly
<1>2. Takes(Goal) = 1 /\ Gives(Goal) = 0
  BY <1>1, Costs
<1>4. CASE Replace(0, 1, Mount(Top, FALSE))
  <2>1. pos + 0 <= Len(items)
    BY <1>1, Looking DEF Inner
  <2>2. 1 \in 0..Takes(Goal) /\ Gives(Goal) = 1 - 1
    BY <1>2
  <2> QED
    BY <1>1, <1>4, <2>1, <2>2, ByReplace
<1>5. CASE ReadOnlyError = "none" /\ Replace(3, 1, Mount(Top, TRUE))
  <2>1. pos + 3 <= Len(items)
    BY <1>1, <1>5, Looking DEF Inner, ReadOnlyError
  <2>2. 1 \in 0..Takes(Goal) /\ Gives(Goal) = 1 - 1
    BY <1>2
  <2> QED
    BY <1>1, <1>5, <2>1, <2>2, ByReplace
<1>6. CASE ReadOnlyError # "none" /\ Refuse(ReadOnlyError)
  <2>1. ReadOnlyError \notin {"running", "ok"}
    BY DEF ReadOnlyError
  <2> QED
    BY <1>6, <2>1, ByRefusal
<1> QED
  BY <1>4, <1>5, <1>6 DEF ParseReadOnly

LEMMA RawValueSteps ==
  ASSUME AtWork, ParseRawValue
  PROVE  Steps
<1>1. Inner /\ Goal[1] = "raw"
  BY AtCall DEF ParseRawValue
<1>2. Takes(Goal) = 0 /\ Gives(Goal) = 1
  BY <1>1, Costs
<1>3. PICK level : level = Goal[2] + 1
  OBVIOUS
<1>4. CASE Is("[") /\ Continue(1, <<Listed(<<>>)>>, <<<<"first", <<"raw", level>>, "]">>>>)
  <2>1. pos + 1 <= Len(items)
    BY <1>1, <1>4, Looking DEF Inner, Is
  <2>2. PICK values : values = <<Listed(<<>>)>>
    OBVIOUS
  <2>3. PICK a : a = <<"first", <<"raw", level>>, "]">>
    OBVIOUS
  <2>4. IsSequence(values) /\ Len(values) = 1 /\ Continue(1, values, <<a>>)
    BY <1>4, <2>2, <2>3, Values
  <2>5. IsCall(a) /\ Takes(a) = 1 /\ Gives(a) = 0
    <3>1. a[1] = "first"
      BY <1>1, <2>3
    <3> QED
      BY <2>3, <3>1, Costs DEF IsCall, IsItem
  <2>6. Takes(a) <= Takes(Goal) + Len(values)
    BY <1>2, <2>4, <2>5
  <2>7. Gives(Goal) = Len(values) + Gives(a)
    BY <1>2, <2>4, <2>5
  <2> QED
    BY <1>1, <2>1, <2>4, <2>5, <2>6, <2>7, Go1
<1>5. CASE Is("{") /\ Continue(1, <<Listed(<<>>)>>, <<<<"raw map", level>>>>)
  <2>1. pos + 1 <= Len(items)
    BY <1>1, <1>5, Looking DEF Inner, Is
  <2>2. PICK values : values = <<Listed(<<>>)>>
    OBVIOUS
  <2>3. PICK a : a = <<"raw map", level>>
    OBVIOUS
  <2>4. IsSequence(values) /\ Len(values) = 1 /\ Continue(1, values, <<a>>)
    BY <1>5, <2>2, <2>3, Values
  <2>5. IsCall(a) /\ Takes(a) = 1 /\ Gives(a) = 0
    BY <2>3, Costs
  <2>6. Takes(a) <= Takes(Goal) + Len(values)
    BY <1>2, <2>4, <2>5
  <2>7. Gives(Goal) = Len(values) + Gives(a)
    BY <1>2, <2>4, <2>5
  <2> QED
    BY <1>1, <2>1, <2>4, <2>5, <2>6, <2>7, Go1
<1>6. CASE Continue(0, <<>>, <<<<"literal">>>>)
  <2>1. pos + 0 <= Len(items)
    BY <1>1, Looking DEF Inner
  <2>2. PICK values : values = <<>>
    OBVIOUS
  <2>3. PICK a : a = <<"literal">>
    OBVIOUS
  <2>4. IsSequence(values) /\ Len(values) = 0 /\ Continue(0, values, <<a>>)
    BY <1>6, <2>2, <2>3, Values
  <2>5. IsCall(a) /\ Takes(a) = 0 /\ Gives(a) = 1
    BY <2>3, Costs
  <2>6. Takes(a) <= Takes(Goal) + Len(values)
    BY <1>2, <2>4, <2>5
  <2>7. Gives(Goal) = Len(values) + Gives(a)
    BY <1>2, <2>4, <2>5
  <2> QED
    BY <1>1, <2>1, <2>4, <2>5, <2>6, <2>7, Go1
<1>7. CASE Refuse("RawValueTooDeep")
  BY <1>7, ByRefusal
<1> QED
  BY <1>3, <1>4, <1>5, <1>6, <1>7 DEF ParseRawValue, Bracketed

LEMMA RawMapSteps ==
  ASSUME AtWork, ParseRawMap
  PROVE  Steps
<1>1. Inner /\ Goal[1] = "raw map"
  BY AtCall DEF ParseRawMap
<1>2. Takes(Goal) = 1 /\ Gives(Goal) = 0
  BY <1>1, Costs
<1>4. CASE Is("}") /\ Continue(1, <<>>, <<>>)
  <2>1. pos + 1 <= Len(items)
    BY <1>1, <1>4, Looking DEF Inner, Is
  <2>2. PICK values : values = <<>>
    OBVIOUS
  <2>3. IsSequence(values) /\ Len(values) = 0 /\ Continue(1, values, <<>>)
    BY <1>4, <2>2, Values
  <2> QED
    BY <1>1, <1>2, <2>1, <2>3, Go0
<1>5. CASE RawKey /\ Continue(2, <<Key(Peek)>>, <<<<"raw", Goal[2]>>, <<"pair">>, <<"raw pair">>, Goal>>)
  <2>1. pos + 2 <= Len(items)
    BY <1>1, <1>5, Looking DEF Inner, RawKey
  <2>2. PICK values : values = <<Key(Peek)>>
    OBVIOUS
  <2>3. PICK a, b, c, d : a = <<"raw", Goal[2]>> /\ b = <<"pair">> /\ c = <<"raw pair">> /\ d = Goal
    OBVIOUS
  <2>4. IsSequence(values) /\ Len(values) = 1 /\ Continue(2, values, <<a, b, c, d>>)
    BY <1>5, <2>2, <2>3, Values
  <2>5. IsCall(a) /\ Takes(a) = 0 /\ Gives(a) = 1
    BY <2>3, Costs
  <2>6. IsCall(b) /\ Takes(b) = 2 /\ Gives(b) = 0 - 1
    BY <2>3, Costs
  <2>7. IsCall(c) /\ Takes(c) = 2 /\ Gives(c) = 0 - 1
    BY <2>3, Costs
  <2>8. IsCall(d) /\ Takes(d) = 1 /\ Gives(d) = 0
    <3>1. d[1] = "raw map"
      BY <1>1, <2>3
    <3> QED
      BY <2>3, <3>1, Costs DEF IsCall, IsItem
  <2>9. Takes(a) <= Takes(Goal) + Len(values)
    BY <1>2, <2>4, <2>5, <2>6, <2>7, <2>8
  <2>10. Takes(b) <= Takes(Goal) + Len(values) + Gives(a)
    BY <1>2, <2>4, <2>5, <2>6, <2>7, <2>8
  <2>11. Takes(c) <= Takes(Goal) + Len(values) + Gives(a) + Gives(b)
    BY <1>2, <2>4, <2>5, <2>6, <2>7, <2>8
  <2>12. Takes(d) <= Takes(Goal) + Len(values) + Gives(a) + Gives(b) + Gives(c)
    BY <1>2, <2>4, <2>5, <2>6, <2>7, <2>8
  <2>13. Gives(Goal) = Len(values) + Gives(a) + Gives(b) + Gives(c) + Gives(d)
    BY <1>2, <2>4, <2>5, <2>6, <2>7, <2>8
  <2>14. IsCall(a) /\ IsCall(b) /\ IsCall(c) /\ IsCall(d)
    BY <2>5, <2>6, <2>7, <2>8
  <2>15. IsSequence(values) /\ Continue(2, values, <<a, b, c, d>>)
    BY <2>4
  <2> QED
    BY <1>1, <2>1, <2>14, <2>15, <2>9, <2>10, <2>11, <2>12, <2>13, Go4
<1>6. CASE Unexpected
  BY <1>6, ByRefusal DEF Unexpected
<1> QED
  BY <1>4, <1>5, <1>6 DEF ParseRawMap

LEMMA AddRawPairSteps ==
  ASSUME AtWork, AddRawPair
  PROVE  Steps
<1>1. Inner /\ Goal[1] = "raw pair"
  BY AtCall DEF AddRawPair
<1>2. Takes(Goal) = 2 /\ Gives(Goal) = 0 - 1
  BY <1>1, Costs
<1>3. PICK value : value = Listed(Append(Beneath.items, Top))
  OBVIOUS
<1>4. CASE Is(",") /\ Replace(1, 2, value)
  <2>1. pos + 1 <= Len(items)
    BY <1>1, <1>4, Looking DEF Inner, Is
  <2>2. 2 \in 0..Takes(Goal) /\ Gives(Goal) = 1 - 2
    BY <1>2
  <2> QED
    BY <1>1, <1>4, <2>1, <2>2, ByReplace
<1>5. CASE Replace(0, 2, value)
  <2>1. pos + 0 <= Len(items)
    BY <1>1, Looking DEF Inner
  <2>2. 2 \in 0..Takes(Goal) /\ Gives(Goal) = 1 - 2
    BY <1>2
  <2> QED
    BY <1>1, <1>5, <2>1, <2>2, ByReplace
<1>6. CASE Refuse("DuplicateMapKey")
  BY <1>6, ByRefusal
<1> QED
  <2>1. CASE Is(",")
    BY <1>3, <1>4, <1>6, <2>1 DEF AddRawPair
  <2>2. CASE ~Is(",")
    BY <1>3, <1>5, <1>6, <2>2 DEF AddRawPair
  <2> QED
    BY <2>1, <2>2

-------------------------------------------------------------------------------
(* Bodies and the statements in them.  A field's kind says which call      *)
(* reads its value.                                                        *)
KindOf(f, kind) ==
  /\ kind \in {"scalar", "scalarOrList", "references", "dependencies", "invocations", "struct", "map", "flag"}
  /\ kind = "struct" => f \in DOMAIN Fields
  /\ kind = "map" => f \in MapFields

LEMMA Schema ==
  ASSUME NEW type \in DOMAIN Fields, NEW f \in DOMAIN Fields[type]
  PROVE  KindOf(f, Fields[type][f])
<1>1. \A g \in DOMAIN ServiceFields : KindOf(g, ServiceFields[g])
  BY DEF ServiceFields, KindOf, Fields, MapFields, Separator
<1>2. \A g \in DOMAIN NetworkFields : KindOf(g, NetworkFields[g])
  BY DEF NetworkFields, KindOf
<1>3. \A g \in DOMAIN VolumeFields : KindOf(g, VolumeFields[g])
  BY DEF VolumeFields, KindOf, MapFields, Separator
<1>4. \A g \in DOMAIN BuildFields : KindOf(g, BuildFields[g])
  BY DEF BuildFields, KindOf
<1>5. \A g \in DOMAIN HealthcheckFields : KindOf(g, HealthcheckFields[g])
  BY DEF HealthcheckFields, KindOf
<1>6. CASE type \in {"service", "template"}
  <2>1. Fields[type] = ServiceFields
    BY <1>6 DEF Fields
  <2> QED
    BY <2>1, <1>1
<1>7. CASE type = "network"
  <2>1. Fields[type] = NetworkFields
    BY <1>7 DEF Fields
  <2> QED
    BY <2>1, <1>2
<1>8. CASE type = "volume"
  <2>1. Fields[type] = VolumeFields
    BY <1>8 DEF Fields
  <2> QED
    BY <2>1, <1>3
<1>9. CASE type = "build"
  <2>1. Fields[type] = BuildFields
    BY <1>9 DEF Fields
  <2> QED
    BY <2>1, <1>4
<1>10. CASE type = "healthcheck"
  <2>1. Fields[type] = HealthcheckFields
    BY <1>10 DEF Fields
  <2> QED
    BY <2>1, <1>5
<1>11. CASE type \in {"image", "expose", "with"}
  <2>1. Fields[type][f] \in {"scalar", "invocations"}
    BY <1>11 DEF Fields
  <2> QED
    BY <2>1 DEF KindOf
<1> QED
  BY <1>6, <1>7, <1>8, <1>9, <1>10, <1>11 DEF Fields

LEMMA ValueCall ==
  ASSUME NEW type \in DOMAIN Fields, NEW f \in DOMAIN Fields[type], Fields[type][f] # "flag"
  PROVE  /\ IsCall(ValueGoal(type, f))
         /\ Takes(ValueGoal(type, f)) = 0 /\ Gives(ValueGoal(type, f)) = 1
<1>1. PICK kind : kind = Fields[type][f]
  OBVIOUS
<1>2. KindOf(f, kind) /\ kind # "flag"
  BY <1>1, Schema
<1>3. PICK g : g = ValueGoal(type, f)
  OBVIOUS
<1>4. CASE kind = "scalar"
  <2>1. g = <<"literal">>
    BY <1>1, <1>3, <1>4 DEF ValueGoal
  <2>2. g[1] = "literal"
    BY <2>1
  <2> QED
    BY <1>3, <2>2, Costs
<1>5. CASE kind = "scalarOrList"
  <2>1. g = <<"scalarOrList">>
    BY <1>1, <1>3, <1>5 DEF ValueGoal
  <2>2. g[1] = "scalarOrList"
    BY <2>1
  <2> QED
    BY <1>3, <2>2, Costs
<1>6. CASE kind \in {"references", "dependencies", "invocations"}
  <2>1. g[1] = "list" /\ g[2][1] \in {"reference", "dependency", "invocation"}
    BY <1>1, <1>3, <1>6 DEF ValueGoal
  <2>2. IsCall(g)
    BY <2>1 DEF IsCall, IsItem
  <2> QED
    BY <1>3, <2>1, <2>2, Costs
<1>7. CASE kind = "struct"
  <2>1. g[1] = "nested" /\ g[2] = f /\ f \in DOMAIN Fields
    BY <1>1, <1>2, <1>3, <1>7 DEF ValueGoal, KindOf
  <2>2. IsCall(g)
    BY <2>1 DEF IsCall
  <2> QED
    BY <1>3, <2>1, <2>2, Costs
<1>8. CASE kind = "map"
  <2>1. g[1] = "map" /\ g[2] = f /\ f \in MapFields
    BY <1>1, <1>2, <1>3, <1>8 DEF ValueGoal, KindOf
  <2>2. IsCall(g)
    BY <2>1 DEF IsCall
  <2> QED
    BY <1>3, <2>1, <2>2, Costs
<1> QED
  BY <1>2, <1>4, <1>5, <1>6, <1>7, <1>8 DEF KindOf

LEMMA BodySteps ==
  ASSUME AtWork, ParseBody
  PROVE  Steps
<1>1. Inner /\ Goal[1] = "body"
  BY AtCall DEF ParseBody
<1>2. Takes(Goal) = 0 /\ Gives(Goal) = 1
  BY <1>1, Costs
<1>3. Goal[2] \in DOMAIN Fields
  BY <1>1, InnerCall DEF IsCall
<1>4. CASE Is("{") /\ Continue(1, <<NoFields>>, <<<<"fields", Goal[2], TRUE>>>>)
  <2>1. pos + 1 <= Len(items)
    BY <1>1, <1>4, Looking DEF Inner, Is
  <2>2. PICK values : values = <<NoFields>>
    OBVIOUS
  <2>3. PICK a : a = <<"fields", Goal[2], TRUE>>
    OBVIOUS
  <2>4. IsSequence(values) /\ Len(values) = 1 /\ Continue(1, values, <<a>>)
    BY <1>4, <2>2, <2>3, Values
  <2>5. IsCall(a) /\ Takes(a) = 1 /\ Gives(a) = 0
    <3>1. a[1] = "fields"
      BY <1>1, <2>3
    <3> QED
      BY <1>3, <2>3, <3>1, Costs DEF IsCall
  <2>6. Takes(a) <= Takes(Goal) + Len(values)
    BY <1>2, <2>4, <2>5
  <2>7. Gives(Goal) = Len(values) + Gives(a)
    BY <1>2, <2>4, <2>5
  <2> QED
    BY <1>1, <2>1, <2>4, <2>5, <2>6, <2>7, Go1
<1>5. CASE Unexpected
  BY <1>5, ByRefusal DEF Unexpected
<1> QED
  BY <1>4, <1>5 DEF ParseBody

LEMMA FieldsSteps ==
  ASSUME AtWork, ParseFields
  PROVE  Steps
<1>1. Inner /\ Goal[1] = "fields"
  BY AtCall DEF ParseFields
<1>2. Takes(Goal) = 1 /\ Gives(Goal) = 0
  BY <1>1, Costs
<1>3. Goal[2] \in DOMAIN Fields
  BY <1>1, InnerCall DEF IsCall
<1>4. CASE Is("}") /\ Continue(1, <<>>, <<>>)
  <2>1. pos + 1 <= Len(items)
    BY <1>1, <1>4, Looking DEF Inner, Is
  <2>2. PICK values : values = <<>>
    OBVIOUS
  <2>3. IsSequence(values) /\ Len(values) = 0 /\ Continue(1, values, <<>>)
    BY <1>4, <2>2, Values
  <2> QED
    BY <1>1, <1>2, <2>1, <2>3, Go0
<1>5. CASE Continue(0, <<>>, <<<<"statement", Goal[2]>>, <<"fields", Goal[2], FALSE>>>>)
  <2>1. pos + 0 <= Len(items)
    BY <1>1, Looking DEF Inner
  <2>2. PICK values : values = <<>>
    OBVIOUS
  <2>3. PICK a, b : a = <<"statement", Goal[2]>> /\ b = <<"fields", Goal[2], FALSE>>
    OBVIOUS
  <2>4. IsSequence(values) /\ Len(values) = 0 /\ Continue(0, values, <<a, b>>)
    BY <1>5, <2>2, <2>3, Values
  <2>5. IsCall(a) /\ Takes(a) = 1 /\ Gives(a) = 0
    <3>1. a[1] = "statement"
      BY <1>1, <2>3
    <3> QED
      BY <1>3, <2>3, <3>1, Costs DEF IsCall
  <2>6. IsCall(b) /\ Takes(b) = 1 /\ Gives(b) = 0
    <3>1. b[1] = "fields"
      BY <1>1, <2>3
    <3> QED
      BY <1>3, <2>3, <3>1, Costs DEF IsCall
  <2>7. Takes(a) <= Takes(Goal) + Len(values)
    BY <1>2, <2>4, <2>5, <2>6
  <2>8. Takes(b) <= Takes(Goal) + Len(values) + Gives(a)
    BY <1>2, <2>4, <2>5, <2>6
  <2>9. Gives(Goal) = Len(values) + Gives(a) + Gives(b)
    BY <1>2, <2>4, <2>5, <2>6
  <2>10. IsCall(a) /\ IsCall(b)
    BY <2>5, <2>6
  <2>11. IsSequence(values) /\ Continue(0, values, <<a, b>>)
    BY <2>4
  <2> QED
    BY <1>1, <2>1, <2>10, <2>11, <2>7, <2>8, <2>9, Go2
<1>6. CASE Unexpected
  BY <1>6, ByRefusal DEF Unexpected
<1> QED
  BY <1>4, <1>5, <1>6 DEF ParseFields

LEMMA StatementErrors ==
  ASSUME NEW type, NEW word
  PROVE  /\ StatementError(type, word) \notin {"running", "ok"}
         /\ StatementError(type, word) = "none" =>
              Peek.kind \in KeyKinds /\ Named(type, word) \in DOMAIN Fields[type]
<1>1. Knows(type, word) => Named(type, word) \in DOMAIN Fields[type]
  BY DEF Knows, Named
<1>2. CASE Peek.kind \notin KeyKinds
  BY <1>2 DEF StatementError
<1>3. CASE Peek.kind \in KeyKinds /\ ~Knows(type, word)
  BY <1>3 DEF StatementError
<1>4. CASE Peek.kind \in KeyKinds /\ Knows(type, word)
  BY <1>1, <1>4 DEF StatementError
<1> QED
  BY <1>2, <1>3, <1>4

LEMMA StatementSteps ==
  ASSUME AtWork, ParseStatement
  PROVE  Steps
<1>1. Inner /\ Goal[1] = "statement"
  BY AtCall DEF ParseStatement
<1>2. Takes(Goal) = 1 /\ Gives(Goal) = 0
  BY <1>1, Costs
<1>3. Goal[2] \in DOMAIN Fields
  BY <1>1, InnerCall DEF IsCall
<1> DEFINE type  == Goal[2]
           error == StatementError(type, TextOf(Peek))
           f     == Named(type, TextOf(Peek))
<1>4. CASE error # "none" /\ Refuse(error)
  <2>1. error \notin {"running", "ok"}
    BY StatementErrors
  <2> QED
    BY <1>4, <2>1, ByRefusal
<1>5. ASSUME error = "none" PROVE Peek.kind \in KeyKinds /\ f \in DOMAIN Fields[type] /\ pos + 1 <= Len(items)
  <2>1. Peek.kind \in KeyKinds /\ f \in DOMAIN Fields[type]
    BY <1>5, StatementErrors
  <2> QED
    BY <1>1, <2>1, Looking DEF Inner, KeyKinds
<1>6. CASE error = "none" /\ Continue(1, <<Flag>>, <<<<"insert", type, f>>>>)
  <2>1. pos + 1 <= Len(items)
    BY <1>5, <1>6
  <2>2. PICK values : values = <<Flag>>
    OBVIOUS
  <2>3. PICK a : a = <<"insert", type, f>>
    OBVIOUS
  <2>4. IsSequence(values) /\ Len(values) = 1 /\ Continue(1, values, <<a>>)
    BY <1>6, <2>2, <2>3, Values
  <2>5. IsCall(a) /\ Takes(a) = 2 /\ Gives(a) = 0 - 1
    BY <2>3, Costs
  <2>6. Takes(a) <= Takes(Goal) + Len(values)
    BY <1>2, <2>4, <2>5
  <2>7. Gives(Goal) = Len(values) + Gives(a)
    BY <1>2, <2>4, <2>5
  <2> QED
    BY <1>1, <2>1, <2>4, <2>5, <2>6, <2>7, Go1
<1>7. CASE /\ error = "none" /\ Fields[type][f] # "flag"
           /\ Continue(IF Next2.kind = ":" THEN 2 ELSE 1, <<>>, <<ValueGoal(type, f), <<"insert", type, f>>>>)
  <2>a. PICK n \in Nat : n = (IF Next2.kind = ":" THEN 2 ELSE 1) /\ pos + n <= Len(items)
    BY <1>1, <1>5, <1>7, Looking DEF Inner
  <2>1. pos + n <= Len(items)
    BY <2>a
  <2>2. PICK values : values = <<>>
    OBVIOUS
  <2>3. PICK a, b : a = ValueGoal(type, f) /\ b = <<"insert", type, f>>
    OBVIOUS
  <2>4. IsSequence(values) /\ Len(values) = 0 /\ Continue(n, values, <<a, b>>)
    BY <1>7, <2>a, <2>2, <2>3, Values
  <2>5. IsCall(a) /\ Takes(a) = 0 /\ Gives(a) = 1
    BY <1>3, <1>5, <1>7, <2>3, ValueCall
  <2>6. IsCall(b) /\ Takes(b) = 2 /\ Gives(b) = 0 - 1
    BY <2>3, Costs
  <2>7. Takes(a) <= Takes(Goal) + Len(values)
    BY <1>2, <2>4, <2>5, <2>6
  <2>8. Takes(b) <= Takes(Goal) + Len(values) + Gives(a)
    BY <1>2, <2>4, <2>5, <2>6
  <2>9. Gives(Goal) = Len(values) + Gives(a) + Gives(b)
    BY <1>2, <2>4, <2>5, <2>6
  <2>10. IsCall(a) /\ IsCall(b)
    BY <2>5, <2>6
  <2>11. IsSequence(values) /\ Continue(n, values, <<a, b>>)
    BY <2>4
  <2> QED
    BY <1>1, <2>1, <2>10, <2>11, <2>7, <2>8, <2>9, Go2
<1> QED
  BY <1>4, <1>6, <1>7 DEF ParseStatement

LEMMA NestedSteps ==
  ASSUME AtWork, ParseNested
  PROVE  Steps
<1>1. Inner /\ Goal[1] = "nested"
  BY AtCall DEF ParseNested
<1>2. Takes(Goal) = 0 /\ Gives(Goal) = 1
  BY <1>1, Costs
<1>3. Goal[2] \in DOMAIN Fields
  BY <1>1, InnerCall DEF IsCall
<1> DEFINE t == Goal[2]
<1>4. CASE Continue(0, <<>>, <<<<"body", t>>>>)
  <2>1. pos + 0 <= Len(items)
    BY <1>1, Looking DEF Inner
  <2>2. PICK values : values = <<>>
    OBVIOUS
  <2>3. PICK a : a = <<"body", t>>
    OBVIOUS
  <2>4. IsSequence(values) /\ Len(values) = 0 /\ Continue(0, values, <<a>>)
    BY <1>4, <2>2, <2>3, Values
  <2>5. IsCall(a) /\ Takes(a) = 0 /\ Gives(a) = 1
    <3>1. a[1] = "body"
      BY <1>1, <2>3
    <3> QED
      BY <1>3, <2>3, <3>1, Costs DEF IsCall
  <2>6. Takes(a) <= Takes(Goal) + Len(values)
    BY <1>2, <2>4, <2>5
  <2>7. Gives(Goal) = Len(values) + Gives(a)
    BY <1>2, <2>4, <2>5
  <2> QED
    BY <1>1, <2>1, <2>4, <2>5, <2>6, <2>7, Go1
<1>5. CASE /\ t \in DOMAIN PrimaryField
           /\ Continue(0, <<NoFields>>, <<ValueGoal(t, PrimaryField[t]), <<"insert", t, PrimaryField[t]>>, <<"secondary", t>>>>)
  <2>a. PrimaryField[t] \in DOMAIN Fields[t] /\ Fields[t][PrimaryField[t]] # "flag"
    BY <1>5 DEF PrimaryField, Fields, BuildFields
  <2>1. pos + 0 <= Len(items)
    BY <1>1, Looking DEF Inner
  <2>2. PICK values : values = <<NoFields>>
    OBVIOUS
  <2>3. PICK a, b, c : a = ValueGoal(t, PrimaryField[t]) /\ b = <<"insert", t, PrimaryField[t]>> /\ c = <<"secondary", t>>
    OBVIOUS
  <2>4. IsSequence(values) /\ Len(values) = 1 /\ Continue(0, values, <<a, b, c>>)
    BY <1>5, <2>2, <2>3, Values
  <2>5. IsCall(a) /\ Takes(a) = 0 /\ Gives(a) = 1
    BY <1>3, <2>a, <2>3, ValueCall
  <2>6. IsCall(b) /\ Takes(b) = 2 /\ Gives(b) = 0 - 1
    BY <2>3, Costs
  <2>7. IsCall(c) /\ Takes(c) = 1 /\ Gives(c) = 0
    <3>1. c[1] = "secondary"
      BY <1>1, <2>3
    <3> QED
      BY <1>3, <2>3, <3>1, Costs DEF IsCall
  <2>8. Takes(a) <= Takes(Goal) + Len(values)
    BY <1>2, <2>4, <2>5, <2>6, <2>7
  <2>9. Takes(b) <= Takes(Goal) + Len(values) + Gives(a)
    BY <1>2, <2>4, <2>5, <2>6, <2>7
  <2>10. Takes(c) <= Takes(Goal) + Len(values) + Gives(a) + Gives(b)
    BY <1>2, <2>4, <2>5, <2>6, <2>7
  <2>11. Gives(Goal) = Len(values) + Gives(a) + Gives(b) + Gives(c)
    BY <1>2, <2>4, <2>5, <2>6, <2>7
  <2>12. IsCall(a) /\ IsCall(b) /\ IsCall(c)
    BY <2>5, <2>6, <2>7
  <2>13. IsSequence(values) /\ Continue(0, values, <<a, b, c>>)
    BY <2>4
  <2> QED
    BY <1>1, <2>1, <2>12, <2>13, <2>8, <2>9, <2>10, <2>11, Go3
<1>6. CASE Unexpected
  BY <1>6, ByRefusal DEF Unexpected
<1> QED
  BY <1>4, <1>5, <1>6 DEF ParseNested

LEMMA SecondarySteps ==
  ASSUME AtWork, ParseSecondary
  PROVE  Steps
<1>1. Inner /\ Goal[1] = "secondary"
  BY AtCall DEF ParseSecondary
<1>2. Takes(Goal) = 1 /\ Gives(Goal) = 0
  BY <1>1, Costs
<1>3. Goal[2] \in DOMAIN Fields
  BY <1>1, InnerCall DEF IsCall
<1>4. CASE Is(",") /\ Continue(1, <<>>, <<<<"statement", Goal[2]>>, Goal>>)
  <2>1. pos + 1 <= Len(items)
    BY <1>1, <1>4, Looking DEF Inner, Is
  <2>2. PICK values : values = <<>>
    OBVIOUS
  <2>3. PICK a, b : a = <<"statement", Goal[2]>> /\ b = Goal
    OBVIOUS
  <2>4. IsSequence(values) /\ Len(values) = 0 /\ Continue(1, values, <<a, b>>)
    BY <1>4, <2>2, <2>3, Values
  <2>5. IsCall(a) /\ Takes(a) = 1 /\ Gives(a) = 0
    <3>1. a[1] = "statement"
      BY <1>1, <2>3
    <3> QED
      BY <1>3, <2>3, <3>1, Costs DEF IsCall
  <2>6. IsCall(b) /\ Takes(b) = 1 /\ Gives(b) = 0
    <3>1. b[1] = "secondary"
      BY <1>1, <2>3
    <3> QED
      BY <1>3, <2>3, <3>1, Costs DEF IsCall
  <2>7. Takes(a) <= Takes(Goal) + Len(values)
    BY <1>2, <2>4, <2>5, <2>6
  <2>8. Takes(b) <= Takes(Goal) + Len(values) + Gives(a)
    BY <1>2, <2>4, <2>5, <2>6
  <2>9. Gives(Goal) = Len(values) + Gives(a) + Gives(b)
    BY <1>2, <2>4, <2>5, <2>6
  <2>10. IsCall(a) /\ IsCall(b)
    BY <2>5, <2>6
  <2>11. IsSequence(values) /\ Continue(1, values, <<a, b>>)
    BY <2>4
  <2> QED
    BY <1>1, <2>1, <2>10, <2>11, <2>7, <2>8, <2>9, Go2
<1>5. CASE Continue(0, <<>>, <<>>)
  <2>1. pos + 0 <= Len(items)
    BY <1>1, Looking DEF Inner
  <2>2. PICK values : values = <<>>
    OBVIOUS
  <2>3. IsSequence(values) /\ Len(values) = 0 /\ Continue(0, values, <<>>)
    BY <1>5, <2>2, Values
  <2> QED
    BY <1>1, <1>2, <2>1, <2>3, Go0
<1>6. CASE Refuse("RemovedExposeAsSugar")
  BY <1>6, ByRefusal
<1> QED
  BY <1>4, <1>5, <1>6 DEF ParseSecondary

LEMMA InsertSteps ==
  ASSUME AtWork, Insert
  PROVE  Steps
<1>1. Inner /\ Goal[1] = "insert"
  BY AtCall DEF Insert
<1>2. Takes(Goal) = 2 /\ Gives(Goal) = 0 - 1
  BY <1>1, Costs
<1>3. ASSUME NEW value, Replace(0, 2, value) PROVE Steps
  <2>1. pos + 0 <= Len(items)
    BY <1>1, Looking DEF Inner
  <2>2. 2 \in 0..Takes(Goal) /\ Gives(Goal) = 1 - 2
    BY <1>2
  <2> QED
    BY <1>1, <1>3, <2>1, <2>2, ByReplace
<1>4. CASE Refuse("DuplicateMapKey") \/ Refuse("DuplicateField")
  BY <1>4, ByRefusal
<1> QED
  BY <1>3, <1>4 DEF Insert

-------------------------------------------------------------------------------
(* The parameters of a template.                                           *)
LEMMA ParamsSteps ==
  ASSUME AtWork, ParseParams
  PROVE  Steps
<1>1. Inner /\ Goal[1] = "params"
  BY AtCall DEF ParseParams
<1>2. Takes(Goal) = 0 /\ Gives(Goal) = 1
  BY <1>1, Costs
<1>4. CASE Is("(") /\ Continue(1, <<Listed(<<>>)>>, <<<<"first", <<"param">>, ")">>, <<"scope">>>>)
  <2>1. pos + 1 <= Len(items)
    BY <1>1, <1>4, Looking DEF Inner, Is
  <2>2. PICK values : values = <<Listed(<<>>)>>
    OBVIOUS
  <2>3. PICK a, b : a = <<"first", <<"param">>, ")">> /\ b = <<"scope">>
    OBVIOUS
  <2>4. IsSequence(values) /\ Len(values) = 1 /\ Continue(1, values, <<a, b>>)
    BY <1>4, <2>2, <2>3, Values
  <2>5. IsCall(a) /\ Takes(a) = 1 /\ Gives(a) = 0
    <3>1. a[1] = "first"
      BY <1>1, <2>3
    <3> QED
      BY <2>3, <3>1, Costs DEF IsCall, IsItem
  <2>6. IsCall(b) /\ Takes(b) = 1 /\ Gives(b) = 0
    BY <2>3, Costs
  <2>7. Takes(a) <= Takes(Goal) + Len(values)
    BY <1>2, <2>4, <2>5, <2>6
  <2>8. Takes(b) <= Takes(Goal) + Len(values) + Gives(a)
    BY <1>2, <2>4, <2>5, <2>6
  <2>9. Gives(Goal) = Len(values) + Gives(a) + Gives(b)
    BY <1>2, <2>4, <2>5, <2>6
  <2>10. IsCall(a) /\ IsCall(b)
    BY <2>5, <2>6
  <2>11. IsSequence(values) /\ Continue(1, values, <<a, b>>)
    BY <2>4
  <2> QED
    BY <1>1, <2>1, <2>10, <2>11, <2>7, <2>8, <2>9, Go2
<1>5. CASE Continue(0, <<Listed(<<>>)>>, <<<<"scope">>>>)
  <2>1. pos + 0 <= Len(items)
    BY <1>1, Looking DEF Inner
  <2>2. PICK values : values = <<Listed(<<>>)>>
    OBVIOUS
  <2>3. PICK a : a = <<"scope">>
    OBVIOUS
  <2>4. IsSequence(values) /\ Len(values) = 1 /\ Continue(0, values, <<a>>)
    BY <1>5, <2>2, <2>3, Values
  <2>5. IsCall(a) /\ Takes(a) = 1 /\ Gives(a) = 0
    BY <2>3, Costs
  <2>6. Takes(a) <= Takes(Goal) + Len(values)
    BY <1>2, <2>4, <2>5
  <2>7. Gives(Goal) = Len(values) + Gives(a)
    BY <1>2, <2>4, <2>5
  <2>8. IsCall(a)
    BY <2>5
  <2>9. IsSequence(values) /\ Continue(0, values, <<a>>)
    BY <2>4
  <2> QED
    BY <1>1, <2>1, <2>6, <2>7, <2>8, <2>9, Go1
<1> QED
  BY <1>4, <1>5 DEF ParseParams

LEMMA ParamSteps ==
  ASSUME AtWork, ParseParam
  PROVE  Steps
<1>1. Inner /\ Goal[1] = "param"
  BY AtCall DEF ParseParam
<1>2. Takes(Goal) = 1 /\ Gives(Goal) = 1
  BY <1>1, Costs
<1>4. CASE Is("Ident") /\ Continue(1, <<Peek.lexeme>>, <<>>)
  <2>1. pos + 1 <= Len(items)
    BY <1>1, <1>4, Looking DEF Inner, Is
  <2>2. PICK values : values = <<Peek.lexeme>>
    OBVIOUS
  <2>3. IsSequence(values) /\ Len(values) = 1 /\ Continue(1, values, <<>>)
    BY <1>4, <2>2, Values
  <2> QED
    BY <1>1, <1>2, <2>1, <2>3, Go0
<1>5. CASE Unexpected \/ Refuse("DuplicateTemplateParam")
  BY <1>5, ByRefusal DEF Unexpected
<1> QED
  <2>1. CASE Is("Ident")
    BY <1>4, <1>5, <2>1 DEF ParseParam
  <2>2. CASE ~Is("Ident")
    BY <1>5, <2>2 DEF ParseParam
  <2> QED
    BY <2>1, <2>2

LEMMA ScopeSteps ==
  ASSUME AtWork, OpenScope
  PROVE  Steps
<1>1. Inner /\ Goal[1] = "scope"
  BY AtCall DEF OpenScope
<1>2. Gives(Goal) = 0
  BY <1>1, Costs
<1>3. IsSequence(built) /\ Len(built) \in Nat
  BY <1>1, InnerCall
<1>4. \A open : Parsing(Tail(todo), built, open)
  <2>1. Len(built) = Len(built) + Gives(Goal)
    BY <1>2, <1>3
  <2> QED
    BY <1>1, <1>3, <2>1, InnerCall
<1>5. pos' \in pos..Len(items)
  BY LenProperties DEF AtWork, OpenScope
<1> QED
  BY <1>4, <1>5 DEF Steps, GoesOn, OpenScope

-------------------------------------------------------------------------------
(* Declarations.                                                           *)

(* A call that is none of a declaration's own, and what is built then.     *)
LEMMA Outer ==
  ASSUME NEW calls, NEW values, NEW inTemplate, Parsing(calls, values, inTemplate),
         calls[1][1] \in {"program", "use", "declare"}
  PROVE  /\ calls[1][1] = "program" => calls = <<<<"program">>>>
         /\ calls[1][1] = "use" => calls = <<<<"use">>, <<"program">>>>
         /\ calls[1][1] \in {"program", "use"} => values = <<>> /\ ~inTemplate
         /\ calls[1][1] = "declare" => calls = <<calls[1], <<"program">>>> /\ Len(values) = Takes(calls[1])
<1>1. CASE calls \in {<<<<"program">>>>, <<<<"use">>, <<"program">>>>} /\ values = <<>> /\ ~inTemplate
  BY <1>1
<1>2. ASSUME NEW inner, NEW end, calls = inner \o <<end, <<"program">>>>, end[1] = "declare",
             Runs(inner, Len(values), Takes(end))
      PROVE  calls = <<end, <<"program">>>> /\ Len(values) = Takes(end)
  <2>1. PICK outer : outer = <<end, <<"program">>>>
    OBVIOUS
  <2>2. IsSequence(inner) /\ IsSequence(outer) /\ IsSequence(values) /\ calls = inner \o outer
    BY <1>2, <2>1, OwnPair DEF Runs, Parsing, IsSequence
  <2>3. inner = <<>>
    <3> SUFFICES ASSUME inner # <<>> PROVE FALSE
      OBVIOUS
    <3>1. calls[1] = inner[1]
      BY <2>2, TailBefore
    <3>2. IsCall(inner[1])
      BY <1>2, <2>2, Amounts, SizeOf, RunsFirst
    <3> QED
      BY <3>1, <3>2 DEF IsCall
  <2>4. Len(values) = Takes(end)
    BY <1>2, <2>3 DEF Runs
  <2>5. <<>> \o outer = outer
    BY <2>1
  <2> QED
    BY <2>1, <2>2, <2>3, <2>4, <2>5
<1>3. ASSUME NEW inner, NEW end, calls = inner \o <<end, <<"program">>>>, end[1] = "declare",
             Runs(inner, Len(values), Takes(end))
      PROVE  /\ calls[1] = end /\ calls = <<calls[1], <<"program">>>> /\ Len(values) = Takes(calls[1])
  <2>1. calls = <<end, <<"program">>>> /\ Len(values) = Takes(end)
    BY <1>3, <1>2
  <2> QED
    BY <2>1
<1> QED
  BY <1>1, <1>3 DEF Parsing

(* The body of a declaration, before it the parameters of a template, and  *)
(* after it the declaration.                                               *)
LEMMA Declaring ==
  ASSUME NEW values, IsSequence(values), Len(values) = 1, NEW type \in TopLevel \cup {"template"},
         NEW body, body = <<"body", type>>, NEW end, end = <<"declare", type>>, NEW open
  PROVE  /\ type # "template" => Parsing(<<body, end, <<"program">>>>, values, open)
         /\ type = "template" => Parsing(<<<<"params">>, body, end, <<"program">>>>, values, open)
<1>1. IsCall(body) /\ Takes(body) = 0 /\ Gives(body) = 1
  <2>1. body[1] = "body" /\ body[2] = type
    OBVIOUS
  <2>2. type \in DOMAIN Fields
    BY DEF TopLevel, Fields
  <2>3. IsCall(body)
    BY <2>1, <2>2 DEF IsCall
  <2> QED
    BY <2>1, <2>3, Costs
<1>2. Takes(end) = IF type = "template" THEN 3 ELSE 2
  BY DEF Takes
<1>3. PICK params : params = <<"params">>
  OBVIOUS
<1>4. IsCall(params) /\ Takes(params) = 0 /\ Gives(params) = 1
  <2>1. params[1] = "params"
    BY <1>3
  <2> QED
    BY <2>1, Costs
<1>5. ASSUME type # "template" PROVE Parsing(<<body, end, <<"program">>>>, values, open)
  <2>1. Runs(<<body>>, 1, 2)
    BY <1>1, RunsOne
  <2>2. <<body, end, <<"program">>>> = <<body>> \o <<end, <<"program">>>>
    OBVIOUS
  <2>3. Runs(<<body>>, Len(values), Takes(end))
    BY <2>1, <1>2, <1>5
  <2> QED
    BY <2>2, <2>3 DEF Parsing
<1>6. ASSUME type = "template" PROVE Parsing(<<params, body, end, <<"program">>>>, values, open)
  <2>1. Runs(<<params, body>>, 1, 3)
    BY <1>1, <1>4, RunsTwo
  <2>2. <<params, body, end, <<"program">>>> = <<params, body>> \o <<end, <<"program">>>>
    OBVIOUS
  <2>3. Runs(<<params, body>>, Len(values), Takes(end))
    BY <2>1, <1>2, <1>6
  <2> QED
    BY <2>2, <2>3 DEF Parsing
<1> QED
  BY <1>3, <1>5, <1>6

LEMMA TopDeclErrors ==
  /\ TopDeclError \notin {"running", "ok"}
  /\ TopDeclError = "none" => Peek.kind # "Eof" /\ (~Word("use") => Next2.kind # "Eof")
BY DEF TopDeclError, Is

LEMMA TopDeclSteps ==
  ASSUME AtWork, ParseTopDecl
  PROVE  Steps
<1>1. Goal[1] = "program"
  BY DEF ParseTopDecl, At, Goal
<1>2. todo = <<<<"program">>>> /\ built = <<>> /\ ~scope.open
  BY <1>1, Outer DEF AtWork, Goal
<1>3. Tail(todo) = <<>>
  BY <1>2
<1>4. CASE TopDeclError # "none" /\ Refuse(TopDeclError)
  BY <1>4, TopDeclErrors, ByRefusal
<1>5. CASE Continue(0, <<>>, <<<<"use">>, <<"program">>>>)
  <2>1. pos' = pos + 0 /\ built' = built \o <<>> /\ todo' = <<<<"use">>, <<"program">>>> \o Tail(todo)
        /\ UNCHANGED <<scope, outcome>>
    BY <1>5 DEF Continue
  <2>2. built' = <<>> /\ todo' = <<<<"use">>, <<"program">>>>
    BY <2>1, <1>2, <1>3
  <2>3. pos' \in pos..Len(items)
    BY <2>1, LenProperties DEF AtWork
  <2>4. IsSequence(<<>>)
    BY Values
  <2> QED
    BY <1>2, <2>1, <2>2, <2>3, <2>4 DEF Steps, GoesOn, Parsing
<1>6. ASSUME NEW type \in TopLevel \cup {"template"}, NEW goals, Next2.kind # "Eof",
             goals = IF type = "template" THEN <<<<"params">>>> ELSE <<>>,
             Continue(2, <<Key(Next2)>>, goals \o <<<<"body", type>>, <<"declare", type>>, <<"program">>>>)
      PROVE  Steps
  <2>1. PICK body, end : body = <<"body", type>> /\ end = <<"declare", type>>
    OBVIOUS
  <2>2. PICK values : values = <<Key(Next2)>>
    OBVIOUS
  <2>3. IsSequence(values) /\ Len(values) = 1
    BY <2>2, Values
  <2>4. pos' = pos + 2 /\ built' = built \o values
        /\ todo' = (goals \o <<body, end, <<"program">>>>) \o Tail(todo)
        /\ UNCHANGED <<scope, outcome>>
    BY <1>6, <2>1, <2>2 DEF Continue
  <2>5. pos' \in pos..Len(items)
    <3>1. pos + 2 <= Len(items)
      BY <1>6, Looking
    <3>2. pos \in Int /\ Len(items) \in Int
      BY LenProperties DEF AtWork, EndsInEof, IsSequence
    <3> QED
      BY <2>4, <3>1, <3>2
  <2>6. built' = values
    <3>1. <<>> \o values = values
      BY <2>2
    <3> QED
      BY <3>1, <2>4, <1>2
  <2>7. CASE type # "template"
    <3>a. PICK p : p = <<"program">>
      OBVIOUS
    <3>b. <<>> \o <<body, end, p>> = <<body, end, p>> /\ <<body, end, p>> \o <<>> = <<body, end, p>>
      OBVIOUS
    <3>c. goals = <<>> /\ todo' = (goals \o <<body, end, p>>) \o <<>>
      BY <2>4, <1>3, <1>6, <2>7, <3>a
    <3>1. todo' = <<body, end, <<"program">>>>
      BY <3>a, <3>b, <3>c
    <3> QED
      BY <2>1, <2>3, <2>4, <2>5, <2>6, <2>7, <3>1, Declaring DEF Steps, GoesOn
  <2>8. CASE type = "template"
    <3>a. PICK p, params : p = <<"program">> /\ params = <<"params">>
      OBVIOUS
    <3>b. <<params>> \o <<body, end, p>> = <<params, body, end, p>>
      <4>1. PICK u, t : u = <<params, body, end, p>> /\ t = <<body, end, p>>
        OBVIOUS
      <4>2. u \in Seq({params, body, end, p}) /\ t \in Seq({body, end, p})
        BY <4>1
      <4>3. IsSequence(u) /\ IsSequence(t)
        BY <4>2, OwnElements DEF IsSequence
      <4>4. u[1] = params /\ Len(u) = Len(t) + 1 /\ \A i \in 1..Len(t) : u[i + 1] = t[i]
        BY <4>1
      <4>5. PICK s : s = <<u[1]>> /\ s \o t = u
        BY <4>3, <4>4, Prepended
      <4> QED
        BY <4>1, <4>4, <4>5
    <3>d. <<params, body, end, p>> \o <<>> = <<params, body, end, p>>
      OBVIOUS
    <3>c. goals = <<params>> /\ todo' = (goals \o <<body, end, p>>) \o <<>>
      BY <2>4, <1>3, <1>6, <2>8, <3>a
    <3>1. todo' = <<<<"params">>, body, end, <<"program">>>>
      BY <3>a, <3>b, <3>c, <3>d
    <3> QED
      BY <2>1, <2>3, <2>4, <2>5, <2>6, <2>8, <3>1, Declaring DEF Steps, GoesOn
  <2> QED
    BY <2>7, <2>8
<1>7. CASE TopDeclError = "none" /\ Word("template")
           /\ Continue(2, <<Key(Next2)>>, <<<<"params">>>> \o <<<<"body", "template">>, <<"declare", "template">>, <<"program">>>>)
  <2>1. Next2.kind # "Eof"
    BY <1>7, TopDeclErrors DEF Word
  <2> QED
    BY <1>6, <1>7, <2>1
<1>8. ASSUME NEW type \in TopLevel, TopDeclError = "none", Word(type),
             Continue(2, <<Key(Next2)>>, <<>> \o <<<<"body", type>>, <<"declare", type>>, <<"program">>>>)
      PROVE  Steps
  <2>1. type # "template" /\ type # "use"
    BY DEF TopLevel
  <2>2. ~Word("use")
    BY <1>8, <2>1 DEF Word
  <2>3. Next2.kind # "Eof"
    BY <1>8, <2>2, TopDeclErrors
  <2> QED
    BY <1>6, <1>8, <2>1, <2>3
<1> QED
  BY <1>4, <1>5, <1>7, <1>8 DEF ParseTopDecl

LEMMA UseSteps ==
  ASSUME AtWork, ParseUse
  PROVE  Steps
<1>1. Goal[1] = "use"
  BY DEF ParseUse, At, Goal
<1>2. todo = <<<<"use">>, <<"program">>>> /\ built = <<>> /\ ~scope.open
  BY <1>1, Outer DEF AtWork, Goal
<1>3. CASE Unexpected
  BY <1>3, ByRefusal DEF Unexpected
<1>4. CASE /\ Token(pos + 3).kind = "Ident" /\ pos' = pos + 4 /\ todo' = Tail(todo)
           /\ UNCHANGED <<built, scope, outcome>>
  <2>1. pos' \in pos..Len(items)
    <3>1. pos + 4 <= Len(items)
      BY <1>4, Looking
    <3>2. pos \in Int /\ Len(items) \in Int
      BY LenProperties DEF AtWork, EndsInEof, IsSequence
    <3> QED
      BY <1>4, <3>1, <3>2
  <2>2. todo' = <<<<"program">>>> /\ IsSequence(<<>>)
    <3>1. PICK a, b : a = <<"use">> /\ b = <<"program">>
      OBVIOUS
    <3>2. todo' = Tail(<<a, b>>) /\ Tail(<<a, b>>) = <<b>>
      BY <3>1, <1>2, <1>4
    <3> QED
      BY <3>1, <3>2, Values
  <2> QED
    BY <1>2, <1>4, <2>1, <2>2 DEF Steps, GoesOn, Parsing
<1> QED
  BY <1>3, <1>4 DEF ParseUse

LEMMA FinishDeclSteps ==
  ASSUME AtWork, FinishDecl
  PROVE  Steps
<1>1. Goal[1] = "declare"
  BY DEF FinishDecl, At, Goal
<1>2. todo = <<Goal, <<"program">>>>
  BY <1>1, Outer DEF AtWork, Goal
<1>3. Tail(todo) = <<<<"program">>>>
  <2>1. PICK g : g = Goal
    OBVIOUS
  <2> QED
    BY <1>2, <2>1
<1>4. pos' \in pos..Len(items)
  BY LenProperties DEF AtWork, FinishDecl
<1>5. IsSequence(<<>>)
  BY Values
<1> QED
  BY <1>3, <1>4, <1>5 DEF Steps, GoesOn, Parsing, FinishDecl, Outside

(* The call being made finds what it takes.                                *)
LEMMA FindsWhatItTakes ==
  ASSUME NEW calls, NEW values, NEW inTemplate, Parsing(calls, values, inTemplate)
  PROVE  Takes(calls[1]) <= Len(values)
<1>1. CASE calls[1][1] \in {"program", "use"}
  <2>1. values = <<>>
    BY <1>1, Outer
  <2>2. Takes(calls[1]) = 0
    BY <1>1 DEF Takes
  <2> QED
    BY <2>1, <2>2
<1>2. CASE calls[1][1] = "declare"
  <2>1. Len(values) = Takes(calls[1])
    BY <1>2, Outer
  <2>2. Takes(calls[1]) \in Nat
    BY Amounts
  <2> QED
    BY <2>1, <2>2
<1>3. ASSUME calls[1][1] \notin {"program", "use", "declare"}, NEW inner, NEW end,
             calls = inner \o <<end, <<"program">>>>, end[1] = "declare", Runs(inner, Len(values), Takes(end))
      PROVE  Takes(calls[1]) <= Len(values)
  <2>1. PICK outer : outer = <<end, <<"program">>>>
    OBVIOUS
  <2>2. IsSequence(inner) /\ IsSequence(outer) /\ IsSequence(values) /\ calls = inner \o outer
    BY <1>3, <2>1, OwnPair DEF Runs, Parsing, IsSequence
  <2>3. inner # <<>>
    <3> SUFFICES ASSUME inner = <<>> PROVE FALSE
      OBVIOUS
    <3>1. calls[1] = end
      BY <1>3
    <3> QED
      BY <3>1, <1>3
  <2>4. calls[1] = inner[1]
    BY <2>2, <2>3, TailBefore
  <2>5. Len(values) \in Nat /\ Takes(end) \in Nat
    BY <2>2, SizeOf, Amounts
  <2> QED
    BY <1>3, <2>3, <2>4, <2>5, RunsFirst
<1>4. CASE calls \in {<<<<"program">>>>, <<<<"use">>, <<"program">>>>}
  <2>1. calls[1][1] \in {"program", "use"}
    BY <1>4
  <2> QED
    BY <2>1, <1>1
<1>5. CASE \E inner, end :
             /\ calls = inner \o <<end, <<"program">>>> /\ end[1] = "declare"
             /\ Runs(inner, Len(values), Takes(end))
  BY <1>1, <1>2, <1>3, <1>5
<1> QED
  BY <1>4, <1>5 DEF Parsing

-------------------------------------------------------------------------------
(* A step of the parser that neither ends it nor is refused.               *)
ParseSome ==
  \/ ParseLiteral \/ ParseFieldAccess \/ ParseReference \/ RejectFieldAccess
  \/ ParseFirst \/ ParseMore \/ ParseRest \/ Add \/ ParseListValue \/ ParseScalarOrList
  \/ ParseDependency \/ ParseCondition \/ ParseInvocation \/ Pair
  \/ ParseMap \/ ParseMapBody \/ ParseSeparated \/ ParseEntry \/ ParseSeparator \/ ParseReadOnly
  \/ ParseRawValue \/ ParseRawMap \/ AddRawPair
  \/ ParseBody \/ ParseFields \/ ParseStatement \/ ParseNested \/ ParseSecondary \/ Insert
  \/ ParseTopDecl \/ ParseUse \/ ParseParams \/ ParseParam \/ OpenScope \/ FinishDecl

LEMMA SomeSteps ==
  ASSUME AtWork, ParseSome
  PROVE  Steps
<1>1. CASE ParseLiteral \/ ParseFieldAccess \/ ParseReference \/ RejectFieldAccess
  BY <1>1, LiteralSteps, AccessSteps, ReferenceSteps, RejectSteps
<1>2. CASE ParseFirst \/ ParseMore \/ ParseRest \/ Add \/ ParseListValue \/ ParseScalarOrList
  BY <1>2, FirstSteps, MoreSteps, RestSteps, AddSteps, ListSteps, ScalarOrListSteps
<1>3. CASE ParseDependency \/ ParseCondition \/ ParseInvocation \/ Pair
  BY <1>3, DependencySteps, ConditionSteps, InvocationSteps, PairSteps
<1>4. CASE ParseMap \/ ParseMapBody \/ ParseSeparated \/ ParseEntry \/ ParseSeparator \/ ParseReadOnly
  BY <1>4, MapSteps, MapBodySteps, SeparatedSteps, EntrySteps, SeparatorSteps, ReadOnlySteps
<1>5. CASE ParseRawValue \/ ParseRawMap \/ AddRawPair
  BY <1>5, RawValueSteps, RawMapSteps, AddRawPairSteps
<1>6. CASE ParseBody \/ ParseFields \/ ParseStatement \/ ParseNested \/ ParseSecondary \/ Insert
  BY <1>6, BodySteps, FieldsSteps, StatementSteps, NestedSteps, SecondarySteps, InsertSteps
<1>7. CASE ParseTopDecl \/ ParseUse \/ ParseParams \/ ParseParam \/ OpenScope \/ FinishDecl
  BY <1>7, TopDeclSteps, UseSteps, ParamsSteps, ParamSteps, ScopeSteps, FinishDeclSteps
<1> QED
  BY <1>1, <1>2, <1>3, <1>4, <1>5, <1>6, <1>7 DEF ParseSome

(* Only a text that was scanned to its end is parsed, and only while no    *)
(* answer is given.                                                        *)
LEMMA ParseWhen ==
  ASSUME Parse
  PROVE  /\ lexed /\ outcome = "running"
         /\ \/ errors = <<>> /\ (ParseSome \/ FinishProgram)
            \/ Refuse("Lex")
<1>1. CASE RefuseText
  BY <1>1 DEF RefuseText
<1>2. CASE FinishProgram
  BY <1>2 DEF FinishProgram, At
<1>3. CASE ParseLiteral \/ ParseFieldAccess \/ ParseReference \/ RejectFieldAccess
  BY <1>3 DEF ParseSome, ParseLiteral, ParseFieldAccess, ParseReference, RejectFieldAccess, At
<1>4. CASE ParseFirst \/ ParseMore \/ ParseRest \/ Add \/ ParseListValue \/ ParseScalarOrList
  BY <1>4 DEF ParseSome, ParseFirst, ParseMore, ParseRest, Add, ParseListValue, ParseScalarOrList, At
<1>5. CASE ParseDependency \/ ParseCondition \/ ParseInvocation \/ Pair
  BY <1>5 DEF ParseSome, ParseDependency, ParseCondition, ParseInvocation, Pair, At
<1>6. CASE ParseMap \/ ParseMapBody \/ ParseSeparated \/ ParseEntry \/ ParseSeparator \/ ParseReadOnly
  BY <1>6 DEF ParseSome, ParseMap, ParseMapBody, ParseSeparated, ParseEntry, ParseSeparator, ParseReadOnly, At
<1>7. CASE ParseRawValue \/ ParseRawMap \/ AddRawPair
  BY <1>7 DEF ParseSome, ParseRawValue, ParseRawMap, AddRawPair, At
<1>8. CASE ParseBody \/ ParseFields \/ ParseStatement \/ ParseNested \/ ParseSecondary \/ Insert
  BY <1>8 DEF ParseSome, ParseBody, ParseFields, ParseStatement, ParseNested, ParseSecondary, Insert, At
<1>9. CASE ParseTopDecl \/ ParseUse \/ ParseParams \/ ParseParam \/ OpenScope \/ FinishDecl
  BY <1>9 DEF ParseSome, ParseTopDecl, ParseUse, ParseParams, ParseParam, OpenScope, FinishDecl, At
<1> QED
  BY <1>1, <1>2, <1>3, <1>4, <1>5, <1>6, <1>7, <1>8, <1>9 DEF Parse

-------------------------------------------------------------------------------
(* The lexer marks the end of the text with the last token, and only there.*)
Scanned ==
  /\ IsSequence(items)
  /\ lexed => items # <<>>
  /\ \A i \in 1..Len(items) : items[i].kind = "Eof" <=> lexed /\ i = Len(items)

(* The parser waits for the lexer; and while it is at work its calls find  *)
(* what they take.                                                         *)
InOrder ==
  /\ Scanned
  /\ IF lexed THEN pos \in 1..Len(items) ELSE pos = 1 /\ outcome = "running"
  /\ outcome = "running" => Parsing(todo, built, scope.open)
  /\ outcome = "ok" => Len(todo) = 1 /\ built = <<>> /\ ~scope.open

LEMMA Emitting ==
  ASSUME Scanned, ~lexed, NEW item, items' = Append(items, item), item.kind = "Eof" <=> lexed'
  PROVE  Scanned' /\ Len(items') \in Nat \ {0}
<1>1. /\ IsSequence(items') /\ Len(items) \in Nat /\ Len(items') = Len(items) + 1
      /\ items'[Len(items')] = item /\ \A i \in 1..Len(items) : items'[i] = items[i]
  <2>1. PICK next : next = Append(items, item)
    OBVIOUS
  <2>2. /\ next \in Seq(ToSet(next)) /\ ToSet(next) = ToSet(items) \cup {item}
        /\ Len(items) \in Nat
        /\ Len(next) = Len(items) + 1
    BY <2>1, OwnAppend, OwnElements, LenProperties DEF Scanned, IsSequence
  <2>3. next[Len(next)] = item /\ \A i \in 1..Len(items) : next[i] = items[i]
    BY <2>1, <2>2, AppendProperties DEF Scanned, IsSequence
  <2> QED
    BY <2>1, <2>2, <2>3 DEF IsSequence
<1>2. ASSUME NEW i \in 1..Len(items') PROVE items'[i].kind = "Eof" <=> lexed' /\ i = Len(items')
  <2>1. CASE i = Len(items')
    BY <2>1, <1>1
  <2>2. CASE i # Len(items')
    <3>1. i \in 1..Len(items)
      BY <2>2, <1>1
    <3>2. items'[i] = items[i]
      BY <3>1, <1>1
    <3>3. items[i].kind # "Eof"
      BY <3>1 DEF Scanned
    <3> QED
      BY <2>2, <3>2, <3>3
  <2> QED
    BY <2>1, <2>2
<1>3. items' # <<>>
  <2>1. Len(items') # 0
    BY <1>1
  <2> QED
    BY <2>1
<1> QED
  BY <1>1, <1>2, <1>3 DEF Scanned, IsSequence

LEMMA EmitScans ==
  ASSUME Scanned, ~lexed, NEW kind, kind # "Eof", NEW lexeme, NEW to, Emit(kind, lexeme, to)
  PROVE  Scanned' /\ ~lexed'
<1>1. PICK item : item = [kind |-> kind, lexeme |-> lexeme, span |-> Span(Start, to)]
  OBVIOUS
<1>2. item.kind = kind /\ items' = Append(items, item) /\ lexed' = lexed
  BY <1>1 DEF Emit
<1> QED
  BY <1>2, Emitting

LEMMA ReportScans ==
  ASSUME Scanned, ~lexed, NEW error, NEW span, NEW to, Report(error, span, to)
  PROVE  Scanned' /\ ~lexed'
BY DEF Report, Scanned

LEMMA NextTokenScans ==
  ASSUME Scanned, NextToken
  PROVE  ~lexed /\ Scanned' /\ (lexed' => Len(items') \in Nat \ {0})
<1>1. ~lexed
  BY DEF NextToken, ScanPunctuation, ScanArrow, ScanNumber, ScanIdent, ScanString, RefuseCharacter, EndOfFile,
         AtCharacter
<1>2. CASE ScanPunctuation
  <2>1. First # "Eof" /\ Emit(First, <<First>>, Next1)
    BY <1>2 DEF ScanPunctuation, Punctuation
  <2> QED
    BY <1>1, <2>1, EmitScans
<1>3. CASE ScanArrow
  BY <1>1, <1>3, EmitScans, ReportScans DEF ScanArrow
<1>4. CASE ScanNumber
  BY <1>1, <1>4, EmitScans DEF ScanNumber
<1>5. CASE ScanIdent
  BY <1>1, <1>5, EmitScans DEF ScanIdent
<1>6. CASE ScanString
  BY <1>1, <1>6, EmitScans, ReportScans DEF ScanString
<1>7. CASE RefuseCharacter
  BY <1>1, <1>7, ReportScans DEF RefuseCharacter
<1>8. CASE EndOfFile
  <2>1. PICK item : item = [kind |-> "Eof", lexeme |-> <<>>, span |-> Span(Start, Start)]
    OBVIOUS
  <2>2. item.kind = "Eof" /\ items' = Append(items, item) /\ lexed'
    BY <1>8, <2>1 DEF EndOfFile
  <2> QED
    BY <1>1, <2>2, Emitting
<1> QED
  BY <1>1, <1>2, <1>3, <1>4, <1>5, <1>6, <1>7, <1>8 DEF NextToken

LEMMA InOrderInit ==
  ASSUME Init
  PROVE  InOrder
<1>1. /\ items = <<>> /\ ~lexed /\ pos = 1 /\ outcome = "running"
      /\ todo = <<<<"program">>>> /\ built = <<>> /\ ~scope.open
  BY DEF Init, LexInit, ParserInit, Outside
<1>2. IsSequence(<<>>) /\ Len(<<>>) = 0
  BY Values
<1> QED
  BY <1>1, <1>2 DEF InOrder, Scanned, Parsing

LEMMA InOrderNext ==
  ASSUME InOrder, [Next]_vars
  PROVE  InOrder'
<1>1. CASE UNCHANGED vars
  BY <1>1 DEF InOrder, Scanned, Parsing, vars, lexVars, parserVars
<1>2. CASE NextToken /\ UNCHANGED <<parserVars, written>>
  <2>1. ~lexed /\ Scanned' /\ (lexed' => Len(items') \in Nat \ {0})
    BY <1>2, NextTokenScans DEF InOrder
  <2>2. pos' = 1 /\ outcome' = "running" /\ todo' = todo /\ built' = built /\ scope' = scope
    BY <1>2, <2>1 DEF InOrder, parserVars
  <2>3. Parsing(todo', built', scope'.open)
    BY <2>2, <1>2 DEF InOrder, parserVars
  <2>4. lexed' => pos' \in 1..Len(items')
    BY <2>1, <2>2
  <2> QED
    BY <2>1, <2>2, <2>3, <2>4 DEF InOrder
<1>3. CASE Parse /\ UNCHANGED <<lexVars, written>>
  <2>1. lexed /\ outcome = "running" /\ lexed' = lexed /\ items' = items /\ errors' = errors
    BY <1>3, ParseWhen DEF lexVars
  <2>2. Scanned' /\ pos \in 1..Len(items)
    BY <2>1 DEF InOrder, Scanned
  <2>3. ASSUME NEW error, error \notin {"running", "ok"}, Refuse(error) PROVE InOrder'
    <3>1. pos' = pos /\ outcome' = error
      BY <2>3 DEF Refuse
    <3> QED
      BY <2>1, <2>2, <2>3, <3>1 DEF InOrder
  <2>4. ASSUME errors = <<>> PROVE AtWork
    <3>1. EndsInEof
      BY <2>1 DEF InOrder, Scanned, EndsInEof
    <3> QED
      BY <2>1, <2>2, <2>4, <3>1 DEF AtWork, InOrder
  <2>5. CASE errors = <<>> /\ ParseSome
    <3>1. Steps
      BY <2>4, <2>5, SomeSteps
    <3>2. CASE GoesOn
      <4>1. pos' \in 1..Len(items') /\ outcome' = "running" /\ Parsing(todo', built', scope'.open)
        BY <3>2, <2>1, <2>2, LenProperties DEF GoesOn, InOrder, Scanned, IsSequence
      <4> QED
        BY <2>1, <2>2, <4>1 DEF InOrder
    <3> QED
      BY <3>1, <3>2, <2>3 DEF Steps
  <2>6. CASE errors = <<>> /\ FinishProgram
    <3>1. Goal[1] = "program" /\ outcome' = "ok" /\ UNCHANGED <<pos, todo, built, scope>>
      BY <2>6 DEF FinishProgram, At, Goal
    <3>2. todo = <<<<"program">>>> /\ built = <<>> /\ ~scope.open
      BY <2>4, <2>6, <3>1, Outer DEF AtWork, Goal
    <3>3. Len(todo) = 1
      BY <3>2
    <3> QED
      BY <2>1, <2>2, <3>1, <3>2, <3>3 DEF InOrder
  <2> QED
    BY <1>3, <2>3, <2>5, <2>6, ParseWhen
<1> QED
  BY <1>1, <1>2, <1>3 DEF Next

LEMMA InOrderGives ==
  ASSUME InOrder
  PROVE  TypeOK
<1>1. lexed => items[Len(items)].kind = "Eof"
  BY EmptySeq, LenProperties DEF InOrder, Scanned, IsSequence
<1>2. outcome = "running" => Len(built) >= Takes(todo[1])
  <2>1. outcome = "running" => Takes(todo[1]) <= Len(built) /\ Len(built) \in Nat /\ Takes(todo[1]) \in Nat
    BY FindsWhatItTakes, SizeOf, Amounts DEF InOrder, Parsing
  <2> QED
    BY <2>1
<1> QED
  BY <1>1, <1>2 DEF InOrder, TypeOK

(* The parser only looks at tokens the lexer made, and never past the end; *)
(* whatever the text, each call of the recursive descent finds the values  *)
(* it takes, and an accepted text leaves none and no template open.        *)
THEOREM CallsFindTheirValues == Spec => []TypeOK
<1>1. Init => InOrder
  BY InOrderInit
<1>2. InOrder /\ [Next]_vars => InOrder'
  BY InOrderNext
<1>3. InOrder => TypeOK
  BY InOrderGives
<1> QED
  BY <1>1, <1>2, <1>3, PTL DEF Spec

-------------------------------------------------------------------------------
(* Places.  That of the k-th character, by the three counts.               *)
PlaceOf(k) == [at |-> k, byte |-> ByteAt(k), line |-> LineAt(k), col |-> ColumnAt(k)]

Count(t, S, k) == Cardinality({i \in 1..(k - 1) : t[i] \in S})

LEMMA Counted ==
  ASSUME NEW t, NEW S, NEW k \in Nat \ {0}
  PROVE  /\ Count(t, S, k) \in Nat
         /\ Count(t, S, k + 1) = Count(t, S, k) + IF t[k] \in S THEN 1 ELSE 0
         /\ Count(t, S, 1) = 0
<1> DEFINE before == {i \in 1..(k - 1) : t[i] \in S}
<1>1. IsFiniteSet(before) /\ Cardinality(before) \in Nat
  <2>1. IsFiniteSet(1..(k - 1)) /\ before \in SUBSET (1..(k - 1))
    BY FS_Interval
  <2> HIDE DEF before
  <2> QED
    BY <2>1, FS_Subset, FS_CardinalityType
<1>2. {i \in 1..((k + 1) - 1) : t[i] \in S} = IF t[k] \in S THEN before \cup {k} ELSE before
  OBVIOUS
<1>3. k \notin before
  OBVIOUS
<1>4. Cardinality(before \cup {k}) = Cardinality(before) + 1
  <2> HIDE DEF before
  <2> QED
    BY <1>1, <1>3, FS_AddElement
<1>5. Count(t, S, k + 1) = Count(t, S, k) + IF t[k] \in S THEN 1 ELSE 0
  <2>1. CASE t[k] \in S
    BY <2>1, <1>2, <1>4 DEF Count
  <2>2. CASE t[k] \notin S
    <3>1. Count(t, S, k + 1) = Cardinality(before) /\ Count(t, S, k) = Cardinality(before)
      BY <2>2, <1>2 DEF Count
    <3> HIDE DEF before
    <3> QED
      BY <2>2, <3>1, <1>1
  <2> QED
    BY <2>1, <2>2
<1>6. Count(t, S, 1) = 0
  <2>1. {i \in 1..(1 - 1) : t[i] \in S} = {}
    OBVIOUS
  <2> QED
    BY <2>1, FS_EmptySet DEF Count
<1> QED
  BY <1>1, <1>5, <1>6 DEF Count

LEMMA Breaks ==
  ASSUME NEW k \in Nat \ {0}, NEW B \in SUBSET (1..(k - 1))
  PROVE  /\ Max({0} \cup B) \in 0..(k - 1)
         /\ Max({0} \cup B \cup {k}) = k
<1>1. \E m \in 0..(k - 1) : m \in {0} \cup B /\ \A j \in {0} \cup B : m >= j
  <2>1. CASE B = {}
    BY <2>1
  <2>2. CASE B # {}
    <3>1. PICK n \in Nat : n = k - 1
      OBVIOUS
    <3>2. Max(B) \in B /\ \A j \in B : j <= Max(B)
      BY <2>2, <3>1, GreatestIndex
    <3>3. PICK m \in B : \A j \in B : j <= m
      BY <3>2
    <3>4. m \in 1..(k - 1) /\ \A j \in {0} \cup B : m >= j
      BY <3>3
    <3> QED
      BY <3>3, <3>4
  <2> QED
    BY <2>1, <2>2
<1>2. Max({0} \cup B) \in {0} \cup B
  BY <1>1 DEF Max
<1>3. Max({0} \cup B) \in 0..(k - 1)
  <2>1. {0} \cup B \subseteq 0..(k - 1)
    OBVIOUS
  <2> QED
    BY <2>1, <1>2
<1>4. k \in {0} \cup B \cup {k} /\ \A j \in {0} \cup B \cup {k} : k >= j
  OBVIOUS
<1>5. PICK m : m = Max({0} \cup B \cup {k})
  OBVIOUS
<1>6. m \in {0} \cup B \cup {k} /\ \A j \in {0} \cup B \cup {k} : m >= j
  BY <1>4, <1>5 DEF Max
<1>7. m = k
  <2>1. m >= k /\ k >= m /\ m \in Int
    BY <1>4, <1>6
  <2> QED
    BY <2>1
<1> QED
  BY <1>3, <1>5, <1>7

(* The counts, one character further.                                      *)
LEMMA Counts ==
  ASSUME NEW k \in Nat \ {0}
  PROVE  /\ ByteAt(k) \in Nat /\ LineAt(k) \in Nat /\ ColumnAt(k) \in Nat
         /\ ByteAt(k + 1) = ByteAt(k) + Width(text[k])
         /\ LineAt(k + 1) = IF text[k] = Newline THEN LineAt(k) + 1 ELSE LineAt(k)
         /\ ColumnAt(k + 1) = IF text[k] = Newline THEN 1 ELSE ColumnAt(k) + 1
<1>1. \A n : ByteAt(n) = n - 1 + Count(text, Wide, n)
  BY DEF ByteAt, Count
<1>2. \A n : LineAt(n) = 1 + Count(text, {Newline}, n)
  <2> SUFFICES ASSUME NEW n PROVE LineAt(n) = 1 + Count(text, {Newline}, n)
    OBVIOUS
  <2>1. {i \in 1..(n - 1) : text[i] = Newline} = {i \in 1..(n - 1) : text[i] \in {Newline}}
    OBVIOUS
  <2> QED
    BY <2>1 DEF LineAt, Count
<1>3. PICK w \in Nat : w = Count(text, Wide, k) /\ Count(text, Wide, k + 1) = w + IF text[k] \in Wide THEN 1 ELSE 0
  BY Counted
<1>4. PICK l \in Nat : /\ l = Count(text, {Newline}, k)
                       /\ Count(text, {Newline}, k + 1) = l + IF text[k] \in {Newline} THEN 1 ELSE 0
  BY Counted
<1>5. ByteAt(k) \in Nat /\ ByteAt(k + 1) = ByteAt(k) + Width(text[k])
  <2>1. ByteAt(k) = k - 1 + w /\ ByteAt(k + 1) = (k + 1) - 1 + (w + IF text[k] \in Wide THEN 1 ELSE 0)
    BY <1>1, <1>3
  <2>2. CASE text[k] \in Wide
    BY <2>1, <2>2 DEF Width
  <2>3. CASE text[k] \notin Wide
    BY <2>1, <2>3 DEF Width
  <2> QED
    BY <2>2, <2>3
<1>6. LineAt(k) \in Nat /\ LineAt(k + 1) = IF text[k] = Newline THEN LineAt(k) + 1 ELSE LineAt(k)
  BY <1>2, <1>4
<1>7. PICK B : B = {i \in 1..(k - 1) : text[i] = Newline}
  OBVIOUS
<1>8. Max({0} \cup B) \in 0..(k - 1) /\ Max({0} \cup B \cup {k}) = k
  BY <1>7, Breaks
<1>9. {0} \cup {i \in 1..((k + 1) - 1) : text[i] = Newline} =
        IF text[k] = Newline THEN {0} \cup B \cup {k} ELSE {0} \cup B
  BY <1>7
<1>10. ColumnAt(k) = k - Max({0} \cup B)
  BY <1>7 DEF ColumnAt
<1>11. ColumnAt(k + 1) = IF text[k] = Newline THEN 1 ELSE ColumnAt(k) + 1
  <2>1. CASE text[k] = Newline
    <3>1. ColumnAt(k + 1) = (k + 1) - Max({0} \cup B \cup {k})
      BY <2>1, <1>9 DEF ColumnAt
    <3> QED
      BY <2>1, <3>1, <1>8
  <2>2. CASE text[k] # Newline
    <3>1. ColumnAt(k + 1) = (k + 1) - Max({0} \cup B)
      BY <2>2, <1>9 DEF ColumnAt
    <3> QED
      BY <2>2, <3>1, <1>8, <1>10
  <2> QED
    BY <2>1, <2>2
<1> QED
  BY <1>5, <1>6, <1>8, <1>10, <1>11

LEMMA OriginPlace == PlaceOf(1) = Origin
<1>1. ByteAt(1) = 0 /\ LineAt(1) = 1
  <2>1. {i \in 1..(1 - 1) : text[i] \in Wide} = {} /\ {i \in 1..(1 - 1) : text[i] = Newline} = {}
    OBVIOUS
  <2> QED
    BY <2>1, FS_EmptySet DEF ByteAt, LineAt
<1>2. ColumnAt(1) = 1
  <2>1. {0} \cup {i \in 1..(1 - 1) : text[i] = Newline} = {0}
    OBVIOUS
  <2>2. Max({0}) = 0
    BY DEF Max
  <2> QED
    BY <2>1, <2>2 DEF ColumnAt
<1> QED
  BY <1>1, <1>2 DEF PlaceOf, Origin

LEMMA BumpPlace ==
  ASSUME NEW k \in Nat \ {0}, NEW c, c = text[k]
  PROVE  Bump(PlaceOf(k), c) = PlaceOf(k + 1)
<1>1. PICK b \in Nat, l \in Nat, d \in Nat : b = ByteAt(k) /\ l = LineAt(k) /\ d = ColumnAt(k)
  BY Counts
<1>2. PlaceOf(k) = [at |-> k, byte |-> b, line |-> l, col |-> d]
  BY <1>1 DEF PlaceOf
<1>3. PlaceOf(k + 1) = [at |-> k + 1, byte |-> b + Width(c), line |-> IF c = Newline THEN l + 1 ELSE l,
                        col |-> IF c = Newline THEN 1 ELSE d + 1]
  BY <1>1, Counts DEF PlaceOf
<1>4. /\ PlaceOf(k).at = k /\ PlaceOf(k).byte = b /\ PlaceOf(k).line = l /\ PlaceOf(k).col = d
  BY <1>2
<1>5. PICK w, x, y : w = b + Width(c) /\ x = (IF c = Newline THEN l + 1 ELSE l) /\ y = IF c = Newline THEN 1 ELSE d + 1
  OBVIOUS
<1>6. Bump(PlaceOf(k), c) = [PlaceOf(k) EXCEPT !.at = k + 1, !.byte = w, !.line = x, !.col = y]
  BY <1>4, <1>5 DEF Bump
<1>7. [PlaceOf(k) EXCEPT !.at = k + 1, !.byte = w, !.line = x, !.col = y] =
        [at |-> k + 1, byte |-> w, line |-> x, col |-> y]
  <2>1. PICK p, m : p = PlaceOf(k) /\ m = k + 1
    OBVIOUS
  <2>2. p = [at |-> k, byte |-> b, line |-> l, col |-> d]
    BY <1>2, <2>1
  <2>3. PICK q : q = [p EXCEPT !.at = m, !.byte = w, !.line = x, !.col = y]
    OBVIOUS
  <2>4. q = [f \in {"at", "byte", "line", "col"} |->
               IF f = "at" THEN m ELSE IF f = "byte" THEN w ELSE IF f = "line" THEN x ELSE y]
    BY <2>2, <2>3
  <2>5. [at |-> m, byte |-> w, line |-> x, col |-> y] =
          [f \in {"at", "byte", "line", "col"} |->
             IF f = "at" THEN m ELSE IF f = "byte" THEN w ELSE IF f = "line" THEN x ELSE y]
    OBVIOUS
  <2> QED
    BY <2>1, <2>3, <2>4, <2>5
<1> QED
  BY <1>3, <1>5, <1>6, <1>7

LEMMA MovedPlace ==
  ASSUME NEW p \in Nat \ {0}, NEW j \in Nat, p <= j
  PROVE  MoveTo(PlaceOf(p), j) = PlaceOf(j)
<1> DEFINE Moves(at) ==
             at = [i \in p..j |-> IF i = p THEN PlaceOf(p) ELSE Bump(at[i - 1], text[i - 1])]
<1>1. PICK w : w = [i \in p..j |-> PlaceOf(i)]
  OBVIOUS
<1>2. Moves(w)
  <2>1. ASSUME NEW i \in p..j PROVE w[i] = IF i = p THEN PlaceOf(p) ELSE Bump(w[i - 1], text[i - 1])
    <3>1. CASE i = p
      BY <3>1, <1>1
    <3>2. CASE i # p
      <4>1. i - 1 \in p..j /\ i - 1 \in Nat \ {0} /\ (i - 1) + 1 = i
        BY <3>2
      <4>2. Bump(PlaceOf(i - 1), text[i - 1]) = PlaceOf(i)
        BY <4>1, BumpPlace
      <4> QED
        BY <3>2, <4>1, <4>2, <1>1
    <3> QED
      BY <3>1, <3>2
  <2>2. w = [i \in p..j |-> w[i]]
    BY <1>1
  <2> QED
    BY <2>1, <2>2
<1>3. PICK at : at = CHOOSE v : Moves(v)
  OBVIOUS
<1>4. Moves(at)
  BY <1>2, <1>3
<1>5. MoveTo(PlaceOf(p), j) = at[j]
  <2>1. PlaceOf(p).at = p
    BY DEF PlaceOf
  <2> QED
    BY <1>3, <2>1 DEF MoveTo
<1>6. \A i \in p..j : at[i] = IF i = p THEN PlaceOf(p) ELSE Bump(at[i - 1], text[i - 1])
  BY <1>4
<1> HIDE DEF Moves
<1> DEFINE T == {i \in 1..j : i >= p /\ at[i] # PlaceOf(i)}
<1>7. T = {}
  <2> SUFFICES ASSUME T # {} PROVE FALSE
    OBVIOUS
  <2>1. Min(T) \in T /\ \A i \in T : Min(T) <= i
    <3>1. T \in SUBSET (1..j)
      OBVIOUS
    <3> HIDE DEF T
    <3> QED
      BY <3>1, LeastIndex
  <2>2. PICK m \in 1..j : m \in T /\ \A i \in T : m <= i
    BY <2>1
  <2>3. m >= p /\ at[m] # PlaceOf(m) /\ m \in p..j
    BY <2>2
  <2>4. m # p
    BY <2>3, <1>6
  <2>5. m - 1 \in 1..j /\ m - 1 >= p /\ ~(m <= m - 1) /\ m - 1 \in Nat \ {0} /\ (m - 1) + 1 = m
    BY <2>3, <2>4
  <2>6. at[m - 1] = PlaceOf(m - 1)
    BY <2>2, <2>5
  <2>7. at[m] = Bump(PlaceOf(m - 1), text[m - 1])
    BY <2>3, <2>4, <2>6, <1>6
  <2>8. Bump(PlaceOf(m - 1), text[m - 1]) = PlaceOf(m)
    BY <2>5, BumpPlace
  <2> QED
    BY <2>3, <2>7, <2>8
<1> QED
  BY <1>5, <1>7

-------------------------------------------------------------------------------
(* Where a scan stops.                                                     *)
LEMMA Ends == IsSequence(text) => Len(text) \in Nat /\ Past \in Nat \ {0} /\ Past = Len(text) + 1
BY LenProperties DEF IsSequence, Past

LEMMA Stopping ==
  ASSUME IsSequence(text), NEW i \in 1..Past, NEW S
  PROVE  \E j \in i..Past : (j = Past \/ j \in S) /\ \A k \in i..(j - 1) : k \notin S
<1> DEFINE T == {k \in 1..Past : k >= i /\ (k = Past \/ k \in S)}
<1>1. Past \in Nat \ {0}
  BY Ends
<1>2. Past \in T
  BY <1>1
<1>3. Min(T) \in T /\ \A j \in T : Min(T) <= j
  <2>1. T \in SUBSET (1..Past) /\ T # {}
    BY <1>2
  <2> HIDE DEF T
  <2> QED
    BY <1>1, <2>1, LeastIndex
<1>4. PICK j \in 1..Past : j \in T /\ \A k \in T : j <= k
  BY <1>3
<1>5. j \in i..Past /\ (j = Past \/ j \in S)
  BY <1>1, <1>4
<1>6. ASSUME NEW k \in i..(j - 1) PROVE k \notin S
  <2>1. k \in 1..Past /\ k >= i /\ ~(j <= k)
    BY <1>1, <1>5
  <2> QED
    BY <2>1, <1>4
<1> QED
  BY <1>5, <1>6

LEMMA NumberEnds ==
  ASSUME IsSequence(text), NEW i \in 1..Past
  PROVE  NumberEnd(i) \in i..Past
<1>1. PICK S : S = {j \in 1..Past : text[j] \notin Digits}
  OBVIOUS
<1>2. PICK j \in i..Past : (j = Past \/ j \in S) /\ \A k \in i..(j - 1) : k \notin S
  BY Stopping
<1>3. /\ j = Past \/ text[j] \notin Digits
      /\ \A k \in i..(j - 1) : ~(text[k] \notin Digits)
  BY <1>1, <1>2, Ends
<1> QED
  BY <1>3 DEF NumberEnd, Until

LEMMA WordEnds ==
  ASSUME IsSequence(text), NEW i \in 1..Past
  PROVE  WordEnd(i) \in i..Past
<1>1. PICK S : S = {j \in 1..Past : ~IsWord(text[j]) /\ text[j] \notin Digits /\ text[j] # "-"}
  OBVIOUS
<1>2. PICK j \in i..Past : (j = Past \/ j \in S) /\ \A k \in i..(j - 1) : k \notin S
  BY Stopping
<1>3. /\ j = Past \/ (~IsWord(text[j]) /\ text[j] \notin Digits /\ text[j] # "-")
      /\ \A k \in i..(j - 1) : ~(~IsWord(text[k]) /\ text[k] \notin Digits /\ text[k] # "-")
  BY <1>1, <1>2, Ends
<1> QED
  BY <1>3 DEF WordEnd, Until

LEMMA TriviaEnds ==
  ASSUME IsSequence(text), NEW i \in 1..Past
  PROVE  TriviaEnd(i) \in i..Past /\ \A k \in i..(TriviaEnd(i) - 1) : \E h \in i..k : IsTrivia(k, h)
<1> DEFINE commented(j) == \E h \in i..j : text[h] = "#" /\ \A k \in h..j : text[k] # Newline
           stops(j) == text[j] \notin Spaces /\ ~commented(j)
<1>1. PICK S : S = {j \in 1..Past : stops(j)}
  OBVIOUS
<1>2. PICK j \in i..Past : (j = Past \/ j \in S) /\ \A k \in i..(j - 1) : k \notin S
  BY Stopping
<1>3. (j = Past \/ stops(j)) /\ \A k \in i..(j - 1) : ~stops(k)
  BY <1>1, <1>2, Ends
<1>4. TriviaEnd(i) = CHOOSE n \in i..Past : (n = Past \/ stops(n)) /\ \A k \in i..(n - 1) : ~stops(k)
  BY DEF TriviaEnd, Until
<1> HIDE DEF stops
<1>5. TriviaEnd(i) \in i..Past /\ \A k \in i..(TriviaEnd(i) - 1) : ~stops(k)
  BY <1>3, <1>4
<1>6. ASSUME NEW k \in i..(TriviaEnd(i) - 1) PROVE \E h \in i..k : IsTrivia(k, h)
  <2>1. text[k] \in Spaces \/ commented(k)
    BY <1>5 DEF stops
  <2>2. k \in i..k
    OBVIOUS
  <2> QED
    BY <2>1, <2>2 DEF IsTrivia
<1> QED
  BY <1>5, <1>6

LEMMA StringEnds ==
  ASSUME IsSequence(text), NEW i \in 1..Past
  PROVE  /\ StringEnd(i) \in i..Past
         /\ StringEnd(i) = Past \/ text[StringEnd(i)] \in {Newline, "\""}
         /\ \A k \in i..(StringEnd(i) - 1) : text[k] # Newline
<1> DEFINE taken == Taken(SubSeq(text, i, Len(text)))
           stops(j) == text[j] = Newline \/ (text[j] = "\"" /\ ~taken[j - i + 1])
<1>1. PICK S : S = {j \in 1..Past : stops(j)}
  OBVIOUS
<1>2. PICK j \in i..Past : (j = Past \/ j \in S) /\ \A k \in i..(j - 1) : k \notin S
  BY Stopping
<1>3. (j = Past \/ stops(j)) /\ \A k \in i..(j - 1) : ~stops(k)
  <2> HIDE DEF stops
  <2>1. j = Past \/ stops(j)
    BY <1>1, <1>2
  <2>2. i..(j - 1) \subseteq 1..Past
    BY <1>2, Ends
  <2> QED
    BY <1>1, <1>2, <2>1, <2>2
<1>4. StringEnd(i) = CHOOSE n \in i..Past : (n = Past \/ stops(n)) /\ \A k \in i..(n - 1) : ~stops(k)
  BY DEF StringEnd, Until
<1>5. \A n : stops(n) => text[n] \in {Newline, "\""}
  OBVIOUS
<1>6. \A n : ~stops(n) => text[n] # Newline
  OBVIOUS
<1> HIDE DEF stops
<1>7. /\ StringEnd(i) \in i..Past
      /\ StringEnd(i) = Past \/ stops(StringEnd(i))
      /\ \A k \in i..(StringEnd(i) - 1) : ~stops(k)
  BY <1>3, <1>4
<1> QED
  BY <1>5, <1>6, <1>7

(* Where the next token begins.                                            *)
LEMMA Starting ==
  ASSUME IsSequence(text), NEW c \in 1..Past, cursor = PlaceOf(c)
  PROVE  \E s \in c..Past : /\ Start = PlaceOf(s) /\ Start.at = s /\ s \in Nat \ {0}
                            /\ \A k \in c..(s - 1) : \E h \in c..k : IsTrivia(k, h)
<1>1. PICK s : s = TriviaEnd(c)
  OBVIOUS
<1>2. s \in c..Past /\ \A k \in c..(s - 1) : \E h \in c..k : IsTrivia(k, h)
  BY <1>1, TriviaEnds
<1>3. c \in Nat \ {0} /\ s \in Nat \ {0} /\ c <= s
  BY <1>2, Ends
<1>4. cursor.at = c
  BY DEF PlaceOf
<1>5. Start = PlaceOf(s)
  BY <1>1, <1>3, <1>4, MovedPlace DEF Start
<1>6. Start.at = s
  BY <1>5 DEF PlaceOf
<1> QED
  BY <1>2, <1>3, <1>5, <1>6

LEMMA BytesGrow ==
  ASSUME NEW a \in Nat \ {0}, NEW b \in Nat, a < b
  PROVE  ByteAt(a) < ByteAt(b)
<1> DEFINE T == {k \in 1..b : a < k /\ ~(ByteAt(a) < ByteAt(k))}
<1>1. T = {}
  <2> SUFFICES ASSUME T # {} PROVE FALSE
    OBVIOUS
  <2>1. Min(T) \in T /\ \A j \in T : Min(T) <= j
    <3>1. T \in SUBSET (1..b)
      OBVIOUS
    <3> HIDE DEF T
    <3> QED
      BY <3>1, LeastIndex
  <2>2. PICK m \in 1..b : m \in T /\ \A j \in T : m <= j
    BY <2>1
  <2>3. a < m /\ ~(ByteAt(a) < ByteAt(m))
    BY <2>2
  <2>4. PICK l \in Nat \ {0} : l = m - 1
    BY <2>3
  <2>5. l \in 1..b /\ ~(m <= l) /\ m = l + 1
    BY <2>4
  <2>6. ByteAt(a) \in Nat /\ ByteAt(l) \in Nat /\ ByteAt(m) = ByteAt(l) + Width(text[l])
    BY <2>4, <2>5, Counts
  <2>7. Width(text[l]) \in {1, 2}
    BY DEF Width
  <2>8. CASE l = a
    BY <2>3, <2>6, <2>7, <2>8
  <2>9. CASE l # a
    <3>1. ByteAt(a) < ByteAt(l)
      BY <2>2, <2>3, <2>4, <2>5, <2>9
    <3> QED
      BY <3>1, <2>3, <2>6, <2>7
  <2> QED
    BY <2>8, <2>9
<1>2. b \in 1..b
  OBVIOUS
<1> QED
  BY <1>1, <1>2

(* A span that begins at a place and ends no earlier; one that only spaces *)
(* and comments set apart from the byte before.                            *)
Located(span) ==
  /\ \E k \in 1..Past : span.start = ByteAt(k) /\ span.line = LineAt(k) /\ span.col = ColumnAt(k)
  /\ span.start <= span.end

Between(from, to) == {k \in DOMAIN text : from <= ByteAt(k) /\ ByteAt(k) < to}

SetApart(before, span) ==
  /\ before <= span.start
  /\ \A k \in Between(before, span.start) : \E h \in Between(before, span.start) : h <= k /\ IsTrivia(k, h)

LEMMA Spanned ==
  ASSUME IsSequence(text), NEW s \in 1..Past, NEW e \in s..Past
  PROVE  Located(Span(PlaceOf(s), PlaceOf(e)))
<1>1. s \in Nat \ {0} /\ e \in Nat \ {0} /\ s <= e
  BY Ends
<1>2. ByteAt(s) <= ByteAt(e)
  <2>1. ByteAt(s) \in Nat /\ ByteAt(e) \in Nat
    BY <1>1, Counts
  <2>2. s = e \/ s < e
    BY <1>1
  <2>3. CASE s < e
    <3>1. ByteAt(s) < ByteAt(e)
      BY <1>1, <2>3, BytesGrow
    <3> QED
      BY <2>1, <3>1
  <2> QED
    BY <2>1, <2>2, <2>3
<1>3. PICK span : span = Span(PlaceOf(s), PlaceOf(e))
  OBVIOUS
<1>4. span.start = ByteAt(s) /\ span.end = ByteAt(e) /\ span.line = LineAt(s) /\ span.col = ColumnAt(s)
  BY <1>3 DEF Span, PlaceOf
<1> QED
  BY <1>2, <1>3, <1>4 DEF Located

LEMMA Apart ==
  ASSUME IsSequence(text), NEW c \in 1..Past, NEW s \in c..Past,
         \A k \in c..(s - 1) : \E h \in c..k : IsTrivia(k, h),
         NEW span, span.start = ByteAt(s)
  PROVE  SetApart(ByteAt(c), span)
<1>1. c \in Nat \ {0} /\ s \in Nat \ {0} /\ c <= s /\ DOMAIN text = 1..Len(text) /\ Len(text) \in Nat
      /\ Past = Len(text) + 1
  BY Ends, LenProperties DEF IsSequence
<1>2. ByteAt(c) \in Nat /\ ByteAt(s) \in Nat
  BY <1>1, Counts
<1>3. ByteAt(c) <= ByteAt(s)
  <2>1. CASE c < s
    <3>1. ByteAt(c) < ByteAt(s)
      BY <1>1, <2>1, BytesGrow
    <3> QED
      BY <1>2, <3>1
  <2> QED
    BY <1>1, <1>2, <2>1
<1>4. ASSUME NEW k \in 1..Len(text) PROVE ByteAt(c) <= ByteAt(k) /\ ByteAt(k) < ByteAt(s) <=> k \in c..(s - 1)
  <2>0. k \in Nat \ {0}
    BY <1>1
  <2>1. k \in Nat \ {0} /\ ByteAt(k) \in Nat
    BY <2>0, Counts
  <2>2. CASE k < c
    <3>1. ByteAt(k) < ByteAt(c)
      BY <1>1, <2>1, <2>2, BytesGrow
    <3> QED
      BY <1>1, <1>2, <2>1, <2>2, <3>1
  <2>3. CASE k >= s
    <3>1. ByteAt(s) <= ByteAt(k)
      <4>1. CASE s < k
        <5>1. ByteAt(s) < ByteAt(k)
          BY <1>1, <2>1, <4>1, BytesGrow
        <5> QED
          BY <1>2, <2>1, <5>1
      <4> QED
        BY <1>1, <1>2, <2>1, <2>3, <4>1
    <3> QED
      BY <1>1, <1>2, <2>1, <2>3, <3>1
  <2>4. CASE c <= k /\ k < s
    <3>1. ByteAt(k) < ByteAt(s)
      BY <1>1, <2>1, <2>4, BytesGrow
    <3>2. ByteAt(c) <= ByteAt(k)
      <4>1. CASE c < k
        <5>1. ByteAt(c) < ByteAt(k)
          BY <1>1, <2>1, <4>1, BytesGrow
        <5> QED
          BY <1>2, <2>1, <5>1
      <4> QED
        BY <1>1, <1>2, <2>1, <2>4, <4>1
    <3>3. k \in c..(s - 1)
      BY <1>1, <2>1, <2>4
    <3> QED
      BY <3>1, <3>2, <3>3
  <2> QED
    BY <1>1, <2>1, <2>2, <2>3, <2>4
<1>5. Between(ByteAt(c), span.start) = c..(s - 1)
  <2>1. Between(ByteAt(c), span.start) = {k \in 1..Len(text) : ByteAt(c) <= ByteAt(k) /\ ByteAt(k) < ByteAt(s)}
    BY <1>1 DEF Between
  <2>2. c..(s - 1) \subseteq 1..Len(text)
    BY <1>1
  <2> QED
    BY <2>1, <2>2, <1>4
<1>6. ASSUME NEW k \in c..(s - 1) PROVE \E h \in c..(s - 1) : h <= k /\ IsTrivia(k, h)
  <2>1. PICK h \in c..k : IsTrivia(k, h)
    OBVIOUS
  <2>2. h \in c..(s - 1) /\ h <= k
    BY <1>1
  <2> QED
    BY <2>1, <2>2
<1> QED
  BY <1>3, <1>5, <1>6 DEF SetApart

(* Inside a string an offset from its quote is an offset from its place.   *)
LEMMA Inside ==
  ASSUME IsSequence(text), NEW s \in Nat \ {0}, text[s] \notin Wide, text[s] # Newline, NEW n \in Nat, NEW content,
         \A i \in 1..n : content[i] = text[s + i] /\ text[s + i] # Newline
  PROVE  \A j \in 1..n : /\ ByteAt(s + j) = ByteAt(s) + j + Count(content, Wide, j)
                         /\ LineAt(s + j) = LineAt(s)
                         /\ ColumnAt(s + j) = ColumnAt(s) + j
<1> DEFINE at(j) == /\ ByteAt(s + j) = ByteAt(s) + j + Count(content, Wide, j)
                    /\ LineAt(s + j) = LineAt(s)
                    /\ ColumnAt(s + j) = ColumnAt(s) + j
           T == {k \in 1..n : ~at(k)}
<1>1. ByteAt(s) \in Nat /\ LineAt(s) \in Nat /\ ColumnAt(s) \in Nat
  BY Counts
<1>2. at(1)
  <2>2. Width(text[s]) = 1
    BY DEF Width
  <2>3. Count(content, Wide, 1) = 0
    BY Counted
  <2>4. ByteAt(s + 1) = ByteAt(s) + 1 /\ LineAt(s + 1) = LineAt(s) /\ ColumnAt(s + 1) = ColumnAt(s) + 1
    BY <2>2, Counts
  <2> QED
    BY <1>1, <2>3, <2>4
<1>3. ASSUME NEW l \in 1..n, at(l) PROVE at(l + 1)
  <2>1. PICK p \in Nat \ {0} : p = s + l
    OBVIOUS
  <2>2. content[l] = text[p] /\ text[p] # Newline /\ s + (l + 1) = p + 1
    BY <2>1
  <2>3. /\ ByteAt(p + 1) = ByteAt(p) + Width(text[p])
        /\ LineAt(p + 1) = LineAt(p)
        /\ ColumnAt(p + 1) = ColumnAt(p) + 1
    BY <2>2, Counts
  <2>4. PICK w \in Nat : /\ w = Count(content, Wide, l)
                         /\ Count(content, Wide, l + 1) = w + IF content[l] \in Wide THEN 1 ELSE 0
    BY Counted
  <2>5. ByteAt(p) = ByteAt(s) + l + w /\ LineAt(p) = LineAt(s) /\ ColumnAt(p) = ColumnAt(s) + l
    BY <1>3, <2>1, <2>4
  <2>6. Width(text[p]) = 1 + IF content[l] \in Wide THEN 1 ELSE 0
    BY <2>2 DEF Width
  <2>7. ByteAt(p + 1) = ByteAt(s) + (l + 1) + Count(content, Wide, l + 1)
    <3>1. CASE content[l] \in Wide
      BY <3>1, <1>1, <2>3, <2>4, <2>5, <2>6
    <3>2. CASE content[l] \notin Wide
      BY <3>2, <1>1, <2>3, <2>4, <2>5, <2>6
    <3> QED
      BY <3>1, <3>2
  <2>8. LineAt(p + 1) = LineAt(s) /\ ColumnAt(p + 1) = ColumnAt(s) + (l + 1)
    BY <1>1, <2>3, <2>5
  <2> QED
    BY <2>2, <2>7, <2>8
<1> HIDE DEF at
<1>4. T = {}
  <2> SUFFICES ASSUME T # {} PROVE FALSE
    OBVIOUS
  <2>1. Min(T) \in T /\ \A j \in T : Min(T) <= j
    <3>1. T \in SUBSET (1..n)
      OBVIOUS
    <3> HIDE DEF T
    <3> QED
      BY <3>1, LeastIndex
  <2>2. PICK m \in 1..n : m \in T /\ \A j \in T : m <= j
    BY <2>1
  <2>3. ~at(m) /\ m # 1
    BY <2>2, <1>2
  <2>4. PICK l \in 1..n : l + 1 = m
    <3>1. m - 1 \in 1..n /\ (m - 1) + 1 = m
      BY <2>3
    <3> QED
      BY <3>1
  <2>5. at(l)
    <3>1. ~(m <= l)
      BY <2>4
    <3> QED
      BY <3>1, <2>2
  <2> QED
    BY <2>3, <2>4, <2>5, <1>3
<1>5. \A j \in 1..n : at(j)
  BY <1>4
<1> QED
  BY <1>5 DEF at

LEMMA EscapeLocated ==
  ASSUME IsSequence(text), NEW s \in 1..Past, s < Past, text[s] \notin Wide, text[s] # Newline, NEW to, to = StringEnd(s + 1),
         NEW content, content = SubSeq(text, s + 1, to - 1), NEW j \in 1..(Len(content) - 1)
  PROVE  Located(EscapeSpan(PlaceOf(s), content, j))
<1>1. s \in Nat \ {0} /\ Len(text) \in Nat /\ Past = Len(text) + 1 /\ s + 1 \in 1..Past
  BY Ends
<1>2. to \in (s + 1)..Past /\ \A k \in (s + 1)..(to - 1) : text[k] # Newline
  BY <1>1, StringEnds
<1>3. PICK n \in Nat : n = (to - 1) - s
  BY <1>1, <1>2
<1>4. Len(content) = n /\ \A i \in 1..n : content[i] = text[s + i]
  <2>1. s + 1 \in Nat /\ to - 1 \in Nat /\ s + 1 <= (to - 1) + 1 /\ to - 1 <= Len(text)
    BY <1>1, <1>2
  <2>2. PICK a \in Nat, b \in Nat : a = s + 1 /\ b = to - 1
    BY <2>1
  <2>3. /\ Len(SubSeq(text, a, b)) = IF a <= b THEN b - a + 1 ELSE 0
        /\ \A i \in 1..(b - a + 1) : SubSeq(text, a, b)[i] = text[a + i - 1]
    BY <1>1, <2>1, <2>2 DEF IsSequence
  <2>4. b - a + 1 = n /\ content = SubSeq(text, a, b)
    BY <1>1, <1>2, <1>3, <2>2
  <2>5. \A i \in 1..n : a + i - 1 = s + i
    BY <1>1, <2>2
  <2> QED
    BY <2>2, <2>3, <2>4, <2>5
<1>5. \A i \in 1..n : text[s + i] # Newline
  <2>1. \A i \in 1..n : s + i \in (s + 1)..(to - 1)
    BY <1>1, <1>2, <1>3
  <2> QED
    BY <2>1, <1>2
<1>6. j \in 1..n /\ s + j \in 1..Past
  BY SMTT(30), <1>1, <1>2, <1>3, <1>4
<1>7. /\ ByteAt(s + j) = ByteAt(s) + j + Count(content, Wide, j)
      /\ LineAt(s + j) = LineAt(s)
      /\ ColumnAt(s + j) = ColumnAt(s) + j
  <2>1. \A i \in 1..n : content[i] = text[s + i] /\ text[s + i] # Newline
    BY <1>4, <1>5
  <2>2. PICK t : t = content
    OBVIOUS
  <2>3. \A i \in 1..n : t[i] = text[s + i] /\ text[s + i] # Newline
    BY <2>1, <2>2
  <2>4. \A i \in 1..n : /\ ByteAt(s + i) = ByteAt(s) + i + Count(t, Wide, i)
                         /\ LineAt(s + i) = LineAt(s)
                         /\ ColumnAt(s + i) = ColumnAt(s) + i
    BY ONLY IsSequence(text), s \in Nat \ {0}, text[s] \notin Wide, text[s] # Newline, n \in Nat, <2>3, Inside, SMTT(30)
  <2> QED
    BY <1>6, <2>2, <2>4
<1>8. PICK span : span = EscapeSpan(PlaceOf(s), content, j)
  OBVIOUS
<1>9. /\ span.start = ByteAt(s) + j + Count(content, Wide, j)
      /\ span.end = span.start + 1 + Width(content[j + 1])
      /\ span.line = LineAt(s) /\ span.col = ColumnAt(s) + j
  BY <1>8 DEF EscapeSpan, PlaceOf, Count
<1>10. ByteAt(s + j) \in Nat /\ Width(content[j + 1]) \in Nat
  <2>1. s + j \in Nat \ {0}
    BY <1>1
  <2> QED
    BY <2>1, Counts DEF Width
<1>11. span.start <= span.end
  <2>1. span.start \in Nat
    BY <1>7, <1>9, <1>10
  <2> QED
    <3>1. PICK a \in Nat, w \in Nat : a = span.start /\ w = Width(content[j + 1])
      BY <1>10, <2>1
    <3>2. span.end = a + 1 + w
      BY <1>9, <3>1
    <3>3. a <= a + 1 + w
      BY ONLY a \in Nat, w \in Nat
    <3> QED
      BY <3>1, <3>2, <3>3
<1> QED
  BY <1>6, <1>7, <1>8, <1>9, <1>11 DEF Located

-------------------------------------------------------------------------------
(* The cursor is at a place of the text; a token or an error is where it   *)
(* says it is; and as long as there is no error the cursor is where the    *)
(* last token ends.                                                        *)
EndOf(n) == IF n = 0 THEN 0 ELSE items[n].span.end

Placed ==
  /\ IsSequence(text) /\ IsSequence(items) /\ IsSequence(errors)
  /\ \E c \in 1..Past : cursor = PlaceOf(c)
  /\ \A n \in 1..Len(items) : Located(items[n].span)
  /\ \A n \in 1..Len(errors) : Located(errors[n].span)
  /\ errors = <<>> =>
       /\ cursor.byte = EndOf(Len(items))
       /\ \A n \in 1..Len(items) : SetApart(EndOf(n - 1), items[n].span)

(* What does not depend on how far the lexer is.                           *)
LEMMA Unmoved ==
  ASSUME text' = text
  PROVE  /\ Past' = Past
         /\ \A k : PlaceOf(k)' = PlaceOf(k)
         /\ \A span : Located(span)' <=> Located(span)
         /\ \A before, span : SetApart(before, span)' <=> SetApart(before, span)
<1>1. Past' = Past
  BY DEF Past
<1>2. \A k : ByteAt(k)' = ByteAt(k) /\ LineAt(k)' = LineAt(k) /\ ColumnAt(k)' = ColumnAt(k)
  BY DEF ByteAt, LineAt, ColumnAt
<1>3. \A k : PlaceOf(k)' = PlaceOf(k)
  BY <1>2 DEF PlaceOf
<1>4. \A span : Located(span)' <=> Located(span)
  BY <1>1, <1>2 DEF Located
<1>5. \A from, to : Between(from, to)' = Between(from, to)
  BY <1>2 DEF Between
<1>6. \A k, h : IsTrivia(k, h)' <=> IsTrivia(k, h)
  BY DEF IsTrivia
<1>7. \A before, span : SetApart(before, span)' <=> SetApart(before, span)
  BY <1>5, <1>6 DEF SetApart
<1> QED
  BY <1>1, <1>3, <1>4, <1>7

LEMMA EmitPlaces ==
  ASSUME Placed, NEW e \in Start.at..Past, e \in Nat, NEW item, item.span = Span(Start, PlaceOf(e)),
         items' = Append(items, item), cursor' = PlaceOf(e), UNCHANGED <<text, errors>>
  PROVE  Placed'
<1>1. PICK c \in 1..Past : cursor = PlaceOf(c)
  BY DEF Placed
<1>2. PICK s \in c..Past : /\ Start = PlaceOf(s) /\ Start.at = s /\ s \in Nat \ {0}
                           /\ \A k \in c..(s - 1) : \E h \in c..k : IsTrivia(k, h)
  BY <1>1, Starting DEF Placed
<1>3. Past \in Nat \ {0} /\ c \in Nat \ {0} /\ s \in 1..Past /\ e \in s..Past /\ e \in 1..Past
  BY <1>1, <1>2, Ends DEF Placed
<1>4. Located(item.span)
  BY <1>2, <1>3, Spanned DEF Placed
<1>5. SetApart(ByteAt(c), item.span)
  <2>1. item.span.start = ByteAt(s)
    BY <1>2 DEF Span, PlaceOf
  <2>2. PICK span : span = item.span
    OBVIOUS
  <2> QED
    BY <1>2, <2>1, <2>2, Apart DEF Placed
<1>6. item.span.end = ByteAt(e) /\ PlaceOf(e).byte = ByteAt(e) /\ cursor.byte = ByteAt(c)
  BY <1>1 DEF Span, PlaceOf
<1>7. PICK next : next = Append(items, item)
  OBVIOUS
<1>8. /\ IsSequence(next) /\ Len(items) \in Nat /\ Len(next) = Len(items) + 1
      /\ \A n \in 1..Len(items) : next[n] = items[n]
      /\ next[Len(next)] = item
  BY <1>7, OwnAppend DEF Placed, IsSequence
<1>9. /\ Past' = Past
      /\ \A k : PlaceOf(k)' = PlaceOf(k)
      /\ \A span : Located(span)' <=> Located(span)
      /\ \A before, span : SetApart(before, span)' <=> SetApart(before, span)
  BY Unmoved
<1>10. IsSequence(text)' /\ IsSequence(items)' /\ IsSequence(errors)'
  BY <1>7, <1>8 DEF Placed, IsSequence
<1>11. \E k \in 1..Past' : cursor' = PlaceOf(k)'
  BY <1>3, <1>9
<1>12. ASSUME NEW n \in 1..Len(next) PROVE Located(next[n].span)
  <2>1. CASE n = Len(next)
    BY <2>1, <1>4, <1>8
  <2>2. CASE n # Len(next)
    <3>1. n \in 1..Len(items)
      BY <2>2, <1>8
    <3> QED
      BY <3>1, <1>8 DEF Placed
  <2> QED
    BY <2>1, <2>2
<1> DEFINE end(n) == IF n = 0 THEN 0 ELSE next[n].span.end
<1>13. ASSUME NEW n \in 0..Len(items) PROVE end(n) = EndOf(n)
  BY <1>8 DEF EndOf
<1>14. end(Len(next)) = ByteAt(e)
  BY <1>6, <1>8
<1>15. ASSUME errors = <<>>, NEW n \in 1..Len(next) PROVE SetApart(end(n - 1), next[n].span)
  <2>1. CASE n = Len(next)
    <3>1. n - 1 = Len(items) /\ Len(items) \in 0..Len(items)
      BY <2>1, <1>8
    <3>2. end(n - 1) = cursor.byte
      BY <3>1, <1>13, <1>15 DEF Placed
    <3> QED
      BY <2>1, <3>2, <1>5, <1>6, <1>8
  <2>2. CASE n # Len(next)
    <3>1. n \in 1..Len(items) /\ n - 1 \in 0..Len(items)
      BY <2>2, <1>8
    <3>2. SetApart(EndOf(n - 1), items[n].span)
      BY <3>1, <1>15 DEF Placed
    <3> QED
      BY <3>1, <3>2, <1>8, <1>13
  <2> QED
    BY <2>1, <2>2
<1>16. ASSUME NEW n PROVE EndOf(n)' = end(n)
  BY <1>7 DEF EndOf
<1> HIDE DEF end
<1>17. errors' = <<>> => /\ cursor'.byte = EndOf(Len(next))'
                         /\ \A n \in 1..Len(next) : SetApart(end(n - 1), next[n].span)'
  BY <1>6, <1>9, <1>14, <1>15, <1>16
<1>18. errors' = <<>> => /\ (cursor.byte = EndOf(Len(items)))'
                         /\ \A n \in 1..Len(items') : SetApart(EndOf(n - 1), items[n].span)'
  BY <1>7, <1>16, <1>17
<1>19. \A n \in 1..Len(items') : Located(items[n].span)'
  BY <1>7, <1>9, <1>12
<1>20. \A n \in 1..Len(errors') : Located(errors[n].span)'
  BY <1>9 DEF Placed
<1> QED
  BY <1>10, <1>11, <1>18, <1>19, <1>20 DEF Placed

LEMMA ReportPlaces ==
  ASSUME Placed, NEW error, NEW span, Located(span), NEW e \in 1..Past, Report(error, span, PlaceOf(e))
  PROVE  Placed'
<1>1. PICK item : item = [error |-> error, span |-> span]
  OBVIOUS
<1>2. /\ item.span = span /\ errors' = Append(errors, item) /\ cursor' = PlaceOf(e)
      /\ UNCHANGED <<text, items>>
  BY <1>1 DEF Report
<1>3. PICK next : next = Append(errors, item)
  OBVIOUS
<1>4. /\ IsSequence(next) /\ Len(errors) \in Nat /\ Len(next) = Len(errors) + 1
      /\ \A n \in 1..Len(errors) : next[n] = errors[n]
      /\ next[Len(next)] = item
  BY <1>3, OwnAppend DEF Placed, IsSequence
<1>5. /\ Past' = Past
      /\ \A k : PlaceOf(k)' = PlaceOf(k)
      /\ \A any : Located(any)' <=> Located(any)
  BY <1>2, Unmoved
<1>6. IsSequence(text)' /\ IsSequence(items)' /\ IsSequence(errors)'
  BY <1>2, <1>3, <1>4 DEF Placed, IsSequence
<1>7. \E k \in 1..Past' : cursor' = PlaceOf(k)'
  BY <1>2, <1>5
<1>8. ASSUME NEW n \in 1..Len(next) PROVE Located(next[n].span)
  <2>1. CASE n = Len(next)
    BY <2>1, <1>2, <1>4
  <2>2. CASE n # Len(next)
    <3>1. n \in 1..Len(errors)
      BY <2>2, <1>4
    <3> QED
      BY <3>1, <1>4 DEF Placed
  <2> QED
    BY <2>1, <2>2
<1>9. \A n \in 1..Len(errors') : Located(errors[n].span)'
  BY <1>2, <1>3, <1>5, <1>8
<1>10. \A n \in 1..Len(items') : Located(items[n].span)'
  BY <1>2, <1>5 DEF Placed
<1>11. errors' # <<>>
  <2>1. Len(next) # 0
    BY <1>4
  <2> QED
    BY <2>1, <1>2, <1>3
<1> QED
  BY <1>6, <1>7, <1>9, <1>10, <1>11 DEF Placed

LEMMA Emitted ==
  ASSUME Placed, NEW e \in Start.at..Past, e \in Nat, NEW kind, NEW lexeme, Emit(kind, lexeme, PlaceOf(e))
  PROVE  Placed'
<1>1. PICK item : item = [kind |-> kind, lexeme |-> lexeme, span |-> Span(Start, PlaceOf(e))]
  OBVIOUS
<1>2. item.span = Span(Start, PlaceOf(e)) /\ items' = Append(items, item) /\ cursor' = PlaceOf(e)
      /\ UNCHANGED <<text, errors>>
  BY <1>1 DEF Emit
<1> QED
  BY <1>2, EmitPlaces

(* The character the lexer looks at, and the place after it.               *)
LEMMA LookingAt ==
  ASSUME Placed, AtCharacter
  PROVE  \E s \in 1..Past : /\ Start = PlaceOf(s) /\ Start.at = s /\ s \in Nat \ {0} /\ s < Past
                            /\ s + 1 \in 1..Past /\ s + 1 \in Start.at..Past /\ s + 1 \in Nat
                            /\ First = text[s] /\ Next1 = PlaceOf(s + 1) /\ Next1.at = s + 1
                            /\ Located(Span(Start, Next1))
<1>1. PICK c \in 1..Past : cursor = PlaceOf(c)
  BY DEF Placed
<1>2. PICK s \in c..Past : Start = PlaceOf(s) /\ Start.at = s /\ s \in Nat \ {0}
  BY <1>1, Starting DEF Placed
<1>3. s < Past
  BY <1>2 DEF AtCharacter
<1>4. Past \in Nat \ {0} /\ s \in 1..Past /\ s + 1 \in 1..Past /\ s + 1 \in s..Past
  BY <1>1, <1>2, <1>3, Ends DEF Placed
<1>5. First = text[s]
  BY <1>2 DEF First
<1>6. Next1 = PlaceOf(s + 1)
  BY <1>2, <1>5, BumpPlace DEF Next1
<1>7. Next1.at = s + 1
  BY <1>6 DEF PlaceOf
<1>8. Located(Span(Start, Next1))
  BY <1>2, <1>4, <1>6, Spanned DEF Placed
<1> QED
  BY <1>2, <1>3, <1>4, <1>5, <1>6, <1>7, <1>8

LEMMA StringPlaces ==
  ASSUME Placed, ScanString
  PROVE  Placed'
<1>1. AtCharacter /\ First = "\""
  BY DEF ScanString
<1>2. PICK quote : quote = "\""
  OBVIOUS
<1>3. First = quote /\ quote \notin Wide
  BY <1>1, <1>2, WideAssumption
<1>4. quote # Newline
  BY <1>2 DEF Newline
<1>5. PICK s \in 1..Past :
        /\ Start = PlaceOf(s) /\ Start.at = s /\ s \in Nat \ {0} /\ s < Past
        /\ s + 1 \in 1..Past /\ s + 1 \in Start.at..Past /\ s + 1 \in Nat
        /\ First = text[s] /\ Next1 = PlaceOf(s + 1) /\ Next1.at = s + 1
  BY <1>1, LookingAt
<1>6. PICK to, content, stop, bad :
        /\ to = StringEnd(s + 1) /\ content = SubSeq(text, s + 1, to - 1)
        /\ stop = MoveTo(Start, to) /\ bad = BadEscapes(content)
  OBVIOUS
<1>7. /\ to \in (s + 1)..Past
      /\ to = Past \/ text[to] \in {Newline, quote}
  BY <1>2, <1>5, <1>6, StringEnds DEF Placed
<1>8. Past \in Nat \ {0} /\ to \in Nat \ {0} /\ to \in 1..Past /\ to \in s..Past /\ to \in Start.at..Past /\ s <= to
  BY <1>5, <1>7, Ends DEF Placed
<1>9. stop = PlaceOf(to)
  BY <1>5, <1>6, <1>8, MovedPlace
<1>10. CASE Report("UnterminatedString", Span(Start, stop), stop)
  <2>1. Located(Span(Start, stop))
    BY <1>5, <1>8, <1>9, Spanned DEF Placed
  <2> QED
    BY <2>1, <1>8, <1>9, <1>10, ReportPlaces
<1>11. ASSUME ~(to = Past \/ text[to] = Newline)
       PROVE  Bump(stop, quote) = PlaceOf(to + 1) /\ to + 1 \in 1..Past /\ to + 1 \in Start.at..Past /\ to + 1 \in Nat
  <2>1. text[to] = quote /\ to # Past
    BY <1>7, <1>11
  <2>2. to + 1 \in 1..Past /\ to + 1 \in Start.at..Past /\ to + 1 \in Nat
    BY <2>1, <1>5, <1>8
  <2> QED
    BY <2>1, <2>2, <1>8, <1>9, BumpPlace
<1>12. CASE /\ ~(to = Past \/ text[to] = Newline) /\ bad # {}
            /\ Report("UnknownEscape", EscapeSpan(Start, content, CHOOSE k \in bad : \A m \in bad : k <= m),
                      Bump(stop, quote))
  <2>1. PICK j : j = CHOOSE k \in bad : \A m \in bad : k <= m
    OBVIOUS
  <2>2. bad \subseteq 1..(Len(content) - 1)
    BY <1>6 DEF BadEscapes
  <2>3. Len(content) \in Nat
    <3>1. content \in Seq(ToSet(text))
      BY <1>5, <1>6, <1>7, <1>8, Ends DEF Placed, IsSequence
    <3> QED
      BY <3>1, LenProperties
  <2>4. j \in bad
    <3>1. PICK n \in Nat : n = Len(content)
      BY <2>3
    <3>2. bad \in SUBSET (1..n) /\ bad # {}
      BY <1>12, <2>2, <3>1
    <3>3. Min(bad) \in bad /\ \A k \in bad : Min(bad) <= k
      BY <3>2, LeastIndex
    <3> QED
      BY <2>1, <3>3
  <2>5. j \in 1..(Len(content) - 1)
    BY <2>2, <2>4
  <2>6. Located(EscapeSpan(PlaceOf(s), content, j))
    <3>1. text[s] \notin Wide /\ text[s] # Newline
      BY <1>3, <1>4, <1>5
    <3> QED
      BY <3>1, <2>5, <1>5, <1>6, EscapeLocated DEF Placed
  <2>7. Report("UnknownEscape", EscapeSpan(PlaceOf(s), content, j), PlaceOf(to + 1))
    BY <1>5, <1>11, <1>12, <2>1
  <2> QED
    BY <2>6, <2>7, <1>11, <1>12, ReportPlaces
<1>13. CASE ~(to = Past \/ text[to] = Newline) /\ Emit("Str", content, Bump(stop, quote))
  BY <1>11, <1>13, Emitted
<1> QED
  BY <1>2, <1>5, <1>6, <1>10, <1>12, <1>13 DEF ScanString

LEMMA NextTokenPlaces ==
  ASSUME Placed, NextToken
  PROVE  Placed'
<1>1. CASE ScanPunctuation
  <2>1. AtCharacter /\ Emit(First, <<First>>, Next1)
    BY <1>1 DEF ScanPunctuation
  <2> QED
    BY <2>1, LookingAt, Emitted
<1>2. CASE ScanArrow
  <2>1. PICK s \in 1..Past :
          /\ Start = PlaceOf(s) /\ Start.at = s /\ s \in Nat \ {0} /\ s < Past
          /\ s + 1 \in 1..Past /\ s + 1 \in Start.at..Past /\ s + 1 \in Nat
          /\ First = text[s] /\ Next1 = PlaceOf(s + 1) /\ Next1.at = s + 1
          /\ Located(Span(Start, Next1))
    BY <1>2, LookingAt DEF ScanArrow
  <2>2. CASE Next1.at < Past /\ text[Next1.at] = ">" /\ Emit("->", <<"-", ">">>, Bump(Next1, ">"))
    <3>1. Bump(Next1, ">") = PlaceOf((s + 1) + 1)
      BY <2>1, <2>2, BumpPlace
    <3>2. (s + 1) + 1 \in Start.at..Past /\ (s + 1) + 1 \in Nat
      BY <2>1, <2>2, Ends DEF Placed
    <3>3. PICK e, lexeme : e = (s + 1) + 1 /\ lexeme = <<"-", ">">>
      OBVIOUS
    <3>4. Emit("->", lexeme, PlaceOf(e)) /\ e \in Start.at..Past /\ e \in Nat
      BY <2>2, <3>1, <3>2, <3>3
    <3> QED
      BY <3>4, Emitted
  <2>3. CASE Report("DanglingDash", Span(Start, Next1), Next1)
    BY <2>1, <2>3, ReportPlaces
  <2> QED
    BY <1>2, <2>2, <2>3 DEF ScanArrow
<1>3. ASSUME AtCharacter, NEW kind, NEW lexeme, NEW to, to \in Start.at..Past, Emit(kind, lexeme, MoveTo(Start, to))
      PROVE  Placed'
  <2>1. PICK s \in 1..Past : Start = PlaceOf(s) /\ Start.at = s /\ s \in Nat \ {0}
    BY <1>3, LookingAt
  <2>2. to \in Nat /\ s <= to
    BY <1>3, <2>1, Ends DEF Placed
  <2>3. Emit(kind, lexeme, PlaceOf(to))
    BY <1>3, <2>1, <2>2, MovedPlace
  <2> QED
    BY <1>3, <2>2, <2>3, Emitted
<1>4. AtCharacter => Start.at \in 1..Past
  BY LookingAt
<1>5. CASE ScanNumber
  <2>1. NumberEnd(Start.at) \in Start.at..Past
    BY <1>4, <1>5, NumberEnds DEF ScanNumber, Placed
  <2> QED
    BY <2>1, <1>3, <1>5 DEF ScanNumber
<1>6. CASE ScanIdent
  <2>1. WordEnd(Start.at) \in Start.at..Past
    BY <1>4, <1>6, WordEnds DEF ScanIdent, Placed
  <2> QED
    BY <2>1, <1>3, <1>6 DEF ScanIdent
<1>7. CASE ScanString
  BY <1>7, StringPlaces
<1>8. CASE RefuseCharacter
  <2>1. AtCharacter /\ Report("UnexpectedChar", Span(Start, Next1), Next1)
    BY <1>8 DEF RefuseCharacter
  <2> QED
    BY <2>1, LookingAt, ReportPlaces
<1>9. CASE EndOfFile
  <2>1. PICK c \in 1..Past : cursor = PlaceOf(c)
    BY DEF Placed
  <2>2. PICK s \in c..Past : Start = PlaceOf(s) /\ Start.at = s /\ s \in Nat \ {0}
    BY <2>1, Starting DEF Placed
  <2>3. s \in Start.at..Past /\ s \in Nat
    BY <2>2, Ends DEF Placed
  <2>4. PICK item : item = [kind |-> "Eof", lexeme |-> <<>>, span |-> Span(Start, Start)]
    OBVIOUS
  <2>5. item.span = Span(Start, PlaceOf(s)) /\ items' = Append(items, item) /\ cursor' = PlaceOf(s)
        /\ UNCHANGED <<text, errors>>
    BY <1>9, <2>2, <2>4 DEF EndOfFile
  <2> QED
    BY <2>3, <2>5, EmitPlaces
<1> QED
  BY <1>1, <1>2, <1>5, <1>6, <1>7, <1>8, <1>9 DEF NextToken

LEMMA PlacedInit ==
  ASSUME Init
  PROVE  Placed
<1>1. IsSequence(text)
  BY SourcesAssumption DEF Init, IsSequence
<1>2. cursor = Origin /\ items = <<>> /\ errors = <<>>
  BY DEF Init, LexInit
<1>3. IsSequence(<<>>) /\ Len(<<>>) = 0
  BY Values
<1>4. cursor = PlaceOf(1) /\ 1 \in 1..Past
  BY <1>1, <1>2, OriginPlace, Ends
<1>5. cursor.byte = EndOf(Len(items))
  BY <1>2, <1>3 DEF Origin, EndOf
<1> QED
  BY <1>1, <1>2, <1>3, <1>4, <1>5 DEF Placed

LEMMA PlacedNext ==
  ASSUME Placed, [Next]_vars
  PROVE  Placed'
<1>1. CASE NextToken
  BY <1>1, NextTokenPlaces
<1>2. CASE UNCHANGED lexVars
  <2>1. UNCHANGED <<text, cursor, items, errors>>
    BY <1>2 DEF lexVars
  <2>2. /\ Past' = Past
        /\ \A k : PlaceOf(k)' = PlaceOf(k)
        /\ \A span : Located(span)' <=> Located(span)
        /\ \A before, span : SetApart(before, span)' <=> SetApart(before, span)
    BY <2>1, Unmoved
  <2>3. \A n : EndOf(n)' = EndOf(n)
    BY <2>1 DEF EndOf
  <2> QED
    BY <2>1, <2>2, <2>3 DEF Placed, IsSequence
<1> QED
  BY <1>1, <1>2 DEF Next, vars

LEMMA PlacedGives ==
  ASSUME Placed
  PROVE  ItemsLocated
<1> DEFINE places == {[start |-> ByteAt(k), line |-> LineAt(k), col |-> ColumnAt(k)] : k \in 1..(Len(text) + 1)}
           bytes  == [k \in DOMAIN text |-> ByteAt(k)]
           gap(from, to) == {k \in DOMAIN text : from <= bytes[k] /\ bytes[k] < to}
<1>1. ASSUME NEW span, Located(span)
      PROVE  /\ [start |-> span.start, line |-> span.line, col |-> span.col] \in places
             /\ span.start <= span.end
  BY <1>1 DEF Located, Past
<1>2. ASSUME NEW item \in ToSet(items) \cup ToSet(errors) PROVE Located(item.span)
  <2>1. CASE item \in ToSet(items)
    <3>1. PICK n \in 1..Len(items) : items[n] = item
      BY <2>1, OwnElements DEF Placed, IsSequence
    <3> QED
      BY <3>1 DEF Placed
  <2>2. CASE item \in ToSet(errors)
    <3>1. PICK n \in 1..Len(errors) : errors[n] = item
      BY <2>2, OwnElements DEF Placed, IsSequence
    <3> QED
      BY <3>1 DEF Placed
  <2> QED
    BY <2>1, <2>2
<1>3. ASSUME NEW item \in ToSet(items) \cup ToSet(errors)
      PROVE  /\ [start |-> item.span.start, line |-> item.span.line, col |-> item.span.col] \in places
             /\ item.span.start <= item.span.end
  BY <1>1, <1>2
<1>4. \A from, to : gap(from, to) = Between(from, to)
  BY DEF Between
<1>5. ASSUME errors = <<>>, NEW n \in DOMAIN items
      PROVE  LET before == IF n = 1 THEN 0 ELSE items[n - 1].span.end
                 left   == gap(before, items[n].span.start)
             IN  before <= items[n].span.start /\ \A k \in left : \E h \in left : h <= k /\ IsTrivia(k, h)
  <2>1. n \in 1..Len(items) /\ Len(items) \in Nat
    BY LenProperties DEF Placed, IsSequence
  <2>2. PICK before : before = IF n = 1 THEN 0 ELSE items[n - 1].span.end
    OBVIOUS
  <2>3. before = EndOf(n - 1)
    BY <2>1, <2>2 DEF EndOf
  <2>4. SetApart(before, items[n].span)
    BY <1>5, <2>1, <2>3 DEF Placed
  <2>5. before <= items[n].span.start /\ \A k \in gap(before, items[n].span.start) :
          \E h \in gap(before, items[n].span.start) : h <= k /\ IsTrivia(k, h)
    <3> HIDE DEF gap
    <3> QED
      BY <1>4, <2>4 DEF SetApart
  <2> HIDE DEF gap
  <2> QED
    BY <2>2, <2>5
<1> QED
  BY <1>3, <1>5 DEF ItemsLocated

(* In every text, of every length, a token and an error are where they say *)
(* they are: the byte offset, the line and the column agree, through       *)
(* comments, wide characters and the escapes of a string; and between two  *)
(* tokens only spaces and comments are left out.                           *)
THEOREM ItemsAreWhereTheySay == Spec => []ItemsLocated
<1>1. Init => Placed
  BY PlacedInit
<1>2. Placed /\ [Next]_vars => Placed'
  BY PlacedNext
<1>3. Placed => ItemsLocated
  BY PlacedGives
<1> QED
  BY <1>1, <1>2, <1>3, PTL DEF Spec

===============================================================================
