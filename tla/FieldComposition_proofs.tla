------------------------- MODULE FieldComposition_proofs -------------------------
(***************************************************************************)
(* Proofs about the composition of one service's fields, for every set of  *)
(* programs: merging and substituting keep every body well formed, so no   *)
(* accumulator ever answers one key twice.                                 *)
(***************************************************************************)
EXTENDS FieldComposition, SequenceLemmas

(* Every way a step may end.                                               *)
Refusals ==
  {None, "FieldCollision", "MapKeyCollision", "LabelShapeMismatch", "TemplateArgumentNotScalar",
   "ArgumentNotInterpolable", "ArgumentNotNumeric", "ArgumentNotReferenceShaped",
   "FieldNotNumeric", "UnknownInterpolation", "DuplicateLabelKey", "MissingImageOrBuild"}

UniqueTexts(T) == {list \in Seq(T) : \A i, j \in DOMAIN list : list[i].text = list[j].text => i = j}

UniqueKeys(T) == {list \in Seq(T) : \A i, j \in DOMAIN list : list[i].key.text = list[j].key.text => i = j}

(* What merging into a keyed field comes to.                               *)
KeyedResults(T) == [error : Refusals, value : UniqueKeys(T)]

(* Merging two entries of one key leaves an entry of that key.             *)
KeepsKeys(field, tier, T) ==
  \A old, new \in T :
    LET merged == MergeHeld(field, old, new, tier)
    IN  /\ merged.error \in Refusals
        /\ merged.error = None /\ old.key.text = new.key.text =>
             merged.value \in T /\ merged.value.key.text = new.key.text

-------------------------------------------------------------------------------
(* The first error of several.                                             *)
LEMMA FirstErrorIs ==
  ASSUME NEW n \in Nat, NEW errors, DOMAIN errors = 1..n, \A i \in 1..n : errors[i] \in Refusals
  PROVE  FirstError(errors) \in Refusals
<1> DEFINE raised == {i \in DOMAIN errors : errors[i] # None}
<1>1. CASE raised = {}
  BY <1>1 DEF FirstError, Refusals
<1>2. CASE raised # {}
  <2>1. raised \in SUBSET (1..n)
    OBVIOUS
  <2>2. FirstError(errors) = errors[Min(raised)]
    BY <1>2 DEF FirstError
  <2> HIDE DEF raised
  <2>3. Min(raised) \in raised
    BY <1>2, <2>1, LeastIndex
  <2> QED
    BY <2>1, <2>2, <2>3
<1> QED
  BY <1>1, <1>2

-------------------------------------------------------------------------------
(* What has the indices of a sequence is one.                              *)
LEMMA MappedSeq ==
  ASSUME NEW list, list \in Seq(ToSet(list)), NEW image, image = [i \in DOMAIN list |-> image[i]]
  PROVE  image \in Seq(ToSet(image)) /\ DOMAIN image = DOMAIN list
<1>1. PICK n \in Nat : DOMAIN list = 1..n
  BY LenProperties
<1>2. DOMAIN image = 1..n
  BY <1>1
<1>3. image \in [1..n -> ToSet(image)]
  BY <1>1, <1>2 DEF ToSet
<1> QED
  BY <1>1, <1>2, <1>3

-------------------------------------------------------------------------------
(* The merge of lists.                                                     *)
LEMMA AddedUnique ==
  ASSUME NEW T, NEW list \in UniqueTexts(T), NEW lit \in T
  PROVE  AddDistinct(list, lit) \in UniqueTexts(T)
<1>1. CASE \E i \in DOMAIN list : list[i].text = lit.text
  BY <1>1 DEF AddDistinct
<1>2. CASE \A i \in DOMAIN list : list[i].text # lit.text
  <2>1. PICK all : all = Append(list, lit)
    OBVIOUS
  <2>2. list \in Seq(T) /\ \A i, j \in DOMAIN list : list[i].text = list[j].text => i = j
    BY DEF UniqueTexts
  <2>3. PICK n \in Nat : n = Len(list) /\ DOMAIN list = 1..n
    BY <2>2, LenProperties
  <2>4. /\ all \in Seq(T) /\ Len(all) = n + 1 /\ all[n + 1] = lit
        /\ \A i \in 1..n : all[i] = list[i]
    BY <2>1, <2>2, <2>3, AppendProperties
  <2>5. DOMAIN all = 1..(n + 1)
    BY <2>4, LenProperties
  <2>6. \A i \in 1..(n + 1) : i # n + 1 => i \in 1..n
    OBVIOUS
  <2>7. \A i, j \in DOMAIN all : all[i].text = all[j].text => i = j
    BY <1>2, <2>2, <2>3, <2>4, <2>5, <2>6
  <2>8. AddDistinct(list, lit) = all
    BY <1>2, <2>1 DEF AddDistinct
  <2> QED
    BY <2>4, <2>7, <2>8 DEF UniqueTexts
<1> QED
  BY <1>1, <1>2

(* What every step of appending stays in.                                  *)
LEMMA DistinctStays ==
  ASSUME NEW T, NEW S, NEW held \in S, NEW added \in Seq(T),
         \A list \in S : \A lit \in T : AddDistinct(list, lit) \in S
  PROVE  AppendDistinct(held, added) \in S
<1> DEFINE n == Len(added)
           D == 1..n
           g == [x \in S \X D |-> AddDistinct(x[1], added[x[2]])]
           folding(r) == [s \in SUBSET D |->
             IF s = {} THEN held ELSE AddDistinct(r[s \ {Max(s)}], added[Max(s)])]
           iter == CHOOSE r : r = folding(r)
<1>1. n \in Nat /\ DOMAIN added = D /\ \A i \in D : added[i] \in T
  BY LenProperties
<1>2. AppendDistinct(held, added) = iter[D]
  BY <1>1 DEF AppendDistinct, FoldLeft, MapThenFoldSet
<1>3. \A i \in D : \A a \in S : g[<<a, i>>] = AddDistinct(a, added[i])
  OBVIOUS
<1> HIDE DEF g, n, folding
<1>5. PICK f \in [SUBSET D -> S] : IsLeftFold(f, D, held, g)
  <2>1. \A i \in D : \A a \in S : g[<<a, i>>] \in S
    BY <1>1, <1>3
  <2> HIDE DEF iter
  <2> QED
    BY <1>1, <2>1, LeftFold
<1> HIDE DEF D, iter
<1>6. \A s \in SUBSET D : s # {} => Max(s) \in D /\ f[s \ {Max(s)}] \in S
  <2>1. \A s \in SUBSET D : s # {} => Max(s) \in s
    BY <1>1, FoldOrders DEF D
  <2> QED
    BY <1>5, <2>1
<1>7. \E r : r = folding(r)
  <2>1. \A s \in SUBSET D : f[s] = IF s = {} THEN held ELSE AddDistinct(f[s \ {Max(s)}], added[Max(s)])
    BY <1>3, <1>5, <1>6 DEF IsLeftFold
  <2>2. f = folding(f)
    BY <1>5, <2>1 DEF folding
  <2> QED
    BY <2>2
<1>8. iter = folding(iter)
  BY <1>7 DEF iter
<1>9. \A s \in SUBSET D : iter[s] = IF s = {} THEN held ELSE AddDistinct(iter[s \ {Max(s)}], added[Max(s)])
  BY <1>8 DEF folding
<1>10. \A s \in SUBSET D : iter[s] \in S
  <2>1. iter[{}] \in S
    BY <1>9
  <2>2. \A s \in SUBSET D : s # {} /\ Max(s) \in D /\ iter[s \ {Max(s)}] \in S => iter[s] \in S
    BY ZenonT(30), <1>1, <1>9
  <2> QED
    BY <1>1, <2>1, <2>2, LeftFoldStays DEF D
<1> QED
  BY <1>2, <1>10

LEMMA DistinctAppended ==
  ASSUME NEW T, NEW held \in Seq(T), NEW added \in Seq(T)
  PROVE  AppendDistinct(held, added) \in Seq(T)
<1>1. PICK S : S = Seq(T)
  OBVIOUS
<1>2. \A list \in S : \A lit \in T : AddDistinct(list, lit) \in S
  BY <1>1, AppendProperties DEF AddDistinct
<1> QED
  BY <1>1, <1>2, DistinctStays

-------------------------------------------------------------------------------
(* The merge of keyed fields.                                              *)

LEMMA KeyedAdded ==
  ASSUME NEW T, NEW field, NEW tier, KeepsKeys(field, tier, T),
         NEW sofar \in KeyedResults(T), NEW entry \in T
  PROVE  AddKeyed(field, tier, sofar, entry) \in KeyedResults(T)
<1>1. PICK list : list = sofar.value
  OBVIOUS
<1>2. list \in Seq(T) /\ \A i, j \in DOMAIN list : list[i].key.text = list[j].key.text => i = j
  BY <1>1 DEF KeyedResults, UniqueKeys
<1>3. PICK n \in Nat : n = Len(list) /\ DOMAIN list = 1..n
  BY <1>2, LenProperties
<1>4. PICK I : I = {i \in 1..n : list[i].key.text = entry.key.text}
  OBVIOUS
<1>5. PICK at : at = IF I # {} THEN Min(I) ELSE 0
  OBVIOUS
<1>6. PICK merged, r : /\ merged = MergeHeld(field, list[at], entry, tier)
                       /\ r = AddKeyed(field, tier, sofar, entry)
  OBVIOUS
<1>7. r = IF sofar.error # None THEN sofar
          ELSE IF at = 0 THEN Merged(Append(list, entry))
          ELSE IF merged.error # None THEN Collision(merged.error)
          ELSE Merged(ReplaceAt(list, at, merged.value))
  BY <1>1, <1>3, <1>4, <1>5, <1>6 DEF AddKeyed, SelectInSeq
<1>8. CASE sofar.error # None
  BY <1>6, <1>7, <1>8
<1>9. CASE sofar.error = None /\ I = {}
  <2>1. PICK all : all = Append(list, entry)
    OBVIOUS
  <2>2. r = Merged(all)
    BY <1>5, <1>7, <1>9, <2>1
  <2>3. /\ all \in Seq(T) /\ Len(all) = n + 1 /\ all[n + 1] = entry
        /\ \A i \in 1..n : all[i] = list[i]
    BY <1>2, <1>3, <2>1, AppendProperties
  <2>4. DOMAIN all = 1..(n + 1)
    BY <2>3, LenProperties
  <2>5. \A i \in 1..(n + 1) : i # n + 1 => i \in 1..n
    OBVIOUS
  <2>6. \A i \in 1..n : list[i].key.text # entry.key.text
    BY <1>4, <1>9
  <2>7. \A i, j \in DOMAIN all : all[i].key.text = all[j].key.text => i = j
    BY <1>2, <1>3, <2>3, <2>4, <2>5, <2>6
  <2>8. all \in UniqueKeys(T)
    BY <2>3, <2>7 DEF UniqueKeys
  <2> QED
    BY <1>6, <2>2, <2>8 DEF Merged, KeyedResults, Refusals
<1>10. CASE sofar.error = None /\ I # {}
  <2>1. at \in I /\ at \in 1..n /\ at # 0
    <3>1. at = Min(I) /\ I \in SUBSET (1..n)
      BY <1>4, <1>5, <1>10
    <3>2. Min(I) \in I
      BY <1>10, <3>1, LeastIndex
    <3>3. at \in I
      BY <3>1, <3>2
    <3>4. at \in 1..n
      BY <1>4, <3>3
    <3> QED
      BY <3>3, <3>4
  <2>2. list[at] \in T /\ list[at].key.text = entry.key.text
    BY <1>2, <1>3, <1>4, <2>1, ElementOfSeq
  <2>3. /\ merged.error \in Refusals
        /\ merged.error = None => merged.value \in T /\ merged.value.key.text = entry.key.text
    BY <1>6, <2>2 DEF KeepsKeys
  <2>4. CASE merged.error # None
    <3>1. r = Collision(merged.error)
      BY <1>7, <1>10, <2>1, <2>4
    <3>2. <<>> \in UniqueKeys(T)
      BY DEF UniqueKeys
    <3> QED
      BY <1>6, <2>3, <3>1, <3>2 DEF Collision, KeyedResults
  <2>5. CASE merged.error = None
    <3>1. PICK all, e : e = merged.value /\ all = [list EXCEPT ![at] = e]
      OBVIOUS
    <3>2. r = Merged(all)
      BY <1>7, <1>10, <2>1, <2>5, <3>1 DEF ReplaceAt
    <3>3. e \in T /\ e.key.text = entry.key.text
      BY <2>3, <2>5, <3>1
    <3>4. /\ all \in Seq(T) /\ Len(all) = n
          /\ \A i \in 1..n : all[i] = IF i = at THEN e ELSE list[i]
      BY <1>2, <1>3, <2>1, <3>1, <3>3, ExceptSeq
    <3>5. DOMAIN all = 1..n /\ \A i \in 1..n : all[i].key.text = list[i].key.text
      BY <2>2, <3>3, <3>4, LenProperties
    <3>6. \A i, j \in DOMAIN all : all[i].key.text = all[j].key.text => i = j
      BY <1>2, <1>3, <3>5
    <3>7. all \in UniqueKeys(T)
      BY <3>4, <3>6 DEF UniqueKeys
    <3> QED
      BY <1>6, <3>2, <3>7 DEF Merged, KeyedResults, Refusals
  <2> QED
    BY <2>4, <2>5
<1> QED
  BY <1>8, <1>9, <1>10

LEMMA KeyedMerged ==
  ASSUME NEW T, NEW field, NEW tier, KeepsKeys(field, tier, T),
         NEW held \in UniqueKeys(T), NEW added \in Seq(T)
  PROVE  MergeKeyed(field, held, added, tier) \in KeyedResults(T)
<1> DEFINE n == Len(added)
           D == 1..n
           S == KeyedResults(T)
           base == Merged(held)
           g == [x \in S \X D |-> AddKeyed(field, tier, x[1], added[x[2]])]
           folding(r) == [s \in SUBSET D |->
             IF s = {} THEN base ELSE AddKeyed(field, tier, r[s \ {Max(s)}], added[Max(s)])]
           iter == CHOOSE r : r = folding(r)
<1>1. n \in Nat /\ DOMAIN added = D /\ \A i \in D : added[i] \in T
  BY LenProperties
<1>2. MergeKeyed(field, held, added, tier) = iter[D]
  BY <1>1 DEF MergeKeyed, FoldLeft, MapThenFoldSet
<1>3. \A i \in D : \A a \in S : g[<<a, i>>] = AddKeyed(field, tier, a, added[i])
  OBVIOUS
<1>4. base \in S
  BY DEF Merged, KeyedResults, Refusals
<1> HIDE DEF g, n, folding, base, S
<1>5. \A a \in S : \A e \in T : AddKeyed(field, tier, a, e) \in S
  BY KeyedAdded DEF S
<1>6. PICK f \in [SUBSET D -> S] : IsLeftFold(f, D, base, g)
  <2>1. \A i \in D : \A a \in S : g[<<a, i>>] \in S
    BY <1>1, <1>3, <1>5
  <2> HIDE DEF iter
  <2> QED
    BY <1>1, <1>4, <2>1, LeftFold
<1> HIDE DEF D, iter
<1>7. \A s \in SUBSET D : s # {} => Max(s) \in D /\ f[s \ {Max(s)}] \in S
  <2>1. \A s \in SUBSET D : s # {} => Max(s) \in s
    BY <1>1, FoldOrders DEF D
  <2> QED
    BY <1>6, <2>1
<1>8. \E r : r = folding(r)
  <2>1. \A s \in SUBSET D : f[s] = IF s = {} THEN base
                                   ELSE AddKeyed(field, tier, f[s \ {Max(s)}], added[Max(s)])
    BY <1>3, <1>6, <1>7 DEF IsLeftFold
  <2>2. f = folding(f)
    BY <1>6, <2>1 DEF folding
  <2> QED
    BY <2>2
<1>9. iter = folding(iter)
  BY <1>8 DEF iter
<1>10. \A s \in SUBSET D : iter[s] = IF s = {} THEN base
                                     ELSE AddKeyed(field, tier, iter[s \ {Max(s)}], added[Max(s)])
  BY <1>9 DEF folding
<1>11. \A s \in SUBSET D : iter[s] \in S
  <2>1. iter[{}] \in S
    BY <1>4, <1>10
  <2>2. \A s \in SUBSET D : s # {} /\ Max(s) \in D /\ iter[s \ {Max(s)}] \in S => iter[s] \in S
    BY ZenonT(30), <1>1, <1>5, <1>10
  <2> QED
    BY <1>1, <2>1, <2>2, LeftFoldStays DEF D
<1> QED
  BY <1>2, <1>11 DEF S

(* The three rules for an entry whose key is held.                         *)
LEMMA MapKeepsKeys ==
  ASSUME NEW T, NEW tier
  PROVE  KeepsKeys("volume", tier, T)
<1> SUFFICES ASSUME NEW old \in T, NEW new \in T, NEW merged, merged = MergeHeld("volume", old, new, tier)
             PROVE  /\ merged.error \in Refusals
                    /\ merged.error = None /\ old.key.text = new.key.text =>
                         merged.value \in T /\ merged.value.key.text = new.key.text
  BY DEF KeepsKeys
<1>1. merged = Merged(new) \/ merged = Collision("MapKeyCollision")
  BY DEF MergeHeld, MergeMap
<1> QED
  BY <1>1 DEF Merged, Collision, Refusals, None

LEMMA DependsOnKeepsKeys ==
  ASSUME NEW T, NEW tier
  PROVE  KeepsKeys("dependsOn", tier, T)
<1> SUFFICES ASSUME NEW old \in T, NEW new \in T, NEW merged, merged = MergeHeld("dependsOn", old, new, tier)
             PROVE  /\ merged.error \in Refusals
                    /\ merged.error = None /\ old.key.text = new.key.text =>
                         merged.value \in T /\ merged.value.key.text = new.key.text
  BY DEF KeepsKeys
<1>1. merged = Merged(new) \/ merged = Merged(old) \/ merged = Collision("MapKeyCollision")
  BY DEF MergeHeld, MergeDependsOn
<1> QED
  BY <1>1 DEF Merged, Collision, Refusals, None

LabelsOver(K, B, U) == [key : K, isList : B, items : Seq(U)]

LEMMA LabelsKeepKeys ==
  ASSUME NEW K, NEW B, NEW U, NEW tier, NEW T, T = LabelsOver(K, B, U)
  PROVE  KeepsKeys("labels", tier, T)
<1> SUFFICES ASSUME NEW old \in T, NEW new \in T, NEW merged, merged = MergeHeld("labels", old, new, tier)
             PROVE  /\ merged.error \in Refusals
                    /\ merged.error = None /\ old.key.text = new.key.text =>
                         merged.value \in T /\ merged.value.key.text = new.key.text
  BY DEF KeepsKeys
<1>1. PICK k, b, x, y : /\ k \in K /\ b \in B /\ x \in Seq(U) /\ y \in Seq(U) /\ y = new.items
                        /\ old = [key |-> k, isList |-> b, items |-> x]
  BY DEF LabelsOver
<1>2. merged = IF old.isList # new.isList THEN Collision("LabelShapeMismatch")
               ELSE IF old.isList THEN Merged(LabelItems(old, new, tier))
               ELSE IF tier = "own" THEN Merged([old EXCEPT !.items = y])
               ELSE Collision("MapKeyCollision")
  BY <1>1 DEF MergeHeld, MergeLabels
<1>3. CASE merged = Collision("LabelShapeMismatch") \/ merged = Collision("MapKeyCollision")
  BY <1>3 DEF Collision, Refusals, None
<1>4. CASE merged = Merged(LabelItems(old, new, tier))
  <2>1. PICK z : z = AppendDistinct(x, y)
    OBVIOUS
  <2>2. z \in Seq(U)
    BY <1>1, <2>1, DistinctAppended
  <2>3. PICK label : label = [old EXCEPT !.items = z]
    OBVIOUS
  <2>4. merged = Merged(label)
    BY <1>1, <1>4, <2>1, <2>3 DEF LabelItems
  <2>5. label = [key |-> k, isList |-> b, items |-> z]
    BY <1>1, <2>3
  <2>6. label \in T /\ label.key = old.key
    BY <1>1, <2>2, <2>5 DEF LabelsOver
  <2> QED
    BY <2>4, <2>6 DEF Merged, Refusals
<1>5. CASE merged = Merged([old EXCEPT !.items = y])
  <2>1. PICK label : label = [old EXCEPT !.items = y]
    OBVIOUS
  <2>2. label = [key |-> k, isList |-> b, items |-> y]
    BY <1>1, <2>1
  <2>3. label \in T /\ label.key = old.key
    BY <1>1, <2>2 DEF LabelsOver
  <2>4. merged = Merged(label)
    BY <1>5, <2>1
  <2> QED
    BY <2>3, <2>4 DEF Merged, Refusals
<1> QED
  BY <1>2, <1>3, <1>4, <1>5

-------------------------------------------------------------------------------
(* The fields of a body.                                                   *)

KeysDiffer(list)  == \A i, j \in DOMAIN list : list[i].key.text = list[j].key.text => i = j
TextsDiffer(list) == \A i, j \in DOMAIN list : list[i].text = list[j].text => i = j

LabelsFormed(labels) ==
  \A label \in labels :
     label = Label(label.key, label.isList, label.items) /\ label.items \in Seq(ToSet(label.items))

KeysInScope(deps, params) == \A dep \in deps : InScope(dep.key, params)
LitsInScope(lits, params) == \A lit \in lits : InScope(lit, params)

LEMMA FieldsHave ==
  ASSUME NEW fields, NEW params, IsFields(fields, params)
  PROVE  /\ fields.volume \in Seq(ToSet(fields.volume)) /\ fields.labels \in Seq(ToSet(fields.labels))
         /\ fields.dependsOn \in Seq(ToSet(fields.dependsOn))
         /\ fields.networks \in Seq(ToSet(fields.networks)) /\ fields.dns \in Seq(ToSet(fields.dns))
         /\ LabelsFormed(ToSet(fields.labels))
         /\ KeysInScope(ToSet(fields.dependsOn), params)
         /\ LitsInScope(ToSet(fields.networks), params)
         /\ LitsInScope(ToSet(fields.dns), params)
BY DEF IsFields, LabelsFormed, KeysInScope, LitsInScope

LEMMA FieldsAre ==
  ASSUME NEW image, NEW port, NEW volume, NEW labels, NEW dependsOn, NEW networks, NEW dns, NEW params,
         volume \in Seq(ToSet(volume)), labels \in Seq(ToSet(labels)),
         dependsOn \in Seq(ToSet(dependsOn)), networks \in Seq(ToSet(networks)), dns \in Seq(ToSet(dns)),
         LabelsFormed(ToSet(labels)),
         KeysInScope(ToSet(dependsOn), params),
         LitsInScope(ToSet(networks), params), LitsInScope(ToSet(dns), params),
         NEW fields, fields = [image |-> image, port |-> port, volume |-> volume, labels |-> labels,
                               dependsOn |-> dependsOn, networks |-> networks, dns |-> dns]
  PROVE  IsFields(fields, params)
<1>1. /\ fields.volume = volume /\ fields.labels = labels /\ fields.dependsOn = dependsOn
      /\ fields.networks = networks /\ fields.dns = dns
  OBVIOUS
<1>2. \A f \in {"volume", "labels", "dependsOn", "networks", "dns"} : fields[f] \in Seq(ToSet(fields[f]))
  BY <1>1
<1> QED
  BY <1>1, <1>2 DEF IsFields, LabelsFormed, KeysInScope, LitsInScope

LEMMA KeysAre ==
  ASSUME NEW fields
  PROVE  KeysUnique(fields) <=>
           /\ KeysDiffer(fields.volume)
           /\ KeysDiffer(fields.labels)
           /\ KeysDiffer(fields.dependsOn)
           /\ TextsDiffer(fields.networks)
BY DEF KeysUnique, IsInjective, Texts, KeysDiffer, TextsDiffer

(* A keyed field merged, over the entries of both.                         *)
LEMMA EntriesMerged ==
  ASSUME NEW field \in {"volume", "dependsOn"}, NEW tier,
         NEW held, held \in Seq(ToSet(held)),
         KeysDiffer(held),
         NEW added, added \in Seq(ToSet(added)),
         NEW r, r = MergeKeyed(field, held, added, tier)
  PROVE  /\ r.error \in Refusals /\ r.value \in Seq(ToSet(r.value))
         /\ ToSet(r.value) \subseteq ToSet(held) \cup ToSet(added)
         /\ KeysDiffer(r.value)
<1> DEFINE T == ToSet(held) \cup ToSet(added)
<1>1. held \in Seq(T) /\ added \in Seq(T)
  BY SeqMonotonic
<1> HIDE DEF T
<1>2. held \in UniqueKeys(T)
  BY <1>1 DEF UniqueKeys, KeysDiffer
<1>3. KeepsKeys(field, tier, T)
  BY MapKeepsKeys, DependsOnKeepsKeys
<1>4. r \in KeyedResults(T)
  BY <1>1, <1>2, <1>3, KeyedMerged
<1>5. /\ r.error \in Refusals /\ r.value \in Seq(T)
      /\ KeysDiffer(r.value)
  BY <1>4 DEF KeyedResults, UniqueKeys, KeysDiffer
<1> QED
  BY <1>5, OwnElements DEF T

LEMMA LabelsMerged ==
  ASSUME NEW tier, NEW held, held \in Seq(ToSet(held)),
         KeysDiffer(held),
         NEW added, added \in Seq(ToSet(added)),
         LabelsFormed(ToSet(held) \cup ToSet(added)),
         NEW r, r = MergeKeyed("labels", held, added, tier)
  PROVE  /\ r.error \in Refusals /\ r.value \in Seq(ToSet(r.value))
         /\ LabelsFormed(ToSet(r.value))
         /\ KeysDiffer(r.value)
<1> DEFINE X == ToSet(held) \cup ToSet(added)
           K == {label.key : label \in X}
           B == {label.isList : label \in X}
           U == UNION {ToSet(label.items) : label \in X}
<1>1. PICK T : T = LabelsOver(K, B, U)
  OBVIOUS
<1>2. ASSUME NEW label \in X PROVE label \in T
  <2>1. PICK k, b, x : k = label.key /\ b = label.isList /\ x = label.items
    OBVIOUS
  <2>2. k \in K /\ b \in B
    BY <2>1
  <2>3. x \in Seq(U)
    <3>1. ToSet(x) \subseteq U
      BY <2>1
    <3>2. x \in Seq(ToSet(x))
      BY <2>1 DEF LabelsFormed
    <3> HIDE DEF U
    <3> QED
      BY <3>1, <3>2, SeqMonotonic
  <2>4. label = [key |-> k, isList |-> b, items |-> x]
    BY <2>1 DEF Label, LabelsFormed
  <2> HIDE DEF X, K, B, U
  <2> QED
    BY <1>1, <2>2, <2>3, <2>4 DEF LabelsOver
<1>3. held \in Seq(T) /\ added \in Seq(T)
  <2>1. ToSet(held) \subseteq T /\ ToSet(added) \subseteq T
    BY <1>2
  <2> HIDE DEF X, K, B, U
  <2> QED
    BY <2>1, SeqMonotonic
<1> HIDE DEF X, K, B, U
<1>4. held \in UniqueKeys(T)
  BY <1>3 DEF UniqueKeys, KeysDiffer
<1>5. KeepsKeys("labels", tier, T)
  BY <1>1, LabelsKeepKeys
<1>6. r \in KeyedResults(T)
  BY <1>3, <1>4, <1>5, KeyedMerged
<1>7. /\ r.error \in Refusals /\ r.value \in Seq(T)
      /\ KeysDiffer(r.value)
  BY <1>6 DEF KeyedResults, UniqueKeys, KeysDiffer
<1>8. r.value \in Seq(ToSet(r.value)) /\ ToSet(r.value) \subseteq T
  BY <1>7, OwnElements
<1>9. ASSUME NEW label \in ToSet(r.value)
      PROVE  label = Label(label.key, label.isList, label.items) /\ label.items \in Seq(ToSet(label.items))
  <2>1. PICK k, b, x : x \in Seq(U) /\ label = [key |-> k, isList |-> b, items |-> x]
    BY <1>1, <1>8 DEF LabelsOver
  <2>2. x \in Seq(ToSet(x))
    BY <2>1, OwnElements
  <2> QED
    BY <2>1, <2>2 DEF Label
<1> QED
  BY <1>7, <1>8, <1>9 DEF LabelsFormed

LEMMA TierMerged ==
  ASSUME NEW params, NEW acc, IsFields(acc, params), KeysUnique(acc),
         NEW fields, IsFields(fields, params), NEW tier, NEW r, r = MergeTier(acc, fields, tier)
  PROVE  IsFields(r.value, params) /\ KeysUnique(r.value) /\ r.error \in Refusals
<1>1. PICK image, port, volume, labels, dependsOn, networks, dns :
        /\ image = MergeScalar(acc.image, fields.image, tier)
        /\ port = MergeScalar(acc.port, fields.port, tier)
        /\ volume = MergeKeyed("volume", acc.volume, fields.volume, tier)
        /\ labels = MergeKeyed("labels", acc.labels, fields.labels, tier)
        /\ dependsOn = MergeKeyed("dependsOn", acc.dependsOn, fields.dependsOn, tier)
        /\ networks = AppendDistinct(acc.networks, fields.networks)
        /\ dns = acc.dns \o fields.dns
  OBVIOUS
<1>2. r = [error |-> FirstError(<<image.error, port.error, volume.error, labels.error, dependsOn.error>>),
           value |-> [image |-> image.value, port |-> port.value, volume |-> volume.value,
                      labels |-> labels.value, dependsOn |-> dependsOn.value,
                      networks |-> networks, dns |-> dns]]
  BY <1>1 DEF MergeTier
<1>3. /\ KeysDiffer(acc.volume)
      /\ KeysDiffer(acc.labels)
      /\ KeysDiffer(acc.dependsOn)
      /\ TextsDiffer(acc.networks)
  BY KeysAre
<1>4. /\ volume.error \in Refusals /\ volume.value \in Seq(ToSet(volume.value))
      /\ KeysDiffer(volume.value)
  <2>1. PICK held, added, field : held = acc.volume /\ added = fields.volume /\ field = "volume"
    OBVIOUS
  <2>2. held \in Seq(ToSet(held)) /\ added \in Seq(ToSet(added))
    BY <2>1, FieldsHave
  <2>3. KeysDiffer(held)
    BY <1>3, <2>1
  <2>4. volume = MergeKeyed(field, held, added, tier) /\ field \in {"volume", "dependsOn"}
    BY <1>1, <2>1
  <2> QED
    BY <2>2, <2>3, <2>4, EntriesMerged
<1>5. /\ labels.error \in Refusals /\ labels.value \in Seq(ToSet(labels.value))
      /\ LabelsFormed(ToSet(labels.value))
      /\ KeysDiffer(labels.value)
  <2>1. PICK held, added : held = acc.labels /\ added = fields.labels
    OBVIOUS
  <2>2. /\ held \in Seq(ToSet(held)) /\ added \in Seq(ToSet(added))
        /\ LabelsFormed(ToSet(held) \cup ToSet(added))
    BY <2>1, FieldsHave DEF LabelsFormed
  <2>3. KeysDiffer(held)
    BY <1>3, <2>1
  <2>4. labels = MergeKeyed("labels", held, added, tier)
    BY <1>1, <2>1
  <2> QED
    BY <2>2, <2>3, <2>4, LabelsMerged
<1>6. /\ dependsOn.error \in Refusals /\ dependsOn.value \in Seq(ToSet(dependsOn.value))
      /\ KeysInScope(ToSet(dependsOn.value), params)
      /\ KeysDiffer(dependsOn.value)
  <2>1. PICK held, added, field : held = acc.dependsOn /\ added = fields.dependsOn /\ field = "dependsOn"
    OBVIOUS
  <2>2. /\ held \in Seq(ToSet(held)) /\ added \in Seq(ToSet(added))
        /\ KeysInScope(ToSet(held) \cup ToSet(added), params)
    BY <2>1, FieldsHave DEF KeysInScope
  <2>3. KeysDiffer(held)
    BY <1>3, <2>1
  <2>4. dependsOn = MergeKeyed(field, held, added, tier) /\ field \in {"volume", "dependsOn"}
    BY <1>1, <2>1
  <2>5. /\ dependsOn.error \in Refusals /\ dependsOn.value \in Seq(ToSet(dependsOn.value))
        /\ ToSet(dependsOn.value) \subseteq ToSet(held) \cup ToSet(added)
        /\ KeysDiffer(dependsOn.value)
    BY <2>2, <2>3, <2>4, EntriesMerged
  <2> QED
    BY <2>2, <2>5 DEF KeysInScope
<1>7. /\ networks \in Seq(ToSet(networks)) /\ LitsInScope(ToSet(networks), params)
      /\ TextsDiffer(networks)
  <2>1. PICK held, added : held = acc.networks /\ added = fields.networks
    OBVIOUS
  <2> DEFINE T == ToSet(held) \cup ToSet(added)
  <2>2. held \in Seq(T) /\ added \in Seq(T) /\ LitsInScope(T, params)
    <3>1. /\ held \in Seq(ToSet(held)) /\ added \in Seq(ToSet(added))
          /\ LitsInScope(T, params)
      BY <2>1, FieldsHave DEF LitsInScope
    <3> QED
      BY <3>1, SeqMonotonic
  <2> HIDE DEF T
  <2>3. PICK S : S = UniqueTexts(T)
    OBVIOUS
  <2>4. held \in S
    BY <1>3, <2>1, <2>2, <2>3 DEF UniqueTexts, TextsDiffer
  <2>5. \A list \in S : \A lit \in T : AddDistinct(list, lit) \in S
    BY <2>3, AddedUnique
  <2>6. networks \in S
    BY <1>1, <2>1, <2>2, <2>4, <2>5, DistinctStays
  <2>7. /\ networks \in Seq(T)
        /\ TextsDiffer(networks)
    BY <2>3, <2>6 DEF UniqueTexts, TextsDiffer
  <2> QED
    BY <2>2, <2>7, OwnElements DEF LitsInScope
<1>8. dns \in Seq(ToSet(dns)) /\ LitsInScope(ToSet(dns), params)
  <2>1. PICK held, added : held = acc.dns /\ added = fields.dns
    OBVIOUS
  <2> DEFINE T == ToSet(held) \cup ToSet(added)
  <2>2. held \in Seq(T) /\ added \in Seq(T) /\ LitsInScope(T, params)
    <3>1. /\ held \in Seq(ToSet(held)) /\ added \in Seq(ToSet(added))
          /\ LitsInScope(T, params)
      BY <2>1, FieldsHave DEF LitsInScope
    <3> QED
      BY <3>1, SeqMonotonic
  <2> HIDE DEF T
  <2>3. dns \in Seq(T)
    BY <1>1, <2>1, <2>2, ConcatProperties
  <2> QED
    BY <2>2, <2>3, OwnElements DEF LitsInScope
<1>9. PICK i, p, v, l, d, body :
        /\ i = image.value /\ p = port.value /\ v = volume.value /\ l = labels.value
        /\ d = dependsOn.value /\ body = r.value
  OBVIOUS
<1>10. body = [image |-> i, port |-> p, volume |-> v, labels |-> l,
               dependsOn |-> d, networks |-> networks, dns |-> dns]
  BY <1>2, <1>9
<1>11. IsFields(body, params)
  BY <1>4, <1>5, <1>6, <1>7, <1>8, <1>9, <1>10, FieldsAre
<1>12. body.volume = v /\ body.labels = l /\ body.dependsOn = d /\ body.networks = networks
  BY <1>10
<1>13. KeysUnique(body)
  BY <1>4, <1>5, <1>6, <1>7, <1>9, <1>12, KeysAre
<1>14. r.error \in Refusals
  <2>1. image.error \in Refusals /\ port.error \in Refusals
    BY <1>1 DEF MergeScalar, Merged, Collision, Refusals
  <2>2. PICK n \in Nat : n = 5
    OBVIOUS
  <2>3. PICK errors : errors = <<image.error, port.error, volume.error, labels.error, dependsOn.error>>
    OBVIOUS
  <2>4. DOMAIN errors = 1..n /\ \A k \in 1..n : errors[k] \in Refusals
    BY <1>4, <1>5, <1>6, <2>1, <2>2, <2>3
  <2>5. r.error = FirstError(errors)
    BY <1>2, <2>3
  <2> QED
    BY <2>4, <2>5, FirstErrorIs
<1> QED
  BY <1>9, <1>11, <1>13, <1>14

-------------------------------------------------------------------------------
(* Substitution takes what a body may hold to what its caller may.         *)

Binds(args, inner, outer) == DOMAIN args = inner /\ \A q \in inner : IsArgument(args[q], outer)

LEMMA ItemsKnown ==
  ASSUME NEW inner, NEW outer, NEW args, Binds(args, inner, outer),
         NEW lit, InScope(lit, inner), NEW items, items = Items(lit, args)
  PROVE  items \in Seq(ToSet(items)) /\ LitsInScope(ToSet(items), outer)
<1>1. CASE lit.kind = "param" /\ args[ParamOf(lit)].kind = "list"
  <2>1. IsArgument(args[ParamOf(lit)], outer) /\ items = args[ParamOf(lit)].items
    BY <1>1 DEF Items, Binds, InScope
  <2> QED
    BY <1>1, <2>1 DEF IsArgument, LitsInScope
<1>2. CASE ~(lit.kind = "param" /\ args[ParamOf(lit)].kind = "list")
  <2>1. PICK item : item = SubstituteLiteral(lit, args)
    OBVIOUS
  <2>2. InScope(item, outer)
    <3>1. CASE lit.kind = "param"
      <4>1. IsArgument(args[ParamOf(lit)], outer) /\ item = args[ParamOf(lit)] /\ item.kind # "list"
        BY <1>2, <2>1, <3>1 DEF SubstituteLiteral, Binds, InScope
      <4> QED
        BY <4>1 DEF IsArgument
    <3>2. CASE lit.kind = "str"
      <4>1. item.kind = "str"
        BY <2>1, <3>2 DEF SubstituteLiteral, Str
      <4> QED
        BY <4>1 DEF InScope
    <3>3. CASE lit.kind # "param" /\ lit.kind # "str"
      <4>1. item = lit
        BY <2>1, <3>3 DEF SubstituteLiteral
      <4> QED
        BY <3>3, <4>1 DEF InScope
    <3> QED
      BY <3>1, <3>2, <3>3
  <2>3. items = <<item>>
    BY <1>2, <2>1 DEF Items
  <2>4. items \in Seq(ToSet(items))
    BY <2>3, OwnSingle
  <2>5. ToSet(items) = {item}
    BY <2>3 DEF ToSet
  <2> QED
    BY <2>2, <2>4, <2>5 DEF LitsInScope
<1> QED
  BY <1>1, <1>2

LEMMA SplicedKnown ==
  ASSUME NEW inner, NEW outer, NEW args, Binds(args, inner, outer),
         NEW list, list \in Seq(ToSet(list)), LitsInScope(ToSet(list), inner),
         NEW spliced, spliced = Spliced(list, args)
  PROVE  spliced \in Seq(ToSet(spliced)) /\ LitsInScope(ToSet(spliced), outer)
<1>1. PICK seqs : seqs = [i \in DOMAIN list |-> Items(list[i], args)]
  OBVIOUS
<1>2. PICK n \in Nat : n = Len(list) /\ DOMAIN list = 1..n
  BY LenProperties
<1>3. ASSUME NEW i \in 1..n
      PROVE  seqs[i] \in Seq(ToSet(seqs[i])) /\ LitsInScope(ToSet(seqs[i]), outer)
  <2>1. PICK lit, items : lit = list[i] /\ items = Items(lit, args)
    OBVIOUS
  <2>2. lit \in ToSet(list)
    BY <1>2, <2>1, ElementOfSeq
  <2>3. InScope(lit, inner)
    BY <2>2 DEF LitsInScope
  <2>4. items \in Seq(ToSet(items)) /\ LitsInScope(ToSet(items), outer)
    BY <2>1, <2>3, ItemsKnown
  <2> QED
    BY <1>1, <1>2, <2>1, <2>4
<1>4. seqs \in Seq(ToSet(seqs)) /\ DOMAIN seqs = 1..n
  BY <1>1, <1>2, MappedSeq
<1>5. /\ FlattenSeq(seqs) \in Seq(ToSet(FlattenSeq(seqs)))
      /\ ToSet(FlattenSeq(seqs)) \subseteq UNION {ToSet(seqs[i]) : i \in DOMAIN seqs}
  BY <1>3, <1>4, OwnFlatten
<1>6. spliced = FlattenSeq(seqs)
  BY <1>1 DEF Spliced
<1> QED
  BY <1>3, <1>4, <1>5, <1>6 DEF LitsInScope

LEMMA DependenciesKnown ==
  ASSUME NEW inner, NEW outer, NEW args, Binds(args, inner, outer),
         NEW list, list \in Seq(ToSet(list)), KeysInScope(ToSet(list), inner),
         NEW spliced, spliced = FlattenSeq([i \in DOMAIN list |-> SplicedDependency(list[i], args)])
  PROVE  spliced \in Seq(ToSet(spliced)) /\ KeysInScope(ToSet(spliced), outer)
<1>1. PICK seqs : seqs = [i \in DOMAIN list |-> SplicedDependency(list[i], args)]
  OBVIOUS
<1>2. PICK n \in Nat : n = Len(list) /\ DOMAIN list = 1..n
  BY LenProperties
<1>3. ASSUME NEW i \in 1..n
      PROVE  seqs[i] \in Seq(ToSet(seqs[i])) /\ KeysInScope(ToSet(seqs[i]), outer)
  <2>1. PICK dep, items : dep = list[i] /\ items = Items(dep.key, args)
    OBVIOUS
  <2>2. dep \in ToSet(list)
    BY <1>2, <2>1, ElementOfSeq
  <2>3. InScope(dep.key, inner)
    BY <2>2 DEF KeysInScope
  <2>4. items \in Seq(ToSet(items)) /\ LitsInScope(ToSet(items), outer)
    BY <2>1, <2>3, ItemsKnown
  <2>5. PICK deps : deps = [k \in DOMAIN items |-> Dependency(items[k], dep.condition)]
    OBVIOUS
  <2>6. deps \in Seq(ToSet(deps))
    BY <2>4, <2>5, MappedSeq
  <2>7. KeysInScope(ToSet(deps), outer)
    BY <2>4, <2>5 DEF KeysInScope, LitsInScope, ToSet, Dependency
  <2>8. seqs[i] = deps
    BY <1>1, <1>2, <2>1, <2>5 DEF SplicedDependency
  <2> QED
    BY <2>6, <2>7, <2>8
<1>4. seqs \in Seq(ToSet(seqs)) /\ DOMAIN seqs = 1..n
  BY <1>1, <1>2, MappedSeq
<1>5. /\ FlattenSeq(seqs) \in Seq(ToSet(FlattenSeq(seqs)))
      /\ ToSet(FlattenSeq(seqs)) \subseteq UNION {ToSet(seqs[i]) : i \in DOMAIN seqs}
  BY <1>3, <1>4, OwnFlatten
<1>6. spliced = FlattenSeq(seqs)
  BY <1>1
<1> QED
  BY <1>3, <1>4, <1>5, <1>6 DEF KeysInScope

(* The labels of a body, substituted, are labels.                          *)
LEMMA LabelsKnown ==
  ASSUME NEW args, NEW list, list \in Seq(ToSet(list)), LabelsFormed(ToSet(list)),
         NEW mapped, mapped = [i \in DOMAIN list |->
                       Label(SubstituteLiteral(list[i].key, args), list[i].isList,
                             [k \in DOMAIN list[i].items |-> SubstituteLiteral(list[i].items[k], args)])]
  PROVE  mapped \in Seq(ToSet(mapped)) /\ LabelsFormed(ToSet(mapped))
<1>1. mapped \in Seq(ToSet(mapped)) /\ DOMAIN mapped = DOMAIN list
  BY MappedSeq
<1>2. PICK n \in Nat : n = Len(list) /\ DOMAIN list = 1..n
  BY LenProperties
<1>3. ASSUME NEW made \in ToSet(mapped)
      PROVE  made = Label(made.key, made.isList, made.items) /\ made.items \in Seq(ToSet(made.items))
  <2>0. PICK i \in 1..n : made = mapped[i]
    BY <1>1, <1>2 DEF ToSet
  <2>1. PICK label : label = list[i]
    OBVIOUS
  <2>2. label \in ToSet(list)
    BY <1>2, <2>1, ElementOfSeq
  <2>3. PICK held : held = label.items
    OBVIOUS
  <2>4. held \in Seq(ToSet(held))
    BY <2>2, <2>3 DEF LabelsFormed
  <2>5. PICK items, key : /\ items = [k \in DOMAIN held |-> SubstituteLiteral(held[k], args)]
                          /\ key = SubstituteLiteral(label.key, args)
    OBVIOUS
  <2>6. items \in Seq(ToSet(items))
    BY <2>4, <2>5, MappedSeq
  <2>7. mapped[i] = Label(key, label.isList, items)
    BY <1>2, <2>1, <2>3, <2>5
  <2>8. made = [key |-> key, isList |-> label.isList, items |-> items]
    BY <2>0, <2>7 DEF Label
  <2>9. made.key = key /\ made.isList = label.isList /\ made.items = items
    BY <2>8
  <2> QED
    BY <2>6, <2>8, <2>9 DEF Label
<1> QED
  BY <1>1, <1>3 DEF LabelsFormed

LEMMA Substituted ==
  ASSUME NEW inner, NEW outer, NEW args, Binds(args, inner, outer),
         NEW fields, IsFields(fields, inner), NEW bound, bound = Substitute(fields, args)
  PROVE  IsFields(bound, outer)
<1>1. PICK image, port, volume, labels, dependsOn, networks, dns :
        /\ image = SubstituteLiteral(fields.image, args)
        /\ port = SubstituteLiteral(fields.port, args)
        /\ volume = [i \in DOMAIN fields.volume |->
                       Entry(SubstituteLiteral(fields.volume[i].key, args),
                             SubstituteLiteral(fields.volume[i].value, args))]
        /\ labels = [i \in DOMAIN fields.labels |->
                       Label(SubstituteLiteral(fields.labels[i].key, args), fields.labels[i].isList,
                             [k \in DOMAIN fields.labels[i].items |->
                                SubstituteLiteral(fields.labels[i].items[k], args)])]
        /\ dependsOn = FlattenSeq([i \in DOMAIN fields.dependsOn |->
                                     SplicedDependency(fields.dependsOn[i], args)])
        /\ networks = Spliced(fields.networks, args)
        /\ dns = Spliced(fields.dns, args)
  OBVIOUS
<1>2. bound = [image |-> image, port |-> port, volume |-> volume, labels |-> labels,
               dependsOn |-> dependsOn, networks |-> networks, dns |-> dns]
  BY <1>1 DEF Substitute
<1>3. volume \in Seq(ToSet(volume))
  <2>1. PICK list : list = fields.volume
    OBVIOUS
  <2>2. list \in Seq(ToSet(list)) /\ volume = [i \in DOMAIN list |-> volume[i]]
    BY <1>1, <2>1, FieldsHave
  <2> QED
    BY <2>2, MappedSeq
<1>4. labels \in Seq(ToSet(labels)) /\ LabelsFormed(ToSet(labels))
  <2>1. PICK list : list = fields.labels
    OBVIOUS
  <2>2. list \in Seq(ToSet(list)) /\ LabelsFormed(ToSet(list))
    BY <2>1, FieldsHave
  <2> QED
    BY <1>1, <2>1, <2>2, LabelsKnown
<1>5. dependsOn \in Seq(ToSet(dependsOn)) /\ KeysInScope(ToSet(dependsOn), outer)
  <2>1. PICK list : list = fields.dependsOn
    OBVIOUS
  <2>2. list \in Seq(ToSet(list)) /\ KeysInScope(ToSet(list), inner)
    BY <2>1, FieldsHave
  <2> QED
    BY <1>1, <2>1, <2>2, DependenciesKnown
<1>6. networks \in Seq(ToSet(networks)) /\ LitsInScope(ToSet(networks), outer)
  <2>1. PICK list : list = fields.networks
    OBVIOUS
  <2>2. list \in Seq(ToSet(list)) /\ LitsInScope(ToSet(list), inner)
    BY <2>1, FieldsHave
  <2> QED
    BY <1>1, <2>1, <2>2, SplicedKnown
<1>7. dns \in Seq(ToSet(dns)) /\ LitsInScope(ToSet(dns), outer)
  <2>1. PICK list : list = fields.dns
    OBVIOUS
  <2>2. list \in Seq(ToSet(list)) /\ LitsInScope(ToSet(list), inner)
    BY <2>1, FieldsHave
  <2> QED
    BY <1>1, <2>1, <2>2, SplicedKnown
<1> QED
  BY <1>2, <1>3, <1>4, <1>5, <1>6, <1>7, FieldsAre

(* And whatever stops it is one of the refusals.                           *)
LEMMA ErrorsOf ==
  ASSUME NEW errors \in Seq(Refusals)
  PROVE  FirstError(errors) \in Refusals
<1>1. PICK n \in Nat : DOMAIN errors = 1..n /\ \A i \in 1..n : errors[i] \in Refusals
  BY LenProperties, ElementOfSeq
<1> QED
  BY <1>1, FirstErrorIs

LEMMA LiteralRefusal == \A lit, args : LiteralError(lit, args) \in Refusals
BY DEF LiteralError, Refusals

LEMMA NumericRefusal == \A lit, args : NumericError(lit, args) \in Refusals
BY LiteralRefusal DEF NumericError, Refusals

(* An error for each slot of a list.                                       *)
LEMMA SlotErrors ==
  ASSUME NEW list, list \in Seq(ToSet(list)), NEW errors, errors = [i \in DOMAIN list |-> errors[i]],
         \A i \in DOMAIN list : errors[i] \in Refusals
  PROVE  errors \in Seq(Refusals)
<1>1. errors \in Seq(ToSet(errors)) /\ DOMAIN errors = DOMAIN list
  BY MappedSeq
<1>2. ToSet(errors) \subseteq Refusals
  BY <1>1 DEF ToSet
<1> QED
  BY <1>1, <1>2, SeqMonotonic

LEMMA ReferenceRefusal ==
  ASSUME NEW inner, NEW outer, NEW args, Binds(args, inner, outer), NEW lit, InScope(lit, inner)
  PROVE  ReferenceError(lit, args) \in Refusals
<1>1. CASE lit.kind # "param"
  BY <1>1, LiteralRefusal DEF ReferenceError
<1>2. CASE lit.kind = "param"
  <2>1. PICK items : items = Items(lit, args)
    OBVIOUS
  <2>2. items \in Seq(ToSet(items))
    BY <2>1, ItemsKnown
  <2>3. PICK errors : errors = [i \in DOMAIN items |-> ItemError(items[i])]
    OBVIOUS
  <2>4. \A i \in DOMAIN items : errors[i] \in Refusals
    BY <2>3 DEF ItemError, Refusals
  <2>5. errors \in Seq(Refusals)
    BY <2>2, <2>3, <2>4, SlotErrors
  <2>6. ReferenceError(lit, args) = FirstError(errors)
    BY <1>2, <2>1, <2>3 DEF ReferenceError
  <2> QED
    BY <2>5, <2>6, ErrorsOf
<1> QED
  BY <1>1, <1>2

LEMMA ReferenceErrors ==
  ASSUME NEW inner, NEW outer, NEW args, Binds(args, inner, outer),
         NEW list, list \in Seq(ToSet(list)), LitsInScope(ToSet(list), inner),
         NEW errors, errors = [i \in DOMAIN list |-> ReferenceError(list[i], args)]
  PROVE  errors \in Seq(Refusals)
<1>1. ASSUME NEW i \in DOMAIN list PROVE errors[i] \in Refusals
  <2>1. PICK lit : lit = list[i]
    OBVIOUS
  <2>2. InScope(lit, inner)
    BY <2>1 DEF LitsInScope, ToSet
  <2>3. ReferenceError(lit, args) \in Refusals
    BY <2>2, ReferenceRefusal
  <2> QED
    BY <2>1, <2>3
<1> QED
  BY <1>1, SlotErrors

LEMMA SubstitutionRefusal ==
  ASSUME NEW inner, NEW outer, NEW args, Binds(args, inner, outer),
         NEW fields, IsFields(fields, inner)
  PROVE  SubstitutionError(fields, args) \in Refusals
<1> DEFINE literals(list) == [i \in DOMAIN list |-> LiteralError(list[i], args)]
<1>1. PICK scalars, mounts, labels, networks, dns, deps :
        /\ scalars = <<LiteralError(fields.image, args), NumericError(fields.port, args)>>
        /\ mounts = [i \in DOMAIN fields.volume |->
                        literals(<<fields.volume[i].value, fields.volume[i].key>>)]
        /\ labels = [i \in DOMAIN fields.labels |->
                        literals(<<fields.labels[i].key>> \o fields.labels[i].items)]
        /\ networks = [i \in DOMAIN fields.networks |-> ReferenceError(fields.networks[i], args)]
        /\ dns = [i \in DOMAIN fields.dns |-> ReferenceError(fields.dns[i], args)]
        /\ deps = [i \in DOMAIN fields.dependsOn |-> fields.dependsOn[i].key]
  OBVIOUS
<1>2. PICK last : last = [i \in DOMAIN deps |-> ReferenceError(deps[i], args)]
  OBVIOUS
<1>3. SubstitutionError(fields, args) =
        FirstError(scalars \o FlattenSeq(mounts) \o FlattenSeq(labels) \o networks \o dns \o last)
  BY <1>1, <1>2 DEF SubstitutionError
<1>4. ASSUME NEW list, list \in Seq(ToSet(list)) PROVE literals(list) \in Seq(Refusals)
  <2>1. PICK errors : errors = [i \in DOMAIN list |-> LiteralError(list[i], args)]
    OBVIOUS
  <2>2. errors \in Seq(Refusals)
    BY <1>4, <2>1, LiteralRefusal, SlotErrors
  <2> QED
    BY <2>1, <2>2
<1> HIDE DEF literals
<1>5. scalars \in Seq(Refusals)
  <2>1. LiteralError(fields.image, args) \in Refusals /\ NumericError(fields.port, args) \in Refusals
    BY LiteralRefusal, NumericRefusal
  <2> QED
    BY <1>1, <2>1
<1>6. mounts \in Seq(Seq(Refusals))
  <2>1. PICK list : list = fields.volume
    OBVIOUS
  <2>2. list \in Seq(ToSet(list)) /\ mounts = [i \in DOMAIN list |-> mounts[i]]
    BY <1>1, <2>1, FieldsHave
  <2>3. mounts \in Seq(ToSet(mounts)) /\ DOMAIN mounts = DOMAIN list
    BY <2>2, MappedSeq
  <2>4. ASSUME NEW i \in DOMAIN list PROVE mounts[i] \in Seq(Refusals)
    <3>1. PICK both : both = <<list[i].value, list[i].key>>
      OBVIOUS
    <3>2. both \in Seq(ToSet(both))
      BY <3>1, OwnPair
    <3>3. mounts[i] = literals(both)
      BY <1>1, <2>1, <3>1
    <3> QED
      BY <1>4, <3>2, <3>3
  <2>5. ToSet(mounts) \subseteq Seq(Refusals)
    BY <2>3, <2>4 DEF ToSet
  <2> QED
    BY <2>3, <2>5, SeqMonotonic
<1>7. labels \in Seq(Seq(Refusals))
  <2>1. PICK list : list = fields.labels
    OBVIOUS
  <2>2. /\ list \in Seq(ToSet(list)) /\ LabelsFormed(ToSet(list))
        /\ labels = [i \in DOMAIN list |-> labels[i]]
    BY <1>1, <2>1, FieldsHave
  <2>3. labels \in Seq(ToSet(labels)) /\ DOMAIN labels = DOMAIN list
    BY <2>2, MappedSeq
  <2>4. ASSUME NEW i \in DOMAIN list PROVE labels[i] \in Seq(Refusals)
    <3>1. PICK first, items, both :
            first = <<list[i].key>> /\ items = list[i].items /\ both = first \o items
      OBVIOUS
    <3>2. list[i] \in ToSet(list)
      BY DEF ToSet
    <3>3. first \in Seq(ToSet(first)) /\ items \in Seq(ToSet(items))
      BY <2>2, <3>1, <3>2, OwnSingle DEF LabelsFormed
    <3>4. both \in Seq(ToSet(both))
      BY <3>1, <3>3, OwnConcat
    <3>5. labels[i] = literals(both)
      BY <1>1, <2>1, <3>1
    <3> QED
      BY <1>4, <3>4, <3>5
  <2>5. ToSet(labels) \subseteq Seq(Refusals)
    BY <2>3, <2>4 DEF ToSet
  <2> QED
    BY <2>3, <2>5, SeqMonotonic
<1>8. networks \in Seq(Refusals) /\ dns \in Seq(Refusals)
  <2>1. PICK list, others : list = fields.networks /\ others = fields.dns
    OBVIOUS
  <2>2. /\ list \in Seq(ToSet(list)) /\ LitsInScope(ToSet(list), inner)
        /\ others \in Seq(ToSet(others)) /\ LitsInScope(ToSet(others), inner)
    BY <2>1, FieldsHave
  <2>3. /\ networks = [i \in DOMAIN list |-> ReferenceError(list[i], args)]
        /\ dns = [i \in DOMAIN others |-> ReferenceError(others[i], args)]
    BY <1>1, <2>1
  <2> QED
    BY <2>2, <2>3, ReferenceErrors
<1>9. last \in Seq(Refusals)
  <2>1. PICK list : list = fields.dependsOn
    OBVIOUS
  <2>2. list \in Seq(ToSet(list)) /\ KeysInScope(ToSet(list), inner)
    BY <2>1, FieldsHave
  <2>3. deps = [i \in DOMAIN list |-> list[i].key]
    BY <1>1, <2>1
  <2>4. deps \in Seq(ToSet(deps))
    BY <2>2, <2>3, MappedSeq
  <2>5. LitsInScope(ToSet(deps), inner)
    BY <2>2, <2>3 DEF LitsInScope, KeysInScope, ToSet
  <2> QED
    BY <1>2, <2>4, <2>5, ReferenceErrors
<1>10. PICK m, l : m = FlattenSeq(mounts) /\ l = FlattenSeq(labels)
  OBVIOUS
<1>11. m \in Seq(Refusals) /\ l \in Seq(Refusals)
  BY <1>6, <1>7, <1>10, FlattenedSeq
<1>12. PICK all : all = scalars \o m \o l \o networks \o dns \o last
  OBVIOUS
<1>13. all \in Seq(Refusals)
  BY <1>5, <1>8, <1>9, <1>11, <1>12, ConcatProperties
<1> QED
  BY <1>3, <1>10, <1>12, <1>13, ErrorsOf

LEMMA GenerateRefusal == \A fields, service : GenerateError(fields, service) \in Refusals
BY DEF GenerateError, Refusals

-------------------------------------------------------------------------------
(* The inductive invariant.  A frame's accumulator holds what the frame's  *)
(* body may hold and answers no key twice; a frame below another is at the *)
(* invocation that entered it, so what the upper one comes to is bound by  *)
(* arguments of the lower one's body.                                      *)

FrameOK(p, frame) ==
  /\ frame = [body |-> frame.body, next |-> frame.next, acc |-> frame.acc]
  /\ frame.body \in DOMAIN p.bodies
  /\ frame.next \in Nat \ {0}
  /\ IsFields(frame.acc, p.bodies[frame.body].params)
  /\ KeysUnique(frame.acc)

(* The lower frame is at the invocation that entered the upper one.        *)
Entered(p, lower, upper) ==
  /\ lower.next <= Len(p.bodies[lower.body].with)
  /\ upper.body = p.bodies[lower.body].with[lower.next].target

StackOK(p, stack) ==
  /\ stack \in Seq(ToSet(stack)) /\ Len(stack) \in Nat \ {0}
  /\ stack[1].body = "service"
  /\ \A d \in 1..Len(stack) : FrameOK(p, stack[d])
  /\ \A d \in 1..(Len(stack) - 1) : Entered(p, stack[d], stack[d + 1])

IInv ==
  /\ program \in Programs
  /\ StackOK(program, frames)
  /\ document # <<>> <=> outcome = "ok"

LEMMA NewFrame ==
  ASSUME NEW p, NEW body \in DOMAIN p.bodies
  PROVE  FrameOK(p, Frame(body)) /\ Frame(body).body = body
<1>1. PICK empty, none : empty = <<>> /\ none = NoFields
  OBVIOUS
<1>2. empty \in Seq(ToSet(empty)) /\ DOMAIN empty = {} /\ ToSet(empty) = {}
  BY <1>1 DEF ToSet
<1>3. none = [image |-> Unset, port |-> Unset, volume |-> empty, labels |-> empty,
              dependsOn |-> empty, networks |-> empty, dns |-> empty]
  BY <1>1 DEF NoFields
<1>4. LabelsFormed(ToSet(empty))
  BY <1>2 DEF LabelsFormed
<1>5. IsFields(none, p.bodies[body].params)
  <2>1. PICK params : params = p.bodies[body].params
    OBVIOUS
  <2>2. KeysInScope(ToSet(empty), params) /\ LitsInScope(ToSet(empty), params)
    BY <1>2 DEF KeysInScope, LitsInScope
  <2>3. PICK unset : unset = Unset
    OBVIOUS
  <2>4. none = [image |-> unset, port |-> unset, volume |-> empty, labels |-> empty,
                dependsOn |-> empty, networks |-> empty, dns |-> empty]
    BY <1>3, <2>3
  <2>5. IsFields(none, params)
    BY <1>2, <1>4, <2>2, <2>4, FieldsAre
  <2> QED
    BY <2>1, <2>5
<1>6. KeysUnique(none)
  <2>1. KeysDiffer(empty) /\ TextsDiffer(empty)
    BY <1>2 DEF KeysDiffer, TextsDiffer
  <2>2. none.volume = empty /\ none.labels = empty /\ none.dependsOn = empty /\ none.networks = empty
    BY <1>3
  <2> QED
    BY <2>1, <2>2, KeysAre
<1>7. Frame(body) = [body |-> body, next |-> 1, acc |-> none]
  BY <1>1 DEF Frame
<1> QED
  BY <1>5, <1>6, <1>7 DEF FrameOK

LEMMA Pushed ==
  ASSUME NEW p, NEW stack, StackOK(p, stack), NEW frame, FrameOK(p, frame),
         Entered(p, stack[Len(stack)], frame), NEW pushed, pushed = Append(stack, frame)
  PROVE  StackOK(p, pushed)
<1>1. PICK n \in Nat \ {0} : n = Len(stack)
  BY DEF StackOK
<1>2. stack \in Seq(ToSet(stack))
  BY DEF StackOK
<1>3. /\ pushed \in Seq(ToSet(pushed)) /\ Len(pushed) = n + 1
      /\ \A d \in 1..n : pushed[d] = stack[d]
      /\ pushed[n + 1] = frame
  BY <1>1, <1>2, OwnAppend
<1>4. pushed[1].body = "service"
  <2>1. 1 \in 1..n
    BY <1>1
  <2> QED
    BY <1>3, <2>1 DEF StackOK
<1>5. ASSUME NEW d \in 1..(n + 1) PROVE FrameOK(p, pushed[d])
  <2>1. CASE d = n + 1
    BY <1>3, <2>1
  <2>2. CASE d \in 1..n
    BY <1>1, <1>3, <2>2 DEF StackOK
  <2> QED
    BY <1>1, <2>1, <2>2
<1>6. ASSUME NEW d \in 1..n PROVE Entered(p, pushed[d], pushed[d + 1])
  <2>1. CASE d = n
    BY <1>1, <1>3, <2>1
  <2>2. CASE d \in 1..(n - 1)
    <3>1. pushed[d] = stack[d] /\ pushed[d + 1] = stack[d + 1]
      BY <1>3, <2>2
    <3> QED
      BY <1>1, <2>2, <3>1 DEF StackOK
  <2> QED
    BY <1>1, <2>1, <2>2
<1>7. Len(pushed) \in Nat \ {0} /\ Len(pushed) - 1 = n
  BY <1>3
<1> QED
  BY <1>3, <1>4, <1>5, <1>6, <1>7 DEF StackOK

LEMMA Popped ==
  ASSUME NEW p, NEW stack, StackOK(p, stack), NEW n \in Nat, n = Len(stack), n > 1,
         NEW frame, FrameOK(p, frame), frame.body = stack[n - 1].body,
         NEW popped, popped = [d \in 1..(n - 1) |-> IF d < n - 1 THEN stack[d] ELSE frame]
  PROVE  StackOK(p, popped)
<1>1. PICK m \in Nat \ {0} : m = n - 1
  OBVIOUS
<1>2. DOMAIN popped = 1..m /\ \A d \in 1..m : popped[d] = IF d < m THEN stack[d] ELSE frame
  BY <1>1
<1>3. popped \in Seq(ToSet(popped)) /\ Len(popped) = m
  <2>1. popped = [d \in 1..m |-> popped[d]]
    BY <1>1, <1>2
  <2>2. popped \in [1..m -> ToSet(popped)]
    BY <1>2, <2>1 DEF ToSet
  <2> QED
    BY <1>2, <2>2
<1>4. popped[1].body = "service"
  BY <1>1, <1>2 DEF StackOK
<1>5. ASSUME NEW d \in 1..m PROVE FrameOK(p, popped[d])
  BY <1>1, <1>2 DEF StackOK
<1>6. ASSUME NEW d \in 1..(m - 1) PROVE Entered(p, popped[d], popped[d + 1])
  <2>1. popped[d] = stack[d] /\ popped[d + 1].body = stack[d + 1].body
    BY <1>1, <1>2
  <2>2. Entered(p, stack[d], stack[d + 1])
    BY <1>1 DEF StackOK
  <2> QED
    BY <2>1, <2>2 DEF Entered
<1> QED
  BY <1>3, <1>4, <1>5, <1>6 DEF StackOK

-------------------------------------------------------------------------------
(* The top body resolved, and what it delivers to its caller.              *)

LEMMA ProgramHas ==
  ASSUME NEW p \in Programs, NEW b \in DOMAIN p.bodies
  PROVE  /\ IsFields(p.bodies[b].fields, p.bodies[b].params)
         /\ p.bodies[b].with \in Seq(ToSet(p.bodies[b].with))
         /\ \A call \in ToSet(p.bodies[b].with) :
              /\ call.target \in DOMAIN p.bodies
              /\ Binds(call.args, p.bodies[call.target].params, p.bodies[b].params)
<1>1. IsProgram(p)
  BY ProgramsAssumption
<1> QED
  BY <1>1 DEF IsProgram, Binds

(* The body of a frame on the stack, and the frame.                        *)
LEMMA TopResolved ==
  ASSUME NEW p \in Programs, NEW frame, FrameOK(p, frame),
         NEW body, body = p.bodies[frame.body],
         NEW resolved, resolved = MergeTier(frame.acc, body.fields, "own")
  PROVE  /\ IsFields(resolved.value, body.params)
         /\ resolved.error \in Refusals
<1>1. frame.body \in DOMAIN p.bodies /\ IsFields(frame.acc, body.params) /\ KeysUnique(frame.acc)
  BY DEF FrameOK
<1>2. PICK fields, acc, params : fields = body.fields /\ acc = frame.acc /\ params = body.params
  OBVIOUS
<1>3. IsFields(fields, params) /\ IsFields(acc, params) /\ KeysUnique(acc)
  BY <1>1, <1>2, ProgramHas
<1>4. resolved = MergeTier(acc, fields, "own")
  BY <1>2
<1>5. IsFields(resolved.value, params) /\ resolved.error \in Refusals
  BY <1>3, <1>4, TierMerged
<1> QED
  BY <1>2, <1>5

LEMMA CallBinds ==
  ASSUME NEW p \in Programs, NEW lower, FrameOK(p, lower), NEW upper, Entered(p, lower, upper),
         NEW call, call = p.bodies[lower.body].with[lower.next]
  PROVE  /\ upper.body = call.target
         /\ Binds(call.args, p.bodies[upper.body].params, p.bodies[lower.body].params)
<1>1. /\ lower.body \in DOMAIN p.bodies /\ lower.next \in Nat \ {0}
      /\ lower.next <= Len(p.bodies[lower.body].with) /\ upper.body = call.target
  BY DEF FrameOK, Entered
<1>2. PICK with : with = p.bodies[lower.body].with
  OBVIOUS
<1>3. with \in Seq(ToSet(with))
  BY <1>1, <1>2, ProgramHas
<1>4. call \in ToSet(with)
  <2>1. lower.next \in 1..Len(with)
    BY <1>1, <1>2, <1>3, LenProperties
  <2>2. call = with[lower.next]
    BY <1>2
  <2> QED
    BY <1>3, <2>1, <2>2, ElementOfSeq
<1> QED
  BY <1>1, <1>2, <1>4, ProgramHas

LEMMA CallerReceives ==
  ASSUME NEW p \in Programs, NEW upper, FrameOK(p, upper), NEW lower, FrameOK(p, lower),
         Entered(p, lower, upper),
         NEW resolved, resolved = MergeTier(upper.acc, p.bodies[upper.body].fields, "own"),
         NEW args, args = p.bodies[lower.body].with[lower.next].args,
         NEW bound, bound = Substitute(resolved.value, args),
         NEW delivered, delivered = MergeTier(lower.acc, bound, "explicit")
  PROVE  /\ SubstitutionError(resolved.value, args) \in Refusals
         /\ delivered.error \in Refusals
         /\ IsFields(delivered.value, p.bodies[lower.body].params)
         /\ KeysUnique(delivered.value)
<1>1. PICK inner, outer : inner = p.bodies[upper.body].params /\ outer = p.bodies[lower.body].params
  OBVIOUS
<1>2. Binds(args, inner, outer)
  BY <1>1, CallBinds
<1>3. PICK fields : fields = resolved.value
  OBVIOUS
<1>4. IsFields(fields, inner)
  <2>1. PICK body : body = p.bodies[upper.body]
    OBVIOUS
  <2> QED
    BY <1>1, <1>3, <2>1, TopResolved
<1>5. IsFields(bound, outer) /\ SubstitutionError(fields, args) \in Refusals
  BY <1>2, <1>3, <1>4, Substituted, SubstitutionRefusal
<1>6. PICK acc : acc = lower.acc
  OBVIOUS
<1>7. IsFields(acc, outer) /\ KeysUnique(acc)
  BY <1>1, <1>6 DEF FrameOK
<1>8. /\ IsFields(delivered.value, outer) /\ KeysUnique(delivered.value)
      /\ delivered.error \in Refusals
  BY <1>5, <1>6, <1>7, TierMerged
<1> QED
  BY <1>1, <1>3, <1>5, <1>8

(* The same of the frames on the stack.                                    *)
LEMMA TopIs ==
  ASSUME IInv
  PROVE  /\ Depth \in Nat \ {0} /\ FrameOK(program, Top) /\ Resolved.error \in Refusals
         /\ Depth > 1 => FrameOK(program, Caller) /\ Entered(program, Caller, Top)
<1>1. StackOK(program, frames) /\ program \in Programs
  BY DEF IInv
<1>2. Depth \in Nat \ {0}
  BY <1>1 DEF StackOK, Depth
<1>3. FrameOK(program, Top)
  BY <1>1, <1>2 DEF StackOK, Depth, Top
<1>4. ASSUME Depth > 1 PROVE FrameOK(program, Caller) /\ Entered(program, Caller, Top)
  <2>1. PICK n \in Nat : n = Len(frames) /\ n > 1
    BY <1>2, <1>4 DEF Depth
  <2>2. n - 1 \in 1..(n - 1) /\ n - 1 \in 1..n /\ n - 1 + 1 = n
    BY <2>1
  <2>3. FrameOK(program, frames[n - 1]) /\ Entered(program, frames[n - 1], frames[n])
    BY <1>1, <2>1, <2>2 DEF StackOK
  <2> QED
    BY <2>1, <2>3 DEF Caller, Top, Depth
<1>5. Resolved.error \in Refusals
  <2>1. PICK frame, body, resolved : frame = Top /\ body = Body /\ resolved = Resolved
    OBVIOUS
  <2>2. body = program.bodies[frame.body] /\ resolved = MergeTier(frame.acc, body.fields, "own")
    BY <2>1 DEF Body, Resolved
  <2> QED
    BY <1>1, <1>3, <2>1, <2>2, TopResolved
<1> QED
  BY <1>2, <1>3, <1>4, <1>5

LEMMA DeliveryIs ==
  ASSUME IInv, Depth > 1
  PROVE  /\ DeliveryError \in Refusals
         /\ IsFields(Delivered.value, program.bodies[Caller.body].params)
         /\ KeysUnique(Delivered.value)
<1>1. /\ program \in Programs /\ FrameOK(program, Top) /\ FrameOK(program, Caller)
      /\ Entered(program, Caller, Top) /\ Resolved.error \in Refusals
  BY TopIs DEF IInv
<1>2. PICK upper, lower, resolved, args, bound, delivered :
        /\ upper = Top /\ lower = Caller /\ resolved = Resolved /\ args = Invocation.args
        /\ bound = Bound /\ delivered = Delivered
  OBVIOUS
<1>3. /\ resolved = MergeTier(upper.acc, program.bodies[upper.body].fields, "own")
      /\ args = program.bodies[lower.body].with[lower.next].args
      /\ bound = Substitute(resolved.value, args)
      /\ delivered = MergeTier(lower.acc, bound, "explicit")
  BY <1>2 DEF Resolved, Body, Invocation, Bound, Delivered
<1>4. /\ SubstitutionError(resolved.value, args) \in Refusals
      /\ delivered.error \in Refusals
      /\ IsFields(delivered.value, program.bodies[lower.body].params)
      /\ KeysUnique(delivered.value)
  BY <1>1, <1>2, <1>3, CallerReceives
<1>5. DeliveryError = IF resolved.error # None THEN resolved.error
                      ELSE IF SubstitutionError(resolved.value, args) # None
                           THEN SubstitutionError(resolved.value, args)
                      ELSE delivered.error
  BY <1>2 DEF DeliveryError
<1> QED
  BY <1>1, <1>2, <1>4, <1>5

-------------------------------------------------------------------------------
(* The invariant, step by step.                                            *)

LEMMA InitInvariant == Init => IInv
<1> SUFFICES ASSUME Init PROVE IInv
  OBVIOUS
<1>1. program \in Programs /\ frames = <<Frame("service")>> /\ document = <<>> /\ outcome = "running"
  BY DEF Init
<1>2. "service" \in DOMAIN program.bodies
  BY <1>1, ProgramsAssumption DEF IsProgram
<1>3. PICK frame : frame = Frame("service")
  OBVIOUS
<1>4. FrameOK(program, frame) /\ frame.body = "service"
  BY <1>2, <1>3, NewFrame
<1>5. frames = <<frame>> /\ frames \in Seq(ToSet(frames))
  BY <1>1, <1>3, OwnSingle
<1>6. Len(frames) = 1 /\ frames[1] = frame
  BY <1>5
<1>7. StackOK(program, frames)
  BY <1>4, <1>5, <1>6 DEF StackOK
<1> QED
  BY <1>1, <1>7 DEF IInv

LEMMA InvokeStep ==
  ASSUME IInv, Invoke
  PROVE  IInv'
<1>1. /\ program \in Programs /\ StackOK(program, frames) /\ program' = program
      /\ document' = document /\ outcome' = outcome /\ (document # <<>> <=> outcome = "ok")
  BY DEF IInv, Invoke
<1>2. PICK top, with, call : top = Top /\ with = program.bodies[top.body].with /\ call = with[top.next]
  OBVIOUS
<1>3. /\ frames' = Append(frames, Frame(call.target))
      /\ top.next <= Len(with)
      /\ top = frames[Len(frames)]
  BY <1>2 DEF Invoke, Invoking, Body, Top, Depth
<1>4. FrameOK(program, top)
  BY <1>2, TopIs
<1>5. PICK frame : frame = Frame(call.target)
  OBVIOUS
<1>6. call.target \in DOMAIN program.bodies
  <2>1. top.body \in DOMAIN program.bodies /\ top.next \in Nat \ {0}
    BY <1>4 DEF FrameOK
  <2>2. /\ with \in Seq(ToSet(with))
        /\ \A c \in ToSet(with) : c.target \in DOMAIN program.bodies
    BY <1>1, <1>2, <2>1, ProgramHas
  <2>3. top.next \in 1..Len(with)
    BY <1>3, <2>1, <2>2, LenProperties
  <2>4. call \in ToSet(with)
    BY <1>2, <2>2, <2>3, ElementOfSeq
  <2> QED
    BY <2>2, <2>4
<1>7. FrameOK(program, frame) /\ frame.body = call.target
  BY <1>5, <1>6, NewFrame
<1>8. Entered(program, top, frame)
  BY <1>2, <1>3, <1>7 DEF Entered
<1>9. PICK stack, pushed : stack = frames /\ pushed = frames'
  OBVIOUS
<1>10. StackOK(program, pushed)
  <2>1. StackOK(program, stack) /\ pushed = Append(stack, frame) /\ top = stack[Len(stack)]
    BY <1>1, <1>3, <1>5, <1>9
  <2> QED
    BY <1>7, <1>8, <2>1, Pushed
<1> QED
  BY <1>1, <1>9, <1>10 DEF IInv, StackOK, FrameOK, Entered

LEMMA ReturnStep ==
  ASSUME IInv, Return
  PROVE  IInv'
<1>1. /\ program \in Programs /\ StackOK(program, frames) /\ program' = program
      /\ document' = document /\ outcome' = outcome /\ (document # <<>> <=> outcome = "ok")
      /\ Depth > 1
  BY DEF IInv, Return
<1>2. PICK n \in Nat : n = Depth /\ n = Len(frames)
  BY TopIs DEF Depth
<1>3. PICK caller, acc : caller = Caller /\ acc = Delivered.value
  OBVIOUS
<1>4. FrameOK(program, caller) /\ caller = frames[n - 1]
  BY <1>1, <1>2, <1>3, TopIs DEF Caller
<1>5. PICK frame : frame = [caller EXCEPT !.next = @ + 1, !.acc = acc]
  OBVIOUS
<1>6. frame = [body |-> caller.body, next |-> caller.next + 1, acc |-> acc]
  BY <1>4, <1>5 DEF FrameOK
<1>7. IsFields(acc, program.bodies[caller.body].params) /\ KeysUnique(acc)
  BY <1>1, <1>3, DeliveryIs
<1>8. FrameOK(program, frame) /\ frame.body = caller.body
  <2>1. frame.body = caller.body /\ frame.next = caller.next + 1 /\ frame.acc = acc
    BY <1>6
  <2>2. caller.body \in DOMAIN program.bodies /\ caller.next + 1 \in Nat \ {0}
    BY <1>4 DEF FrameOK
  <2> QED
    BY <1>6, <1>7, <2>1, <2>2 DEF FrameOK
<1>9. PICK stack, popped : stack = frames /\ popped = frames'
  OBVIOUS
<1>10. popped = [d \in 1..(n - 1) |-> IF d < n - 1 THEN stack[d] ELSE frame]
  BY <1>2, <1>3, <1>5, <1>9 DEF Return
<1>11. StackOK(program, popped)
  <2>1. StackOK(program, stack) /\ n = Len(stack) /\ n > 1 /\ frame.body = stack[n - 1].body
    BY <1>1, <1>2, <1>4, <1>8, <1>9
  <2> QED
    BY <1>8, <1>10, <2>1, Popped
<1> QED
  BY <1>1, <1>9, <1>11 DEF IInv, StackOK, FrameOK, Entered

(* An error ends it before there is a document.                            *)
LEMMA RefusalStep ==
  ASSUME IInv, outcome = "running", outcome' \in Refusals, UNCHANGED <<program, frames, document>>
  PROVE  IInv'
<1>1. document' = <<>> /\ outcome' # "ok"
  BY DEF IInv, Refusals, None
<1> QED
  BY <1>1 DEF IInv, StackOK, FrameOK, Entered

LEMMA GenerateStep ==
  ASSUME IInv, Generate
  PROVE  IInv'
<1>1. PICK made : made = document'
  OBVIOUS
<1>2. "image" \in DOMAIN made
  BY <1>1 DEF Generate, Document
<1>3. made # <<>>
  BY <1>2
<1> QED
  BY <1>1, <1>3 DEF IInv, Generate, StackOK, FrameOK, Entered

LEMMA NextInvariant == IInv /\ [Next]_vars => IInv'
<1> SUFFICES ASSUME IInv, [Next]_vars PROVE IInv'
  OBVIOUS
<1>1. CASE Invoke
  BY <1>1, InvokeStep
<1>2. CASE Return
  BY <1>2, ReturnStep
<1>3. CASE RejectReturn
  <2>1. /\ outcome = "running" /\ Depth > 1 /\ outcome' = DeliveryError
        /\ UNCHANGED <<program, frames, document>>
    BY <1>3 DEF RejectReturn, Closing
  <2>2. outcome' \in Refusals
    BY <2>1, DeliveryIs
  <2> QED
    BY <2>1, <2>2, RefusalStep
<1>4. CASE Generate
  BY <1>4, GenerateStep
<1>5. CASE RejectService
  <2>1. PICK merging, printing : /\ merging = Resolved.error
                                 /\ printing = GenerateError(Resolved.value, program.name)
    OBVIOUS
  <2>2. merging \in Refusals /\ printing \in Refusals
    BY <2>1, TopIs, GenerateRefusal
  <2>3. PICK errors : errors = <<merging, printing>>
    OBVIOUS
  <2>4. errors \in Seq(Refusals)
    BY <2>2, <2>3
  <2>5. /\ outcome = "running" /\ outcome' = FirstError(errors)
        /\ UNCHANGED <<program, frames, document>>
    BY <1>5, <2>1, <2>3 DEF RejectService, Closing
  <2> QED
    BY <2>4, <2>5, ErrorsOf, RefusalStep
<1>6. CASE UNCHANGED vars
  BY <1>6 DEF vars, IInv, StackOK, FrameOK, Entered
<1> QED
  BY <1>1, <1>2, <1>3, <1>4, <1>5, <1>6 DEF Next

LEMMA InvariantImplies == IInv => TypeOK
<1> SUFFICES ASSUME IInv PROVE TypeOK
  OBVIOUS
<1>1. PICK n \in Nat \ {0} : n = Len(frames) /\ n = Depth
  BY DEF IInv, StackOK, Depth
<1>2. StackOK(program, frames)
  BY DEF IInv
<1>3. frames # <<>> /\ frames[1].body = "service"
  <2>1. Len(frames) # Len(<<>>)
    BY <1>1
  <2> QED
    BY <1>2, <2>1 DEF StackOK
<1>4. \A d \in 1..n : KeysUnique(frames[d].acc)
  BY <1>1, <1>2 DEF StackOK, FrameOK
<1>5. \A d \in 1..(n - 1) :
        frames[d + 1].body = program.bodies[frames[d].body].with[frames[d].next].target
  BY <1>1, <1>2 DEF StackOK, Entered
<1> QED
  BY <1>1, <1>3, <1>4, <1>5 DEF TypeOK, IInv

(* However deep the templates nest and whatever their bodies hold, each    *)
(* body on the stack was entered by the invocation the one below it is at, *)
(* nothing that was merged so far holds a key of a map, of labels or of    *)
(* `depends_on` or the name of a network twice (merge_map and the merges   *)
(* beside it update the entry that is there), and a document is there      *)
(* exactly when composition and codegen raised no error.                   *)
THEOREM TypeCorrect == Spec => []TypeOK
<1>1. Init => IInv
  BY InitInvariant
<1>2. IInv /\ [Next]_vars => IInv'
  BY NextInvariant
<1>3. IInv => TypeOK
  BY InvariantImplies
<1> QED
  BY <1>1, <1>2, <1>3, PTL DEF Spec
===============================================================================
