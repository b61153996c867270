--------------------------- MODULE FieldAccess_proofs ---------------------------
(***************************************************************************)
(* Proofs about names across files, for every set of programs: each pass   *)
(* leaves no alias behind that it is the last to know (Home), whatever the *)
(* arguments put into a body.                                              *)
(***************************************************************************)
EXTENDS FieldMeaning, SequenceLemmas

(* A body's fields, of the shape a program has them in.                    *)
IsBag(fields) ==
  /\ fields = [image |-> fields.image, networks |-> fields.networks,
               mounts |-> fields.mounts, dns |-> fields.dns]
  /\ \A l \in Lists : fields[l] \in Seq(ToSet(fields[l]))
  /\ \A lit \in Slots(fields) : IsLiteral(lit)

(* A literal in which no alias is left, but for a reference that is one.   *)
IsRead(lit) ==
  /\ lit.kind = "field" => lit.base.kind # "qualified"
  /\ lit.kind = "str" => \A i \in DOMAIN lit.text : lit.text[i].hole => Len(lit.text[i].path) < 3

Read(fields) == \A lit \in Slots(fields) : IsRead(lit)

Home(fields) == \A lit \in Slots(fields) : IsRead(lit) /\ lit.kind # "qualified"

(* The slots of a body are its image and the members of its lists.         *)
LEMMA SlotsAre ==
  ASSUME NEW fields
  PROVE  \A lit : lit \in Slots(fields) <=> \/ lit = fields.image
                                            \/ lit \in ToSet(fields.networks)
                                            \/ lit \in ToSet(fields.mounts)
                                            \/ lit \in ToSet(fields.dns)
BY DEF Slots, Lists

-------------------------------------------------------------------------------
(* Steps that may fail.                                                    *)

LEMMA CollectedIs ==
  ASSUME NEW n \in Nat, NEW results, DOMAIN results = 1..n,
         NEW c, c = Collected(results), c.error = None
  PROVE  /\ \A i \in 1..n : results[i].error = None
         /\ c.value = [i \in 1..n |-> results[i].value]
<1> DEFINE failed == {i \in DOMAIN results : results[i].error # None}
<1>1. CASE failed = {}
  <2>1. c = Ok([i \in 1..n |-> results[i].value])
    BY <1>1 DEF Collected
  <2> QED
    BY <1>1, <2>1 DEF Ok
<1>2. CASE failed # {}
  <2>1. failed \in SUBSET (1..n)
    OBVIOUS
  <2>2. c = results[Min(failed)]
    BY <1>2 DEF Collected
  <2>3. \A i \in failed : results[i].error # None
    OBVIOUS
  <2> HIDE DEF failed
  <2>4. Min(failed) \in failed
    BY <1>2, <2>1, LeastIndex
  <2> QED
    BY <2>2, <2>3, <2>4
<1> QED
  BY <1>1, <1>2

(* Every value of a collection, when each step came to a literal.          *)
LEMMA CollectedLiterals ==
  ASSUME NEW list, list \in Seq(ToSet(list)),
         NEW results, DOMAIN results = DOMAIN list,
         NEW c, c = Collected(results), c.error = None
  PROVE  /\ c.value \in Seq(ToSet(c.value)) /\ DOMAIN c.value = DOMAIN list
         /\ \A i \in DOMAIN list : results[i].error = None /\ c.value[i] = results[i].value
         /\ \A e \in ToSet(c.value) : \E i \in DOMAIN list : e = c.value[i]
<1>1. PICK n \in Nat : n = Len(list) /\ DOMAIN list = 1..n
  BY LenProperties
<1>2. /\ \A i \in 1..n : results[i].error = None
      /\ c.value = [i \in 1..n |-> results[i].value]
  BY <1>1, CollectedIs
<1>3. DOMAIN c.value = 1..n /\ \A i \in 1..n : c.value[i] \in ToSet(c.value)
  BY <1>2 DEF ToSet
<1>4. c.value \in Seq(ToSet(c.value))
  <2>1. PICK T : T = ToSet(c.value)
    OBVIOUS
  <2>2. c.value \in [1..n -> T]
    BY <1>2, <1>3, <2>1
  <2> QED
    BY <1>1, <2>1, <2>2
<1> QED
  BY <1>1, <1>2, <1>3, <1>4 DEF ToSet

-------------------------------------------------------------------------------
(* One pass over one literal.                                              *)

LEMMA PieceRead ==
  ASSUME NEW piece, NEW file, NEW pass \in Passes,
         NEW r, r = ResolvedPiece(piece, file, pass), r.error = None
  PROVE  r.value.hole => Len(r.value.path) < 3
<1>1. CASE ~piece.hole
  <2>1. r = Ok(piece)
    BY <1>1 DEF ResolvedPiece
  <2> QED
    BY <1>1, <2>1 DEF Ok
<1>2. CASE Len(piece.path) = 1
  <2>1. r = Ok(piece)
    BY <1>2 DEF ResolvedPiece
  <2>2. r.value = piece
    BY <2>1 DEF Ok
  <2>3. Len(r.value.path) = 1
    BY <1>2, <2>2
  <2> QED
    BY <2>3
<1>3. CASE piece.hole /\ Len(piece.path) # 1
  <2>1. ~(Len(piece.path) > 3)
    <3>1. ASSUME Len(piece.path) > 3 PROVE FALSE
      <4>1. r = Fail("InterpolatedFieldAccessTooDeep")
        BY <1>3, <3>1 DEF ResolvedPiece
      <4> QED
        BY <4>1 DEF Fail, None
    <3> QED
      BY <3>1
  <2>2. PICK acc : acc = BindingAccess(piece.path)
    OBVIOUS
  <2>3. r = IF ~ClaimsBinding(pass, acc.base) THEN Ok(piece)
            ELSE Then(ValueOf(acc, file), LAMBDA value : Ok(Word(value)))
    BY <1>3, <2>1, <2>2 DEF ResolvedPiece
  <2>4. CASE ClaimsBinding(pass, acc.base)
    <3>1. r = IF ValueOf(acc, file).error # None THEN ValueOf(acc, file)
              ELSE Ok(Word(ValueOf(acc, file).value))
      BY <2>3, <2>4 DEF Then
    <3>2. r = Ok(Word(ValueOf(acc, file).value))
      BY <3>1
    <3> QED
      BY <3>2 DEF Ok, Word
  <2>5. CASE ~ClaimsBinding(pass, acc.base)
    <3>1. acc.base.kind # "qualified" /\ r = Ok(piece)
      BY <2>3, <2>5 DEF ClaimsBinding
    <3>2. Len(piece.path) = 2
      BY <2>2, <3>1 DEF BindingAccess, Access, Qualified
    <3>3. r.value = piece
      BY <3>1 DEF Ok
    <3>4. Len(r.value.path) = 2
      BY <3>2, <3>3
    <3> QED
      BY <3>4
  <2> QED
    BY <2>4, <2>5
<1> QED
  BY <1>1, <1>2, <1>3

LEMMA LiteralRead ==
  ASSUME NEW lit, IsLiteral(lit), NEW file, NEW pass \in Passes,
         NEW r, r = ResolveLiteral(lit, file, pass), r.error = None
  PROVE  IsLiteral(r.value) /\ IsRead(r.value) /\ (r.value.kind = "qualified" => lit.kind = "qualified")
<1>1. CASE lit.kind = "field" /\ lit.base.kind # "param" /\ Claims(pass, lit.base)
  <2>1. r = IF ValueOf(lit, file).error # None THEN ValueOf(lit, file)
            ELSE Ok(Str(<<Word(ValueOf(lit, file).value)>>))
    BY <1>1 DEF ResolveLiteral, Then
  <2>2. r = Ok(Str(<<Word(ValueOf(lit, file).value)>>))
    BY <2>1
  <2>3. PICK w : w = Word(ValueOf(lit, file).value)
    OBVIOUS
  <2>4. r.value = [kind |-> "str", text |-> <<w>>] /\ ~w.hole
    BY <2>2, <2>3 DEF Ok, Str, Word
  <2>5. <<w>> \in Seq({w}) /\ \A i \in DOMAIN <<w>> : <<w>>[i] = w
    OBVIOUS
  <2>6. <<w>> \in Seq(ToSet(<<w>>))
    BY <2>5, OwnElements
  <2> QED
    BY <2>4, <2>5, <2>6 DEF IsLiteral, IsRead
<1>2. CASE lit.kind = "str"
  <2>1. PICK results : results = [i \in DOMAIN lit.text |-> ResolvedPiece(lit.text[i], file, pass)]
    OBVIOUS
  <2>2. PICK c : c = Collected(results)
    OBVIOUS
  <2>3. r = IF c.error # None THEN c ELSE Ok(Str(c.value))
    BY <1>2, <2>1, <2>2 DEF ResolveLiteral, Then
  <2>4. c.error = None /\ r.value = [kind |-> "str", text |-> c.value]
    BY <2>3 DEF Ok, Str
  <2>5. /\ c.value \in Seq(ToSet(c.value)) /\ DOMAIN c.value = DOMAIN lit.text
        /\ \A i \in DOMAIN lit.text : results[i].error = None /\ c.value[i] = results[i].value
    <3>1. DOMAIN results = DOMAIN lit.text
      BY <2>1
    <3>2. PICK list : list = lit.text
      OBVIOUS
    <3> QED
      BY <2>2, <2>4, <3>1, <3>2, CollectedLiterals DEF IsLiteral
  <2>6. ASSUME NEW i \in DOMAIN lit.text, c.value[i].hole PROVE Len(c.value[i].path) < 3
    <3>1. PICK x : x = ResolvedPiece(lit.text[i], file, pass)
      OBVIOUS
    <3>2. x.error = None /\ x.value = c.value[i]
      BY <2>1, <2>5, <3>1
    <3> QED
      BY <2>6, <3>1, <3>2, PieceRead
  <2> QED
    BY <1>2, <2>4, <2>5, <2>6 DEF IsLiteral, IsRead
<1>3. CASE /\ ~(lit.kind = "field" /\ lit.base.kind # "param" /\ Claims(pass, lit.base))
           /\ lit.kind # "str"
  <2>1. r.value = lit
    BY <1>3 DEF ResolveLiteral, Ok
  <2>2. lit.kind = "field" => lit.base.kind # "qualified"
    BY <1>3 DEF Claims
  <2> QED
    BY <1>3, <2>1, <2>2 DEF IsRead
<1> QED
  BY <1>1, <1>2, <1>3

LEMMA ListRead ==
  ASSUME NEW list, list \in Seq(ToSet(list)), \A lit \in ToSet(list) : IsLiteral(lit),
         NEW file, NEW pass \in Passes, NEW results, DOMAIN results = DOMAIN list,
         \A i \in DOMAIN list : results[i] = ResolveLiteral(list[i], file, pass),
         NEW c, c = Collected(results), c.error = None
  PROVE  c.value \in Seq(ToSet(c.value)) /\ \A lit \in ToSet(c.value) : IsLiteral(lit) /\ IsRead(lit)
<1>2. /\ c.value \in Seq(ToSet(c.value)) /\ DOMAIN c.value = DOMAIN list
      /\ \A i \in DOMAIN list : results[i].error = None /\ c.value[i] = results[i].value
      /\ \A e \in ToSet(c.value) : \E i \in DOMAIN list : e = c.value[i]
  BY CollectedLiterals
<1>3. ASSUME NEW i \in DOMAIN list PROVE IsLiteral(c.value[i]) /\ IsRead(c.value[i])
  <2>1. PICK lit, x : lit = list[i] /\ x = ResolveLiteral(lit, file, pass)
    OBVIOUS
  <2>2. IsLiteral(lit) /\ x.error = None /\ x.value = c.value[i]
    BY <1>2, <2>1 DEF ToSet
  <2>3. IsLiteral(x.value) /\ IsRead(x.value)
    BY <2>1, <2>2, LiteralRead
  <2> QED
    BY <2>2, <2>3
<1> QED
  BY <1>2, <1>3

-------------------------------------------------------------------------------
(* Every slot of a body.                                                   *)

LEMMA BagIs ==
  ASSUME NEW image, NEW networks, NEW mounts, NEW dns,
         networks \in Seq(ToSet(networks)), mounts \in Seq(ToSet(mounts)), dns \in Seq(ToSet(dns)),
         IsLiteral(image), \A lit \in ToSet(networks) : IsLiteral(lit),
         \A lit \in ToSet(mounts) : IsLiteral(lit), \A lit \in ToSet(dns) : IsLiteral(lit),
         NEW fields, fields = [image |-> image, networks |-> networks, mounts |-> mounts, dns |-> dns]
  PROVE  IsBag(fields)
<1>1. /\ fields.image = image /\ fields.networks = networks
      /\ fields.mounts = mounts /\ fields.dns = dns
  OBVIOUS
<1>2. \A lit \in Slots(fields) : IsLiteral(lit)
  BY <1>1, SlotsAre
<1>3. \A l \in Lists : fields[l] \in Seq(ToSet(fields[l]))
  BY <1>1 DEF Lists
<1> QED
  BY <1>1, <1>2, <1>3 DEF IsBag

LEMMA BagHas ==
  ASSUME NEW fields, IsBag(fields)
  PROVE  /\ fields.networks \in Seq(ToSet(fields.networks))
         /\ fields.mounts \in Seq(ToSet(fields.mounts))
         /\ fields.dns \in Seq(ToSet(fields.dns))
         /\ IsLiteral(fields.image)
         /\ \A lit \in ToSet(fields.networks) : IsLiteral(lit)
         /\ \A lit \in ToSet(fields.mounts) : IsLiteral(lit)
         /\ \A lit \in ToSet(fields.dns) : IsLiteral(lit)
BY SlotsAre DEF IsBag, Lists

(* The four steps over a body.                                             *)
LEMMA FourCollected ==
  ASSUME NEW a, NEW b, NEW c, NEW d, NEW all, all = Collected(<<a, b, c, d>>), all.error = None
  PROVE  /\ a.error = None /\ b.error = None /\ c.error = None /\ d.error = None
         /\ all.value[1] = a.value /\ all.value[2] = b.value
         /\ all.value[3] = c.value /\ all.value[4] = d.value
<1>1. PICK results : results = <<a, b, c, d>>
  OBVIOUS
<1>2. /\ DOMAIN results = 1..4 /\ results[1] = a /\ results[2] = b /\ results[3] = c /\ results[4] = d
  BY <1>1
<1>3. /\ \A i \in 1..4 : results[i].error = None
      /\ all.value = [i \in 1..4 |-> results[i].value]
  <2>1. PICK n \in Nat : n = 4
    OBVIOUS
  <2>2. DOMAIN results = 1..n /\ all = Collected(results) /\ all.error = None
    BY <1>1, <1>2, <2>1
  <2>3. /\ \A i \in 1..n : results[i].error = None
        /\ all.value = [i \in 1..n |-> results[i].value]
    BY <2>2, CollectedIs
  <2> QED
    BY <2>1, <2>3
<1> QED
  BY <1>2, <1>3

LEMMA FieldsRead ==
  ASSUME NEW fields, IsBag(fields), NEW file, NEW pass \in Passes,
         NEW r, r = ResolveFields(fields, file, pass), r.error = None
  PROVE  /\ IsBag(r.value) /\ Read(r.value)
         /\ r.value.image.kind = "qualified" => fields.image.kind = "qualified"
<1> DEFINE list(f) == Collected([i \in DOMAIN fields[f] |-> ResolveLiteral(fields[f][i], file, pass)])
<1>1. PICK image, networks, mounts, dns :
        /\ image = ResolveLiteral(fields.image, file, pass)
        /\ networks = list("networks") /\ mounts = list("mounts") /\ dns = list("dns")
  OBVIOUS
<1>2. PICK all : all = Collected(<<image, mounts, networks, dns>>)
  OBVIOUS
<1>3. r = IF all.error # None THEN all
          ELSE Ok([image |-> all.value[1], mounts |-> all.value[2],
                   networks |-> all.value[3], dns |-> all.value[4]])
  BY <1>1, <1>2 DEF ResolveFields, OverSlots, Then
<1> HIDE DEF list
<1>4. all.error = None
  BY <1>3
<1>5. /\ image.error = None /\ mounts.error = None /\ networks.error = None /\ dns.error = None
      /\ all.value[1] = image.value /\ all.value[2] = mounts.value
      /\ all.value[3] = networks.value /\ all.value[4] = dns.value
  BY <1>2, <1>4, FourCollected
<1>6. r.value = [image |-> image.value, networks |-> networks.value,
                 mounts |-> mounts.value, dns |-> dns.value]
  BY <1>3, <1>4, <1>5 DEF Ok
<1>7. IsLiteral(image.value) /\ IsRead(image.value)
        /\ (image.value.kind = "qualified" => fields.image.kind = "qualified")
  <2>1. PICK lit : lit = fields.image
    OBVIOUS
  <2>2. IsLiteral(lit)
    BY <2>1, BagHas
  <2>3. IsLiteral(image.value) /\ IsRead(image.value) /\ (image.value.kind = "qualified" => lit.kind = "qualified")
    BY <1>1, <1>5, <2>1, <2>2, LiteralRead
  <2> QED
    BY <2>1, <2>3
<1>8. ASSUME NEW f \in Lists, NEW c, c = list(f), c.error = None
      PROVE  c.value \in Seq(ToSet(c.value)) /\ \A lit \in ToSet(c.value) : IsLiteral(lit) /\ IsRead(lit)
  <2>1. PICK items : items = fields[f]
    OBVIOUS
  <2>2. items \in Seq(ToSet(items)) /\ \A lit \in ToSet(items) : IsLiteral(lit)
    BY <2>1 DEF IsBag, Slots
  <2>3. PICK results : results = [i \in DOMAIN items |-> ResolveLiteral(items[i], file, pass)]
    OBVIOUS
  <2>4. c = Collected(results)
    BY <1>8, <2>1, <2>3 DEF list
  <2>5. DOMAIN results = DOMAIN items /\ \A i \in DOMAIN items : results[i] = ResolveLiteral(items[i], file, pass)
    BY <2>3
  <2> QED
    BY <1>8, <2>2, <2>4, <2>5, ListRead
<1>9. /\ networks.value \in Seq(ToSet(networks.value))
      /\ \A lit \in ToSet(networks.value) : IsLiteral(lit) /\ IsRead(lit)
  BY <1>1, <1>5, <1>8 DEF Lists
<1>10. /\ mounts.value \in Seq(ToSet(mounts.value))
       /\ \A lit \in ToSet(mounts.value) : IsLiteral(lit) /\ IsRead(lit)
  BY <1>1, <1>5, <1>8 DEF Lists
<1>11. /\ dns.value \in Seq(ToSet(dns.value))
       /\ \A lit \in ToSet(dns.value) : IsLiteral(lit) /\ IsRead(lit)
  BY <1>1, <1>5, <1>8 DEF Lists
<1>12. PICK bag : bag = r.value
  OBVIOUS
<1>13. IsBag(bag)
  <2>1. PICK i, n, m, d : i = image.value /\ n = networks.value /\ m = mounts.value /\ d = dns.value
    OBVIOUS
  <2>2. bag = [image |-> i, networks |-> n, mounts |-> m, dns |-> d]
    BY <1>6, <1>12, <2>1
  <2> QED
    BY <1>7, <1>9, <1>10, <1>11, <2>1, <2>2, BagIs
<1>14. Read(bag)
  <2>1. /\ bag.image = image.value /\ bag.networks = networks.value
        /\ bag.mounts = mounts.value /\ bag.dns = dns.value
    BY <1>6, <1>12
  <2> QED
    BY <1>7, <1>9, <1>10, <1>11, <2>1, SlotsAre DEF Read
<1>15. bag.image = image.value
  BY <1>6, <1>12
<1> QED
  BY <1>7, <1>12, <1>13, <1>14, <1>15

-------------------------------------------------------------------------------
(* Substitution.                                                           *)

LEMMA PieceSubstituted ==
  ASSUME NEW piece, NEW p, NEW arg, IsLiteral(arg),
         NEW r, r = SubstitutedPiece(piece, p, arg), r.error = None
  PROVE  r.value \in Seq(ToSet(r.value))
<1>1. ArgumentText(arg) \in Seq(ToSet(ArgumentText(arg)))
  <2>1. arg.text \in Seq(ToSet(arg.text))
    BY DEF IsLiteral
  <2> QED
    BY <2>1, OwnSingle DEF ArgumentText
<1>2. \/ r = Ok(<<piece>>)
      \/ r = Ok(ArgumentText(arg))
      \/ r = Ok(<<Hole(Path(arg) \o Tail(piece.path))>>)
      \/ r = Fail("ArgumentCantCarryField")
  BY DEF SubstitutedPiece
<1>3. r # Fail("ArgumentCantCarryField")
  BY DEF Fail, None
<1>4. CASE r = Ok(<<piece>>)
  <2>1. r.value = <<piece>>
    BY <1>4 DEF Ok
  <2> QED
    BY <2>1, OwnSingle
<1>5. CASE r = Ok(ArgumentText(arg))
  <2>1. r.value = ArgumentText(arg)
    BY <1>5 DEF Ok
  <2> QED
    BY <1>1, <2>1
<1>6. CASE r = Ok(<<Hole(Path(arg) \o Tail(piece.path))>>)
  <2>1. PICK x : x = Hole(Path(arg) \o Tail(piece.path))
    OBVIOUS
  <2>2. r.value = <<x>>
    BY <1>6, <2>1 DEF Ok
  <2> QED
    BY <2>2, OwnSingle
<1> QED
  BY <1>2, <1>3, <1>4, <1>5, <1>6

LEMMA LiteralSubstituted ==
  ASSUME NEW lit, IsLiteral(lit), NEW p, NEW arg, IsLiteral(arg),
         NEW r, r = SubstituteLiteral(lit, p, arg), r.error = None
  PROVE  IsLiteral(r.value)
<1>1. CASE lit.kind = "param"
  BY <1>1 DEF SubstituteLiteral, Ok
<1>2. CASE lit.kind = "field" /\ lit.base.kind = "param"
  <2>1. r = IF CarriesField(arg) THEN Ok([lit EXCEPT !.base = arg]) ELSE Fail("ArgumentCantCarryField")
    BY <1>2 DEF SubstituteLiteral
  <2>2. r = Ok([lit EXCEPT !.base = arg])
    BY <2>1 DEF Fail, None
  <2>3. r.value = [lit EXCEPT !.base = arg]
    BY <2>2 DEF Ok
  <2>4. r.value = [kind |-> "field", text |-> lit.text, base |-> arg]
    BY <1>2, <2>3 DEF IsLiteral
  <2>5. lit.text \in Seq(ToSet(lit.text))
    BY DEF IsLiteral
  <2> QED
    BY <2>4, <2>5 DEF IsLiteral
<1>3. CASE lit.kind = "str"
  <2>1. PICK list : list = lit.text
    OBVIOUS
  <2>2. list \in Seq(ToSet(list))
    BY <2>1 DEF IsLiteral
  <2>3. PICK results : /\ DOMAIN results = DOMAIN list
                       /\ \A i \in DOMAIN list : results[i] = SubstitutedPiece(list[i], p, arg)
                       /\ results = [i \in DOMAIN list |-> SubstitutedPiece(list[i], p, arg)]
    <3>1. \E results : results = [i \in DOMAIN list |-> SubstitutedPiece(list[i], p, arg)]
      OBVIOUS
    <3> QED
      BY <3>1
  <2>4. PICK c : c = Collected(results)
    OBVIOUS
  <2>5. r = IF c.error # None THEN c ELSE Ok(Str(FlattenSeq(c.value)))
    BY <1>3, <2>1, <2>3, <2>4 DEF SubstituteLiteral, Then
  <2>6. c.error = None
    BY <2>5
  <2>7. /\ c.value \in Seq(ToSet(c.value)) /\ DOMAIN c.value = DOMAIN list
        /\ \A i \in DOMAIN list : results[i].error = None /\ c.value[i] = results[i].value
    BY <2>2, <2>3, <2>4, <2>6, CollectedLiterals
  <2>8. ASSUME NEW i \in DOMAIN c.value PROVE c.value[i] \in Seq(ToSet(c.value[i]))
    <3>1. PICK x : x = SubstitutedPiece(list[i], p, arg)
      OBVIOUS
    <3>2. x.error = None /\ x.value = c.value[i]
      BY <2>3, <2>7, <3>1
    <3>3. x.value \in Seq(ToSet(x.value))
      BY <3>1, <3>2, PieceSubstituted
    <3> QED
      BY <3>2, <3>3
  <2>9. PICK text : text = FlattenSeq(c.value)
    OBVIOUS
  <2>10. text \in Seq(ToSet(text))
    <3>1. PICK texts : texts = c.value
      OBVIOUS
    <3> QED
      BY <2>7, <2>8, <2>9, <3>1, OwnFlatten
  <2>11. r.value = [kind |-> "str", text |-> text]
    BY <2>5, <2>6, <2>9 DEF Ok, Str
  <2> QED
    BY <2>10, <2>11 DEF IsLiteral
<1>4. CASE lit.kind # "param" /\ ~(lit.kind = "field" /\ lit.base.kind = "param") /\ lit.kind # "str"
  BY <1>4 DEF SubstituteLiteral, Ok
<1> QED
  BY <1>1, <1>2, <1>3, <1>4

LEMMA ReferenceSubstituted ==
  ASSUME NEW lit, IsLiteral(lit), NEW p, NEW arg, IsLiteral(arg),
         NEW r, r = SubstituteReference(lit, p, arg), r.error = None
  PROVE  IsLiteral(r.value)
<1>1. CASE lit.kind = "param" /\ arg.kind = "number"
  <2>1. r = Fail("ArgumentNotReferenceShaped")
    BY <1>1 DEF SubstituteReference
  <2> QED
    BY <2>1 DEF Fail, None
<1>2. CASE ~(lit.kind = "param" /\ arg.kind = "number")
  <2>1. r = SubstituteLiteral(lit, p, arg)
    BY <1>2 DEF SubstituteReference
  <2> QED
    BY <2>1, LiteralSubstituted
<1> QED
  BY <1>1, <1>2

LEMMA ListSubstituted ==
  ASSUME NEW list, list \in Seq(ToSet(list)), \A lit \in ToSet(list) : IsLiteral(lit),
         NEW p, NEW arg, IsLiteral(arg), NEW results, DOMAIN results = DOMAIN list,
         \A i \in DOMAIN list : results[i] = SubstituteReference(list[i], p, arg),
         NEW c, c = Collected(results), c.error = None
  PROVE  c.value \in Seq(ToSet(c.value)) /\ \A lit \in ToSet(c.value) : IsLiteral(lit)
<1>1. /\ c.value \in Seq(ToSet(c.value)) /\ DOMAIN c.value = DOMAIN list
      /\ \A i \in DOMAIN list : results[i].error = None /\ c.value[i] = results[i].value
      /\ \A e \in ToSet(c.value) : \E i \in DOMAIN list : e = c.value[i]
  BY CollectedLiterals
<1>2. ASSUME NEW i \in DOMAIN list PROVE IsLiteral(c.value[i])
  <2>1. PICK lit, x : lit = list[i] /\ x = SubstituteReference(lit, p, arg)
    OBVIOUS
  <2>2. IsLiteral(lit) /\ x.error = None /\ x.value = c.value[i]
    BY <1>1, <2>1 DEF ToSet
  <2>3. IsLiteral(x.value)
    BY <2>1, <2>2, ReferenceSubstituted
  <2> QED
    BY <2>2, <2>3
<1> QED
  BY <1>1, <1>2

LEMMA FieldsSubstituted ==
  ASSUME NEW fields, IsBag(fields), NEW p, NEW arg, IsLiteral(arg),
         NEW r, r = Substitute(fields, p, arg), r.error = None
  PROVE  IsBag(r.value)
<1> DEFINE list(f) == Collected([i \in DOMAIN fields[f] |-> SubstituteReference(fields[f][i], p, arg)])
<1>1. PICK image, networks, mounts, dns :
        /\ image = SubstituteLiteral(fields.image, p, arg)
        /\ networks = list("networks") /\ mounts = list("mounts") /\ dns = list("dns")
  OBVIOUS
<1>2. PICK all : all = Collected(<<image, mounts, networks, dns>>)
  OBVIOUS
<1>3. r = IF all.error # None THEN all
          ELSE Ok([image |-> all.value[1], mounts |-> all.value[2],
                   networks |-> all.value[3], dns |-> all.value[4]])
  BY <1>1, <1>2 DEF Substitute, OverSlots, Then
<1> HIDE DEF list
<1>4. all.error = None
  BY <1>3
<1>5. /\ image.error = None /\ mounts.error = None /\ networks.error = None /\ dns.error = None
      /\ all.value[1] = image.value /\ all.value[2] = mounts.value
      /\ all.value[3] = networks.value /\ all.value[4] = dns.value
  BY <1>2, <1>4, FourCollected
<1>6. r.value = [image |-> image.value, networks |-> networks.value,
                 mounts |-> mounts.value, dns |-> dns.value]
  BY <1>3, <1>4, <1>5 DEF Ok
<1>7. IsLiteral(image.value)
  <2>1. PICK lit : lit = fields.image
    OBVIOUS
  <2>2. IsLiteral(lit)
    BY <2>1, BagHas
  <2> QED
    BY <1>1, <1>5, <2>1, <2>2, LiteralSubstituted
<1>8. ASSUME NEW f \in Lists, NEW c, c = list(f), c.error = None
      PROVE  c.value \in Seq(ToSet(c.value)) /\ \A lit \in ToSet(c.value) : IsLiteral(lit)
  <2>1. PICK items : items = fields[f]
    OBVIOUS
  <2>2. items \in Seq(ToSet(items)) /\ \A lit \in ToSet(items) : IsLiteral(lit)
    BY <2>1 DEF IsBag, Slots
  <2>3. PICK results : results = [i \in DOMAIN items |-> SubstituteReference(items[i], p, arg)]
    OBVIOUS
  <2>4. c = Collected(results)
    BY <1>8, <2>1, <2>3 DEF list
  <2>5. /\ DOMAIN results = DOMAIN items
        /\ \A i \in DOMAIN items : results[i] = SubstituteReference(items[i], p, arg)
    BY <2>3
  <2> QED
    BY <1>8, <2>2, <2>4, <2>5, ListSubstituted
<1>9. networks.value \in Seq(ToSet(networks.value)) /\ \A lit \in ToSet(networks.value) : IsLiteral(lit)
  BY <1>1, <1>5, <1>8 DEF Lists
<1>10. mounts.value \in Seq(ToSet(mounts.value)) /\ \A lit \in ToSet(mounts.value) : IsLiteral(lit)
  BY <1>1, <1>5, <1>8 DEF Lists
<1>11. dns.value \in Seq(ToSet(dns.value)) /\ \A lit \in ToSet(dns.value) : IsLiteral(lit)
  BY <1>1, <1>5, <1>8 DEF Lists
<1> QED
  <2>1. PICK i, n, m, d : i = image.value /\ n = networks.value /\ m = mounts.value /\ d = dns.value
    OBVIOUS
  <2>2. PICK bag : bag = r.value
    OBVIOUS
  <2>3. bag = [image |-> i, networks |-> n, mounts |-> m, dns |-> d]
    BY <1>6, <2>1, <2>2
  <2>4. IsBag(bag)
    BY <1>7, <1>9, <1>10, <1>11, <2>1, <2>3, BagIs
  <2> QED
    BY <2>2, <2>4

-------------------------------------------------------------------------------
(* References and merges.                                                  *)

LEMMA ListBare ==
  ASSUME NEW list, list \in Seq(ToSet(list)), \A lit \in ToSet(list) : IsLiteral(lit) /\ IsRead(lit),
         NEW file, NEW kind, NEW results, DOMAIN results = DOMAIN list,
         \A i \in DOMAIN list : results[i] = Bare(list[i], kind, file),
         NEW c, c = Collected(results), c.error = None
  PROVE  /\ c.value \in Seq(ToSet(c.value))
         /\ \A lit \in ToSet(c.value) : IsLiteral(lit) /\ IsRead(lit) /\ lit.kind # "qualified"
<1>1. /\ c.value \in Seq(ToSet(c.value)) /\ DOMAIN c.value = DOMAIN list
      /\ \A i \in DOMAIN list : results[i].error = None /\ c.value[i] = results[i].value
      /\ \A e \in ToSet(c.value) : \E i \in DOMAIN list : e = c.value[i]
  BY CollectedLiterals
<1>2. ASSUME NEW i \in DOMAIN list
      PROVE  IsLiteral(c.value[i]) /\ IsRead(c.value[i]) /\ c.value[i].kind # "qualified"
  <2>1. PICK lit, x : lit = list[i] /\ x = results[i]
    OBVIOUS
  <2>2. IsLiteral(lit) /\ IsRead(lit) /\ x.error = None /\ x.value = c.value[i]
    BY <1>1, <2>1 DEF ToSet
  <2>3. CASE lit.kind # "qualified"
    <3>1. x = Ok(lit)
      BY <2>1, <2>3 DEF Bare
    <3>2. x.value = lit
      BY <3>1 DEF Ok
    <3> QED
      BY <2>2, <2>3, <3>2
  <2>4. CASE lit.kind = "qualified"
    <3>1. PICK decl : decl = QualifiedDecl(file, {kind}, lit)
      OBVIOUS
    <3>2. x = IF decl.error # None THEN decl ELSE Ok(Ident(decl.value.name))
      BY <2>1, <2>4, <3>1 DEF Bare, Then
    <3>3. PICK w : w = Word(decl.value.name)
      OBVIOUS
    <3>4. x.value = [kind |-> "ident", text |-> <<w>>]
      BY <2>2, <3>2, <3>3 DEF Ok, Ident
    <3> QED
      BY <2>2, <3>4, OwnSingle DEF IsLiteral, IsRead
  <2> QED
    BY <2>3, <2>4
<1> QED
  BY <1>1, <1>2

LEMMA OwnReferences ==
  ASSUME NEW fields, IsBag(fields), Read(fields), NEW file,
         NEW r, r = QualifiedReferences(fields, file), r.error = None
  PROVE  /\ IsBag(r.value) /\ r.value.image = fields.image
         /\ fields.image.kind # "qualified" => Home(r.value)
<1>1. PICK ns, ms : /\ ns = [i \in DOMAIN fields.networks |-> Bare(fields.networks[i], "network", file)]
                    /\ ms = [i \in DOMAIN fields.mounts |-> Bare(fields.mounts[i], "volume", file)]
  OBVIOUS
<1>2. PICK networks, mounts, lists : /\ networks = Collected(ns) /\ mounts = Collected(ms)
                                     /\ lists = Collected(<<networks, mounts>>)
  OBVIOUS
<1>3. r = IF lists.error # None THEN lists
          ELSE IF \E lit \in ToSet(fields.dns) : lit.kind = "qualified"
               THEN Fail("UnsupportedQualifiedReference")
          ELSE Ok([fields EXCEPT !.networks = lists.value[1], !.mounts = lists.value[2]])
  BY <1>1, <1>2 DEF QualifiedReferences, Then
<1>4. lists.error = None
  BY <1>3
<1>5. /\ networks.error = None /\ mounts.error = None
      /\ lists.value[1] = networks.value /\ lists.value[2] = mounts.value
  <2>1. PICK results : results = <<networks, mounts>>
    OBVIOUS
  <2>4. PICK n \in Nat : n = 2
    OBVIOUS
  <2>2. DOMAIN results = 1..n /\ results[1] = networks /\ results[2] = mounts /\ lists = Collected(results)
    BY <1>2, <2>1, <2>4
  <2>3. /\ \A i \in 1..n : results[i].error = None
        /\ lists.value = [i \in 1..n |-> results[i].value]
    BY <1>4, <2>2, CollectedIs
  <2> QED
    BY <2>2, <2>3, <2>4
<1>6. /\ r = Ok([fields EXCEPT !.networks = networks.value, !.mounts = mounts.value])
      /\ \A lit \in ToSet(fields.dns) : lit.kind # "qualified"
  BY <1>3, <1>4, <1>5 DEF Fail, None
<1>7. r.value = [image |-> fields.image, networks |-> networks.value, mounts |-> mounts.value, dns |-> fields.dns]
  <2>1. PICK i, n, m, d : fields = [image |-> i, networks |-> n, mounts |-> m, dns |-> d]
    BY DEF IsBag
  <2>2. PICK x, y : x = networks.value /\ y = mounts.value
    OBVIOUS
  <2>3. r.value = [fields EXCEPT !.networks = x, !.mounts = y]
    BY <1>6, <2>2 DEF Ok
  <2>4. r.value = [image |-> i, networks |-> x, mounts |-> y, dns |-> d]
    BY <2>1, <2>3
  <2> QED
    BY <2>1, <2>2, <2>4
<1>8. /\ \A lit \in ToSet(fields.networks) : IsLiteral(lit) /\ IsRead(lit)
      /\ \A lit \in ToSet(fields.mounts) : IsLiteral(lit) /\ IsRead(lit)
      /\ \A lit \in ToSet(fields.dns) : IsLiteral(lit) /\ IsRead(lit)
      /\ IsLiteral(fields.image) /\ IsRead(fields.image)
  BY SlotsAre DEF IsBag, Read
<1>9. /\ networks.value \in Seq(ToSet(networks.value))
      /\ \A lit \in ToSet(networks.value) : IsLiteral(lit) /\ IsRead(lit) /\ lit.kind # "qualified"
  <2>1. PICK list : list = fields.networks
    OBVIOUS
  <2>2. list \in Seq(ToSet(list)) /\ \A lit \in ToSet(list) : IsLiteral(lit) /\ IsRead(lit)
    BY <1>8, <2>1, BagHas
  <2>3. PICK c, results, kind : c = networks /\ results = ns /\ kind = "network"
    OBVIOUS
  <2>4. c = Collected(results) /\ c.error = None
    BY <1>2, <1>5, <2>3
  <2>5. DOMAIN results = DOMAIN list /\ \A i \in DOMAIN list : results[i] = Bare(list[i], kind, file)
    BY <1>1, <2>1, <2>3
  <2>6. /\ c.value \in Seq(ToSet(c.value))
        /\ \A lit \in ToSet(c.value) : IsLiteral(lit) /\ IsRead(lit) /\ lit.kind # "qualified"
    BY <2>2, <2>4, <2>5, ListBare
  <2> QED
    BY <2>3, <2>6
<1>10. /\ mounts.value \in Seq(ToSet(mounts.value))
       /\ \A lit \in ToSet(mounts.value) : IsLiteral(lit) /\ IsRead(lit) /\ lit.kind # "qualified"
  <2>1. PICK list : list = fields.mounts
    OBVIOUS
  <2>2. list \in Seq(ToSet(list)) /\ \A lit \in ToSet(list) : IsLiteral(lit) /\ IsRead(lit)
    BY <1>8, <2>1, BagHas
  <2>3. PICK c, results, kind : c = mounts /\ results = ms /\ kind = "volume"
    OBVIOUS
  <2>4. c = Collected(results) /\ c.error = None
    BY <1>2, <1>5, <2>3
  <2>5. DOMAIN results = DOMAIN list /\ \A i \in DOMAIN list : results[i] = Bare(list[i], kind, file)
    BY <1>1, <2>1, <2>3
  <2>6. /\ c.value \in Seq(ToSet(c.value))
        /\ \A lit \in ToSet(c.value) : IsLiteral(lit) /\ IsRead(lit) /\ lit.kind # "qualified"
    BY <2>2, <2>4, <2>5, ListBare
  <2> QED
    BY <2>3, <2>6
<1> QED
  <2>1. PICK i, n, m, d : i = fields.image /\ n = networks.value /\ m = mounts.value /\ d = fields.dns
    OBVIOUS
  <2>2. PICK bag : bag = r.value
    OBVIOUS
  <2>3. bag = [image |-> i, networks |-> n, mounts |-> m, dns |-> d]
    BY <1>7, <2>1, <2>2
  <2>4. d \in Seq(ToSet(d))
    BY <2>1, BagHas
  <2>5. IsBag(bag)
    BY <1>8, <1>9, <1>10, <2>1, <2>3, <2>4, BagIs
  <2>6. bag.image = i /\ bag.networks = n /\ bag.mounts = m /\ bag.dns = d
    BY <2>3
  <2>7. fields.image.kind # "qualified" => Home(bag)
    BY <1>6, <1>8, <1>9, <1>10, <2>1, <2>6, SlotsAre DEF Home
  <2> QED
    BY <2>1, <2>2, <2>5, <2>6, <2>7

(* What a list of references comes to holds nothing new.                   *)
LEMMA DistinctStays ==
  ASSUME NEW T, NEW held \in Seq(T), NEW added \in Seq(T)
  PROVE  FoldLeft(AddDistinct, held, added) \in Seq(T)
<1> DEFINE n == Len(added)
           D == 1..n
           S == Seq(T)
           g == [x \in S \X D |-> AddDistinct(x[1], added[x[2]])]
           folding(r) == [s \in SUBSET D |->
             IF s = {} THEN held ELSE AddDistinct(r[s \ {Max(s)}], added[Max(s)])]
           iter == CHOOSE r : r = folding(r)
<1>1. n \in Nat /\ DOMAIN added = D /\ \A i \in D : added[i] \in T
  BY LenProperties
<1>2. FoldLeft(AddDistinct, held, added) = iter[D]
  BY <1>1 DEF FoldLeft, MapThenFoldSet
<1>3. \A i \in D : \A a \in S : g[<<a, i>>] = AddDistinct(a, added[i])
  OBVIOUS
<1> HIDE DEF g, n, folding
<1>4. ASSUME NEW a \in S, NEW e \in T PROVE AddDistinct(a, e) \in S
  BY <1>4, AppendProperties DEF AddDistinct
<1>5. PICK f \in [SUBSET D -> S] : IsLeftFold(f, D, held, g)
  <2>1. held \in S /\ n \in Nat
    BY <1>1
  <2>2. \A i \in D : \A a \in S : g[<<a, i>>] \in S
    BY <1>1, <1>3, <1>4
  <2> HIDE DEF S, iter
  <2> QED
    BY <2>1, <2>2, LeftFold
<1> HIDE DEF S, D, iter
<1>6. \A s \in SUBSET D : s # {} => Max(s) \in D /\ f[s \ {Max(s)}] \in S
  <2>1. \A s \in SUBSET D : s # {} => Max(s) \in s
    BY <1>1, FoldOrders DEF D
  <2> QED
    BY <1>5, <2>1
<1>7. \E r : r = folding(r)
  <2>1. \A s \in SUBSET D : f[s] = IF s = {} THEN held ELSE AddDistinct(f[s \ {Max(s)}], added[Max(s)])
    BY <1>3, <1>5, <1>6 DEF IsLeftFold
  <2>2. f = folding(f)
    BY <1>5, <2>1 DEF folding
  <2> QED
    BY <2>2
<1>8. iter = folding(iter)
  BY <1>7 DEF iter
<1>9. \A s \in SUBSET D : iter[s] = IF s = {} THEN held ELSE AddDistinct(iter[s \ {Max(s)}], added[Max(s)])
  BY <1>8 DEF folding
<1>10. \A s \in SUBSET D : iter[s] \in S
  <2>1. iter[{}] \in S
    BY <1>9 DEF S
  <2>2. \A s \in SUBSET D : s # {} /\ Max(s) \in D /\ iter[s \ {Max(s)}] \in S => iter[s] \in S
    BY ZenonT(30), <1>1, <1>4, <1>9
  <2> QED
    BY <1>1, <2>1, <2>2, LeftFoldStays DEF D
<1> QED
  BY <1>2, <1>10 DEF S

LEMMA Merges ==
  ASSUME NEW acc, IsBag(acc), Home(acc), NEW own, IsBag(own), Home(own),
         NEW bag, bag = Merge(acc, own)
  PROVE  IsBag(bag) /\ Home(bag)
<1>1. PICK image, networks, mounts, dns :
        /\ image = IF own.image # Unset THEN own.image ELSE acc.image
        /\ networks = FoldLeft(AddDistinct, acc.networks, own.networks)
        /\ mounts = acc.mounts \o own.mounts /\ dns = acc.dns \o own.dns
  OBVIOUS
<1>2. bag = [image |-> image, networks |-> networks, mounts |-> mounts, dns |-> dns]
  BY <1>1 DEF Merge
<1> DEFINE T == {lit \in Slots(acc) \cup Slots(own) : TRUE}
<1>3. \A lit \in T : IsLiteral(lit) /\ IsRead(lit) /\ lit.kind # "qualified"
  BY DEF IsBag, Home
<1>4. /\ acc.networks \in Seq(T) /\ own.networks \in Seq(T)
      /\ acc.mounts \in Seq(T) /\ own.mounts \in Seq(T)
      /\ acc.dns \in Seq(T) /\ own.dns \in Seq(T)
      /\ acc.image \in T /\ own.image \in T
  <2>1. /\ ToSet(acc.networks) \subseteq T /\ ToSet(own.networks) \subseteq T
        /\ ToSet(acc.mounts) \subseteq T /\ ToSet(own.mounts) \subseteq T
        /\ ToSet(acc.dns) \subseteq T /\ ToSet(own.dns) \subseteq T
        /\ acc.image \in T /\ own.image \in T
    BY SlotsAre
  <2> HIDE DEF T
  <2> QED
    BY <2>1, BagHas, SeqMonotonic
<1> HIDE DEF T
<1>5. image \in T
  BY <1>1, <1>4
<1>6. networks \in Seq(T)
  BY <1>1, <1>4, DistinctStays
<1>7. mounts \in Seq(T) /\ dns \in Seq(T)
  BY <1>1, <1>4, ConcatProperties
<1>8. /\ networks \in Seq(ToSet(networks)) /\ ToSet(networks) \subseteq T
      /\ mounts \in Seq(ToSet(mounts)) /\ ToSet(mounts) \subseteq T
      /\ dns \in Seq(ToSet(dns)) /\ ToSet(dns) \subseteq T
  BY <1>6, <1>7, OwnElements
<1>9. IsBag(bag)
  BY <1>2, <1>3, <1>5, <1>8, BagIs
<1>10. bag.image = image /\ bag.networks = networks /\ bag.mounts = mounts /\ bag.dns = dns
  BY <1>2
<1>11. Slots(bag) \subseteq T
  BY <1>5, <1>8, <1>10, SlotsAre
<1> QED
  BY <1>3, <1>9, <1>11 DEF Home

-------------------------------------------------------------------------------
(* The frames.                                                             *)

IsFrame(f) ==
  /\ f = [body |-> f.body, stage |-> f.stage, fields |-> f.fields, arg |-> f.arg, acc |-> f.acc]
  /\ f.body \in DOMAIN program.bodies
  /\ IsBag(f.fields) /\ f.fields.image.kind # "qualified" /\ IsLiteral(f.arg)
  /\ IsBag(f.acc) /\ Home(f.acc)
  /\ f.stage # "entered" => Read(f.fields)

(* The bodies in progress, each called by the one below it.                *)
IsStack(fs) ==
  /\ fs \in Seq(ToSet(fs)) /\ Len(fs) > 0
  /\ \A i \in 1..Len(fs) : IsFrame(fs[i])
  /\ fs[1].body = "service"
  /\ \A i \in 1..(Len(fs) - 1) : fs[i].stage = "called" /\ fs[i + 1].body = program.bodies[fs[i].body].with

(* Every body in progress has lost the aliases that the passes over it so  *)
(* far resolve.                                                            *)
Scoping == program \in Programs /\ IsStack(frames) /\ TypeOK

LEMMA NoFieldsBag == IsBag(NoFields) /\ Home(NoFields)
<1>1. IsLiteral(Unset) /\ IsRead(Unset) /\ Unset.kind # "qualified"
  BY DEF Unset, IsLiteral, IsRead
<1>2. PICK image, none : image = Unset /\ none = <<>>
  OBVIOUS
<1>3. none \in Seq(ToSet(none)) /\ \A e : e \notin ToSet(none)
  BY <1>2 DEF ToSet
<1>4. NoFields = [image |-> image, networks |-> none, mounts |-> none, dns |-> none]
  BY <1>2 DEF NoFields
<1>5. IsBag(NoFields)
  BY <1>1, <1>2, <1>3, <1>4, BagIs
<1>6. /\ NoFields.image = image /\ NoFields.networks = none
      /\ NoFields.mounts = none /\ NoFields.dns = none
  BY <1>4
<1> QED
  BY <1>1, <1>2, <1>3, <1>5, <1>6, SlotsAre DEF Home

LEMMA EnteredFrame ==
  ASSUME program \in Programs, NEW b \in DOMAIN program.bodies, NEW f, f = Frame(b)
  PROVE  IsFrame(f) /\ f.body = b
<1>1. PICK fields, arg : fields = program.bodies[b].fields /\ arg = program.bodies[b].arg
  OBVIOUS
<1>2. /\ fields = [l \in DOMAIN NoFields |-> fields[l]]
      /\ \A l \in Lists : fields[l] \in Seq(ToSet(fields[l]))
      /\ \A lit \in Slots(fields) : IsLiteral(lit)
      /\ IsLiteral(arg) /\ fields.image.kind # "qualified"
  BY <1>1, ProgramsAssumption DEF IsProgram
<1>3. fields = [image |-> fields.image, networks |-> fields.networks,
                mounts |-> fields.mounts, dns |-> fields.dns]
  <2>1. fields = [l \in {"image", "networks", "mounts", "dns"} |-> fields[l]]
    BY <1>2 DEF NoFields
  <2> QED
    BY <2>1
<1>4. IsBag(fields)
  BY <1>2, <1>3 DEF IsBag
<1>5. f = [body |-> b, stage |-> "entered", fields |-> fields, arg |-> arg, acc |-> NoFields]
  BY <1>1 DEF Frame
<1> QED
  BY <1>2, <1>4, <1>5, NoFieldsBag DEF IsFrame

(* The stack of frames.                                                    *)
LEMMA StackStays ==
  ASSUME program' = program, IsStack(frames') PROVE IsStack(frames)'
BY DEF IsStack, IsFrame

LEMMA TopIsFrame ==
  ASSUME Scoping
  PROVE  /\ Len(frames) \in Nat /\ Len(frames) > 0 /\ IsFrame(Top)
         /\ Len(frames) > 1 => IsFrame(Caller)
<1>1. PICK n : n = Len(frames)
  OBVIOUS
<1>2. n \in Nat /\ n > 0 /\ n \in 1..n /\ (n > 1 => n - 1 \in 1..n)
  BY <1>1, LenProperties DEF Scoping, IsStack
<1> QED
  BY <1>1, <1>2 DEF Scoping, IsStack, Top, Caller

LEMMA TopReplaced ==
  ASSUME Scoping, NEW frame, IsFrame(frame), frame.body = Top.body, NEW fs, fs = SetTop(frame)
  PROVE  IsStack(fs) /\ Len(fs) = Len(frames) /\ fs[Len(frames)] = frame
<1>1. PICK n : n = Len(frames)
  OBVIOUS
<1>2. n \in Nat /\ n > 0 /\ fs = [frames EXCEPT ![n] = frame] /\ Top = frames[n]
  BY <1>1, TopIsFrame DEF SetTop, Top
<1>3. /\ fs \in Seq(ToSet(fs)) /\ Len(fs) = n
      /\ \A i \in 1..n : fs[i] = IF i = n THEN frame ELSE frames[i]
  <2> DEFINE S == ToSet(frames) \cup {frame}
  <2>1. frames \in Seq(S) /\ n \in 1..Len(frames)
    BY <1>1, <1>2, SeqMonotonic DEF Scoping, IsStack
  <2>2. fs \in Seq(S) /\ Len(fs) = n /\ \A i \in 1..n : fs[i] = IF i = n THEN frame ELSE frames[i]
    BY <1>1, <1>2, <2>1, ExceptSeq
  <2> QED
    BY <2>2, OwnElements
<1>4. \A i \in 1..n : fs[i].body = frames[i].body
  BY <1>2, <1>3
<1>5. \A i \in 1..n : IsFrame(fs[i])
  BY <1>1, <1>3 DEF Scoping, IsStack
<1>6. \A i \in 1..(n - 1) : i \in 1..n /\ i + 1 \in 1..n /\ i # n
  BY <1>2
<1>7. /\ frames[1].body = "service"
      /\ \A i \in 1..(n - 1) : frames[i].stage = "called" /\ frames[i + 1].body = program.bodies[frames[i].body].with
  BY <1>1 DEF Scoping, IsStack
<1>8. fs[1].body = "service"
  BY <1>2, <1>4, <1>7
<1>9. ASSUME NEW i \in 1..(n - 1)
      PROVE  fs[i].stage = "called" /\ fs[i + 1].body = program.bodies[fs[i].body].with
  <2>1. fs[i] = frames[i] /\ fs[i + 1].body = frames[i + 1].body
    BY <1>3, <1>4, <1>6
  <2> QED
    BY <1>7, <2>1
<1>10. fs[n] = frame /\ Len(fs) > 0
  BY <1>2, <1>3
<1> QED
  BY <1>1, <1>3, <1>5, <1>8, <1>9, <1>10 DEF IsStack

LEMMA Pushed ==
  ASSUME NEW fs, IsStack(fs), NEW n, n = Len(fs), fs[n].stage = "called",
         NEW f, IsFrame(f), f.body = program.bodies[fs[n].body].with
  PROVE  IsStack(Append(fs, f))
<1>1. n \in Nat /\ n > 0
  BY LenProperties DEF IsStack
<1>2. PICK t : t = Append(fs, f)
  OBVIOUS
<1>3. t \in Seq(ToSet(t)) /\ Len(t) = n + 1 /\ \A i \in 1..(n + 1) : t[i] = IF i = n + 1 THEN f ELSE fs[i]
  <2> DEFINE S == ToSet(fs) \cup {f}
  <2>1. fs \in Seq(S)
    BY SeqMonotonic DEF IsStack
  <2>2. t \in Seq(S) /\ Len(t) = n + 1 /\ t[n + 1] = f /\ \A i \in 1..n : t[i] = fs[i]
    BY <1>2, <2>1, AppendProperties
  <2>3. \A i \in 1..(n + 1) : i # n + 1 => i \in 1..n
    BY <1>1
  <2> QED
    BY <2>2, <2>3, OwnElements
<1>4. /\ \A i \in 1..(n + 1) : i # n + 1 => i \in 1..n
      /\ \A i \in 1..n : i \in 1..(n + 1) /\ i # n + 1
      /\ \A i \in 1..n : i + 1 \in 1..(n + 1)
      /\ \A i \in 1..n : i # n => i \in 1..(n - 1) /\ i + 1 # n + 1
      /\ 1 \in 1..n /\ n + 1 \in 1..(n + 1)
  <2>1. \A i \in 1..(n + 1) : i # n + 1 => i \in 1..n
    BY <1>1
  <2>2. \A i \in 1..n : i \in 1..(n + 1) /\ i # n + 1 /\ i + 1 \in 1..(n + 1)
    BY <1>1
  <2>3. \A i \in 1..n : i # n => i \in 1..(n - 1) /\ i + 1 # n + 1
    BY <1>1
  <2>4. 1 \in 1..n /\ n + 1 \in 1..(n + 1)
    BY <1>1
  <2> QED
    BY <2>1, <2>2, <2>3, <2>4
<1>5. \A i \in 1..(n + 1) : IsFrame(t[i])
  BY <1>3, <1>4 DEF IsStack
<1>6. t[1].body = "service"
  BY <1>3, <1>4 DEF IsStack
<1>7. ASSUME NEW i \in 1..n PROVE t[i].stage = "called" /\ t[i + 1].body = program.bodies[t[i].body].with
  <2>1. t[i] = fs[i]
    BY <1>3, <1>4
  <2>2. CASE i = n
    BY <1>3, <1>4, <2>1, <2>2
  <2>3. CASE i # n
    <3>1. t[i + 1] = fs[i + 1] /\ i \in 1..(n - 1)
      BY <1>3, <1>4, <2>3
    <3> QED
      BY <2>1, <3>1 DEF IsStack
  <2> QED
    BY <2>2, <2>3
<1>8. Len(t) > 0 /\ Len(t) - 1 = n
  BY <1>1, <1>3
<1> QED
  BY <1>2, <1>3, <1>5, <1>6, <1>7, <1>8 DEF IsStack

LEMMA Popped ==
  ASSUME Scoping, NEW n, n = Len(frames), n > 1, NEW f, IsFrame(f), f.body = frames[n - 1].body
  PROVE  IsStack(Append(SubSeq(frames, 1, n - 2), f))
<1>1. n \in Nat
  BY TopIsFrame
<1>0. PICK m \in Nat : m = n - 2
  BY <1>1
<1>2. PICK t : t = Append(SubSeq(frames, 1, m), f) /\ m = n - 2
  BY <1>0
<1>3. t \in Seq(ToSet(t)) /\ Len(t) = m + 1 /\ \A i \in 1..(m + 1) : t[i] = IF i = m + 1 THEN f ELSE frames[i]
  <2> DEFINE S == ToSet(frames) \cup {f}
  <2>1. PICK s : s = SubSeq(frames, 1, m)
    OBVIOUS
  <2>2. frames \in Seq(S)
    BY SeqMonotonic DEF Scoping, IsStack
  <2>3. m <= n /\ \A i \in 1..m : i \in 1..n
    BY <1>1, <1>2
  <2>4. s \in Seq(S) /\ Len(s) = m /\ \A i \in 1..m : s[i] = frames[i]
    <3>1. s = [i \in 1..m |-> frames[i]]
      BY <1>1, <1>2, <2>1
    <3>2. \A i \in 1..m : frames[i] \in S
      BY <2>2, <2>3, ElementOfSeq
    <3>3. s \in [1..m -> S]
      BY <3>1, <3>2
    <3> QED
      BY <3>1, <3>3
  <2>5. t \in Seq(S) /\ Len(t) = m + 1 /\ t[m + 1] = f /\ \A i \in 1..m : t[i] = s[i]
    BY <1>2, <2>1, <2>4, AppendProperties
  <2>6. \A i \in 1..(m + 1) : i # m + 1 => i \in 1..m
    OBVIOUS
  <2> QED
    BY <2>4, <2>5, <2>6, OwnElements
<1>4. /\ \A i \in 1..(m + 1) : i \in 1..n
      /\ \A i \in 1..m : i \in 1..(m + 1) /\ i # m + 1 /\ i \in 1..(n - 1) /\ i + 1 \in 1..(m + 1)
      /\ 1 \in 1..(m + 1) /\ n - 1 = m + 1
  BY <1>1, <1>2
<1>5. \A i \in 1..(m + 1) : IsFrame(t[i]) /\ t[i].body = frames[i].body
  BY <1>3, <1>4 DEF Scoping, IsStack
<1>6. t[1].body = "service"
  BY <1>4, <1>5 DEF Scoping, IsStack
<1>7. ASSUME NEW i \in 1..m PROVE t[i].stage = "called" /\ t[i + 1].body = program.bodies[t[i].body].with
  <2>1. t[i] = frames[i] /\ t[i + 1].body = frames[i + 1].body
    BY <1>3, <1>4, <1>5
  <2> QED
    BY <1>4, <2>1 DEF Scoping, IsStack
<1>8. Len(t) > 0 /\ Len(t) - 1 = m
  BY <1>3
<1> QED
  BY <1>2, <1>3, <1>5, <1>6, <1>7, <1>8 DEF IsStack

-------------------------------------------------------------------------------
(* What each step of a body comes to.                                      *)
LEMMA ArgumentReinterpreted ==
  ASSUME NEW lit, IsLiteral(lit), NEW file,
         NEW r, r = ReinterpretArgument(lit, file), r.error = None
  PROVE  IsLiteral(r.value)
<1>1. CASE r = Ok(lit)
  BY <1>1 DEF Ok
<1>2. CASE r # Ok(lit)
  <2>1. PICK decl, a, d : /\ decl = AliasedDecl(file, {"network", "volume"}, NameIn(lit.base), FieldOf(lit))
                          /\ a = NameIn(lit.base) /\ d = FieldOf(lit)
    OBVIOUS
  <2>2. r = IF decl.error # None THEN decl ELSE Ok(Qualified(a, d))
    BY <1>2, <2>1 DEF ReinterpretArgument, Then
  <2>3. PICK x, y : x = Word(a) /\ y = Word(d)
    OBVIOUS
  <2>4. r.value = [kind |-> "qualified", text |-> <<x, y>>]
    BY <2>2, <2>3 DEF Ok, Qualified
  <2> QED
    BY <2>4, OwnPair DEF IsLiteral
<1> QED
  BY <1>1, <1>2

LEMMA FrameScoped ==
  ASSUME IsFrame(Top), NEW r, r = Scoped, r.error = None
  PROVE  IsFrame(r.value) /\ r.value.body = Top.body
<1>1. PICK file, pass : file = FileOf(Top.body) /\ pass = "written"
  OBVIOUS
<1>2. PICK arg : arg = ReinterpretArgument(Top.arg, file)
  OBVIOUS
<1>3. PICK fields, read : /\ fields = ResolveFields(Top.fields, file, pass)
                          /\ read = ResolveLiteral(arg.value, file, pass)
  OBVIOUS
<1>4. r = IF arg.error # None THEN arg
          ELSE IF fields.error # None THEN fields
          ELSE IF read.error # None THEN read
          ELSE Ok([Top EXCEPT !.stage = "scoped", !.fields = fields.value, !.arg = read.value])
  BY <1>1, <1>2, <1>3 DEF Scoped, Then
<1>5. arg.error = None /\ fields.error = None /\ read.error = None
  BY <1>4
<1>6. r.value = [Top EXCEPT !.stage = "scoped", !.fields = fields.value, !.arg = read.value]
  BY <1>4, <1>5 DEF Ok
<1>7. PICK top : top = Top
  OBVIOUS
<1>8. r.value = [body |-> top.body, stage |-> "scoped", fields |-> fields.value,
                 arg |-> read.value, acc |-> top.acc]
  <2>1. PICK b, s, f, a, c : top = [body |-> b, stage |-> s, fields |-> f, arg |-> a, acc |-> c]
    BY <1>7 DEF IsFrame
  <2>2. PICK x, y : x = fields.value /\ y = read.value
    OBVIOUS
  <2>3. r.value = [top EXCEPT !.stage = "scoped", !.fields = x, !.arg = y]
    BY <1>6, <1>7, <2>2
  <2>4. r.value = [body |-> b, stage |-> "scoped", fields |-> x, arg |-> y, acc |-> c]
    BY <2>1, <2>3
  <2> QED
    BY <2>1, <2>2, <2>4
<1>9. pass \in Passes
  BY <1>1 DEF Passes
<1>10. IsLiteral(read.value)
  <2>1. PICK lit, passed : lit = Top.arg /\ passed = arg.value
    OBVIOUS
  <2>2. IsLiteral(passed)
    BY <1>2, <1>5, <2>1, ArgumentReinterpreted DEF IsFrame
  <2> QED
    BY <1>3, <1>5, <1>9, <2>1, <2>2, LiteralRead
<1>11. /\ IsBag(fields.value) /\ Read(fields.value) /\ fields.value.image.kind # "qualified"
  <2>1. PICK own : own = Top.fields
    OBVIOUS
  <2> QED
    BY <1>3, <1>5, <1>9, <2>1, FieldsRead DEF IsFrame
<1> QED
  BY <1>7, <1>8, <1>10, <1>11 DEF IsFrame

LEMMA FrameMerged ==
  ASSUME IsFrame(Top), Top.stage # "entered", NEW r, r = Owned, r.error = None,
         NEW bag, bag = Merge(Top.acc, r.value)
  PROVE  \E f : f = [Top EXCEPT !.stage = "merged", !.acc = bag] /\ IsFrame(f) /\ f.body = Top.body
<1>1. PICK own, file : own = Top.fields /\ file = FileOf(Top.body)
  OBVIOUS
<1>2. IsBag(own) /\ Read(own) /\ own.image.kind # "qualified" /\ r = QualifiedReferences(own, file)
  BY <1>1 DEF IsFrame, Owned
<1>3. IsBag(r.value) /\ Home(r.value)
  BY <1>2, OwnReferences
<1>4. PICK x, y : x = Top.acc /\ y = r.value
  OBVIOUS
<1>5. IsBag(bag) /\ Home(bag)
  BY <1>3, <1>4, Merges DEF IsFrame
<1>6. PICK b, s, g, a, c : Top = [body |-> b, stage |-> s, fields |-> g, arg |-> a, acc |-> c]
  BY DEF IsFrame
<1>7. PICK f : f = [body |-> b, stage |-> "merged", fields |-> g, arg |-> a, acc |-> bag]
  OBVIOUS
<1>8. f = [Top EXCEPT !.stage = "merged", !.acc = bag]
  <2>1. PICK top : top = Top
    OBVIOUS
  <2>2. top = [body |-> b, stage |-> s, fields |-> g, arg |-> a, acc |-> c]
    BY <1>6, <2>1
  <2>3. PICK h : h = [top EXCEPT !.stage = "merged", !.acc = bag]
    OBVIOUS
  <2>4. h = [body |-> b, stage |-> "merged", fields |-> g, arg |-> a, acc |-> bag]
    BY <2>2, <2>3
  <2> QED
    BY <1>7, <2>1, <2>3, <2>4
<1>9. /\ f.body = b /\ f.fields = g /\ f.arg = a /\ f.acc = bag /\ f.stage = "merged"
      /\ Top.body = b /\ Top.fields = g /\ Top.arg = a
  BY <1>6, <1>7
<1>10. b \in DOMAIN program.bodies /\ IsBag(g) /\ g.image.kind # "qualified" /\ IsLiteral(a) /\ Read(g)
  BY <1>1, <1>2, <1>9 DEF IsFrame
<1>11. IsFrame(f)
  BY <1>5, <1>7, <1>9, <1>10 DEF IsFrame
<1> QED
  BY <1>8, <1>9, <1>11

LEMMA FrameReturned ==
  ASSUME IsFrame(Top), IsFrame(Caller), NEW r, r = Delivered, r.error = None,
         NEW f, f = [Caller EXCEPT !.acc = Merge(@, r.value)]
  PROVE  IsFrame(f) /\ f.body = Caller.body
<1>1. PICK file, pass, p, arg : /\ file = FileOf(Caller.body) /\ pass = "substituted"
                                /\ p = program.bodies[Top.body].param /\ arg = Caller.arg
  OBVIOUS
<1>2. PICK acc : acc = Top.acc
  OBVIOUS
<1>3. PICK put, accessed : put = Substitute(acc, p, arg) /\ accessed = Accessed
  OBVIOUS
<1>4. accessed = IF put.error # None THEN put ELSE ResolveFields(put.value, file, pass)
  BY <1>1, <1>2, <1>3 DEF Accessed, Then
<1>5. PICK fields : fields = QualifiedReferences(accessed.value, file)
  OBVIOUS
<1>6. r = IF accessed.error # None THEN accessed
          ELSE IF fields.error # None THEN fields
          ELSE IF NotAValue(fields.value) THEN Fail("QualifiedArgumentNotAValue") ELSE Ok(fields.value)
  BY <1>1, <1>3, <1>5 DEF Delivered, Then
<1>7. accessed.error = None /\ fields.error = None
  BY <1>6
<1>8. ~NotAValue(fields.value) /\ r.value = fields.value
  BY <1>6, <1>7 DEF Fail, Ok, None
<1>9. put.error = None
  BY <1>4, <1>7
<1>10. PICK body, own : body = put.value /\ own = accessed.value
  OBVIOUS
<1>11. IsBag(body)
  BY <1>1, <1>2, <1>3, <1>9, <1>10, FieldsSubstituted DEF IsFrame
<1>12. IsBag(own) /\ Read(own)
  <2>1. accessed = ResolveFields(body, file, pass) /\ accessed.error = None /\ pass \in Passes
    BY <1>1, <1>4, <1>7, <1>9, <1>10 DEF Passes
  <2> QED
    BY <1>10, <1>11, <2>1, FieldsRead
<1>13. IsBag(r.value) /\ Home(r.value)
  <2>1. /\ IsBag(fields.value) /\ fields.value.image = own.image
        /\ own.image.kind # "qualified" => Home(fields.value)
    <3>1. fields = QualifiedReferences(own, file)
      BY <1>5, <1>10
    <3> QED
      BY <1>7, <1>12, <3>1, OwnReferences
  <2> QED
    BY <1>8, <2>1 DEF NotAValue
<1>14. PICK x, y, bag : x = Caller.acc /\ y = r.value /\ bag = Merge(x, y)
  OBVIOUS
<1>15. IsBag(bag) /\ Home(bag)
  BY <1>13, <1>14, Merges DEF IsFrame
<1>16. PICK caller : caller = Caller
  OBVIOUS
<1>17. f = [body |-> caller.body, stage |-> caller.stage, fields |-> caller.fields,
            arg |-> caller.arg, acc |-> bag]
  <2>1. PICK b, s, g, a, c : caller = [body |-> b, stage |-> s, fields |-> g, arg |-> a, acc |-> c]
    BY <1>16 DEF IsFrame
  <2>2. f = [caller EXCEPT !.acc = bag]
    BY <1>14, <1>16
  <2>3. f = [body |-> b, stage |-> s, fields |-> g, arg |-> a, acc |-> bag]
    BY <2>1, <2>2
  <2> QED
    BY <2>1, <2>3
<1> QED
  BY <1>15, <1>16, <1>17 DEF IsFrame

(* The declarations a document attaches are of the kind it lists them as.  *)
LEMMA AttachedKinds ==
  ASSUME NEW refs, NEW kind, NEW list, list = Attached(refs, kind),
         \A lit \in ToSet(refs) : \E d \in Composed(kind) : Ident(d.name).text = lit.text
  PROVE  \A d \in ToSet(list) : d.kind = kind
<1>1. DOMAIN list = DOMAIN refs
  BY DEF Attached
<1>2. ASSUME NEW i \in DOMAIN refs PROVE list[i].kind = kind
  <2>1. PICK lit : lit = refs[i] /\ lit \in ToSet(refs)
    BY DEF ToSet
  <2>2. list[i] = CHOOSE d \in Composed(kind) : Ident(d.name).text = lit.text
    BY <2>1 DEF Attached
  <2>3. \E d \in Composed(kind) : Ident(d.name).text = lit.text
    BY <2>1
  <2>4. list[i] \in Composed(kind)
    BY <2>2, <2>3
  <2> QED
    BY <2>4 DEF Composed
<1> QED
  BY <1>1, <1>2 DEF ToSet

LEMMA DocumentKinds ==
  ASSUME NEW r, r = Generated, r.error = None
  PROVE  /\ \A d \in ToSet(r.value.networks) : d.kind = "network"
         /\ \A d \in ToSet(r.value.mounts) : d.kind = "volume"
<1>1. PICK fields : fields = ResolveFields(Top.acc, Entry, "bound")
  OBVIOUS
<1>2. r = IF fields.error # None THEN fields
          ELSE IF GenerateError(fields.value) # None THEN Fail(GenerateError(fields.value))
          ELSE Ok([image |-> Printed(fields.value.image.text),
                   networks |-> Attached(fields.value.networks, "network"),
                   mounts |-> Attached(fields.value.mounts, "volume"), dns |-> fields.value.dns])
  BY <1>1 DEF Generated, Then
<1>3. GenerateError(fields.value) = None
  BY <1>2 DEF Fail
<1>4. PICK bag : bag = fields.value
  OBVIOUS
<1>5. PICK image, networks, mounts, dns :
        /\ image = Printed(bag.image.text) /\ networks = Attached(bag.networks, "network")
        /\ mounts = Attached(bag.mounts, "volume") /\ dns = bag.dns
  OBVIOUS
<1>6. r.value = [image |-> image, networks |-> networks, mounts |-> mounts, dns |-> dns]
  BY <1>2, <1>3, <1>4, <1>5 DEF Ok
<1>7. /\ ~\E lit \in ToSet(bag.mounts) : \A d \in Composed("volume") : Ident(d.name).text # lit.text
      /\ ~\E lit \in ToSet(bag.networks) : \A d \in Composed("network") : Ident(d.name).text # lit.text
  BY <1>3, <1>4, Zenon DEF GenerateError, None
<1>8. \A d \in ToSet(networks) : d.kind = "network"
  BY <1>5, <1>7, AttachedKinds
<1>9. \A d \in ToSet(mounts) : d.kind = "volume"
  BY <1>5, <1>7, AttachedKinds
<1> QED
  BY <1>6, <1>8, <1>9

-------------------------------------------------------------------------------
(* The steps.                                                              *)

(* A step that leaves the document alone and the frames a stack.           *)
LEMMA StillScoping ==
  ASSUME Scoping, IsStack(frames'), outcome = "running",
         UNCHANGED <<program, document, outcome>>
  PROVE  Scoping'
<1>1. IsStack(frames)'
  BY StackStays
<1>2. /\ frames'[1].body = "service"
      /\ \A i \in 1..(Len(frames') - 1) :
           frames'[i].stage = "called" /\ frames'[i + 1].body = program'.bodies[frames'[i].body].with
  BY <1>1 DEF IsStack
<1>3. TypeOK'
  BY <1>2 DEF Scoping, TypeOK
<1> QED
  BY <1>1, <1>3 DEF Scoping

LEMMA ScopedStays ==
  ASSUME Scoping, ResolveScoped PROVE Scoping'
<1>1. PICK r : r = Scoped
  OBVIOUS
<1>2. r.error = None /\ outcome = "running" /\ frames' = SetTop(r.value)
  BY <1>1 DEF ResolveScoped, Error, At
<1>3. IsFrame(Top)
  BY TopIsFrame
<1>4. IsFrame(r.value) /\ r.value.body = Top.body
  BY <1>1, <1>2, <1>3, FrameScoped
<1>5. IsStack(frames')
  BY <1>2, <1>4, TopReplaced
<1> QED
  BY <1>2, <1>5, StillScoping DEF ResolveScoped

LEMMA InvokeStays ==
  ASSUME Scoping, Invoke PROVE Scoping'
<1>1. PICK top : top = Top
  OBVIOUS
<1>2. IsFrame(top)
  BY <1>1, TopIsFrame
<1>3. PICK f : f = [top EXCEPT !.stage = "called"]
  OBVIOUS
<1>4. f = [body |-> top.body, stage |-> "called", fields |-> top.fields, arg |-> top.arg, acc |-> top.acc]
  <2>1. PICK b, s, g, a, c : top = [body |-> b, stage |-> s, fields |-> g, arg |-> a, acc |-> c]
    BY <1>2 DEF IsFrame
  <2>2. f = [body |-> b, stage |-> "called", fields |-> g, arg |-> a, acc |-> c]
    BY <1>3, <2>1
  <2> QED
    BY <2>1, <2>2
<1>5. top.stage = "scoped" /\ outcome = "running"
  BY <1>1 DEF Invoke, At
<1>6. IsFrame(f) /\ f.body = top.body /\ f.stage = "called"
  BY <1>2, <1>4, <1>5 DEF IsFrame
<1>7. PICK fs, n : fs = SetTop(f) /\ n = Len(frames)
  OBVIOUS
<1>8. IsStack(fs) /\ Len(fs) = n /\ fs[n] = f
  BY <1>1, <1>6, <1>7, TopReplaced
<1>9. PICK b : b = Callee
  OBVIOUS
<1>10. PICK callee : callee = Frame(b)
  OBVIOUS
<1>11. b # "none" /\ b = program.bodies[f.body].with
  BY <1>1, <1>6, <1>9 DEF Invoke, Callee
<1>12. b \in DOMAIN program.bodies /\ program \in Programs
  <2>1. IsProgram(program)
    BY ProgramsAssumption DEF Scoping
  <2>2. f.body \in DOMAIN program.bodies
    BY <1>6 DEF IsFrame
  <2> QED
    BY <1>11, <2>1, <2>2 DEF IsProgram, Scoping
<1>13. IsFrame(callee) /\ callee.body = b
  BY <1>10, <1>12, EnteredFrame
<1>14. IsStack(Append(fs, callee))
  BY <1>6, <1>8, <1>11, <1>13, Pushed
<1>15. frames' = Append(fs, callee)
  BY <1>1, <1>3, <1>7, <1>9, <1>10 DEF Invoke
<1> QED
  BY <1>5, <1>14, <1>15, StillScoping DEF Invoke

LEMMA MergeStays ==
  ASSUME Scoping, MergeOwn PROVE Scoping'
<1>1. PICK r, bag : r = Owned /\ bag = Merge(Top.acc, r.value)
  OBVIOUS
<1>2. /\ outcome = "running" /\ Top.stage # "entered"
      /\ Top.stage = "called" \/ (Top.stage = "scoped" /\ Callee = "none")
  BY DEF MergeOwn, At
<1>3. r.error = None
  BY <1>1, <1>2 DEF MergeOwn, Error
<1>4. PICK f : f = [Top EXCEPT !.stage = "merged", !.acc = bag] /\ IsFrame(f) /\ f.body = Top.body
  BY <1>1, <1>2, <1>3, TopIsFrame, FrameMerged
<1>5. frames' = SetTop(f)
  BY <1>1, <1>4 DEF MergeOwn
<1>6. IsStack(frames')
  BY <1>4, <1>5, TopReplaced
<1> QED
  BY <1>2, <1>6, StillScoping DEF MergeOwn

LEMMA ReturnStays ==
  ASSUME Scoping, Return PROVE Scoping'
<1>1. PICK r, f, n : /\ r = Delivered /\ f = [Caller EXCEPT !.acc = Merge(@, r.value)]
                     /\ n = Len(frames)
  OBVIOUS
<1>2. outcome = "running" /\ Top.stage = "merged" /\ n > 1
  BY <1>1 DEF Return, At
<1>3. r.error = None
  BY <1>1, <1>2 DEF Return, Error
<1>4. IsFrame(Top) /\ IsFrame(Caller) /\ n \in Nat
  BY <1>1, <1>2, TopIsFrame
<1>5. IsFrame(f) /\ f.body = Caller.body
  BY <1>1, <1>3, <1>4, FrameReturned
<1>6. Caller = frames[n - 1]
  BY <1>1 DEF Caller
<1>7. IsStack(Append(SubSeq(frames, 1, n - 2), f))
  BY <1>1, <1>2, <1>5, <1>6, Popped
<1>8. frames' = Append(SubSeq(frames, 1, n - 2), f)
  BY <1>1 DEF Return
<1> QED
  BY <1>2, <1>7, <1>8, StillScoping DEF Return

LEMMA FinishStays ==
  ASSUME Scoping, Finish PROVE Scoping'
<1>1. PICK r : r = Generated
  OBVIOUS
<1>2. Top.stage = "merged" /\ Len(frames) = 1 /\ document' = r.value /\ outcome' = "ok"
  BY <1>1 DEF Finish, At
<1>3. r.error = None
  BY <1>1, <1>2 DEF Finish, Error
<1>4. /\ \A d \in ToSet(document'.networks) : d.kind = "network"
      /\ \A d \in ToSet(document'.mounts) : d.kind = "volume"
  BY <1>1, <1>2, <1>3, DocumentKinds
<1>5. IsStack(frames)'
  BY StackStays DEF Finish, Scoping
<1>6. TypeOK'
  BY <1>2, <1>4 DEF Finish, Scoping, TypeOK
<1> QED
  BY <1>5, <1>6 DEF Finish, Scoping

LEMMA ScopingInvariant == Spec => []Scoping
<1>1. Init => Scoping
  <2> SUFFICES ASSUME Init PROVE Scoping
    OBVIOUS
  <2>1. PICK f : f = Frame("service")
    OBVIOUS
  <2>2. program \in Programs /\ "service" \in DOMAIN program.bodies
    BY ProgramsAssumption DEF Init, IsProgram
  <2>3. IsFrame(f) /\ f.body = "service"
    BY <2>1, <2>2, EnteredFrame
  <2>4. frames = <<f>>
    BY <2>1 DEF Init
  <2>5. frames \in Seq(ToSet(frames)) /\ Len(frames) = 1 /\ frames[1] = f
    BY <2>4, OwnSingle
  <2>6. IsStack(frames)
    BY <2>3, <2>5 DEF IsStack
  <2>7. document = NoFields
    BY DEF Init
  <2>8. (\A d : d \notin ToSet(NoFields.networks)) /\ (\A d : d \notin ToSet(NoFields.mounts))
    <3>1. PICK image, none : image = Unset /\ none = <<>>
      OBVIOUS
    <3>2. NoFields = [image |-> image, networks |-> none, mounts |-> none, dns |-> none]
      BY <3>1 DEF NoFields
    <3>3. NoFields.networks = none /\ NoFields.mounts = none /\ DOMAIN none = {}
      BY <3>1, <3>2
    <3> QED
      BY <3>3 DEF ToSet
  <2>9. TypeOK
    BY <2>6, <2>7, <2>8 DEF TypeOK, IsStack
  <2> QED
    BY <2>2, <2>6, <2>9 DEF Scoping
<1>2. Scoping /\ [Next]_vars => Scoping'
  <2> SUFFICES ASSUME Scoping, [Next]_vars PROVE Scoping'
    OBVIOUS
  <2>1. CASE ResolveScoped
    BY <2>1, ScopedStays
  <2>2. CASE Invoke
    BY <2>2, InvokeStays
  <2>3. CASE MergeOwn
    BY <2>3, MergeStays
  <2>4. CASE Return
    BY <2>4, ReturnStays
  <2>5. CASE Finish
    BY <2>5, FinishStays
  <2>6. CASE Reject
    <3>1. IsStack(frames)'
      BY <2>6, StackStays DEF Reject, Scoping
    <3>2. TypeOK'
      BY <2>6 DEF Reject, Scoping, TypeOK
    <3> QED
      BY <2>6, <3>1, <3>2 DEF Reject, Scoping
  <2>7. CASE UNCHANGED vars
    <3>1. IsStack(frames)'
      BY <2>7, StackStays DEF vars, Scoping
    <3>2. TypeOK'
      BY <2>7 DEF vars, Scoping, TypeOK
    <3> QED
      BY <2>7, <3>1, <3>2 DEF vars, Scoping
  <2> QED
    BY <2>1, <2>2, <2>3, <2>4, <2>5, <2>6, <2>7 DEF Next
<1> QED
  BY <1>1, <1>2, PTL DEF Spec

(* The bodies in progress are the service and the templates that each one  *)
(* below calls, and a document attaches networks as networks and volumes   *)
(* as volumes.                                                             *)
THEOREM TypeCorrect == Spec => []TypeOK
<1>1. Scoping => TypeOK
  BY DEF Scoping
<1> QED
  BY <1>1, ScopingInvariant, PTL

(* No alias leaves the file it means something in: what a body is resolved *)
(* to, and what an invocation returns, holds none, whatever the arguments  *)
(* put into it, for any chain of templates over any files.                 *)
THEOREM AliasesNeverLeave == Spec => []AliasesStayHome
<1>1. Scoping => AliasesStayHome
  <2> SUFFICES ASSUME Scoping, NEW f \in DOMAIN frames, NEW lit \in Slots(frames[f].acc)
               PROVE  IsRead(lit) /\ lit.kind # "qualified"
    BY DEF AliasesStayHome, IsRead
  <2>1. f \in 1..Len(frames)
    BY LenProperties DEF Scoping, IsStack
  <2> QED
    BY <2>1 DEF Scoping, IsStack, IsFrame, Home
<1> QED
  BY <1>1, ScopingInvariant, PTL
===============================================================================
