------------------------ MODULE ComposeDocument_proofs ------------------------
(***************************************************************************)
(* Proofs about code generation, for every set of programs: what has been  *)
(* rendered so far is the rendering of the services before (Rendering),    *)
(* whichever errors, overrides and warnings they met.                      *)
(***************************************************************************)
EXTENDS ComposeDocument, SequenceLemmas

-------------------------------------------------------------------------------
(* Errors.                                                                 *)

LEMMA FirstErrorIs ==
  ASSUME NEW n \in Nat, NEW errors, DOMAIN errors = 1..n
  PROVE  /\ FirstError(errors) = None => \A i \in 1..n : errors[i] = None
         /\ FirstError(errors) = None \/ \E i \in 1..n : FirstError(errors) = errors[i]
<1> DEFINE raised == {i \in DOMAIN errors : errors[i] # None}
<1>1. CASE raised = {}
  BY <1>1 DEF FirstError
<1>2. CASE raised # {}
  <2>1. Min(raised) \in raised
    BY <1>2, LeastIndex
  <2> QED
    BY <1>2, <2>1 DEF FirstError
<1> QED
  BY <1>1, <1>2

CheckErrors ==
  {"UnknownInterpolation", "BuildWithoutContext", "UnknownVolume", "UnknownNetwork",
   "UnsafeLabelKey", "DuplicateLabelKey", None}

LEMMA HoleErrors == \A lits : HoleError(lits) \in CheckErrors
BY DEF HoleError, CheckErrors

(* The services of a program.                                              *)
IsService(s) == \E i \in DOMAIN program.services : s = program.services[i]

LEMMA ServiceShape ==
  ASSUME program \in Programs, NEW s, IsService(s)
  PROVE  /\ s.labels \in Seq(ToSet(s.labels)) /\ s.volumes \in Seq(ToSet(s.volumes))
         /\ s.networks \in Seq(ToSet(s.networks))
         /\ \A j, k \in DOMAIN s.networks :
              s.networks[j].text[1].word = s.networks[k].text[1].word => j = k
BY ProgramsAssumption DEF IsService

LEMMA VolumeErrors ==
  ASSUME program \in Programs, NEW s, IsService(s)
  PROVE  /\ VolumeError(s) \in CheckErrors
         /\ VolumeError(s) = None => Mounted(s) \subseteq DOMAIN program.volumes
<1> DEFINE host(i) == IF s.volumes[i].named
                      THEN IF MountedBy(s.volumes[i]) \in DOMAIN program.volumes THEN None ELSE "UnknownVolume"
                      ELSE HoleError({s.volumes[i].host})
           container(i) == HoleError({s.volumes[i].container})
           entry(i) == FirstError(<<host(i), container(i)>>)
           errors == [i \in DOMAIN s.volumes |-> entry(i)]
<1>1. Len(s.volumes) \in Nat /\ DOMAIN s.volumes = 1..Len(s.volumes)
  BY ServiceShape, LenProperties
<1>2. ASSUME NEW i \in DOMAIN s.volumes
      PROVE  entry(i) \in CheckErrors /\ (entry(i) = None => host(i) = None)
  <2>1. host(i) \in CheckErrors /\ container(i) \in CheckErrors
    BY HoleErrors DEF CheckErrors
  <2> HIDE DEF host, container
  <2> DEFINE pair == <<host(i), container(i)>>
  <2>2. DOMAIN pair = 1..2 /\ pair[1] = host(i) /\ pair[2] = container(i)
    OBVIOUS
  <2>3. None \in CheckErrors
    BY DEF CheckErrors
  <2> HIDE DEF pair
  <2>4. /\ FirstError(pair) = None => \A k \in 1..2 : pair[k] = None
        /\ FirstError(pair) = None \/ \E k \in 1..2 : FirstError(pair) = pair[k]
    BY <2>2, FirstErrorIs
  <2>5. \A k \in 1..2 : k = 1 \/ k = 2
    OBVIOUS
  <2>6. pair[1] = None => host(i) = None
    BY <2>2
  <2>7. FirstError(pair) \in CheckErrors /\ (FirstError(pair) = None => pair[1] = None)
    BY <2>1, <2>2, <2>3, <2>4, <2>5
  <2> QED
    BY <2>6, <2>7 DEF pair
<1>3. VolumeError(s) = FirstError(errors) /\ DOMAIN errors = 1..Len(s.volumes)
  BY <1>1 DEF VolumeError
<1>4. \A i \in DOMAIN s.volumes : errors[i] = entry(i)
  OBVIOUS
<1>5. \A i \in DOMAIN s.volumes :
        host(i) = None /\ s.volumes[i].named => MountedBy(s.volumes[i]) \in DOMAIN program.volumes
  BY DEF None
<1>6. None \in CheckErrors
  BY DEF CheckErrors
<1> HIDE DEF errors, entry, host
<1>7. /\ FirstError(errors) = None => \A k \in DOMAIN s.volumes : errors[k] = None
      /\ FirstError(errors) = None \/ \E k \in DOMAIN s.volumes : FirstError(errors) = errors[k]
  BY <1>1, <1>3, FirstErrorIs
<1>8. VolumeError(s) \in CheckErrors
  BY <1>2, <1>3, <1>4, <1>6, <1>7
<1>9. VolumeError(s) = None => \A i \in DOMAIN s.volumes : host(i) = None
  BY <1>2, <1>3, <1>4, <1>7
<1> QED
  BY <1>5, <1>8, <1>9 DEF Mounted

(* No check of a service says it is missing something to run.              *)
LEMMA LabelsErrors ==
  ASSUME program \in Programs, NEW s, IsService(s)
  PROVE  LabelsError(s) \in CheckErrors
<1> DEFINE keys == LabelKeys(s, s.name)
           holes(i) == HoleError({s.labels[i].key} \cup ToSet(s.labels[i].items))
           unsafe(i) == IF Contains(keys[i], Word("=")) THEN "UnsafeLabelKey" ELSE None
           double(i) == IF \E j \in 1..(i - 1) : keys[j] = keys[i] THEN "DuplicateLabelKey" ELSE None
           checks(i) == <<holes(i), unsafe(i), double(i)>>
           errors == [i \in DOMAIN s.labels |-> FirstError(checks(i))]
<1>1. Len(s.labels) \in Nat /\ DOMAIN s.labels = 1..Len(s.labels)
  BY ServiceShape, LenProperties
<1>2. None \in CheckErrors
  BY DEF CheckErrors
<1>3. ASSUME NEW i \in DOMAIN s.labels PROVE FirstError(checks(i)) \in CheckErrors
  <2>1. holes(i) \in CheckErrors
    BY HoleErrors
  <2>2. unsafe(i) \in CheckErrors /\ double(i) \in CheckErrors
    BY DEF CheckErrors
  <2> HIDE DEF holes, unsafe, double
  <2> DEFINE three == checks(i)
  <2>3. DOMAIN three = 1..3 /\ \A k \in 1..3 : three[k] \in CheckErrors
    BY <2>1, <2>2
  <2> HIDE DEF three
  <2> QED
    BY <1>2, <2>3, FirstErrorIs DEF three
<1>4. LabelsError(s) = FirstError(errors)
  BY DEF LabelsError
<1>5. DOMAIN errors = 1..Len(s.labels) /\ \A i \in DOMAIN s.labels : errors[i] \in CheckErrors
  BY <1>1, <1>3
<1> HIDE DEF errors
<1> QED
  BY <1>1, <1>2, <1>4, <1>5, FirstErrorIs

LEMMA ServiceErrors ==
  ASSUME program \in Programs, NEW s, IsService(s)
  PROVE  /\ ServiceError(s) \notin {"ok", "running"}
         /\ ServiceError(s) = None =>
              NetworkError(s) = None /\ VolumeError(s) = None /\ ~NothingToRun(s)
         /\ ServiceError(s) = "MissingImageOrBuild" => NothingToRun(s)
<1> DEFINE checks ==
      <<HoleError({s.scalars["image"]}), BuildError(s), HoleError({s.scalars["container_name"]}),
        HoleError(ToSet(s.arguments["command"].items)), HoleError(ToSet(s.arguments["entrypoint"].items)),
        HoleError({s.scalars["restart"]}),
        HoleError(ToSet(s.healthcheck.test.items) \cup {s.healthcheck.interval}),
        PairsError(s.env), VolumeError(s), PairsError(s.arrows["ports"]), PairsError(s.arrows["devices"]),
        NetworkError(s), LabelsError(s), RawError(s)>>
<1>1. ServiceError(s) =
        IF FirstError(checks) # None THEN FirstError(checks)
        ELSE IF NothingToRun(s) THEN "MissingImageOrBuild" ELSE None
  BY DEF ServiceError
<1>2. BuildError(s) \in CheckErrors /\ NetworkError(s) \in CheckErrors /\ RawError(s) \in CheckErrors
  BY HoleErrors DEF BuildError, NetworkError, RawError, CheckErrors
<1>3. \A entries : PairsError(entries) \in CheckErrors
  BY HoleErrors DEF PairsError
<1>4. DOMAIN checks = 1..14 /\ checks[9] = VolumeError(s) /\ checks[12] = NetworkError(s)
  OBVIOUS
<1>5. \A k \in 1..14 : checks[k] \in CheckErrors
  <2>1. \A k \in 1..14 : k \in {1, 2, 3, 4, 5, 6, 7, 8, 9, 10, 11, 12, 13, 14}
    OBVIOUS
  <2> QED
    BY <1>2, <1>3, <2>1, HoleErrors, VolumeErrors, LabelsErrors
<1> HIDE DEF checks
<1>6. /\ FirstError(checks) = None => \A k \in 1..14 : checks[k] = None
      /\ FirstError(checks) \in CheckErrors
  <2>1. None \in CheckErrors
    BY DEF CheckErrors
  <2> QED
    BY <1>4, <1>5, <2>1, FirstErrorIs
<1>7. {"ok", "running", "MissingImageOrBuild"} \cap CheckErrors = {} /\ None \notin {"ok", "running", "MissingImageOrBuild"}
  BY DEF CheckErrors, None
<1> QED
  BY <1>1, <1>4, <1>6, <1>7

-------------------------------------------------------------------------------
(* Networks.                                                               *)

LEMMA NamesSequence ==
  ASSUME program \in Programs, NEW s, IsService(s)
  PROVE  /\ NamesOf(s.networks) \in Seq(ToSet(NamesOf(s.networks)))
         /\ \A j, k \in DOMAIN NamesOf(s.networks) :
              NamesOf(s.networks)[j] = NamesOf(s.networks)[k] => j = k
<1> DEFINE names == NamesOf(s.networks)
<1>1. Len(s.networks) \in Nat /\ DOMAIN s.networks = 1..Len(s.networks)
  BY ServiceShape, LenProperties
<1>2. DOMAIN names = 1..Len(s.networks)
      /\ \A i \in 1..Len(s.networks) : names[i] = s.networks[i].text[1].word
  BY <1>1 DEF NamesOf
<1>3. names = [i \in 1..Len(s.networks) |-> names[i]]
  BY <1>1 DEF NamesOf
<1> HIDE DEF names
<1>4. names \in [1..Len(s.networks) -> ToSet(names)]
  BY <1>2, <1>3 DEF ToSet
<1>5. names \in Seq(ToSet(names))
  BY <1>1, <1>4
<1>6. \A j, k \in DOMAIN names : names[j] = names[k] => j = k
  BY <1>1, <1>2, ServiceShape
<1> QED
  BY <1>5, <1>6 DEF names

LEMMA AttachedIs ==
  ASSUME program \in Programs, NEW s, IsService(s)
  PROVE  /\ ToSet(Attached(s)) = ToSet(NamesOf(s.networks)) \cup (IF AutoAttach THEN {Default} ELSE {})
         /\ AutoAttach =>
              \E once \in DOMAIN Attached(s) :
                \A j \in DOMAIN Attached(s) : Attached(s)[j] = Default <=> j = once
<1> DEFINE names == NamesOf(s.networks)
<1>1. /\ names \in Seq(ToSet(names))
      /\ \A j, k \in DOMAIN names : names[j] = names[k] => j = k
  BY NamesSequence
<1>2. Len(names) \in Nat /\ DOMAIN names = 1..Len(names)
  BY <1>1, LenProperties
<1>3. CASE ~AutoAttach
  BY <1>3 DEF Attached
<1>4. CASE AutoAttach /\ Contains(names, Default)
  <2>1. PICK once \in 1..Len(names) : names[once] = Default
    BY <1>4 DEF Contains
  <2>2. Attached(s) = names
    BY <1>4 DEF Attached
  <2> HIDE DEF names
  <2>3. Default \in ToSet(names)
    BY <1>2, <2>1 DEF ToSet
  <2>4. \A j \in DOMAIN names : names[j] = Default <=> j = once
    BY <1>1, <1>2, <2>1
  <2> QED
    BY <1>2, <1>4, <2>1, <2>2, <2>3, <2>4 DEF names
<1>5. CASE AutoAttach /\ ~Contains(names, Default)
  <2>1. Attached(s) = Append(names, Default)
    BY <1>5 DEF Attached
  <2> HIDE DEF names
  <2>2. /\ ToSet(Append(names, Default)) = ToSet(names) \cup {Default}
        /\ Append(names, Default) \in Seq(ToSet(Append(names, Default)))
        /\ Len(Append(names, Default)) = Len(names) + 1
        /\ \A i \in 1..Len(names) : Append(names, Default)[i] = names[i]
        /\ Append(names, Default)[Len(names) + 1] = Default
    BY <1>1, OwnAppend
  <2>3. DOMAIN Append(names, Default) = 1..(Len(names) + 1)
    BY <2>2, LenProperties
  <2>4. \A i \in 1..Len(names) : names[i] # Default
    BY <1>5 DEF Contains, names
  <2>5. \A j \in 1..(Len(names) + 1) : Append(names, Default)[j] = Default <=> j = Len(names) + 1
    BY <1>2, <2>2, <2>4
  <2>6. Len(names) + 1 \in 1..(Len(names) + 1)
    BY <1>2
  <2> QED
    BY SMTT(30), <1>5, <2>1, <2>2, <2>3, <2>5, <2>6 DEF names
<1> QED
  BY <1>3, <1>4, <1>5

(* The networks the services bring in and the references the warning is    *)
(* computed from are the same names.                                       *)
LEMMA ReferencedIsAttached ==
  ASSUME program \in Programs
  PROVE  ReferencedNetworks = UNION {ToSet(Attached(program.services[i])) : i \in DOMAIN program.services}
<1>1. \A i \in DOMAIN program.services :
        ToSet(Attached(program.services[i])) =
          ToSet(NamesOf(program.services[i].networks)) \cup (IF AutoAttach THEN {Default} ELSE {})
  BY AttachedIs DEF IsService
<1>2. AutoAttach => 1 \in DOMAIN program.services
  <2>1. program.services \in Seq(ToSet(program.services))
    BY ProgramsAssumption
  <2>2. Len(program.services) \in Nat /\ DOMAIN program.services = 1..Len(program.services)
    BY <2>1, LenProperties
  <2> QED
    BY <2>2 DEF AutoAttach
<1> DEFINE names(i) == ToSet(NamesOf(program.services[i].networks))
           all(i) == ToSet(Attached(program.services[i]))
           given == IF AutoAttach THEN {Default} ELSE {}
           D == DOMAIN program.services
<1>3. \A i \in D : all(i) = names(i) \cup given
  BY <1>1
<1>4. \A n \in given : 1 \in D
  BY <1>2
<1>5. ReferencedNetworks = (UNION {names(i) : i \in D}) \cup given
  BY DEF ReferencedNetworks
<1> HIDE DEF names, given, all, D
<1>6. (UNION {names(i) : i \in D}) \cup given = UNION {all(i) : i \in D}
  BY <1>3, <1>4
<1> QED
  BY <1>5, <1>6 DEF all, D

LEMMA UnusedAre ==
  ASSUME program \in Programs
  PROVE  /\ UnusedNetworks \in Seq(ToSet(UnusedNetworks))
         /\ \A n : Contains(UnusedNetworks, <<"UnusedNetwork", n>>) <=>
              n \in DOMAIN program.networks \ ReferencedNetworks
         /\ \A n : ~Contains(UnusedNetworks, <<"RawLabelsReplaceGenerated", n>>)
<1> DEFINE absent == DOMAIN program.networks \ ReferencedNetworks
           unused == SetToSeq(absent)
<1>1. IsFiniteSet(absent)
  BY ProgramsAssumption, FS_Subset
<1>2. /\ unused \in Seq(absent)
      /\ \A e : e \in absent <=> \E i \in 1..Len(unused) : unused[i] = e
  BY <1>1, Enumerated
<1>3. Len(unused) \in Nat /\ DOMAIN unused = 1..Len(unused)
  BY <1>2, LenProperties
<1>4. UnusedNetworks = [i \in DOMAIN unused |-> <<"UnusedNetwork", unused[i]>>]
  BY DEF UnusedNetworks
<1> HIDE DEF unused
<1>5. /\ DOMAIN UnusedNetworks = 1..Len(unused)
      /\ \A i \in 1..Len(unused) : UnusedNetworks[i] = <<"UnusedNetwork", unused[i]>>
  BY <1>3, <1>4
<1>6. UnusedNetworks \in [1..Len(unused) -> ToSet(UnusedNetworks)]
  <2>1. \A i \in 1..Len(unused) : UnusedNetworks[i] \in ToSet(UnusedNetworks)
    BY <1>5 DEF ToSet
  <2> QED
    BY <1>3, <1>4, <2>1
<1>7. UnusedNetworks \in Seq(ToSet(UnusedNetworks))
  BY <1>3, <1>6
<1>8. Len(UnusedNetworks) = Len(unused)
  BY <1>3, <1>5, <1>7, LenProperties
<1>9. \A n : <<"UnusedNetwork", n>>[1] = "UnusedNetwork" /\ <<"UnusedNetwork", n>>[2] = n
             /\ <<"RawLabelsReplaceGenerated", n>>[1] = "RawLabelsReplaceGenerated"
  OBVIOUS
<1>10. \A n, m : <<"UnusedNetwork", n>> = <<"UnusedNetwork", m>> <=> n = m
  OBVIOUS
<1> QED
  BY <1>2, <1>5, <1>7, <1>8, <1>9, <1>10 DEF Contains

-------------------------------------------------------------------------------
(* The inductive invariant.                                                *)
ServicesSoFar ==
  /\ program \in Programs
  /\ services \in Seq(ToSet(services)) /\ Len(services) <= Len(program.services)
  /\ \A i \in 1..Len(services) :
       services[i] = ServiceDoc(program.services[i]) /\ ServiceError(program.services[i]) = None

NetworksSoFar ==
  /\ \A n : n \in DOMAIN networks <=>
       n \in DOMAIN program.networks /\ \E i \in 1..Len(services) : n \in ToSet(Attached(program.services[i]))
  /\ \A n \in DOMAIN networks : networks[n] = program.networks[n]

VolumesSoFar ==
  /\ \A v : v \in DOMAIN volumes <=> \E i \in 1..Len(services) : v \in Mounted(program.services[i])
  /\ \A v \in DOMAIN volumes : v \in DOMAIN program.volumes /\ volumes[v] = program.volumes[v]

WarningsSoFar ==
  /\ warnings \in Seq(ToSet(warnings))
  /\ \A i \in 1..Len(program.services) :
       Contains(warnings, <<"RawLabelsReplaceGenerated", program.services[i].name>>) <=>
         i <= Len(services) /\ LabelsReplaced(program.services[i])
  /\ \A n : Contains(warnings, <<"UnusedNetwork", n>>) <=>
       outcome = "ok" /\ n \in DOMAIN program.networks \ ReferencedNetworks

Ended ==
  /\ outcome = "ok" => Len(services) = Len(program.services)
  /\ outcome \notin {"running", "ok"} =>
       Len(services) < Len(program.services) /\ outcome = ServiceError(Service)

SoFar == ServicesSoFar /\ NetworksSoFar /\ VolumesSoFar /\ WarningsSoFar /\ Ended

(* A service means the same in every state of a run.                       *)
LEMMA SameProgram ==
  ASSUME program' = program, NEW s
  PROVE  /\ (Attached(s))' = Attached(s) /\ (ServiceDoc(s))' = ServiceDoc(s)
         /\ (ServiceError(s))' = ServiceError(s) /\ ReferencedNetworks' = ReferencedNetworks
<1>1. AutoAttach' = AutoAttach
  BY DEF AutoAttach
<1>2. (Attached(s))' = Attached(s)
  BY <1>1 DEF Attached
<1>3. (Generated(s))' = Generated(s)
  BY <1>2 DEF Generated
<1>4. (Overridden(s))' = Overridden(s)
  BY <1>3 DEF Overridden
<1>5. (NetworkError(s))' = NetworkError(s) /\ (VolumeError(s))' = VolumeError(s)
  BY DEF NetworkError, VolumeError
<1> QED
  BY <1>1, <1>2, <1>4, <1>5 DEF ServiceDoc, ServiceError, NothingToRun, ReferencedNetworks

LEMMA ServicesGenerated ==
  ASSUME SoFar, GenerateService PROVE ServicesSoFar'
<1>1. PICK n : n = Len(services)
  OBVIOUS
<1>2. PICK S : S = program.services
  OBVIOUS
<1>3. /\ services' = Append(services, ServiceDoc(S[n + 1])) /\ program' = program
      /\ ServiceError(S[n + 1]) = None /\ n < Len(S)
  BY <1>1, <1>2 DEF GenerateService, Service
<1>4. n \in Nat /\ services' \in Seq(ToSet(services')) /\ Len(services') = n + 1
      /\ (\A i \in 1..n : services'[i] = services[i]) /\ services'[n + 1] = ServiceDoc(S[n + 1])
  BY <1>1, <1>3, OwnAppend DEF SoFar, ServicesSoFar
<1>5. S \in Seq(ToSet(S)) /\ Len(S) \in Nat
  BY <1>2, ProgramsAssumption, LenProperties DEF SoFar, ServicesSoFar
<1>6. \A i \in 1..(n + 1) : services'[i] = ServiceDoc(S[i]) /\ ServiceError(S[i]) = None
  BY <1>1, <1>2, <1>3, <1>4 DEF SoFar, ServicesSoFar
<1>7. \A i \in 1..(n + 1) : services'[i] = (ServiceDoc(S[i]))' /\ (ServiceError(S[i]))' = None
  BY <1>3, <1>6, SameProgram
<1> QED
  BY <1>2, <1>3, <1>4, <1>5, <1>7 DEF SoFar, ServicesSoFar

(* What a service brings is added to what the services before it brought.  *)
LEMMA NetworksGenerated ==
  ASSUME SoFar, GenerateService PROVE NetworksSoFar'
<1>1. PICK n : n = Len(services)
  OBVIOUS
<1>2. PICK S : S = program.services
  OBVIOUS
<1>3. PICK D : D = program.networks
  OBVIOUS
<1>4. /\ networks' = OrInserted(networks, NetworkDocs(S[n + 1])) /\ program' = program
      /\ services' = Append(services, ServiceDoc(S[n + 1]))
  BY <1>1, <1>2 DEF GenerateService, Service
<1>5. n \in Nat /\ Len(services') = n + 1
  BY <1>1, <1>4, OwnAppend DEF SoFar, ServicesSoFar
<1>6. /\ DOMAIN NetworkDocs(S[n + 1]) = ToSet(Attached(S[n + 1])) \cap DOMAIN D
      /\ \A m \in DOMAIN NetworkDocs(S[n + 1]) : NetworkDocs(S[n + 1])[m] = D[m]
  BY <1>3 DEF NetworkDocs
<1>7. /\ \A m : m \in DOMAIN networks <=> m \in DOMAIN D /\ \E i \in 1..n : m \in ToSet(Attached(S[i]))
      /\ \A m \in DOMAIN networks : networks[m] = D[m]
  BY <1>1, <1>2, <1>3 DEF SoFar, NetworksSoFar
<1>8. /\ \A m : m \in DOMAIN networks' <=> m \in DOMAIN networks \/ m \in DOMAIN NetworkDocs(S[n + 1])
      /\ \A m \in DOMAIN networks' : networks'[m] = IF m \in DOMAIN networks THEN networks[m]
                                                    ELSE NetworkDocs(S[n + 1])[m]
  BY <1>4 DEF OrInserted
<1>9. \A m : (\E i \in 1..(n + 1) : m \in ToSet(Attached(S[i]))) <=>
               (\E i \in 1..n : m \in ToSet(Attached(S[i]))) \/ m \in ToSet(Attached(S[n + 1]))
  BY <1>5
<1>10. /\ \A m : m \in DOMAIN networks' <=>
             m \in DOMAIN D /\ \E i \in 1..(n + 1) : m \in ToSet(Attached(S[i]))
       /\ \A m \in DOMAIN networks' : networks'[m] = D[m]
  <2>1. \A m : m \in DOMAIN NetworkDocs(S[n + 1]) <=> m \in DOMAIN D /\ m \in ToSet(Attached(S[n + 1]))
    BY <1>6
  <2> QED
    BY <1>6, <1>7, <1>8, <1>9, <2>1
<1>11. \A i \in 1..(n + 1) : ToSet(Attached(S[i])) = (ToSet(Attached(S[i])))'
  BY <1>4, SameProgram
<1>12. S = program'.services /\ D = program'.networks
  BY <1>2, <1>3, <1>4
<1>13. \A m : (\E i \in 1..(n + 1) : m \in ToSet(Attached(S[i]))) <=>
                \E i \in 1..(n + 1) : m \in (ToSet(Attached(S[i])))'
  BY <1>11
<1> QED
  BY <1>5, <1>10, <1>12, <1>13 DEF NetworksSoFar

LEMMA VolumesGenerated ==
  ASSUME SoFar, GenerateService PROVE VolumesSoFar'
<1>1. PICK n : n = Len(services)
  OBVIOUS
<1>2. PICK S : S = program.services
  OBVIOUS
<1>3. PICK D : D = program.volumes
  OBVIOUS
<1>4. /\ volumes' = OrInserted(volumes, VolumeDocs(S[n + 1])) /\ program' = program
      /\ services' = Append(services, ServiceDoc(S[n + 1]))
      /\ ServiceError(S[n + 1]) = None /\ n < Len(S)
  BY <1>1, <1>2 DEF GenerateService, Service
<1>5. n \in Nat /\ Len(services') = n + 1
  BY <1>1, <1>4, OwnAppend DEF SoFar, ServicesSoFar
<1>6. /\ DOMAIN VolumeDocs(S[n + 1]) = Mounted(S[n + 1])
      /\ \A m \in DOMAIN VolumeDocs(S[n + 1]) : VolumeDocs(S[n + 1])[m] = D[m]
  BY <1>3 DEF VolumeDocs
<1>7. /\ \A m : m \in DOMAIN volumes <=> \E i \in 1..n : m \in Mounted(S[i])
      /\ \A m \in DOMAIN volumes : m \in DOMAIN D /\ volumes[m] = D[m]
  BY <1>1, <1>2, <1>3 DEF SoFar, VolumesSoFar
<1>8. /\ \A m : m \in DOMAIN volumes' <=> m \in DOMAIN volumes \/ m \in DOMAIN VolumeDocs(S[n + 1])
      /\ \A m \in DOMAIN volumes' : volumes'[m] = IF m \in DOMAIN volumes THEN volumes[m]
                                                  ELSE VolumeDocs(S[n + 1])[m]
  BY <1>4 DEF OrInserted
<1>9. \A m : (\E i \in 1..(n + 1) : m \in Mounted(S[i])) <=>
               (\E i \in 1..n : m \in Mounted(S[i])) \/ m \in Mounted(S[n + 1])
  BY <1>5
<1>10. Mounted(S[n + 1]) \subseteq DOMAIN D
  <2>1. S \in Seq(ToSet(S)) /\ Len(S) \in Nat /\ DOMAIN S = 1..Len(S) /\ program \in Programs
    BY <1>2, ProgramsAssumption, LenProperties DEF SoFar, ServicesSoFar
  <2>2. IsService(S[n + 1])
    BY <1>2, <1>4, <1>5, <2>1 DEF IsService
  <2> QED
    BY <1>3, <1>4, <2>1, <2>2, ServiceErrors, VolumeErrors
<1>11. /\ \A m : m \in DOMAIN volumes' <=> \E i \in 1..(n + 1) : m \in Mounted(S[i])
       /\ \A m \in DOMAIN volumes' : m \in DOMAIN D /\ volumes'[m] = D[m]
  BY <1>6, <1>7, <1>8, <1>9, <1>10
<1>12. S = program'.services /\ D = program'.volumes
  BY <1>2, <1>3, <1>4
<1> QED
  BY <1>5, <1>11, <1>12 DEF VolumesSoFar

(* The warning of a service is its own: no other service has its name.     *)
LEMMA WarningsGenerated ==
  ASSUME SoFar, GenerateService PROVE WarningsSoFar'
<1> DEFINE Replaced(s) == <<"RawLabelsReplaceGenerated", s.name>>
           Absence(m) == <<"UnusedNetwork", m>>
<1>1. PICK n : n = Len(services)
  OBVIOUS
<1>2. PICK S : S = program.services
  OBVIOUS
<1>3. /\ program' = program /\ outcome' = outcome /\ outcome = "running" /\ n < Len(S)
      /\ services' = Append(services, ServiceDoc(S[n + 1]))
      /\ warnings' = IF LabelsReplaced(S[n + 1]) THEN Append(warnings, Replaced(S[n + 1])) ELSE warnings
  BY <1>1, <1>2 DEF GenerateService, Service
<1>4. n \in Nat /\ Len(services') = n + 1
  BY <1>1, <1>3, OwnAppend DEF SoFar, ServicesSoFar
<1>5. /\ warnings \in Seq(ToSet(warnings))
      /\ \A i \in 1..Len(S) : Contains(warnings, Replaced(S[i])) <=> i <= n /\ LabelsReplaced(S[i])
      /\ \A m : ~Contains(warnings, Absence(m))
  BY <1>1, <1>2, <1>3 DEF SoFar, WarningsSoFar
<1>6. /\ S \in Seq(ToSet(S)) /\ Len(S) \in Nat /\ DOMAIN S = 1..Len(S)
      /\ \A i, j \in DOMAIN S : S[i].name = S[j].name => i = j
  <2>1. S \in Seq(ToSet(S)) /\ \A i, j \in DOMAIN S : S[i].name = S[j].name => i = j
    BY <1>2, ProgramsAssumption DEF SoFar, ServicesSoFar
  <2> QED
    BY <2>1, LenProperties
<1>7. \A s, t : Replaced(s) = Replaced(t) => s.name = t.name
  OBVIOUS
<1>8. \A s, m : Replaced(s) # Absence(m)
  OBVIOUS
<1> HIDE DEF Replaced, Absence
<1>9. ASSUME LabelsReplaced(S[n + 1])
      PROVE  /\ warnings' \in Seq(ToSet(warnings'))
             /\ \A e : Contains(warnings', e) <=> Contains(warnings, e) \/ e = Replaced(S[n + 1])
  <2>1. warnings' = Append(warnings, Replaced(S[n + 1]))
    BY <1>3, <1>9
  <2>2. /\ warnings' \in Seq(ToSet(warnings')) /\ Len(warnings) \in Nat
        /\ Len(warnings') = Len(warnings) + 1
        /\ \A i \in 1..Len(warnings) : warnings'[i] = warnings[i]
        /\ warnings'[Len(warnings) + 1] = Replaced(S[n + 1])
    BY <1>5, <2>1, OwnAppend
  <2> QED
    BY <2>2 DEF Contains
<1>10. /\ warnings' \in Seq(ToSet(warnings'))
       /\ \A e : Contains(warnings', e) <=>
            Contains(warnings, e) \/ (LabelsReplaced(S[n + 1]) /\ e = Replaced(S[n + 1]))
  BY <1>3, <1>5, <1>9
<1>11. \A i \in 1..Len(S) : Contains(warnings', Replaced(S[i])) <=> i <= n + 1 /\ LabelsReplaced(S[i])
  <2> TAKE i \in 1..Len(S)
  <2>1. n + 1 \in 1..Len(S)
    BY <1>3, <1>4, <1>6
  <2>2. Replaced(S[i]) = Replaced(S[n + 1]) => i = n + 1
    BY <1>6, <1>7, <2>1
  <2>3. Contains(warnings, Replaced(S[i])) <=> i <= n /\ LabelsReplaced(S[i])
    BY <1>5
  <2>4. Contains(warnings', Replaced(S[i])) <=>
          (i <= n /\ LabelsReplaced(S[i])) \/ (i = n + 1 /\ LabelsReplaced(S[i]))
    BY <1>10, <2>2, <2>3
  <2>5. i <= n + 1 <=> i <= n \/ i = n + 1
    BY <1>4
  <2> QED
    BY <2>4, <2>5
<1>12. \A m : ~Contains(warnings', Absence(m))
  BY <1>5, <1>8, <1>10
<1>13. S = program'.services /\ outcome' # "ok"
  BY <1>2, <1>3
<1> QED
  BY <1>4, <1>10, <1>11, <1>12, <1>13 DEF WarningsSoFar, Replaced, Absence

LEMMA DocumentKept ==
  ASSUME ServicesSoFar, NetworksSoFar, VolumesSoFar, UNCHANGED <<program, services, networks, volumes>>
  PROVE  ServicesSoFar' /\ NetworksSoFar' /\ VolumesSoFar'
<1>1. PICK S : S = program.services
  OBVIOUS
<1>2. S = program'.services
  BY <1>1
<1>3. ServicesSoFar'
  <2>1. \A i \in 1..Len(services) : services[i] = ServiceDoc(S[i]) /\ ServiceError(S[i]) = None
    BY <1>1 DEF ServicesSoFar
  <2>2. \A i \in 1..Len(services) : services'[i] = (ServiceDoc(S[i]))' /\ (ServiceError(S[i]))' = None
    BY <2>1, SameProgram
  <2> QED
    BY <1>2, <2>2 DEF ServicesSoFar
<1>4. NetworksSoFar'
  <2>1. \A n : n \in DOMAIN networks <=>
          n \in DOMAIN program.networks /\ \E i \in 1..Len(services) : n \in ToSet(Attached(S[i]))
    BY <1>1 DEF NetworksSoFar
  <2>2. \A i \in 1..Len(services) : (ToSet(Attached(S[i])))' = ToSet(Attached(S[i]))
    BY SameProgram
  <2>3. \A n : n \in DOMAIN networks <=>
          n \in DOMAIN program.networks /\ \E i \in 1..Len(services) : n \in (ToSet(Attached(S[i])))'
    BY <2>1, <2>2
  <2> QED
    BY <1>2, <2>3 DEF NetworksSoFar
<1>5. VolumesSoFar'
  BY DEF VolumesSoFar
<1> QED
  BY <1>3, <1>4, <1>5

LEMMA ServiceRejected ==
  ASSUME SoFar, RejectService PROVE SoFar'
<1>1. program' = program /\ services' = services /\ warnings' = warnings
      /\ outcome = "running" /\ outcome' = ServiceError(Service) /\ Len(services) < Len(program.services)
  BY DEF RejectService
<1>2. ServicesSoFar' /\ NetworksSoFar' /\ VolumesSoFar'
  BY DocumentKept DEF SoFar, RejectService
<1>3. outcome' \notin {"ok", "running"}
  <2>1. program \in Programs /\ program.services \in Seq(ToSet(program.services))
        /\ services \in Seq(ToSet(services))
    BY ProgramsAssumption DEF SoFar, ServicesSoFar
  <2>2. Len(services) + 1 \in DOMAIN program.services
    BY <1>1, <2>1, LenProperties
  <2>3. IsService(Service)
    BY <2>2 DEF IsService, Service
  <2> QED
    BY <1>1, <2>1, <2>3, ServiceErrors
<1>4. WarningsSoFar'
  BY <1>1, <1>3 DEF SoFar, WarningsSoFar
<1>5. Ended'
  <2>1. PICK s : s = Service
    OBVIOUS
  <2>2. s = Service'
    BY <1>1, <2>1 DEF Service
  <2>3. (ServiceError(s))' = ServiceError(s)
    BY <1>1, SameProgram
  <2> QED
    BY <1>1, <1>3, <2>1, <2>2, <2>3 DEF Ended
<1> QED
  BY <1>2, <1>4, <1>5 DEF SoFar

LEMMA DocumentFinished ==
  ASSUME SoFar, FinishDocument PROVE SoFar'
<1>1. program' = program /\ services' = services /\ warnings' = warnings \o UnusedNetworks
      /\ outcome = "running" /\ outcome' = "ok" /\ Len(services) = Len(program.services)
  BY DEF FinishDocument
<1>2. ServicesSoFar' /\ NetworksSoFar' /\ VolumesSoFar'
  BY DocumentKept DEF SoFar, FinishDocument
<1>3. WarningsSoFar'
  <2>1. program \in Programs
    BY DEF SoFar, ServicesSoFar
  <2>2. /\ warnings \in Seq(ToSet(warnings))
        /\ \A i \in 1..Len(program.services) :
             Contains(warnings, <<"RawLabelsReplaceGenerated", program.services[i].name>>) <=>
               i <= Len(services) /\ LabelsReplaced(program.services[i])
        /\ \A n : ~Contains(warnings, <<"UnusedNetwork", n>>)
    BY <1>1 DEF SoFar, WarningsSoFar
  <2>3. /\ warnings' \in Seq(ToSet(warnings'))
        /\ \A e : Contains(warnings', e) <=> Contains(warnings, e) \/ Contains(UnusedNetworks, e)
    BY <1>1, <2>1, <2>2, UnusedAre, OwnConcat
  <2>4. ReferencedNetworks' = ReferencedNetworks
    BY <1>1, SameProgram
  <2>5. \A n : Contains(warnings', <<"UnusedNetwork", n>>) <=>
          n \in DOMAIN program'.networks \ ReferencedNetworks'
    BY <1>1, <2>1, <2>2, <2>3, <2>4, UnusedAre
  <2>6. \A i \in 1..Len(program.services) :
          Contains(warnings', <<"RawLabelsReplaceGenerated", program.services[i].name>>) <=>
            i <= Len(services) /\ LabelsReplaced(program.services[i])
    BY <2>1, <2>2, <2>3, UnusedAre
  <2> QED
    BY <1>1, <2>3, <2>5, <2>6 DEF WarningsSoFar
<1>4. Ended'
  BY <1>1 DEF Ended
<1> QED
  BY <1>2, <1>3, <1>4 DEF SoFar

LEMMA SoFarKept ==
  ASSUME SoFar, [Next]_vars PROVE SoFar'
<1>1. CASE GenerateService
  <2>1. Ended'
    BY <1>1 DEF GenerateService, Ended
  <2> QED
    BY <1>1, <2>1, ServicesGenerated, NetworksGenerated, VolumesGenerated, WarningsGenerated DEF SoFar
<1>2. CASE RejectService
  BY <1>2, ServiceRejected
<1>3. CASE FinishDocument
  BY <1>3, DocumentFinished
<1>4. CASE UNCHANGED vars
  <2>1. program' = program /\ services' = services /\ warnings' = warnings /\ outcome' = outcome
    BY <1>4 DEF vars
  <2>2. ServicesSoFar' /\ NetworksSoFar' /\ VolumesSoFar'
    BY <1>4, DocumentKept DEF SoFar, vars
  <2>3. WarningsSoFar'
    <3>1. ReferencedNetworks' = ReferencedNetworks
      BY <2>1, SameProgram
    <3> QED
      BY <2>1, <3>1 DEF SoFar, WarningsSoFar
  <2>4. Ended'
    <3>1. PICK s : s = Service
      OBVIOUS
    <3>2. s = Service' /\ (ServiceError(s))' = ServiceError(s)
      BY <2>1, <3>1, SameProgram DEF Service
    <3>3. outcome \notin {"running", "ok"} => outcome = ServiceError(s)
      BY <3>1 DEF SoFar, Ended
    <3> QED
      BY <2>1, <3>2, <3>3 DEF SoFar, Ended
  <2> QED
    BY <2>2, <2>3, <2>4 DEF SoFar
<1> QED
  BY <1>1, <1>2, <1>3, <1>4 DEF Next

LEMMA SoFarInit == Init => SoFar
<1> SUFFICES ASSUME Init PROVE SoFar
  OBVIOUS
<1>1. program \in Programs /\ services = <<>> /\ networks = <<>> /\ volumes = <<>> /\ warnings = <<>>
      /\ outcome = "running"
  BY DEF Init
<1>2. \A S : <<>> \in Seq(S)
  OBVIOUS
<1>3. Len(<<>>) = 0 /\ DOMAIN <<>> = {} /\ 1..0 = {}
  OBVIOUS
<1>4. Len(program.services) \in Nat
  <2>1. program.services \in Seq(ToSet(program.services))
    BY <1>1, ProgramsAssumption
  <2> QED
    BY <2>1, LenProperties
<1>5. \A e : ~Contains(<<>>, e)
  BY <1>3 DEF Contains
<1> QED
  BY <1>1, <1>2, <1>3, <1>4, <1>5
  DEF SoFar, ServicesSoFar, NetworksSoFar, VolumesSoFar, WarningsSoFar, Ended

LEMMA SoFarAlways == Spec => []SoFar
BY SoFarInit, SoFarKept, PTL DEF Spec

-------------------------------------------------------------------------------
(* The properties.                                                         *)

(* What the properties read of a rendered service.                         *)
LEMMA RenderedService ==
  ASSUME SoFar, NEW i \in DOMAIN services
  PROVE  /\ i \in 1..Len(services) /\ i \in DOMAIN program.services /\ IsService(program.services[i])
         /\ services[i] = ServiceDoc(program.services[i]) /\ ServiceError(program.services[i]) = None
<1>1. /\ program \in Programs /\ program.services \in Seq(ToSet(program.services))
      /\ services \in Seq(ToSet(services)) /\ Len(services) <= Len(program.services)
  BY ProgramsAssumption DEF SoFar, ServicesSoFar
<1>2. i \in 1..Len(services) /\ i \in DOMAIN program.services
  BY <1>1, LenProperties
<1> QED
  BY <1>2 DEF SoFar, ServicesSoFar, IsService

LEMMA BuiltInDocs ==
  ASSUME NEW s
  PROVE  /\ ServiceDoc(s).name = s.name
         /\ \A k : <<Word(k)>> \in DOMAIN ServiceDoc(s).raw <=> RawNames(s, k)
         /\ \A k \in BuiltIns : ServiceDoc(s).builtIn[k] = Overridden(s)[k]
         /\ \A k \in BuiltIns : Overridden(s)[k] = IF RawNames(s, k) THEN Absent ELSE Generated(s)[k]
         /\ Generated(s)["networks"] = Attached(s)
         /\ Generated(s)["volumes"] = VolumeEntries(s)
         /\ Generated(s)["labels"] = LabelsDoc(s)
         /\ {"networks", "volumes", "labels", "image", "build"} \subseteq BuiltIns
<1>1. {"networks", "volumes", "labels", "image", "build"} \subseteq BuiltIns
  BY DEF BuiltIns, Scalars
<1>2. /\ Generated(s)["networks"] = Attached(s) /\ Generated(s)["volumes"] = VolumeEntries(s)
      /\ Generated(s)["labels"] = LabelsDoc(s)
  BY <1>1 DEF Generated, Scalars, Arguments, Arrows, Verbatim
<1> QED
  BY <1>1, <1>2 DEF ServiceDoc, RawNames, Overridden

(* Services are rendered in order, and the sections of networks and        *)
(* volumes hold nothing but declarations.                                  *)
THEOREM TypeCorrect == Spec => []TypeOK
<1>1. ASSUME SoFar PROVE TypeOK
  <2>1. \A i \in DOMAIN services : services[i].name = program.services[i].name
    BY <1>1, RenderedService, BuiltInDocs
  <2>2. Len(services) <= Len(program.services)
    BY <1>1 DEF SoFar, ServicesSoFar
  <2> QED
    BY <1>1, <2>1, <2>2 DEF TypeOK, SoFar, NetworksSoFar, VolumesSoFar
<1> QED
  BY <1>1, SoFarAlways, PTL

(* Whatever a service joins or mounts is declared in the document, and     *)
(* nothing is declared that no service uses.                               *)
THEOREM NothingDangles == Spec => []NamesResolve
<1>1. ASSUME SoFar PROVE NamesResolve
  <2>1. program \in Programs /\ services \in Seq(ToSet(services)) /\ DOMAIN services = 1..Len(services)
    BY <1>1, LenProperties DEF SoFar, ServicesSoFar
  <2>2. DOMAIN networks \subseteq UNION {ToSet(Attached(program.services[i])) : i \in DOMAIN services}
    BY <1>1, <2>1 DEF SoFar, NetworksSoFar
  <2>3. DOMAIN volumes \subseteq UNION {Mounted(program.services[i]) : i \in DOMAIN services}
    BY <1>1, <2>1 DEF SoFar, VolumesSoFar
  <2>4. ASSUME NEW i \in DOMAIN services
        PROVE  LET listed == ToSet(services[i].builtIn["networks"])
                   mounts == services[i].builtIn["volumes"]
               IN  /\ listed \ {Default} \subseteq DOMAIN networks
                   /\ listed \cap DOMAIN program.networks \subseteq DOMAIN networks
                   /\ \A j \in DOMAIN mounts :
                        program.services[i].volumes[j].named => mounts[j].host[1].word \in DOMAIN volumes
    <3>1. PICK s : s = program.services[i]
      OBVIOUS
    <3>2. i \in 1..Len(services) /\ IsService(s) /\ services[i] = ServiceDoc(s) /\ ServiceError(s) = None
      BY <1>1, <2>4, <3>1, RenderedService
    <3>3. /\ services[i].builtIn["networks"] = IF RawNames(s, "networks") THEN <<>> ELSE Attached(s)
          /\ services[i].builtIn["volumes"] = IF RawNames(s, "volumes") THEN <<>> ELSE VolumeEntries(s)
      BY <3>2, BuiltInDocs DEF Absent
    <3>4. ToSet(<<>>) = {} /\ DOMAIN <<>> = {}
      BY DEF ToSet
    <3>5. \A n \in ToSet(services[i].builtIn["networks"]) : n \in ToSet(Attached(s))
      BY <3>3, <3>4
    <3>6. \A n \in ToSet(Attached(s)) : n = Default \/ n \in DOMAIN program.networks
      <4>1. NetworkError(s) = None
        BY <2>1, <3>2, ServiceErrors
      <4>2. ToSet(NamesOf(s.networks)) \subseteq DOMAIN program.networks \cup {Default}
        BY <4>1 DEF NetworkError, None
      <4> QED
        BY <2>1, <3>2, <4>2, AttachedIs
    <3>7. \A n \in ToSet(Attached(s)) : n \in DOMAIN program.networks => n \in DOMAIN networks
      BY <1>1, <3>1, <3>2 DEF SoFar, NetworksSoFar
    <3>8. ASSUME NEW j \in DOMAIN services[i].builtIn["volumes"], s.volumes[j].named
          PROVE  services[i].builtIn["volumes"][j].host[1].word \in DOMAIN volumes
      <4>1. services[i].builtIn["volumes"] = VolumeEntries(s)
        BY <3>3, <3>4, <3>8
      <4>2. j \in DOMAIN s.volumes /\ services[i].builtIn["volumes"][j].host[1].word = MountedBy(s.volumes[j])
        BY SMTT(30), <3>8, <4>1 DEF VolumeEntries, MountedBy
      <4>3. MountedBy(s.volumes[j]) \in Mounted(s)
        BY <3>8, <4>2 DEF Mounted
      <4> QED
        BY <1>1, <3>1, <3>2, <4>2, <4>3 DEF SoFar, VolumesSoFar
    <3> QED
      BY <3>1, <3>5, <3>6, <3>7, <3>8
  <2> QED
    BY <2>2, <2>3, <2>4 DEF NamesResolve
<1> QED
  BY <1>1, SoFarAlways, PTL

(* The services of a document of several are on the default network, once. *)
THEOREM OneStack == Spec => []ServicesReachEachOther
<1>1. ASSUME SoFar PROVE ServicesReachEachOther
  <2> SUFFICES ASSUME outcome = "ok", Len(services) > 1, NEW i \in DOMAIN services
               PROVE  LET listed == services[i].builtIn["networks"]
                      IN  \/ \E once \in DOMAIN listed : \A j \in DOMAIN listed : listed[j] = Default <=> j = once
                          \/ listed = Absent /\ <<Word("networks")>> \in DOMAIN services[i].raw
    BY DEF ServicesReachEachOther
  <2>1. PICK s : s = program.services[i]
    OBVIOUS
  <2>2. IsService(s) /\ services[i] = ServiceDoc(s) /\ program \in Programs
    BY <1>1, <2>1, RenderedService DEF SoFar, ServicesSoFar
  <2>3. AutoAttach
    <3>1. services \in Seq(ToSet(services)) /\ Len(services) = Len(program.services)
      BY <1>1 DEF SoFar, ServicesSoFar, Ended
    <3>2. Len(services) \in Nat
      BY <3>1, LenProperties
    <3> QED
      BY <3>1, <3>2 DEF AutoAttach
  <2>4. /\ services[i].builtIn["networks"] = IF RawNames(s, "networks") THEN Absent ELSE Attached(s)
        /\ RawNames(s, "networks") <=> <<Word("networks")>> \in DOMAIN services[i].raw
    BY <2>2, BuiltInDocs
  <2>5. \E once \in DOMAIN Attached(s) :
          \A j \in DOMAIN Attached(s) : Attached(s)[j] = Default <=> j = once
    BY <2>2, <2>3, AttachedIs
  <2> QED
    BY <2>4, <2>5
<1> QED
  BY <1>1, SoFarAlways, PTL

(* A declared network that the document leaves out is warned of, and no    *)
(* other one.                                                              *)
THEOREM AbsenceIsSaid == Spec => []WarnedIffAbsent
<1>1. ASSUME SoFar PROVE WarnedIffAbsent
  <2> SUFFICES ASSUME outcome = "ok", NEW n \in DOMAIN program.networks
               PROVE  Contains(warnings, <<"UnusedNetwork", n>>) <=> n \notin DOMAIN networks
    BY DEF WarnedIffAbsent
  <2>1. /\ program \in Programs /\ Len(services) = Len(program.services)
        /\ program.services \in Seq(ToSet(program.services))
    BY <1>1, ProgramsAssumption DEF SoFar, ServicesSoFar, Ended
  <2>2. DOMAIN program.services = 1..Len(services)
    BY <2>1, LenProperties
  <2>3. n \in ReferencedNetworks <=> \E i \in 1..Len(services) : n \in ToSet(Attached(program.services[i]))
    BY <2>1, <2>2, ReferencedIsAttached
  <2> QED
    BY <1>1, <2>3 DEF SoFar, NetworksSoFar, WarningsSoFar
<1> QED
  BY <1>1, SoFarAlways, PTL

(* A built-in key is printed unless a raw entry replaces it, and labels    *)
(* are replaced with a warning.                                            *)
THEOREM ReplacedIsSaid == Spec => []NothingLostSilently
<1>1. ASSUME SoFar PROVE NothingLostSilently
  <2> SUFFICES ASSUME NEW i \in DOMAIN services
               PROVE  LET s == program.services[i]
                      IN  /\ \A k \in BuiltIns :
                               Generated(s)[k] # Absent =>
                                 (services[i].builtIn[k] = Absent <=> <<Word(k)>> \in DOMAIN services[i].raw)
                          /\ (\E j \in DOMAIN s.labels :
                                LabelsDoc(s)[j] \notin ToSet(services[i].builtIn["labels"])) <=>
                               Contains(warnings, <<"RawLabelsReplaceGenerated", s.name>>)
    BY DEF NothingLostSilently
  <2>1. PICK s : s = program.services[i]
    OBVIOUS
  <2>2. i \in 1..Len(services) /\ IsService(s) /\ services[i] = ServiceDoc(s) /\ program \in Programs
    BY <1>1, <2>1, RenderedService DEF SoFar, ServicesSoFar
  <2>3. \A k \in BuiltIns :
          Generated(s)[k] # Absent =>
            (services[i].builtIn[k] = Absent <=> <<Word(k)>> \in DOMAIN services[i].raw)
    BY <2>2, BuiltInDocs
  <2>4. services[i].builtIn["labels"] = IF RawNames(s, "labels") THEN <<>> ELSE LabelsDoc(s)
    BY <2>2, BuiltInDocs DEF Absent
  <2>5. Contains(warnings, <<"RawLabelsReplaceGenerated", s.name>>) <=> LabelsReplaced(s)
    <3>1. services \in Seq(ToSet(services)) /\ program.services \in Seq(ToSet(program.services))
          /\ Len(services) <= Len(program.services)
      BY <1>1, <2>2, ProgramsAssumption DEF SoFar, ServicesSoFar
    <3>2. i \in 1..Len(program.services) /\ i <= Len(services)
      BY <2>2, <3>1, LenProperties
    <3> QED
      BY <1>1, <2>1, <3>2 DEF SoFar, WarningsSoFar
  <2>6. s.labels # <<>> <=> \E j \in DOMAIN s.labels : TRUE
    <3>1. s.labels \in Seq(ToSet(s.labels))
      BY <2>2, ServiceShape
    <3>2. Len(s.labels) \in Nat /\ DOMAIN s.labels = 1..Len(s.labels)
      BY <3>1, LenProperties
    <3>3. s.labels = <<>> <=> Len(s.labels) = 0
      BY <3>1, EmptySeq
    <3>4. Len(s.labels) = 0 <=> ~\E j \in 1..Len(s.labels) : TRUE
      BY <3>2
    <3> QED
      BY <3>2, <3>3, <3>4
  <2>7. CASE RawNames(s, "labels")
    <3>1. ToSet(services[i].builtIn["labels"]) = {}
      BY <2>4, <2>7 DEF ToSet
    <3> QED
      BY <2>1, <2>3, <2>5, <2>6, <2>7, <3>1 DEF LabelsReplaced
  <2>8. CASE ~RawNames(s, "labels")
    <3>1. \A j \in DOMAIN s.labels : LabelsDoc(s)[j] \in ToSet(LabelsDoc(s))
      BY DEF ToSet, LabelsDoc
    <3> QED
      BY <2>1, <2>3, <2>4, <2>5, <2>8, <3>1 DEF LabelsReplaced
  <2> QED
    BY <2>7, <2>8
<1> QED
  BY <1>1, SoFarAlways, PTL

(* Every service of a document has something to run, and only one with     *)
(* nothing to run is refused for that.                                     *)
THEOREM SomethingToRun == Spec => []RunnableOrRefused
<1>1. ASSUME SoFar PROVE RunnableOrRefused
  <2>1. ASSUME NEW i \in DOMAIN services
        PROVE  \E k \in {"image", "build"} :
                 services[i].builtIn[k] # Absent \/ <<Word(k)>> \in DOMAIN services[i].raw
    <3>1. PICK s : s = program.services[i]
      OBVIOUS
    <3>2. /\ IsService(s) /\ services[i] = ServiceDoc(s) /\ ServiceError(s) = None /\ program \in Programs
      BY <1>1, <2>1, <3>1, RenderedService DEF SoFar, ServicesSoFar
    <3>3. ~NothingToRun(s)
      BY <3>2, ServiceErrors
    <3> QED
      BY <3>2, <3>3, BuiltInDocs DEF NothingToRun
  <2>2. ASSUME outcome = "MissingImageOrBuild"
        PROVE  \A k \in {"image", "build"} : ~(Generated(Service)[k] # Absent \/ RawNames(Service, k))
    <3>1. PICK s : s = Service
      OBVIOUS
    <3>2. /\ program \in Programs /\ program.services \in Seq(ToSet(program.services))
          /\ services \in Seq(ToSet(services)) /\ Len(services) < Len(program.services)
          /\ ServiceError(s) = "MissingImageOrBuild"
      BY <1>1, <2>2, <3>1, ProgramsAssumption DEF SoFar, ServicesSoFar, Ended
    <3>3. Len(services) + 1 \in DOMAIN program.services
      BY <3>2, LenProperties
    <3>4. IsService(s)
      BY <3>1, <3>3 DEF IsService, Service
    <3>5. NothingToRun(s)
      BY <3>2, <3>4, ServiceErrors
    <3> QED
      BY <3>1, <3>5, BuiltInDocs DEF NothingToRun
  <2> QED
    BY <2>1, <2>2 DEF RunnableOrRefused
<1> QED
  BY <1>1, SoFarAlways, PTL

===============================================================================
