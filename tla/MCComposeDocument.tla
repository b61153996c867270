--------------------------- MODULE MCComposeDocument ---------------------------
(***************************************************************************)
(* Instances of ComposeDocument.  Networks: up to three services with      *)
(* every list of references against every set of declarations.  Keys: one  *)
(* service that sets every built-in field, under every pair of raw keys.   *)
(* Sources: every way to say what to run.  Labels and volumes likewise.    *)
(***************************************************************************)
EXTENDS ComposeDocument

I(w)  == Ident(w)
Typo  == Str(<<Hole("typo")>>)
NameHole == Str(<<Hole("name")>>)

NetDecl == [a |-> [real |-> "a0", external |-> TRUE], default |-> [real |-> "d0", external |-> FALSE],
            b |-> [real |-> "b", external |-> FALSE]]
VolDecl == [v |-> [driver |-> "nfs"], w |-> [driver |-> ""]]
Only(decl, names) == [n \in names |-> decl[n]]

Program(svcs, nets, vols) == [services |-> svcs, networks |-> nets, volumes |-> vols]

Running(name) == [NoService EXCEPT !.name = name, !.scalars["image"] = I("img")]

RawOf(keys) == [i \in DOMAIN keys |-> RawEntry(keys[i], I(<<"r1", "r2">>[i]))]

-------------------------------------------------------------------------------
RefLists == {<<>>, <<I("a")>>, <<I("default")>>, <<I("b"), I("default")>>, <<I("zz")>>}

NetworkService(name) ==
  {[Running(name) EXCEPT !.networks = refs, !.raw = raw] :
     refs \in RefLists, raw \in {<<>>, RawOf(<<I("networks")>>)}}

Networks ==
  LET decls == {Only(NetDecl, d) : d \in SUBSET DOMAIN NetDecl}
      plain(name) == {s \in NetworkService(name) : s.raw = <<>>}
  IN  {Program(<<s>>, d, <<>>) : s \in NetworkService("web"), d \in decls}
      \cup {Program(<<s, t>>, d, <<>>) : s \in NetworkService("web"), t \in NetworkService("db"), d \in decls}
      \cup {Program(<<s, t, u>>, d, <<>>) :
              s \in plain("web"), t \in plain("db"), u \in plain("x"), d \in decls}

-------------------------------------------------------------------------------
(* Everything a service can set.                                           *)
Full ==
  [Running("svc") EXCEPT
     !.scalars = [k \in Scalars |-> NameHole], !.build = [present |-> TRUE, context |-> I("ctx"), dockerfile |-> Unset],
     !.arguments = [k \in Arguments |-> IF k = "command" THEN Shell(NameHole) ELSE Exec(<<I("x"), NameHole>>)],
     !.healthcheck = [NoHealthcheck EXCEPT !.retries = Number("3")], !.privileged = TRUE,
     !.env = <<Entry(I("k"), NameHole)>>, !.volumes = <<BindMount(I("h"), I("c"), TRUE)>>,
     !.arrows = [k \in Arrows |-> <<Entry(Number("1"), Number("2"))>>], !.networks = <<I("a")>>,
     !.verbatim = [k \in Verbatim |-> <<I("x")>>], !.expose = Number("80"),
     !.dependsOn = <<Dependency(I("db"), "bare")>>, !.labels = <<Label(I("l"), FALSE, <<I("x")>>)>>]

RawKeys == BuiltIns \cup {"user"}

Keys ==
  {Program(<<[Full EXCEPT !.raw = RawOf(<<I(k), I(l)>>), !.name = n]>>, Only(NetDecl, {"a"}), <<>>) :
     k \in RawKeys, l \in RawKeys, n \in {"svc"}}
  \cup {Program(<<[f EXCEPT !.raw = RawOf(<<I("user"), NameHole>>), !.name = n]>>, Only(NetDecl, {"a"}), <<>>) :
          n \in RawKeys, f \in {Full, [Running("svc") EXCEPT !.networks = <<I("a")>>]}}

-------------------------------------------------------------------------------
Sources ==
  {Program(<<[NoService EXCEPT !.name = n, !.scalars["image"] = image, !.build = build,
                               !.healthcheck = hc, !.raw = raw]>>, <<>>, <<>>) :
     n \in {"image", "web"}, image \in {Unset, I("img"), Typo},
     build \in {NoBuild} \cup [present : {TRUE}, context : {Unset, I("ctx")}, dockerfile : {Unset, Typo}],
     hc \in {NoHealthcheck, [NoHealthcheck EXCEPT !.disable = TRUE], [NoHealthcheck EXCEPT !.test = Exec(<<Typo>>)]},
     raw \in {<<>>, RawOf(<<NameHole>>), RawOf(<<I("build")>>), RawOf(<<I("x"), I("image")>>),
              <<RawEntry(I("build"), Mapping(<<Entry(I("context"), I("true"))>>))>>,
              <<RawEntry(I("init"), List(<<I("true"), Number("1"), Typo>>))>>}}

Labels ==
  {Program(<<[Running(n) EXCEPT !.labels = labels, !.raw = raw], Running("db")>>, <<>>, <<>>) :
     n \in {"web", "labels"},
     labels \in {<<>>, <<Label(I("l"), FALSE, <<NameHole>>)>>, <<Label(Str(<<Word("="), Word("x")>>), FALSE, <<I("y")>>)>>,
                 <<Label(NameHole, TRUE, <<I("x"), I("y")>>), Label(I("web"), FALSE, <<I("z")>>)>>},
     raw \in {<<>>, RawOf(<<I("labels")>>), RawOf(<<NameHole>>), RawOf(<<I("user")>>), RawOf(<<Typo>>)}}

Volumes ==
  LET mounts == {<<>>, <<Named("v", I("c"), FALSE)>>, <<BindMount(NameHole, I("c"), TRUE), Named("w", I("d"), TRUE)>>,
                 <<Named("zz", I("c"), FALSE)>>, <<BindMount(Typo, I("c"), TRUE)>>}
  IN  {Program(<<[Running("web") EXCEPT !.volumes = m, !.raw = raw], [Running("db") EXCEPT !.volumes = l]>>,
               <<>>, Only(VolDecl, d)) :
         m \in mounts, l \in mounts, d \in {{"v"}, {"v", "w"}}, raw \in {<<>>, RawOf(<<I("volumes")>>)}}

Written(p) == \A i \in DOMAIN p.services : IsInjective([j \in DOMAIN p.services[i].raw |-> p.services[i].raw[j].key.text])

AllFamilies == {p \in Networks \cup Keys \cup Sources \cup Labels \cup Volumes : Written(p)}

(* A service called like a raw key it writes beside `{{name}}`.            *)
RawClashes == {p \in Keys : Written(p)}
===============================================================================
