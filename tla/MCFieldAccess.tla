----------------------------- MODULE MCFieldAccess -----------------------------
(***************************************************************************)
(* Instances of FieldAccess: a service of the entry file that uses         *)
(* outer(p), which uses inner(m), each template in the entry file or in an *)
(* imported one, under every argument and every spelling of a value.  Two  *)
(* files call different files by one alias, and one name is declared in    *)
(* both.                                                                   *)
(***************************************************************************)
EXTENDS FieldMeaning

I(w) == Ident(w)
H(path) == Str(<<Hole(path)>>)

Network(file, name, real)        == [file |-> file, kind |-> "network", name |-> name, real |-> real, driver |-> ""]
Volume(file, name, real, driver) == [file |-> file, kind |-> "volume", name |-> name, real |-> real, driver |-> driver]
Service(name)                    == [file |-> "entry", kind |-> "service", name |-> name, real |-> "", driver |-> ""]

MCFiles ==
  [entry |-> [decls |-> {Network("entry", "net", "net0"), Network("entry", "b", "b"), Service("svc"),
                         Volume("entry", "vol", "vol", "nfs"), Volume("entry", "plain", "plain", "")},
              aliases |-> ("L" :> "lib")],
   lib |-> [decls |-> {Network("lib", "proxy", "docker0"), Network("lib", "net", "net1"), Volume("lib", "v", "v0", "")},
            aliases |-> ("L" :> "base" @@ "M" :> "base")],
   base |-> [decls |-> {Network("base", "proxy", "docker1"), Volume("base", "v", "v1", "cifs")}, aliases |-> <<>>]]

Body(file, param, fields, with, arg) ==
  [file |-> file, param |-> param, fields |-> fields, with |-> with, arg |-> arg]

Program(f, g, own, out, inn, a, b) ==
  [name |-> "svc",
   bodies |-> [service |-> Body("entry", "", own, "outer", a),
               outer |-> Body(f, "p", out, "inner", b),
               inner |-> Body(g, "m", inn, "none", Unset)]]

Image(lit)  == [NoFields EXCEPT !.image = lit]
Nets(lits)  == [NoFields EXCEPT !.networks = lits]
BothFiles   == {"entry", "lib"}

(* What a service passes and what a template passes on.                    *)
Passed ==
  {I("net"), I("vol"), I("proxy"), I("svc"), Str(<<Word("b")>>), Number("7"),
   Access(I("L"), "proxy"), Access(I("L"), "v"), Access(I("L"), "zz"), Access(I("net"), "name"), Access(I("zz"), "name"),
   Access(Qualified("L", "proxy"), "name")}

Forwarded ==
  {Param("p"), Access(Param("p"), "name"), I("net"), Access(I("L"), "proxy"), Access(I("M"), "v")}

(* The spellings of a value that uses the parameter q.                     *)
Values(q) ==
  {Unset, Param(q), Access(Param(q), "name"), Access(Param(q), "driver"), H(<<q>>), H(<<q, "name">>),
   Str(<<Word("x"), Hole(<<q, "driver">>), Hole(<<"name">>)>>)}

Fixed ==
  {Access(I("net"), "name"), Access(I("net"), "external"), Access(I("vol"), "driver_opts"), Access(I("plain"), "driver"),
   Access(I("svc"), "name"), Access(Qualified("L", "proxy"), "name"), Access(Qualified("M", "v"), "driver"),
   H(<<"L", "proxy", "name">>), H(<<"vol", "name">>), H(<<"L", "proxy", "name", "x">>), H(<<"hsot">>), H(<<"hsot", "name">>)}

Images ==
  {Program(f, g, Image(own), Image(out), Image(inn), a, b) :
     f \in BothFiles, g \in BothFiles, own \in {Unset, H(<<"name">>)}, out \in {Unset, H(<<"p">>)},
     inn \in Values("m"), a \in Passed, b \in Forwarded}
  \cup {Program(f, g, NoFields, NoFields, Image(inn), I("net"), I("b")) :
          f \in BothFiles, g \in BothFiles, inn \in Fixed}

Networks ==
  {Program(f, g, Nets(own), Nets(out), [Nets(inn) EXCEPT !.image = image], a, b) :
     f \in BothFiles, g \in {"lib"}, own \in {<<>>, <<I("net")>>}, out \in {<<>>, <<Param("p")>>},
     inn \in {<<Param("m")>>, <<I("b"), Param("m")>>, <<Qualified("L", "proxy"), Param("m")>>},
     image \in {Access(Param("m"), "name"), H(<<"m", "name">>)}, a \in Passed, b \in Forwarded}

Mounts ==
  {Program(f, "lib", [NoFields EXCEPT !.mounts = own], [NoFields EXCEPT !.mounts = out],
           [NoFields EXCEPT !.mounts = inn, !.dns = dns], a, b) :
     f \in BothFiles, own \in {<<>>, <<I("vol")>>, <<Qualified("L", "v")>>}, out \in {<<>>, <<Qualified("L", "v")>>},
     inn \in {<<>>, <<I("v")>>, <<Qualified("L", "proxy")>>, <<Qualified("M", "v"), I("vol")>>},
     dns \in {<<>>, <<Param("m")>>, <<Qualified("L", "proxy")>>}, a \in {I("net"), Number("7")},
     b \in {Param("p"), Access(I("L"), "proxy")}}

(* Names that coincide with a parameter's.                                 *)
Coincidences ==
  {Program(f, "lib", NoFields, Nets(out), [Nets(<<Param("m")>>) EXCEPT !.image = image], I("b"), b) :
     f \in BothFiles, out \in {<<>>, <<I("p")>>}, image \in {H(<<"m", "name">>), H(<<"p">>), H(<<"p", "name">>)},
     b \in {I("p"), I("m"), I("net")}}

AllFamilies == Images \cup Networks \cup Mounts \cup Coincidences

(* An access of a parameter, passed on into text.                          *)
Forwards == {p \in Images : p.bodies["outer"].arg = Access(Param("p"), "name")}
===============================================================================
