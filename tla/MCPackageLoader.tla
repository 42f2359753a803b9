--------------------------- MODULE MCPackageLoader ---------------------------
EXTENDS PackageLoader

NoNames == [alias |-> <<>>, label |-> <<>>, value |-> <<>>]
Field(name, value) == <<"field", <<"ident", name>>, NoNames, value>>
Plain == <<"of", <<>>>>
Mark == <<"field", <<"hidden", <<"mark">>>>, NoNames, Plain>>
Unread == <<"let", <<"unread">>, Plain>>
Lit(decls) == <<"struct", decls>>

File(package, imports, version, decls) ==
  [package |-> package, imports |-> imports, version |-> version, decls |-> decls]
Manifest(name, version, readable) == [name |-> name, version |-> version, readable |-> readable]
Task(modules, files, dir, file, package, version) ==
  [tree |-> [modules |-> modules, files |-> files], dir |-> dir, file |-> file,
   package |-> package, version |-> version]

Import(path) == [alias |-> <<>>, path |-> path]
As(alias, path) == [alias |-> alias, path |-> path]

p == <<"p">>
a == Import(<<"m", "/", "a">>)
b == Import(<<"m", "/", "b">>)
main == Import(<<"m", "/", "n">>)
vendored == Import(<<"v", ":", "p">>)
up == Import(<<"m", "/", "..", "/", "b">>)
nowhere == Import(<<"m", "/", "x">>)
clipped == Import(<<"m", "b">>)

\* A file that reads member p of everything it imports, and declares more.
Reading(imports, decls) ==
  File(<<>>, imports, "any",
       [i \in DOMAIN imports |->
          Field(<<"x", i>>, <<"select", <<"id", ImportedName(imports[i])>>, p>>)] \o decls)

Bodies ==
  {<<Field(p, Lit(<<Mark>>))>>, <<Field(p, Lit(<<Mark, Field(OriginDir, Plain)>>))>>,
   <<Field(p, <<"of", <<Lit(<<Mark>>), Plain>>>>)>>, <<Field(<<"q">>, Plain)>>, <<Unread>>}
Leaves == {<<Reading(<<>>, body)>> : body \in Bodies} \cup {<<File(<<>>, <<>>, "none", <<>>)>>, <<>>}

W == <<<<"w">>>>
N == W \o <<<<"n">>>>
In(dir, name) == Append(dir, <<name>>)
Vendor(dir) == dir \o <<<<"cue.mod">>, <<"pkg">>, <<"v">>>>

Sound == <<Reading(<<>>, <<Field(p, Lit(<<Mark>>))>>)>>
Broken == <<Reading(<<>>, <<Unread>>)>>

Inner == {<<>>} \cup {(N :> Manifest(<<"m">>, "", readable)) : readable \in BOOLEAN}
         \cup {N :> Manifest(<<"n">>, "v1", TRUE)}
Outer == W :> Manifest(<<"m", "@", "v0">>, "v2", TRUE)

\* The package w/n in a module nested in another of the same name, with packages
\* below either of them.
Nested ==
  {Task(inner @@ Outer,
        (N :> <<Reading(imports, <<Field(p, Lit(<<Mark>>))>>)>>)
          @@ (In(W, "a") :> <<Reading(further, <<Field(p, Lit(<<Mark, Field(<<"q">>, value)>>))>>)>>)
          @@ (In(W, "b") :> leaf) @@ (Vendor(W) :> Sound) @@ near, N, 0, <<>>, "")
   : inner \in Inner,
     imports \in {<<>>, <<a>>, <<b>>, <<a, b>>, <<b, a>>, <<vendored, a>>, <<up>>, <<nowhere, b>>, <<clipped>>},
     further \in {<<>>, <<b>>, <<vendored, b>>, <<a>>, <<main>>},
     value \in {Plain, <<"select", <<"id", <<"b">>>>, p>>},
     leaf \in Leaves,
     near \in {<<>>, In(N, "b") :> Broken, In(N, "b") :> Sound}}

\* Two files of the package w, of which a name may choose, outside of any module
\* or inside one, and what they import under which name.
Files ==
  {File(package, imports, version, <<Field(p, IF imports = <<>> THEN Plain
                                              ELSE <<"select", <<"id", ImportedName(imports[1])>>, p>>)>> \o more)
   : package \in {<<>>, p, <<"r">>}, imports \in {<<>>, <<As(<<"z">>, a.path)>>, <<As(<<"z">>, b.path)>>, <<b>>},
     version \in {"any", "v1", "v2"}, more \in {<<>>, <<Unread>>}}
Pairs ==
  {Task(modules, (W :> <<f, g>>) @@ (In(W, "a") :> Sound)
                  @@ (In(W, "b") :> <<Reading(<<>>, <<Field(p, Plain)>>)>>), W, file, package, "v2")
   : modules \in {<<>>, Outer}, f \in Files, g \in {h \in Files : h.version = "any" /\ h.decls[Len(h.decls)] # Unread},
     file \in 0..1, package \in {<<>>, p}}

-----------------------------------------------------------------------------
(* Files of their own, whose names are read or not *)

x == <<"x">>
y == <<"y">>
Id(n) == <<"id", n>>
Alias(n) == [NoNames EXCEPT !.alias = n]
LabelAlias(n) == [NoNames EXCEPT !.label = n]
ValueAlias(n) == [NoNames EXCEPT !.value = n]
Decl(label, names, value) == <<"field", label, names, value>>
AnyName == <<"pattern", Plain>>

\* Literals of up to two declarations of and about x.
Declarations ==
  {<<"let", x, Plain>>, <<"let", x, Id(x)>>, Field(x, Plain), Field(y, Id(x)), Field(y, Lit(<<Field(x, Id(x))>>)),
   Decl(AnyName, Alias(x), Plain), Decl(AnyName, Alias(x), Id(x)), Decl(<<"string", x>>, ValueAlias(x), Id(x)),
   Decl(<<"ident", y>>, ValueAlias(x), Plain), Decl(<<"ident", y>>, Alias(x), Id(x)),
   Decl(<<"ident", y>>, Alias(x), Plain), Decl(<<"pattern", Id(x)>>, LabelAlias(x), Plain),
   Decl(<<"dynamic", Id(x)>>, NoNames, <<"or", <<[default |-> TRUE, expr |-> <<"default", Id(y)>>]>>>>),
   Decl(<<"ident", y>>, NoNames, <<"default", Plain>>)}
Literal2 == UNION {[1..k -> Declarations] : k \in 0..2}
Holders ==
  UNION {{Field(y, Lit(l)), Decl(<<"ident", y>>, Alias(x), Lit(l)), Decl(<<"ident", y>>, ValueAlias(x), Lit(l)),
          Decl(AnyName, Alias(x), Lit(l)), <<"let", x, Lit(l)>>, <<"embed", Lit(l)>>,
          <<"comp", <<<<"for", <<x>>, Id(y)>>, <<"if", Id(x)>>>>, l>>,
          <<"comp", <<<<"let", y, Id(x)>>>>, l>>} : l \in Literal2}
Single ==
  {Task(<<>>, W :> <<File(<<>>, imports, "any", <<holder>> \o more)>>, W, 1, <<>>, "")
   : holder \in Holders, more \in {<<>>} \cup {<<d>> : d \in Declarations},
     imports \in {<<>>, <<Import(x)>>}}

MCTasks == <<Nested, Pairs, Single>>
=============================================================================
