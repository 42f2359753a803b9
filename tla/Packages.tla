------------------------------ MODULE Packages ------------------------------
(***************************************************************************)
(* Where an import leads (package/discovery.rs, import_path.rs), which     *)
(* files make a package (package/mod.rs), what they evaluate to, and where *)
(* values say they were declared (package/annotate.rs).                    *)
(*                                                                         *)
(* An import path and a module's name are sequences of characters, a       *)
(* directory is the sequence of its components, each such a sequence.      *)
(* A tree of files is a record: modules maps a directory to the manifest   *)
(* it holds, files maps one to its files in the order of their names.      *)
(***************************************************************************)
EXTENDS References

-----------------------------------------------------------------------------
(* Paths *)

\* The first of some candidates, as a sequence of one, or none.
FirstOf(s) == IF s = <<>> THEN <<>> ELSE <<s[1]>>

Before(s, c) == LET at == {i \in DOMAIN s : s[i] = c}
                IN IF at = {} THEN s ELSE SubSeq(s, 1, Min(at) - 1)

\* PackagePath::split_qualifier: the directory and the package's name, or "".
Qualifier(path) == LET dir == Before(path, ":") IN SubSeq(path, Len(dir) + 2, Len(path))
DirPath(path) == Before(path, ":")

\* The components of a path; what is empty or the directory itself is none.
Components(s) ==
  LET ends == {0} \cup {i \in DOMAIN s : s[i] = "/"}
      from(i) == SubSeq(s, i + 1, Len(s))
      named == {i \in ends : Before(from(i), "/") \notin {<<>>, <<".">>}}
  IN [k \in 1..Cardinality(named) |-> Before(from(SetToSortSeq(named, <)[k]), "/")]

DefaultAlias(path) ==
  LET names == Components(DirPath(path))
  IN IF Qualifier(path) # <<>> THEN Qualifier(path) ELSE names[Len(names)]

ImportedName(import) == IF import.alias = <<>> THEN DefaultAlias(import.path) ELSE import.alias

IsInvalidImportPath(dir) == dir[1] = "/" \/ <<"..">> \in ToSet(Components(dir))

-----------------------------------------------------------------------------
(* Modules *)

IsDir(tree, dir) == \E d \in DOMAIN tree.files \cup DOMAIN tree.modules : IsPrefix(dir, d)

\* The manifests in a directory and above, nearest first; one that cannot be
\* read is passed over.
FindAllModuleRoots(tree, dir) ==
  SelectSeq([i \in 1..(Len(dir) + 1) |-> SubSeq(dir, 1, Len(dir) + 1 - i)],
            LAMBDA d : d \in DOMAIN tree.modules /\ tree.modules[d].readable)

\* The directory a path names under a root, as a sequence of one, or none.
FindPkgDirInRoot(tree, path, root) ==
  LET base == Before(tree.modules[root].name, "@")
      inside == root \o Components(SubSeq(path, Len(base) + 1, Len(path)))
      vendored == [i \in 1..3 |-> root \o <<<<"cue.mod">>, <<<<"pkg">>, <<"gen">>, <<"usr">>>>[i]>> \o Components(path)]
      found == SelectSeq((IF IsPrefix(base, path) THEN <<inside>> ELSE <<>>) \o vendored,
                         LAMBDA d : IsDir(tree, d))
  IN FirstOf(found)

-----------------------------------------------------------------------------
(* Files *)

\* A file says which package it is of (or <<>>), what it imports, and in which
\* version of the language alone it parses ("any" or "none" besides one).
Parses(file, version) == file.version \in {"any", version} \/ (version = "" /\ file.version # "none")

\* The version files are parsed at: the nearest module's; "" is any version.
Version(tree, roots, fallback) == IF roots = <<>> THEN fallback ELSE tree.modules[roots[1]].version

Checked(file) ==
  CheckFile([i \in DOMAIN file.imports |-> ImportedName(file.imports[i])], file.decls) = ""

\* Files of another package are set aside; when none is left all are taken,
\* unchecked.  <<FALSE>> when the package cannot be read.
ReadAndFilterFiles(files, package, version) ==
  LET matching == SelectSeq(files, LAMBDA f : package = <<>> \/ f.package = <<>> \/ f.package = package)
  IN IF \E f \in ToSet(files) : ~Parses(f, version) THEN <<FALSE>>
     ELSE IF \E f \in ToSet(matching) : ~Checked(f) THEN <<FALSE>>
     ELSE <<TRUE, IF matching = <<>> THEN files ELSE matching>>

-----------------------------------------------------------------------------
(* Evaluation, as far as imports and origins need it.  A node of the arena *)
(* has a kind, a mark that asks for its origin, and the nodes below it by  *)
(* name.                                                                   *)

NodeOf(kind, marked, below) == [kind |-> kind, marked |-> marked, below |-> below]
Below(names, ids) == [i \in DOMAIN names |-> <<names[i], ids[i]>>]
Child(node, name) == SelectSeq(node.below, LAMBDA b : b[1] = name)

\* A new node at the end of the arena.
Alloc(arena, node) == [arena |-> Append(arena, node), id |-> Len(arena) + 1]

\* Imports: what a name stands for, and the packages that were loaded.
PathOf(imports, name) == IF name \in DOMAIN imports.aliases THEN imports.aliases[name] ELSE name
PackageOf(imports, name) ==
  LET path == PathOf(imports, name)
  IN IF path \in DOMAIN imports.packages THEN <<imports.packages[path]>> ELSE <<>>

IsRegular(decl) == Form(decl) = "field" /\ decl[2][1] \in {"ident", "string"}
IsMarked(decls) == \E d \in ToSet(decls) : Form(d) = "field" /\ d[2][1] = "hidden"

RECURSIVE Evaluate(_, _, _)
RECURSIVE EvaluateAll(_, _, _)

\* The arena and the nodes of several expressions, one after the other.
EvaluateAll(arena, exprs, imports) ==
  FoldLeft(LAMBDA done, e : LET one == Evaluate(done.arena, e, imports)
                            IN [arena |-> one.arena, ids |-> Append(done.ids, one.id)],
           [arena |-> arena, ids |-> <<>>], exprs)

\* A member of a package is the package's own node; nothing is told apart of what
\* is no literal and no such member.
Evaluate(arena, expr, imports) ==
  LET fields == SelectSeq(expr[2], IsRegular)
      values == EvaluateAll(arena, [i \in DOMAIN fields |-> fields[i][4]], imports)
      elements == EvaluateAll(arena, expr[2], imports)
      package == PackageOf(imports, expr[2][2])
      member == Child(arena[package[1]], expr[3])
  IN CASE Form(expr) = "struct" ->
            Alloc(values.arena, NodeOf(<<"struct">>, IsMarked(expr[2]),
                                       Below([i \in DOMAIN fields |-> fields[i][2][2]], values.ids)))
       [] Form(expr) = "of" -> Alloc(elements.arena, NodeOf(<<"list">>, FALSE, Below([i \in DOMAIN expr[2] |-> <<i>>], elements.ids)))
       [] Form(expr) = "select" ->
            IF package = <<>> \/ member = <<>> THEN Alloc(arena, NodeOf(<<"bottom">>, FALSE, <<>>))
            ELSE [arena |-> arena, id |-> member[1][2]]
       [] OTHER -> Alloc(arena, NodeOf(<<"other">>, FALSE, <<>>))

-----------------------------------------------------------------------------
(* Origins *)

OriginDir == <<"originDir">>
Origin(dir) == NodeOf(<<"path", dir>>, FALSE, <<>>)

\* Mutant: a directory set before is set again.
AnnotatedOver(s, origin) ==
  IF s.marked
  THEN [s EXCEPT !.below = Append(SelectSeq(@, LAMBDA b : b[1] # OriginDir), <<OriginDir, origin>>)]
  ELSE s

\* A marked struct that has no origin yet gets one.
Annotated(s, origin) ==
  IF s.marked /\ Child(s, OriginDir) = <<>>
  THEN [s EXCEPT !.below = Append(@, <<OriginDir, origin>>)] ELSE s

\* done maps each node met to its copy, or to itself when nothing changed.
RECURSIVE Annotate(_, _, _)
Annotate(state, id, origin) ==
  LET node == state.arena[id]
      below == FoldLeft(LAMBDA st, b : LET next == Annotate(st, b[2], origin)
                                       IN [next EXCEPT !.ids = Append(st.ids, next.done[b[2]])],
                        [state EXCEPT !.ids = <<>>, !.done = (id :> id) @@ @], node.below)
      copied == Annotated([node EXCEPT !.below = Below([i \in DOMAIN @ |-> @[i][1]], below.ids)], origin)
      made == Alloc(below.arena, copied)
  IN IF id \in DOMAIN state.done THEN state
     ELSE IF copied = node THEN below
     ELSE [below EXCEPT !.arena = made.arena, !.done = (id :> made.id) @@ @]

\* The fields of a package's root, which itself is not annotated, in place.
AnnotateOrigin(arena, root, dir) ==
  LET origin == Alloc(arena, Origin(dir))
      below == arena[root].below
      done == FoldLeft(LAMBDA st, b : Annotate(st, b[2], origin.id),
                       [arena |-> origin.arena, done |-> <<>>, ids |-> <<>>], below)
  IN [done.arena EXCEPT ![root].below = [i \in DOMAIN below |-> <<below[i][1], done.done[below[i][2]]>>]]
=============================================================================
