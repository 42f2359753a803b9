---------------------------- MODULE PackageLoader ----------------------------
(***************************************************************************)
(* PackageLoader (package/mod.rs): a package is read, its imports are      *)
(* resolved one after the other, each by loading the package it names with *)
(* an evaluator of its own that borrows the importer's arena, and then its *)
(* declarations are evaluated.  The calls in progress are a stack.         *)
(***************************************************************************)
EXTENDS Packages

CONSTANTS
  Tasks,      \* what is loaded: sets of a tree of files, and a directory or a file of it
  MaxStack    \* the calls the thread's stack has room for

VARIABLES
  task,
  stack,      \* the evaluators of the calls in progress, the innermost last
  status,     \* "running", "ok", "error" or "overflow"
  loaded      \* the arena and the root that were returned

vars == <<task, stack, status, loaded>>

NoImports == [aliases |-> <<>>, packages |-> <<>>]
Nothing == [arena |-> <<>>, root |-> 0]

\* A call that has not read its files: the directory, which of its files (0 for
\* all of them), the package's name, and the arena it was lent.
Call(dir, file, package, arena) ==
  [dir |-> dir, file |-> file, package |-> package, arena |-> arena, phase |-> "read",
   files |-> <<>>, todo |-> <<>>, roots |-> <<>>, failed |-> FALSE, imports |-> NoImports]

Top == Last(stack)
Set(call) == stack' = [stack EXCEPT ![Len(stack)] = call]
Tree == task.tree

Init ==
  \E k \in DOMAIN Tasks :
    /\ task \in Tasks[k]
    /\ stack = <<Call(task.dir, task.file, task.package, <<>>)>>
    /\ status = "running"
    /\ loaded = Nothing

-----------------------------------------------------------------------------
\* Mutant: the arena stays with the evaluator that failed.
ResumedLosing(caller, callee, root) ==
  IF root = 0 THEN [caller EXCEPT !.failed = TRUE]
  ELSE [caller EXCEPT !.arena = callee.arena, !.phase = "imports", !.todo = Tail(@), !.failed = FALSE,
                      !.imports.packages = (Head(caller.todo).path :> root) @@ @]

\* Mutant: a root that failed is tried again.
ResumedRetrying(caller, callee, root) ==
  IF root = 0 THEN [caller EXCEPT !.arena = callee.arena, !.failed = TRUE,
                                  !.roots = FindAllModuleRoots(Tree, caller.dir)]
  ELSE [caller EXCEPT !.arena = callee.arena, !.phase = "imports", !.todo = Tail(@), !.failed = FALSE,
                      !.imports.packages = (Head(caller.todo).path :> root) @@ @]

\* The caller once the call it made is over, root being 0 for an error: it has
\* its arena back either way.
Resumed(caller, callee, root) ==
  IF root = 0 THEN [caller EXCEPT !.arena = callee.arena, !.failed = TRUE]
  ELSE [caller EXCEPT !.arena = callee.arena, !.phase = "imports", !.todo = Tail(@), !.failed = FALSE,
                      !.imports.packages = (Head(caller.todo).path :> root) @@ @]

Return(callee, root) ==
  IF Len(stack) = 1
  THEN /\ stack' = <<>>
       /\ status' = IF root = 0 THEN "error" ELSE "ok"
       /\ loaded' = IF root = 0 THEN Nothing ELSE [arena |-> callee.arena, root |-> root]
  ELSE LET calls == Front(stack)
       IN /\ stack' = [calls EXCEPT ![Len(calls)] = Resumed(@, callee, root)]
          /\ UNCHANGED <<status, loaded>>

FilesRead(tree, dir, file, package, fallback) ==
  LET files == IF dir \in DOMAIN tree.files THEN tree.files[dir] ELSE <<>>
      version == Version(tree, FindAllModuleRoots(tree, dir), fallback)
  IN IF files = <<>> THEN <<FALSE>>
     ELSE IF file = 0 THEN ReadAndFilterFiles(files, package, version)
     ELSE ReadAndFilterFiles(<<files[file]>>, <<>>, version)

\* load_file and load_dir_into, up to the imports.
ReadFiles ==
  /\ Top.phase = "read"
  /\ LET read == FilesRead(Tree, Top.dir, Top.file, Top.package, task.version)
     IN IF read[1]
        THEN /\ Set([Top EXCEPT !.phase = "imports", !.files = read[2],
                                !.todo = FlattenSeq([i \in DOMAIN read[2] |-> read[2][i].imports])])
             /\ UNCHANGED <<status, loaded>>
        ELSE Return(Top, 0)
  /\ UNCHANGED task

\* resolve_single_import, up to the module roots: the name is bound first.
ResolveImport ==
  /\ Top.phase = "imports" /\ Top.todo # <<>>
  /\ LET import == Head(Top.todo)
         bound == [Top EXCEPT !.imports.aliases = (ImportedName(import) :> import.path) @@ @]
     IN IF import.path \in DOMAIN Top.imports.packages \/ IsInvalidImportPath(DirPath(import.path))
        THEN Set([bound EXCEPT !.todo = Tail(@)])
        ELSE Set([bound EXCEPT !.phase = "roots", !.roots = FindAllModuleRoots(Tree, Top.dir)])
  /\ UNCHANGED <<task, status, loaded>>

\* A module root: nothing there, or a package to load in the arena lent to it.
TryRoot ==
  /\ Top.phase = "roots" /\ Top.roots # <<>>
  /\ LET path == Head(Top.todo).path
         found == FindPkgDirInRoot(Tree, DirPath(path), Head(Top.roots))
         lending == [Top EXCEPT !.roots = Tail(@), !.arena = <<>>]
     IN IF found = <<>> THEN Set([Top EXCEPT !.roots = Tail(@)]) /\ UNCHANGED status
        ELSE IF Len(stack) = MaxStack THEN status' = "overflow" /\ stack' = <<>>
        ELSE /\ stack' = Append(Front(stack), lending)
                         \o <<Call(found[1], 0, Qualifier(path), Top.arena)>>
             /\ UNCHANGED status
  /\ UNCHANGED <<task, loaded>>

\* No root is left: an error if one failed, else the name stays without package.
EndRoots ==
  /\ Top.phase = "roots" /\ Top.roots = <<>>
  /\ IF Top.failed THEN Return(Top, 0)
     ELSE Set([Top EXCEPT !.phase = "imports", !.todo = Tail(@)]) /\ UNCHANGED <<status, loaded>>
  /\ UNCHANGED task

\* The declarations of all files as one literal, and the origins below it.
EvaluatePackage ==
  /\ Top.phase = "imports" /\ Top.todo = <<>>
  /\ LET decls == FlattenSeq([i \in DOMAIN Top.files |-> Top.files[i].decls])
         value == Evaluate(Top.arena, <<"struct", decls>>, Top.imports)
         arena == AnnotateOrigin(value.arena, value.id, Top.dir)
     IN Return([Top EXCEPT !.arena = arena], value.id)
  /\ UNCHANGED task

Next == stack # <<>> /\ (ReadFiles \/ ResolveImport \/ TryRoot \/ EndRoots \/ EvaluatePackage)

Spec == Init /\ [][Next]_vars

-----------------------------------------------------------------------------
(* What is promised: the meaning of a directory, file by file, in no order *)
(* and with nothing shared.                                                *)

\* Within a module a path goes on after its name by whole components.
MeantDirs(tree, dir, path) ==
  LET roots == FindAllModuleRoots(tree, dir)
      base(root) == Components(Before(tree.modules[root].name, "@"))
      names == Components(DirPath(path))
      under(root) ==
        SelectSeq((IF IsPrefix(base(root), names)
                   THEN <<root \o SubSeq(names, Len(base(root)) + 1, Len(names))>> ELSE <<>>)
                  \o [i \in 1..3 |-> root \o <<<<"cue.mod">>, <<<<"pkg">>, <<"gen">>, <<"usr">>>>[i]>> \o names],
                  LAMBDA d : IsDir(tree, d))
  IN IF IsInvalidImportPath(DirPath(path)) THEN <<>>
     ELSE FlattenSeq([i \in DOMAIN roots |-> FirstOf(under(roots[i]))])

\* The directories a directory's imports lead to, whether or not they load.
Leads(tree, dir) ==
  IF dir \notin DOMAIN tree.files THEN {}
  ELSE UNION {UNION {ToSet(MeantDirs(tree, dir, import.path)) : import \in ToSet(f.imports)}
              : f \in ToSet(tree.files[dir])}

Reached(tree, dirs) ==
  FoldLeft(LAMBDA seen, d : seen \cup UNION {Leads(tree, e) : e \in seen},
           dirs, SetToSeq(DOMAIN tree.files))

\* No package imports itself, however far around.
Acyclic(tree, from) == \A d \in Reached(tree, {from}) : d \notin Reached(tree, Leads(tree, d))

Fails == <<"fails">>
Value(kind, below) == <<"value", kind, below>>

RECURSIVE Meaning(_, _, _, _, _)
RECURSIVE MeaningOf(_, _, _)

\* What an import is, in the nearest module in which it loads.
ImportMeaning(tree, dir, path, fallback) ==
  LET dirs == MeantDirs(tree, dir, path)
      meanings == [i \in DOMAIN dirs |-> Meaning(tree, dirs[i], 0, Qualifier(path), fallback)]
      loading == SelectSeq(meanings, LAMBDA m : m # Fails)
  IN IF dirs = <<>> THEN <<"nowhere">> ELSE IF loading = <<>> THEN Fails ELSE loading[1]

\* An expression, given what the names its file imports mean.
MeaningOf(expr, packages, dir) ==
  LET fields == SelectSeq(expr[2], IsRegular)
      named == [i \in DOMAIN fields |-> <<fields[i][2][2], MeaningOf(fields[i][4], packages, dir)>>]
      origin == <<OriginDir, Value(<<"path", dir>>, <<>>)>>
      package == packages[expr[2][2]]
      member == SelectSeq(package[3], LAMBDA b : b[1] = expr[3])
  IN CASE Form(expr) = "struct" ->
            Value(<<"struct">>, IF IsMarked(expr[2]) /\ \A i \in DOMAIN named : named[i][1] # OriginDir
                                THEN Append(named, origin) ELSE named)
       [] Form(expr) = "of" ->
            Value(<<"list">>, [i \in DOMAIN expr[2] |-> <<<<i>>, MeaningOf(expr[2][i], packages, dir)>>])
       [] Form(expr) = "select" ->
            IF expr[2][2] \notin DOMAIN packages THEN Value(<<"bottom">>, <<>>)
            ELSE IF package[1] # "value" \/ member = <<>> THEN Value(<<"bottom">>, <<>>) ELSE member[1][2]
       [] OTHER -> Value(<<"other">>, <<>>)

\* A directory's package: its fields in the order of its files, or a failure.
Meaning(tree, dir, file, package, fallback) ==
  LET read == FilesRead(tree, dir, file, package, fallback)
      files == read[2]
      meant(f) == [n \in {ImportedName(import) : import \in ToSet(f.imports)} |->
                     ImportMeaning(tree, dir,
                       (CHOOSE import \in ToSet(f.imports) : ImportedName(import) = n).path, fallback)]
      fields(f) == LET regular == SelectSeq(f.decls, IsRegular) m == meant(f)
                   IN [i \in DOMAIN regular |-> <<regular[i][2][2], MeaningOf(regular[i][4], m, dir)>>]
  IN IF ~read[1] THEN Fails
     ELSE IF \E f \in ToSet(files) : \E import \in ToSet(f.imports) :
               ImportMeaning(tree, dir, import.path, fallback) = Fails THEN Fails
     ELSE Value(<<"struct">>, FlattenSeq([i \in DOMAIN files |-> fields(files[i])]))

\* A node of an arena with all below it.
RECURSIVE Unfolded(_, _)
Unfolded(arena, id) ==
  Value(arena[id].kind,
        [i \in DOMAIN arena[id].below |-> <<arena[id].below[i][1], Unfolded(arena, arena[id].below[i][2])>>])

-----------------------------------------------------------------------------
(* Properties *)

\* Where the code departs from this meaning.  The files of a package share one
\* table of imports, so that a name bound twice means the last; and a module's
\* name is taken off a path without looking where its last component ends.
OneNameOnePath ==
  \A dir \in DOMAIN Tree.files :
    \A f, g \in ToSet(Tree.files[dir]) : \A i \in ToSet(f.imports), j \in ToSet(g.imports) :
      ImportedName(i) = ImportedName(j) => i.path = j.path
WholeComponents ==
  \A dir \in DOMAIN Tree.files : \A f \in ToSet(Tree.files[dir]) : \A import \in ToSet(f.imports) :
    \A root \in DOMAIN Tree.modules :
      LET base == Before(Tree.modules[root].name, "@")
      IN IsPrefix(base, DirPath(import.path)) => IsPrefix(Components(base), Components(DirPath(import.path)))
Begun == stack # <<>> /\ Len(stack) = 1 /\ Top.phase = "read"
Meant == OneNameOnePath /\ WholeComponents /\ Acyclic(Tree, task.dir)

\* What is loaded is what the directory means: each file reads the packages its
\* own imports name, from the nearest module in which they load, whatever was
\* tried and failed before, and each marked value says where it was declared.  The
\* stack is exhausted only by packages that import themselves.
LoadedAsMeant ==
  status # "running" /\ Meant =>
    LET meaning == Meaning(Tree, task.dir, task.file, task.package, task.version)
    IN CASE status = "ok" -> Unfolded(loaded.arena, loaded.root) = meaning
         [] status = "error" -> meaning = Fails
         [] status = "overflow" -> FALSE

\* A package that fails to load hands the arena back, and no package changes what
\* it imported: a node once allocated is there, as it was, until loading ends.
Arena == IF stack = <<>> THEN loaded.arena ELSE Top.arena
NodesAreKept == [][status' # "error" /\ status' # "overflow" => IsPrefix(Arena, Arena')]_vars

\* Loading ends, whatever fails and is tried in the next module: every step takes
\* the calls in progress down a well-founded order, in which an outer call weighs
\* more than all it makes, and of one call its imports more than their roots.
CallRank(k) ==
  IF k > Len(stack) THEN <<0, 0, 0>>
  ELSE IF stack[k].phase = "read" THEN <<2, 0, 0>>
  ELSE <<1, Len(stack[k].todo),
         IF stack[k].phase = "roots" THEN Len(stack[k].roots) ELSE Cardinality(DOMAIN Tree.modules) + 1>>
Rank == FlattenSeq([k \in 1..MaxStack |-> CallRank(k)])
LoadingEnds ==
  [][\E i \in DOMAIN Rank : Rank'[i] < Rank[i] /\ \A j \in 1..(i - 1) : Rank'[j] = Rank[j]]_vars

-----------------------------------------------------------------------------
(* The check before evaluation, of the file loaded *)

TaskFile == Tree.files[task.dir][IF task.file = 0 THEN 1 ELSE task.file]
Imported == [i \in DOMAIN TaskFile.imports |-> ImportedName(TaskFile.imports[i])]
TaskRoot == <<"struct", TaskFile.decls>>

\* The check accepts a little more than it says, never less: a file all of whose
\* lets, aliases and imports are read is not refused.
NeverRejectsValid ==
  Begun /\ AllRead(Imported, TaskFile.decls) /\ ~Misplaced(TaskRoot) /\ ~Clash(<<>>, TaskRoot) => Checked(TaskFile)

\* It accepts more only where a name is bound twice or read where it is not bound.
RejectsUnread ==
  LET names == BoundNames(TaskRoot)
  IN /\ Begun /\ Checked(TaskFile)
     /\ IsInjective(names \o Imported)
     /\ ~ReadAstray(ToSet(names), TaskFile.decls)
     => AllRead(Imported, TaskFile.decls)

\* Counting reads by name refuses no file all of whose names are read, and lets
\* one pass only where a name is bound twice or read where it is not bound.
CheckedAsRead == NeverRejectsValid /\ RejectsUnread
=============================================================================
