# Verification of cue-rs

cue-rs evaluates CUE: a package is found and its files are parsed, their
declarations are evaluated into values, values meet by unification, and the
settled value is exported. These modules model the part of it that decides
*what a file means*: the grammar and the formatter that writes it back, the
package loader and the checks before evaluation, the value arena, the scopes,
the relaxation loop over a literal's declarations, the operators and the list
package, the re-derivation of merged structs and unification. Everything below
names the code by path and line under `src/crates/`; `ce` stands for
`cue-eval/src`.

- [1. The system](#1-the-system)
- [2. The modules](#2-the-modules)
- [3. What each run checks](#3-what-each-run-checks)
- [4. What is proved](#4-what-is-proved)
- [5. Where code and documentation part](#5-where-code-and-documentation-part)
- [6. What is not modelled](#6-what-is-not-modelled)
- [7. Plan](#7-plan)

Run a check with `tlc -config <cfg> <module>` and a proof with
`tlapm <module>.tla`, in this directory. `PROJECT.json` lists the runs, the
theorems, the lines each definition models and, for every property, a mutation
of a modelled definition that TLC finds to violate it.

## 1. The system

The evaluator is sequential. There are no threads, and nothing is persisted.
What makes it hard is *order inside one evaluation*: declarations may be
written in any order and must mean the same, a value may be read before it is
decided, values are shared and tried speculatively, and a merge may change what
an expression evaluated before it read.

| Component | State it keeps | Operations | Hard because |
|---|---|---|---|
| Value arena (`ce/value.rs` 780-1220) | nodes, sparse metadata, allocation trail, scope depth, weak ids of the shared booleans, text index | allocate, annotate, intern, replace or take in place, speculate, commit, roll back | a node removed by a rollback may be in a cache, in metadata or in another payload; scopes nest |
| Scope frames (`ce/scope.rs`, `ce/eval.rs` 150-200) | a stack of copy-on-write maps; captures of them kept by thunks and recipes | push, pop, insert, remove, capture, derive a frame from a capture | a frame and its captures share storage until a write, and a view of the two is cached |
| Relaxation loop (`ce/relaxation.rs` 100-400, 560-720, `ce/schedule/mod.rs`) | pending declarations, pass counters, the literal's scope and its struct | attempt, defer, keep a partial value, refine, final pass | reads see whatever earlier declarations and passes left |
| Re-derivation (`ce/relaxation.rs` 1180-2290, `ce/schedule/order.rs`) | moved names, derivation order, the struct's fields with their recipes, comprehensions with what they last generated | seed, sweep, descend, rerun, retract, adopt | three kinds of step feed each other until nothing moves |
| Unification of scalars and bounds (`ce/unify.rs` 400-930, `ce/value.rs` 60-190) | none | unify two values | must not depend on order or grouping |
| Disjunctions (`ce/unify.rs` 1402-1585, `ce/eval.rs` 870-935, `ce/preference.rs`) | the arena's speculation scopes, default marks | evaluate, try every branch, keep survivors, join marks, settle | branches allocate and cache; marks meet pair by pair; a branch may have failed only for now |
| Structs, lists, validators (`ce/unify.rs` 90-400, 930-1400) | active pairs, depth | merge field maps, lists, patterns | recursion through cycles; three different limits |
| Closedness (`ce/closedness.rs`) | closed copies and their cache, admitted labels, vouchers | close, check, admit on credit | a copy outlives changes to its original |
| Comparison (`ce/unify.rs` 1866-1990) | a step budget | compare | three verdicts: equal, different, too large to say |
| Expressions (`ce/eval.rs`, `ce/operators.rs`, `ce/builtins.rs`) | an expression cache | evaluate, select, call | undecided operands must stay undecided |
| Package loader (`ce/package/`) | the evaluators of the loads in progress, the arena lent from one to the next, module roots, the table of imports | read and filter files, resolve an import root by root, evaluate, annotate origins | a root that fails after it allocated; a package reached by two ways; imports that come back |
| Reference check (`ce/references.rs`, `ce/preference.rs`) | names bound and read | accept or refuse a file | reads are counted by name across literals that shadow it |
| List package and signatures (`ce/stdlib/list.rs`, `ce/stdlib/signature.rs`) | none | judge the arguments, compute, judge the result | an argument that is not ready yet is no error |
| Parser (`cue-syntax/src/parser.rs`, `token.rs`) | position in the tokens, gap before each, depth | recursive descent, lookahead, comma insertion, literals | a label is told from an expression by what follows it; comments live between tokens |
| Formatter (`cue-syntax/src/formatter.rs`) | none | write a tree | the tree keeps no parentheses and no gaps: what is written must be read as the same tree |
| Export (`ce/export.rs`), importers (`ce/importer/`), the other standard packages | none | translate | data |
| Command line and conformance worker (`cue-cli/src/`) | a file; a worker process | format in place; run one case under a timeout, grade it | a second run; a timeout against a late answer |
| Test harness, WebAssembly, derive | none | wrappers | - |

How they interact. The *evaluator* owns one arena and one stack of scope
frames. Evaluating a struct literal opens a frame and hands the declarations to
the *relaxation loop*; each declaration is evaluated as an expression, which
reads names through the frames and may evaluate nested literals, hence nested
loops. A value is written to the struct by *unification* with what is there.
Unifying two structs joins their recipes; the evaluator then *re-derives* the
result, because unification met values that were computed before the merge.
Unifying a disjunction opens a *speculation scope* of the arena for each
branch, and unifies inside it. The *loader* runs an evaluator for each package:
it lends it the arena, takes the arena back with the package's root (or with an
error, and tries the next module root), and checks the references of each file
before the declarations are evaluated. What an operator says of operands that
are not decided is read by the relaxation loop, which evaluates again what may
still resolve and lets an error stand.

What makes each correct:

- arena: a rollback leaves exactly what the scope began with, whatever inner
  scopes did; no live node refers to a removed one; a text in the index is the
  text of a live node; shared nodes never carry one use's metadata.
- frames: a capture keeps the bindings it was taken with, and sees later writes
  to its frame as the code intends.
- relaxation: no declaration is dropped; the loop ends; the result is the
  meaning of the literal whatever its order; nothing transient survives.
- re-derivation: it ends where evaluating every recipe on the merged values
  would; a comprehension contributes what it generates *now* and nothing more.
- unification: meaning preserving, and the same in every order and grouping.
- operators: what is said of operands stays true of more specific ones.
- loader: what is loaded is what the directory means, and the arena comes back
  whole whatever failed; a valid file is never refused.
- parser and formatter: an expression is read as its author meant it, and what
  is written is read as what was written, once and for all.

The hazards section of `PROJECT.json` lists where each of these can go wrong,
at its line, with the property that watches it or the reason none does yet.

## 2. The modules

| Component | Modules | Abstract specification |
|---|---|---|
| Arena | `ValueArena`, `ValueArenaProofs`, `MCValueArena` | `TransactionalStore` |
| Frames | `ScopeFrames`, `ScopeFramesProofs`, `MCScopeFrames` | `LexicalFrames` |
| Relaxation | `PassLoop`, `PassLoopProofs`, `MCPassLoop`; `Relaxation`, `RelaxationMeaning`, `RelaxationProofs`, `MCRelaxation` | `PassLoop` for `Relaxation` |
| Re-derivation | `DerivationOrder`, `DerivationOrderProofs`, `MCDerivationOrder`; `Rederive`, `RederiveProofs`, `MCRederive` | evaluation of every recipe on the merged values, inside `Rederive` |
| Scalar unification | `ScalarMeet`, `ScalarMeetProofs`, `MCScalarMeet` | what each constraint admits, inside `ScalarMeet` |
| Disjunctions | `Disjunction`, `DisjunctionProofs`, `MCDisjunction` | what each constraint admits and prefers, inside `Disjunction` |
| Operators, calls, list package | `Operators`, `Lists`, `Builtins`, `Operands`, `MCOperands` | laws of what the operators compute, inside `Operands` |
| Loader, reference check | `References`, `Packages`, `PackageLoader`, `MCPackageLoader` | the meaning of a directory, inside `PackageLoader` |
| Parser, formatter, `cue fmt` | `Syntax`, `Formatter`, `StringLiterals`, `FmtCommand`, `MCFmtCommand` | the tree an author means, given with the text by `MCFmtCommand` |

Operators and actions whose comment begins with "Fault:" or "Mutant:" are
plausible mistakes in the code. No specification uses them; each takes the place of the definition
it is a variant of in a mutation check.

### ValueArena and TransactionalStore

A payload is what the arena itself looks at: its variant, the text of a string
or the truth of a boolean, and the nodes it refers to. Ids come from a counter,
as slotmap keys are never handed out twice. There is an action for every
operation that changes the arena: `Alloc`, `AllocWithMetadata`, `AllocLike`,
`BoolOf` and `StringOf` on a cache miss, `Mutate` in place, `Speculate`, `CommitSpeculation`, `Rollback`. The checkpoints callers
hold on their call stack are the variable `open`; unify.rs closes each scope
once, in order. `Mutate` itself asks for nothing, as `get_mut` does. Its callers are
in the evaluator (ce/relaxation.rs 660, ce/package/annotate.rs 21), and the function
that tries branches has the arena but no evaluator to call, so `Spec` lets them run
only while no scope is open (`EvaluatorRuns`). This is an assumption about the
callers: a fill inside a scope would not be undone and could refer to nodes that are,
so `NoDanglingReference` and `ImplementsTransactionalStore` rest on it and cannot
show it. `AnyCaller` drops it: the text index and the shared booleans stay sound there
too, which is proved (section 4).

`TransactionalStore` is what the arena promises: a store and a stack of
snapshots. Begin pushes the store, commit forgets the top snapshot, rollback
restores it. The refinement mapping computes each snapshot from the trail: the
nodes without those allocated since the checkpoint.

### ScopeFrames and LexicalFrames

The heap is explicit: `Rc<Bindings>` is an address, `Rc::make_mut` writes in
place exactly when no other handle holds the address, and otherwise copies.
A frame and its captures share one `Later`: the map at the first capture, the
writes since, and a cached view. `eval_decls_scoped` clones the scopes of a
literal with dynamic labels and puts them back, which is in the model too.
`LexicalFrames` has no storage: a frame is a function, a capture is a copy.

### PassLoop and Relaxation

`PassLoop` is the control of `eval_decls_scoped`, with nothing said of what
declarations compute: an attempt settles a declaration or defers it, perhaps
bound to more than before; passes repeat while something settles, then up to
`MAX_REFINEMENT_PASSES` times while something was refined, then one final pass
accepts what is left. The condition of the loop and its bound
(`decls.len() + 3 + refinements`) are the code's.

`Relaxation` is that loop with values. A field is an expression or a nested
literal of expressions; an expression is a constant, a reference or a selection
through one. `Value` evaluates a declaration against the bindings as they
stand, with the code's own rules for a name read inside its own declaration
(a cycle), a name nobody computed yet (incomplete), and names found outside.
`UnresolvedWithin` is the walk with a budget that decides whether a value is
written or kept as a partial; it goes down level by level, a set of values at a
time (`Level`), where the code recurses. `RelaxationMeaning` holds what is said of
the values the loop ends with. `MeaningOf(p, k)` is what a literal means, order
aside: every declaration evaluated at once, k times over, from nothing.
`SettlesAfter(k)` says that a loop over a literal whose meaning is complete after
k rounds ends with it, in whatever order it met the declarations, unless it gave
up on its refinements before it made k passes. "One value extends another" goes
down pair by pair of parts, again level by level, so that none of it recurses
over a value and all of it can be reasoned about.

### DerivationOrder and Rederive

`DerivationOrder` is `schedule/order.rs`: counts of reads not placed yet, kept
by name, a stack of ready fields, cycles appended last.

`Rederive` is one merge `base & added` of a struct with comprehensions. A value
is a scalar and a nested field that reads it: enough for a nested recipe that
the merge leaves stale and `rederive_children` must derive again. The phases
are the code's: the literal's own evaluation, `unify_structs`, `seed_moved`,
then rounds of descent, sweep and reruns of comprehensions. A rerun compares
the decision with the last one; the same decision is adopted in place, another
is retracted and merged anew. `runs` numbers the runs because recipes are told
apart by identity in the code (`Rc::ptr_eq`), while equal constants that the
arena interns are not (`Shared`). A value too large to compare (`LargeSets`) is
written but never counts as moved: such a field, and what reads it directly, is
all that `SettledFieldsAreDerived` leaves out. `MergesFormed` says what a merge
is: identities of comprehensions are told apart, what one generates carries its
identity and what a literal declares carries none, a `let` holds no other
comprehension, and what a conjunct or a comprehension reads is a field of the
base.

### ScalarMeet

The state is the set of constraints still to be met; a step replaces any two by
their meet, so a behaviour is one order and grouping of the constraints.
`Meet` is `unify_logic` on types, concrete scalars and bounds, with
`unify_bounds`, `incompatible_range` and the demands bounds make of a base.
Numbers are counted in quarters, so that fractions lie between integers;
`Exact` stands for 2^53, beyond which a range end is rounded. Meaning is stated
apart from the code's rules: `Admits` says which values a constraint admits.
`GivenFormed` says which constraints may stand together. Those left out
(`Mixable`) are the ones whose result is known to depend on the grouping
(section 5): kinds that overlap without one holding the other, kinds with a
width beside bounds, and bounds on booleans beside anything but booleans.
`GivenDeclared` says how they are declared: finitely many, each bound by itself.

### Disjunction

One field's constraints meet in any order and grouping, as in `ScalarMeet`. An
alternative is the set of values it admits, so two of them meet by intersection
and conflict where it is empty; what is kept of the code is what it does *with*
alternatives. `Trials` and `Tried` are `unify_disjunction_inner`: every pair is
tried, a failure is dropped and remembered, a copy of a kept alternative is
absorbed (`PushBranch`), and what is left is settled (`SettleChoice`). `Mark`
is the default mark of a pair. `EvalChoice` is the disjunction expression with
its treatment of custom errors. A reference is pending or bound: `Retry` is the
loop's second pass over a result that still waits, `Write` the end of one that
does not. `waits` marks a list or a struct that holds the pending reference:
such a list fails where it meets another one, a struct keeps the field. A point
is a kind and one of `Contents`, so that values of two kinds never meet. `lost`
remembers that an alternative was dropped for the reference beside one that was
kept (`LosesPending`), which is where the code loses it (section 5).
`ProgramsFormed` limits a constraint to choices within one choice, and leaves
out a reference beside both an incomplete value and an error in one choice
(`Unmixed`; section 5).

### Operators, Lists, Builtins and Operands

`Operators` is `operators.rs` with the positions of `eval.rs` that call it:
what an operator, a bound, a selection, an index, a slice, an interpolation, a
comparison with bottom, a comprehension's guard, source or label makes of
evaluated operands. `Lists` is every function of the list package and
`Builtins` the top-level calls and the judging of a library call's arguments by
its signature. They are pure; a value is a tuple, a float an exact fraction
with the largest float as a constant, a string a sequence of characters.

`Operands` is what makes them matter. Its state is an operation, its operands
and what was made of them. `Resolve` lets a pass resolve a reference to
anything; `Merge` narrows an operand, or something in it, by what it admits.
After each the operation is applied anew, as the loop and the re-derivation do.
What was acted on before is the point: an error has collapsed the struct around
it, a guard has run its body.

### References, Packages and PackageLoader

`References` is the check of one file: misplaced preference marks, clashes of
an alias with a field, and names bound but not read, in the code's order.
`Packages` is what has no state: module roots, where an import path leads,
which files make a package, what the declarations evaluate to (as nodes of an
arena) and the annotation of origins. `PackageLoader` is the loading: `stack`
holds the calls in progress, each with its files, the imports left, the roots
left for the present one, and the arena while it has it. `ReadFiles`,
`ResolveImport`, `TryRoot`, `EndRoots` and `EvaluatePackage` are the code's
loop; `Resumed` is what a call does with the answer of the one it made. The
thread's stack has room for `MaxStack` calls.

`Meaning` says what a directory means apart from all this: no arena, no table,
each file with the packages its own imports name.

### Syntax, StringLiterals, Formatter and FmtCommand

A text is a sequence of tokens with the gaps that trivia leave between them
(space, line end, comment). `Syntax` is the parser: comma insertion, the
header, declarations, labels and aliases in both syntaxes, the ladder of
operators, postfix forms, comprehensions, the depth limit, and the comments and
blank lines it drains into the tree. One recursive operator, `Production`,
dispatches on the production, as mutual recursion in the code does through the
parser's methods. `Formatter` writes a tree as such a text: parentheses from
binding strengths, layout, forms of labels. `StringLiterals` goes down to
characters: where a literal ends, its escapes, dedent, interpolations, and the
form a value is written in. `FmtCommand` runs the two over one file: parse,
write back, parse again, write again.

## 3. What each run checks

| Run | Shows | Instance |
|---|---|---|
| `arena` | caches and references stay about live nodes, shared booleans stay bare, and the trail implements a stack of snapshots | 3 nodes, 2 nested scopes, 2 texts (symmetric), 1 reference per payload |
| `frames` | storage, log and cached view implement plain frames; no write reaches a capture's map | 6 addresses, 4 handles, one name bound or not |
| `passes` | nothing dropped, at most n passes and one per refinement, termination | 4 declarations, allowance 8 (the code's) |
| `relaxation` | a literal that resolves evaluates to its meaning, unless the loop spent its allowance first; bindings only grow; no partial is written; it is a `PassLoop` | every literal of two fields with up to two parts and of three fields with one, any outer bindings, one name pending outside; allowance 2 |
| `order` | every field once; readers after what they read | every struct of four fields in two sections |
| `rederive` | re-deriving what read a moved name ends where deriving everything would; comprehensions contribute what they generate now; the sweep cap is never what stops | four names, some nine thousand merges in every derivation order |
| `scalars` | every order and grouping gives the same value, which admits what all the constraints admit | any three of forty constraints, and up to five on numbers |
| `disjunction` | in every order and grouping a field's disjunctions leave what they all admit, prefer what they prefer together, and hold no copy | up to three constraints with up to three alternatives, nesting of one level, errors, one reference |
| `disjunction_pending` | the divergence of section 5 | one conjunction |
| `operands` | what was an error stays one and what was a value stays that value when operands become more specific; operands that are data decide; division, comparison, equality, sorting and the rearranging functions keep their laws | every operation over some forty-five values of every kind, eleven values to be supplied |
| `package_loader` | what is loaded is what the directory means; the arena comes back whole; loading ends; the reference check refuses no valid file and accepts what it says | three families of trees: nested modules with failing, cyclic and diamond imports, two files of one package, single files |
| `fmt` | an expression is read as meant; what is written is read as the same tree, without a pair of parentheses too many, each comment once, each literal with its value; a second run changes nothing | some 48 000 files |

### Why the bounds are enough

*arena.* Three nodes are one before, one in an outer scope and one in an inner
scope; with two scopes a commit inside a rollback and a rollback inside a commit
both happen. One reference per payload suffices for a dangling one. The theorems
of section 4 hold without these bounds. The node bound stops the model, so
deadlock is not checked.

*frames.* Six addresses are what four handles can hold at once: a frame's map, a
capture's, and the base and view of a Later. With one name and one value a
stale view differs from a fresh one by the name being bound. Handles are never
given back, so the model stops at the bound; deadlock is not checked.

*passes.* The counting argument of section 4 does not depend on the number; four
declarations let settling, deferring and refining alternate.

*relaxation.* `MaxUnresolvedDepth` is 16 rather than 64, which makes the
allowance 2 rather than 8: small literals can spend it, which with 8 they could
not. Two fields of two parts are the smallest literals in which parts of
different fields read each other; three fields the smallest with a chain.
`SettlesToMeaning` looks at 3 and 4 rounds: what a loop that spent the allowance
has certainly passed, and one more, which literals of the instance do need; the
theorem is about any number. Nesting is one level, so the budget of the walk never
runs out here; what happens when it does is in section 5.

*order, rederive.* Four names make a chain of three reads, a cycle with a reader
hanging off it, and two comprehensions of which one generates what the other
reads. `MaxPasses` bounds the literal's own evaluation and `MaxSweeps` is the
code's cap; the run shows the cap is never reached. Two
constants are interned (`MCShared`), as declarations and as what comprehensions
generate. The merges leave out the two families in which the code is known to
differ: an interned constant beside an equal one that is generated, and a nested
comprehension whose outer one stops holding after the inner ran again (both in
section 5).

*scalars.* A conflict wrongly raised or missed needs one candidate and two
constraints, or three constraints; ends are taken at and between two integers,
inclusive and exclusive, which is where ranges touch. Sized kinds meet kinds and
values here, not bounds: there the result depends on the grouping (section 5).

*disjunction.* Marks need three constraints to depend on the grouping, and two
values for a preferred one and another; absorbing needs two copies with
different marks, which two copies of three alternatives give. The set of values
whose comparison runs out of budget is one of the three, so a copy that is told
and one that is not stand side by side. Alternatives that wait, alternatives
that fail for good and custom errors are combined in pairs.
`AlternativesKept` and `PreferenceKept` exclude behaviours with `lost`, and
`PreferenceKept` those in which no value is preferred by every constraint; the
instance mixes no incomplete builtin with a pending reference under a custom
error (section 5).

*operands.* Every operator is applied to every pair of some forty-five values:
numbers around zero and beyond the largest float (8 here), two strings, bytes
that are no UTF-8, types, bounds, choices with and without a default, every
kind of bottom, validators, lists and structs open, closed, partly concrete.
One operand that becomes more specific twice is enough to see an answer that
was taken too early. `list.Repeat` is bounded by 4 so that its limit is met,
and the functions on whole lists get every list of up to three elements out of
nine. `TooEarly` names where the code does decide early, and those are left out
of `ErrorsAreFinal` and `ValuesAreFinal` (section 5).

*package_loader.* Two nested modules are the fewest in which an import may fail
in the first root and load from the second; three packages make a diamond and a
cycle. Two files show what one of them lends the other: an alias, a version, a
package name. Literals of two declarations in one of eight holders give every
way a name can shadow another. `MaxStack` is 4 where the longest chain without
a cycle is 3, so only a cycle exhausts it. `LoadedAsMeant` leaves out the three
cases of section 5. `LoadingEnds` needs no fairness: it says that each step
takes the stack down a well-founded order.

*fmt.* Every text of three tokens out of twenty-odd, and of four out of nine,
so that nothing depends on the author being sensible; every expression two
operators deep, over operators of each kind, with all parentheses, and every
chain of three operators with none, where the strengths alone decide; every
combination of a label, an alias, a marker and a kind of value; pairs of
declarations with every kind of gap between them; every header with every kind
of comment; nesting of parentheses to the depth limit (8 here) and past it;
every literal of four characters in every form, and interpolations holding
literals. The tokenizer cuts identifiers and numbers out of characters, which
is left out; where a literal ends is modelled.

### Fairness

Only the termination of the pass loop needs any. `FairSpec` is weak fairness of the
whole step, `WF_vars(Step)`: the loop is sequential code that nothing stops
between two steps. Which declaration an attempt reaches, and what it computes,
is left open, so no outcome is assumed fair. All other runs check safety, of
specifications that include every step.

## 4. What is proved

`ValueArenaProofs` proves, for any numbers of nodes, scopes, texts and
references:

| Theorem | States |
|---|---|
| `Typed` | `Spec => []TypeOK` |
| `IndexSound` | `Spec => []StringIndexSound` |
| `ReferencesLive` | `Spec => []NoDanglingReference` |
| `SharedBare` | `Spec => []SharedBooleansUnannotated` |
| `CachesSoundForAnyCaller` | `AnyCaller => [](StringIndexSound /\ SharedBooleansUnannotated)` |
| `Transactional` | `Spec => ImplementsTransactionalStore` |

from the assumptions that `NoText` is no text or boolean, `NoId` no id, and the
bounds are naturals. None of the invariants is inductive by itself. Rolling
back to a checkpoint leaves references intact only if whatever refers to a
removed node was removed too, so the inductive invariant `IInv` says that the
set of nodes live at *each* open checkpoint is closed under references
(`ScopesClosed`) as the present one is (`ClosedUnder`), that checkpoints are
ordered prefixes of a trail without repetitions (`OpenOrdered`,
`TrailDistinct`), and that nodes shared through a cache are unannotated
(`CachedUnannotated`). All but the closures (`Sound`) every caller keeps, those too
that mutate nodes while a scope is open. The refinement then needs two lemmas: allocation leaves
every snapshot as it was, since the new node is past every checkpoint; and
popping the trail to a checkpoint yields the snapshot.

`ScopeFramesProofs` proves, for any names, values, addresses and number of
handles:

| Theorem | States |
|---|---|
| `CapturesUnmoved` | `Spec => CapturesKeepTheirBindings` |
| `Lexical` | `Spec => ImplementsLexicalFrames` |

from the assumptions that `Unbound`, `Kept` and `None` are neither values nor
addresses, that there is an address, and that the bound is a natural. That an
address held by a capture, a `Later` or a scope set aside is never written
(`Rc::make_mut` writes in place only for a sole holder) gives the first theorem
at once. The second needs to know what a captured frame binds now, which the
code reads off the log of writes and never off the frame. The inductive
invariant `IInv` says that each `Later` belongs to one frame (`OwnLater`), so
that nobody else writes its log; that a cached view equals what building it
anew would give (`ViewCurrent`); that the log applied to the first capture's map
is what the frame binds (`LogFollows`); and that until the first write everybody
still holds that map (`UnwrittenAtBase`), which is why the code may hand it out
unchanged. The last two hold only for literals without dynamic labels: putting
scopes back leaves a frame older than its log, which is intended, as the log is
what captures are derived from. So the refinement speaks of literals without
dynamic labels, and `CapturesUnmoved` of all.

`PassLoopProofs` proves, for any finite set of declarations and any allowance:

| Theorem | States |
|---|---|
| `Partitioned` | `Spec => []TypeOK`: waiting, deferred and settled declarations partition the literal |
| `NothingDropped` | `Spec => []NoDeclarationDropped` |
| `BoundedPasses` | `Spec => []PassesBounded` |

The argument counts: every pass but the first follows one that settled a
declaration or one that spent a refinement, so
`iteration + (1 if this pass has settled nothing yet) <= 1 + refinements + |settled|`, as the
invariant `Accounted` says. Were the loop to leave through its bound,
`iteration` would be `n + 3 + refinements` with fewer than n settled, which
contradicts it. So the bound in the code never cuts a literal short, which the
code relies on without a check.

`DerivationOrderProofs` proves, for any structs, cycles included:

| Theorem | States |
|---|---|
| `OnceEach` | `Spec => []EachFieldOnce` |
| `ReadersLast` | `Spec => []ReadersAfterWhatTheyRead` |

from `StructsTyped`. The code keeps counts and never looks at the order again;
the invariant ties the counts to it. Where names are distinct, `pending[i]` is
the number of names field i reads whose fields are not placed (`Counted`), and
the stack holds exactly the fields not placed that wait for nothing
(`ReadyWaitNot`, `WaitNotReady`). So what is placed follows what it reads
(`Followed`), and when the stack runs dry what is left waits for something left:
a set in which every field waits for another of it is a cycle, and without one
nothing is left for the code to append. Sorting the rest and counting off use
`SelectSeq` and folds, whose values come from lemmas about sets of indices.

`RelaxationProofs` proves, for any literal, any order of its declarations and
any allowance:

| Theorem | States |
|---|---|
| `RunsPassLoop` | `Spec => ImplementsPassLoop` |
| `EachWritten` | no field is missing and passes are bounded, whatever values come out: the theorems about `PassLoop`, carried over by the refinement |
| `OnlyGrow` | `Spec => BindingsOnlyGrow` |
| `OrderIndependent` | `Spec => [](SettlesToMeaning /\ \A n \in Nat : SettlesAfter(n))` |
| `NestingIsBounded` | `Spec => []NoneDeeper`: no value nests deeper than `Deepest` levels |
| `NothingBuried` | `Spec => [](FewEnough => NoBuriedPartial)` |

from `DeclaredOnce`, `ProgramsFormed` and `DepthIsNat`. Each attempt is a
`Settle` or a `Defer` of `PassLoop` because the two lists have no member twice
or in common (`Listed`) and because what is written is never the mark of a name
not bound, which is how a settled declaration is told from another. The latter
is about values of any depth, and an induction over values is one the prover
cannot make; the invariant says instead that there is *some* stock of values,
closed under parts and without the mark, that all bindings come from
(`BindsWhole`). Whatever an evaluation makes of such a stock can be added to it.

`OnlyGrow` and `OrderIndependent` rest on an order of values: w carries what v carries with more of
it decided. It is stated the same way: `Above(v, w)` where *some* set of pairs
(`Compared`) holds this pair and, with any pair of structs, the pairs of their
parts. Evaluation is monotone in it (`EvaluateAbove`): a set of pairs for the
bindings gives one for the results. So within a pass each declaration comes out
above what the pass before made of it, which with the bounds the invariant keeps
between passes (`Growing`, `Kept`) gives `OnlyGrow`; that the pairs a level down are
in the set (`PairsAre`) turns the order into the property's words.

For `OrderIndependent` the bindings are held between two rows of the same table
(`Nears`): after n passes they lie above `Meaning(n)`, whatever the order, because a
pass evaluates each declaration against bindings that have at least passed n - 1
rounds; and they lie below `Meaning(k)` for every k at which it is complete, because
such a meaning is a fixed point. A loop that ends finds in its last pass that
nothing it kept back is decided further (`NothingLeft`), so what it ends with is a
fixed point too and lies above every `Meaning(n)`, by induction on n (`Upward`, from
the least counterexample); where it gave up on its refinements it has made
`Allowed` passes, hence k. Between the meaning and the meaning there is only the
meaning, since nothing in it is pending (`CompleteAbove`). Names the enclosing
scopes bind do not tell: a name the literal declares is hidden until the final
pass. `Complete` asks that the meaning is no deeper than the walk of
`is_unresolved_within` looks. That loses nothing for short derivations: a meaning
reached in fewer rounds than `MaxUnresolvedDepth` is never deeper
(`MeaningFits`).

`NothingBuried` is about how deep values get. An evaluation nests what it reads one
level more, a pass evaluates each of the n declarations at most once, and the passes
are bounded (`EachWritten`), so values nest at most as deep as evaluations have been
made (`Bounded`, by what `Evaluations` counts in the middle of a pass too); that is
`NestingIsBounded`. A field is written before the final pass only if the walk of
`is_unresolved_within` finds nothing in it (`WrittenResolved`), and where the walk's
budget is more than n * (n + `MaxRefinementPasses`) it has seen all of the value
(`FewEnough`). With the code's 8 and 64 that is every literal of up to four fields,
4 * 12 < 64 <= 5 * 13, as the comment on the allowance has it for cycles
(ce/relaxation.rs 34, "Eight leaves room for a cycle through four fields"); in the
run it is 3 * 5 < 16. Both are about literals as `Programs` has them, whose fields
nest what they read one struct deep: a field written `{a: {b: x}}` nests two levels
with each evaluation, and then the same budget serves half as many. Beyond
`FewEnough` there is no law (section 5).

`RederiveProofs` proves, for any fields and merges, any order of declarations and
any choice of values too large to compare,

| Theorem | States |
|---|---|
| `DerivedWhereSettled` | `Spec => []SettledFieldsAreDerived`: deriving again only what reads a name that moved ends where deriving everything would |
| `GeneratedWhereFlat` | `Spec => [](Flat(merge) => GeneratedAsDecided)`: making again only the runs that read a name that moved ends with what making them all would generate, and with nothing generated before |

from `MergesFormed`. The invariant behind the first says at
each point of the loop which fields may be out of date: all are current but
those that read a name still to be looked at (`Following`), where current means
equal up to a merged value below the field that the descent has yet to reach
(`Alike`, `Descended`). Inside a sweep this holds of the fields whose turn is
over (`Swept`), and the derivation order has a turn for every field (`Covers`).
A rerun that generates otherwise marks what it retracts and what it generates as
moved, so that it disturbs nobody who will not be asked again. How many sweeps
are made does not matter: at the cap as at the end, what moved last is handed to
the next round.

The second has an invariant of two parts (`Decides`). The fields hold what the
literals declare and what the runs in the list generated, and each comprehension
has one run there (`Contents`); and a run is what a rerun would make now unless
it reads a name still to be looked at or too large to compare (`Asked`). The
first part says that retracting takes back what the run contributed and nothing
else (`TakenBack`), that adopting puts the new conjuncts in the place of the old
(`ReplaceIs`, `InPlaceIs`), and that a rerun that comes to the same decision
leaves a run that is up to date; while a sweep goes on, a run it has looked at
waits for later moves only. Both hypotheses of `Flat` are needed: it asks that no
comprehension stands in another's body, and that one which may generate an
interned literal has no other such literal in its field, declared or generated.
Where either fails the code can differ (section 5). The merges of the run that
have no nested comprehension are flat.

`ScalarMeetProofs` proves

| Theorem | States |
|---|---|
| `ConflictIffNothingBetween` | `IncompatibleGroup`, the check `incompatible_range` makes, holds exactly where no number meets the bounds, and under an integer base exactly where no integer does |
| `Meaning` | `Spec => []MeaningKept`: whatever is given, met in whatever order and grouping, what is left admits exactly what each constraint admits |
| `OrderIrrelevant` | `Spec => []OneResult`: every order and grouping ends in the same value |

The first holds for any set of bounds by order or equality. It assumes that
every end has an f64 of its own (at most `Exact`) and, as numbers are counted in
quarters, that ends are integers or halves, so that a number lies between any
two. Only the strongest end of each side counts (`StrongestSuffice`, which needs
that a set of bounded ends has one), and snapping the ends to integers keeps the
integers between them (`SnappedDown`, `SnappedUp`). The second assumes
`GivenFormed` only. The invariant adds to the property that the operands are
values made of the kinds and bounds given (`Formed`), which meeting preserves;
then one lemma for each pair of shapes says that a meet admits what both admit.
The step that matters is that no conflict is reported around a value that meets
the bounds: of the two directions of the first theorem the one that needs no
number between the ends.

The third assumes `GivenDeclared` besides, since a value that holds clashing
bounds no check has seen would be refused in some groupings only. It needs to
say what a *set* of constraints comes to (`Stands`): a concrete value or a
conflict if one of them is a value, and which of the two the second theorem
decides; otherwise a conflict if any kinds or bounds clash (`Clash`), or the
kind that narrows all others with all the bounds. What two sets come to meets in
what their union comes to (`StandsMeet`). For this a conflict, once found, has
to stay one among more constraints (`ClashMonotone`), the narrowest kind alone
has to demand what all kinds given demand (`CheckedComes`), and kinds have to
form a tree (`KindsTree`). The invariant `Covered` then says that each operand
is what some of the constraints come to, and that none is missing.

`DisjunctionProofs` proves, for any constraints, with any alternatives, contents
and marks, met in any order and grouping, with one reference bound when it may
be:

| Theorem | States |
|---|---|
| `AlternativesStay` | `Spec => []AlternativesKept` |
| `PreferenceStays` | `Spec => []PreferenceKept`, where no choice inside an alternative has marks |
| `CopiesAbsorbed` | `Spec => []NoCopies` |

from `ProgramsFormed`. The property is about what is written, and a value on the
way there may wait. Such a value surely admits some points and may come to admit
others: `Says(v, prefer, sure)` is the points it admits, or prefers, in the
strictest and in the most generous reading. The invariant (`Between`) is that
what the constraints mean together, once the name is bound, lies between what
all values left are sure of and what each may come to. A value without anything
that waits says the same in both readings, which gives the property where it is
written. That meeting keeps the invariant follows the code: a trial counts where
both its branches do, a failure that is final says nothing, absorbing joins two
branches that say the same, and settling says what the branches said; only the
pending failure that is dropped beside a kept branch takes something away, and
that is `lost`. That the second pass keeps it needs that an expression evaluated
before the name is bound settles to what it is after. Preference needs choices
inside alternatives to be unmarked because an inner mark comes to light only
when its alternative is the last, so that the grouping tells (section 5); the
instance of the run is so.

Only model-checked, and why:

- Termination (`Terminates`, `LoadingEnds`): liveness under fairness, and the
  rank of the loader's stack is a number computed recursively.
- `NoBuriedPartial` of more declarations than `FewEnough` allows: no law. A value
  deeper than the walk's budget counts as resolved (section 5).
- `GeneratedAsDecided` of nested comprehensions, and `SettlesWithoutCap`: false
  for merges in general. A rerun inside a comprehension that then stops holding
  breaks the first (section 5), and a cycle of comprehensions can reach the cap.
  The instance says for which they hold.
- The operators, the loader, the parser and the formatter: recursion over
  values, trees and texts.

## 5. Where code and documentation part

`disjunction_pending` - in `x: (*a | 1) & int, a: 2` the alternative that waits
for `a` is dropped in the first pass, the one that survives settles the
disjunction, and `x` stays 1 (ce/unify.rs 1512; the comment at 1531 says a
branch that only waits has not failed).

Seen while reading, or met by a run that now leaves the case out.

*Relaxation and re-derivation.* When the allowance is spent the loop removes the
bindings of pending names, the reservations that hide outer bindings among
them: in `a: 5, b: {a: {n: a}}` the final pass reads the outer `a`
(ce/relaxation.rs 262; the comment at 135-136 says it must not). Recipes are
compared by value id where they hold a constant, and equal strings and booleans
share an id, so retracting `if b {t: "x"}` also removes `t: "x"` declared beside
it (ce/value.rs 501; the comment at 493). The first run of a literal with
dynamic labels is abandoned, but what it wrote stays in the `Later` its captures
share (ce/scope.rs 74-76, ce/relaxation.rs 331). A value too large to compare is
written but does not count as moved (ce/relaxation.rs 1388). A chain of selections near the allowance resolves with its
declarations in one order and not in the other (ce/relaxation.rs 248); a
retraction removes the recipes the retracted run recorded, and an inner
comprehension that reran since is not among them, so in `{g: bool | *true, h:
bool | *false, if g {if h {t: 1}}} & {g: false, h: true}` `t` stays
(ce/relaxation.rs 2217, ce/value.rs 428). A partial deeper than the walk's
budget is written with a bottom inside (ce/relaxation.rs 193, ce/value.rs 980).
A quoted `"#e"` beside `#e` is counted off twice in the derivation order
(ce/schedule/order.rs 66).

*Disjunctions.* Marks that exclude
each other are forgotten by the pair that met, so `(*1 | 2) & (1 | *2) & (*1 |
2)` depends on its grouping; the mark of a choice inside a marked alternative is
lost where the pair meets an unmarked disjunction (`(*(*1 | 2) | 3) & (1 | 2 |
3)`), and one inside an unmarked alternative counts only once the choice has met
another; `(1 & 2) | 3` keeps the failed alternative (ce/eval.rs 889-893);
`error("m") | or([]) | a` folds to the incomplete alternative and is not tried
again when `a` is known, though the comment at ce/eval.rs 907-912 says it stays
retryable.

*Unification and the arena.* `uint16 & >1024 & 8080` is an error while `uint16 &
(>1024 & 8080)` is 8080 (ce/unify.rs 757; CUE_RUST_LEARNINGS.md 59 gives the
conjunction as an example). A boolean candidate is not checked against the base
of bounds it meets, so `int & !=false & true` is `true` (ce/unify.rs 930). Two
sized kinds conflict even where one holds the other (ce/value.rs 95-103). Range
ends are rounded to doubles (ce/unify.rs 452). A bytes candidate conflicts with
any bytes bound and a string passes one (ce/unify.rs 848-928). The trail grows
with every allocation made outside a scope until some scope closes (ce/value.rs
917, against 816-818).

*Operators and calls,* left out by `TooEarly` and the like in `Operands`. A
selection or slice of an operand that is no value yet is a final error
(ce/operators.rs 706), where an index waits; so is
`or`, `close` or `error` of one, and `div`, `mod`, `quo`, `rem` of a reference
that comes back, of top or of a validator; a validator under an operator or in
an interpolation is a definite error. `x == _|_` takes an incomplete bottom for
an error. A library function without a signature is not judged at all;
`list.Contains` and `list.IsSorted` decide over elements that are not concrete;
`list.Min`, `Max` and `SortStrings` of a list of the wrong kind return a value,
though ce/stdlib/signature.rs 10-11 says that kind is an error. A bound whose
target is concrete and of the wrong kind is incomplete and not an error.
`list.Distinct` tells lists and structs apart by their nodes. Sorting elements
of two kinds uses a comparison that is no order, and `list.Sum`, `Product` and
`Avg` do not look at the range of a float (ce/stdlib/list.rs 460). `Bytes *
Int` passes the check of kinds and has no case.

*Loading.* The files of a package share one table of imports, so that of two
files that bind one name to two packages the last one wins. A module's name is
taken off an import path as a string: `ma` in module `m` is its directory `a`.
A `module.cue` that cannot be read is skipped, and an outer module answers. A
qualifier that matches no file of a directory makes every file of it the
package; a file of another package that does not parse fails the load. Packages
that import each other recurse until the stack is gone (ce/package/mod.rs 225).
There is no table of packages loaded, so that a package is loaded once for every
way to it: exponentially in a ladder of diamonds. Imports are looked up before
local names in a selection; one that resolves nowhere leaves its name bound to
nothing. A package's own root is never annotated; an optional `originDir` counts
as one not set. `ModuleManifest::init` overwrites, and what it writes is not
escaped. A pattern's alias counts as read where something outside its value
reads the name.

*Parser and formatter.* Not read back as it was: a list over several lines that
ends with a bare `...` (it no longer parses); an alias whose `=` stands against
the operator that opens its value (`[K= =~"a"]`); a keyword in parentheses used
as an identifier (`(if)`, written without them). A comment below an attribute of
the file and above `package` is lost. A raw literal whose value is `"` or begins
with `""` is written `#"""#`, which opens a block. An inline struct with a
comment on a line of its own is laid out against the comment of
`fits_on_a_line`. An `<-` is written with a pair of parentheses that may exceed
the depth limit, and the recursion of unary operators is not counted by it. A
list, call or import group that is still open where the file ends is accepted;
`a!:` is accepted and written back `a?:`. `cue fmt --write` truncates the file
and then writes it (cue-cli/src/cmd/fmt.rs 21): an interruption between the two
loses it.

## 6. What is not modelled

In modelled components: `Relaxation` leaves out repeated declarations of one
name, definitions, lets, comprehensions, embeddings and patterns; `Rederive`
leaves out definitions' closing groups, patterns, embedded scalars and deeper
nesting; `ScalarMeet` leaves out kinds of 32 and 64 bits (they differ in range
only), bounds on lists and structs, and validators; `Disjunction` leaves out
retained metadata, the depth and active-pair limits, and choices nested more
than one level. The budget of the unresolved walk is never exhausted by a
literal nested one level.

`Operands` leaves out how names are read (that is `Relaxation`), number and
string literals, the rounding of floats, and what a comprehension iterates.
`Packages` reduces what declarations evaluate to to what imports and origins can
tell apart. The parser leaves out bytes literals, which are string literals with
octets, how numbers are spelled, the text of attributes and the wording of
errors; the formatter indentation and the alignment of columns.

Whole components, with the reason for each in `PROJECT.json`: export, importers,
the facade, and the packages of the standard library other than `list` are
translations of text or data without state; the test harness and the bindings
are wrappers. Struct and validator unification, closedness, comparison, the
order of a literal's lets and the conformance worker are in the plan.

Whether a value deep enough to reach the limits of unification without being
cyclic is reported as a cycle (ce/unify.rs 107), and whether a value shared by
two parents is graded once (cue-cli/src/conformance.rs 141), no property here
says.

## 7. Plan

Done: the arena, the frames, the pass loop and relaxation, the derivation order
and re-derivation, scalars, disjunctions, operators and calls, the loader, the
parser and the formatter. Next, in this order:

1. `Closedness`: literals that are closed, opened again and merged; what a
   pattern, an ellipsis or an embedding admits; the labels a comprehension may
   still declare, and the vouchers settled after it ran. What to check: a field
   is admitted if and only if every closed conjunct declares it with the
   decisions the comprehensions took in the end. Known already: `close({a: 1, c?:
   int}) & close({a: 1}) & {c: 1}` depends on its grouping, since the merged
   struct declares what either had declared (ce/closedness.rs 3-5).
2. `StructMeet`: field maps, active pairs and depth limits; that a cycle is
   reported only where there is one.
3. `Comparison`: three verdicts under a budget, against equality.
4. `LetOrder`: the dependency order of a literal's lets (ce/relaxation.rs 2288).
5. `ConformanceWorker`: timeout against answer.
6. In `Disjunction`, alternatives with retained metadata, and trials composed
   with the arena's scopes.

Theorems next: `NodesAreKept` and `LoadingEnds` of the loader, once its stack is
told apart from `Packages` and `References`, whose operators are RECURSIVE; and
that the trials of `Disjunction` leave the arena as they found it, on
`TransactionalStore`.
