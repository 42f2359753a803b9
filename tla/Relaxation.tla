----------------------------- MODULE Relaxation -----------------------------
(***************************************************************************)
(* The pass loop of crates/cue-eval/src/relaxation.rs with the values its  *)
(* declarations compute.  A literal declares fields; each is an expression *)
(* or a nested literal whose parts are expressions, and an expression is a *)
(* constant, a reference, or a selection through one.  Evaluating a        *)
(* declaration reads the bindings as they stand, so what it yields depends *)
(* on the order of the declarations and on what earlier passes left bound. *)
(*                                                                         *)
(* Merged declarations of one name, definitions, lets, comprehensions,     *)
(* embeddings and patterns are left out here.                              *)
(***************************************************************************)
EXTENDS Naturals, Sequences, FiniteSets

CONSTANTS
  Order,               \* the declared names, in source order
  External,            \* a name some enclosing literal has not computed yet
  Programs,            \* records [form, outer]: what is evaluated
  MaxUnresolvedDepth   \* MAX_UNRESOLVED_DEPTH

ASSUME DepthIsNat == MaxUnresolvedDepth \in Nat

VARIABLES
  program,      \* form: what each name declares; outer: names bound outside
  binds,        \* the literal's own scope frame
  entry,        \* the fields written into the struct
  before,       \* what the pending names were bound to when the pass began
  mode, todo, next, iteration, refinements, progress, refined,
  why           \* what sent the loop to its final pass

vars == <<program, binds, entry, before, mode, todo, next, iteration,
          refinements, progress, refined, why>>

MaxRefinementPasses == MaxUnresolvedDepth \div 8

Names(s) == {s[i] : i \in DOMAIN s}
Decls == Names(Order)

Once(s) == \A i, j \in DOMAIN s : s[i] = s[j] => i = j

\* The declarations of one name are one declaration here.
ASSUME DeclaredOnce == Order \in Seq(Decls) /\ Once(Order)

-----------------------------------------------------------------------------
(* Values. *)

Unbound == [tag |-> "unbound"]
Known(c) == [tag |-> "known", const |-> c]
Bottom(kind) == [tag |-> "bottom", kind |-> kind]
Struct(parts) == [tag |-> "struct", parts |-> parts]

Outer == Known("outer")
Incomplete == Bottom("unresolved")
Cycle == Bottom("cycle")

IsIncomplete(v) == v.tag = "bottom" /\ v.kind = "unresolved"

\* BottomKind::may_resolve_later.
MayResolveLater == {"unresolved", "notfound", "undefined"}

Pending(v) == v.tag = "bottom" /\ v.kind \in MayResolveLater
Parts(v) == IF v.tag = "struct" THEN {v.parts[p] : p \in DOMAIN v.parts} ELSE {}

(* Fault: only the value itself is looked at, not what it holds. *)
UnresolvedAtTop(v, depth) == Pending(v)

\* The values n levels down in v.
Level(v, n) ==
  LET level[i \in Nat] == IF i = 0 THEN {v} ELSE UNION {Parts(w) : w \in level[i - 1]}
  IN level[n]

\* Level by level what the walk of is_unresolved_within finds by descent.
UnresolvedWithin(v, depth) == \E i \in 0 .. depth - 1 : \E w \in Level(v, i) : Pending(w)

Unresolved(v) == UnresolvedWithin(v, MaxUnresolvedDepth)

-----------------------------------------------------------------------------
(* Expressions: [op |-> "const"], [op |-> "ref", to], [op |-> "sel", to, part]. *)

\* operators::select.
Select(v, p) ==
  IF v.tag = "bottom" THEN v
  ELSE IF v.tag # "struct" THEN Bottom("conflict")
  ELSE IF p \in DOMAIN v.parts THEN v.parts[p]
  ELSE Bottom("undefined")

\* A name read by the declaration of `field`, in the literal that declares it.
ReadOwn(env, field, name) ==
  IF name = External THEN Incomplete
  ELSE IF name = field /\ (env[name] = Unbound \/ IsIncomplete(env[name])) THEN Cycle
  ELSE IF env[name] = Unbound THEN Incomplete
  ELSE env[name]

\* Evaluator::lookup_binding, from a literal nested in this one.
Lookup(outer, env, name) ==
  IF name = External THEN Incomplete
  ELSE IF env[name] # Unbound THEN env[name]
  ELSE IF name \in outer THEN Outer
  ELSE Unbound

ReadNested(outer, env, name) ==
  IF Lookup(outer, env, name) = Unbound THEN Bottom("notfound") ELSE Lookup(outer, env, name)

\* What a program's declaration of d yields, read in an environment.
Evaluate(p, env, d) ==
  LET form == p.form[d]
      Eval(e, Read(_)) ==
        CASE e.op = "const" -> Known("const")
          [] e.op = "ref" -> Read(e.to)
          [] e.op = "sel" -> Select(Read(e.to), e.part)
      Own(name) == ReadOwn(env, d, name)
      Nested(name) == ReadNested(p.outer, env, name)
  IN IF form.literal
     THEN Struct([q \in DOMAIN form.parts |-> Eval(form.parts[q], Nested)])
     ELSE Eval(form.expr, Own)

Value(env, d) == Evaluate(program, env, d)

Exprs(form) ==
  IF form.literal THEN {form.parts[p] : p \in DOMAIN form.parts} ELSE {form.expr}

ASSUME ProgramsFormed ==
  \A p \in Programs, d \in Decls : \A e \in Exprs(p.form[d]) :
    e.op = "const" \/ (e.op \in {"ref", "sel"} /\ e.to \in Decls \cup {External})

Bound(name) == Lookup(program.outer, binds, name)

\* recipe_deps: the names a declaration reads.
Deps(d) == {e.to : e \in {x \in Exprs(program.form[d]) : x.op # "const"}}

(***************************************************************************)
(* waits_only_on_external: some dependency is pending outside the literal, *)
(* and none is unbound or bound to an undecided value inside it.           *)
(***************************************************************************)
WaitsOnlyOnExternal(d) ==
  /\ \A e \in Deps(d) :
       /\ Bound(e) # Unbound
       /\ IsIncomplete(Bound(e)) => e \notin Decls
  /\ \E e \in Deps(d) : IsIncomplete(Bound(e))

-----------------------------------------------------------------------------
(* The loop. *)

(* Fault: names an enclosing scope binds are not reserved. *)
UnreservedBindings(outer) == [d \in Decls |-> Unbound]

\* Names that shadow an outer binding are reserved with a pending value.
ReservedBindings(outer) == [d \in Decls |-> IF d \in outer THEN Incomplete ELSE Unbound]

Init ==
  /\ program \in Programs
  /\ binds = ReservedBindings(program.outer)
  /\ entry = [d \in Decls |-> Unbound]
  /\ before = binds
  /\ mode = IF Order = <<>> THEN "done" ELSE "pass"
  /\ todo = Order
  /\ next = <<>>
  /\ iteration = IF Order = <<>> THEN 0 ELSE 1
  /\ refinements = 0
  /\ progress = FALSE
  /\ refined = FALSE
  /\ why = "none"

\* unify_decl_field and the binding: the value becomes the field.
Write(d, v) ==
  /\ entry' = [entry EXCEPT ![d] = v]
  /\ binds' = [binds EXCEPT ![d] = v]

(* Fault: a field that cannot be written yet leaves its name as it was. *)
KeepNoPartial(d, v) == UNCHANGED <<entry, binds>>

\* Only the scope learns what this pass resolved; the field stays unwritten.
KeepPartial(d, v) ==
  /\ binds' = [binds EXCEPT ![d] = v]
  /\ UNCHANGED entry

\* refined_any, for the one name an attempt can rebind.
Refined(d, v) == v # before[d] /\ v # Cycle

Attempt ==
  /\ mode = "pass" /\ todo # <<>>
  /\ todo' = Tail(todo)
  /\ LET d == Head(todo)
         v == Value(binds, d)
     IN \/ /\ ~Unresolved(v)
           /\ Write(d, v)
           /\ progress' = TRUE
           /\ UNCHANGED <<next, refined>>
        \/ /\ Unresolved(v)
           /\ KeepPartial(d, v)
           /\ next' = Append(next, d)
           /\ refined' = (refined \/ Refined(d, v))
           /\ UNCHANGED progress
  /\ UNCHANGED <<program, before, mode, iteration, refinements, why>>

WithinBound(passes, refining) == passes < Len(Order) + 3 + refining

Repeat(refining) ==
  /\ refinements' = refining
  /\ \/ /\ next # <<>> /\ WithinBound(iteration, refining)
        /\ todo' = next /\ next' = <<>>
        /\ iteration' = iteration + 1
        /\ before' = binds
        /\ mode' = "pass"
     \/ /\ ~(next # <<>> /\ WithinBound(iteration, refining))
        /\ mode' = "done"
        /\ UNCHANGED <<todo, next, iteration, before>>
  /\ progress' = FALSE
  /\ refined' = FALSE
  /\ UNCHANGED <<program, binds, entry, why>>

PassOver == mode = "pass" /\ todo = <<>>

AllExternal == \A d \in Names(next) : WaitsOnlyOnExternal(d)

AfterProgress ==
  /\ PassOver /\ progress
  /\ Repeat(refinements)

(* Fault: a literal with nothing refined may still spend an allowance. *)
RefineRegardless ==
  /\ PassOver /\ ~progress
  /\ refinements <= MaxRefinementPasses
  /\ Repeat(refinements + 1)

Refine ==
  /\ PassOver /\ ~progress /\ refined
  /\ ~AllExternal
  /\ refinements < MaxRefinementPasses
  /\ Repeat(refinements + 1)

GoFinal ==
  /\ PassOver /\ ~progress
  /\ \/ /\ ~refined
        /\ why' = "saturated"
        /\ UNCHANGED binds
     \/ /\ refined /\ AllExternal
        /\ why' = "external"
        /\ UNCHANGED binds
     \/ /\ refined /\ ~AllExternal /\ refinements = MaxRefinementPasses
        /\ why' = "spent"
        /\ binds' = [d \in Decls |-> IF d \in Names(next) THEN Unbound ELSE binds[d]]
  /\ mode' = "final"
  /\ UNCHANGED <<program, entry, before, todo, next, iteration, refinements,
                 progress, refined>>

Accept ==
  /\ mode = "final" /\ next # <<>>
  /\ next' = Tail(next)
  /\ Write(Head(next), Value(binds, Head(next)))
  /\ UNCHANGED <<program, before, mode, todo, iteration, refinements, progress,
                 refined, why>>

Finish ==
  /\ mode = "final" /\ next = <<>>
  /\ mode' = "done"
  /\ UNCHANGED <<program, binds, entry, before, todo, next, iteration,
                 refinements, progress, refined, why>>

Ended == mode = "done" /\ UNCHANGED vars

Next ==
  \/ Attempt \/ AfterProgress \/ Refine \/ GoFinal \/ Accept \/ Finish
  \/ Ended

Spec == Init /\ [][Next]_vars

-----------------------------------------------------------------------------
(***************************************************************************)
(* The loop over values is a PassLoop: it drops no declaration and ends.   *)
(***************************************************************************)
Loop == INSTANCE PassLoop WITH
  todo <- Names(todo), next <- Names(next),
  settled <- {d \in Decls : entry[d] # Unbound}

ImplementsPassLoop == Loop!Spec
=============================================================================
