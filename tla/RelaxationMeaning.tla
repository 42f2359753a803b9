------------------------- MODULE RelaxationMeaning -------------------------
(***************************************************************************)
(* What the pass loop of Relaxation comes to: the fields mean what the     *)
(* declarations mean together, whatever their order.                       *)
(***************************************************************************)
EXTENDS Relaxation

\* No value nests deeper: an evaluation nests what it reads one level down, a pass
\* evaluates each declaration once, and a pass more is made for each declaration
\* settled and each refinement, and the final one.
Deepest == Len(Order) * (Len(Order) + MaxRefinementPasses + 1)

\* Something v holds, at any depth, may resolve later.
HoldsPending(v) == \E n \in 0 .. Deepest : \E w \in Level(v, n) : Pending(w)

\* v carries what w carries, as far as they are no structs, or more of it decided.
Decides(v, w) ==
  \/ w = Unbound
  \/ Pending(w) /\ v # Unbound
  \/ v.tag = "struct" /\ w.tag = "struct" /\ DOMAIN v.parts = DOMAIN w.parts
  \/ v = w

\* Two structs of the same fields that differ in one.
Alike(v, w) == v # w /\ v.tag = "struct" /\ w.tag = "struct" /\ DOMAIN v.parts = DOMAIN w.parts

PartPairs(v, w) == {<<v.parts[p], w.parts[p]>> : p \in DOMAIN w.parts}

\* The pairs of values that stand in one place, n levels down in v and in w, where
\* v and w differ above them.
PairsDown(v, w, n) ==
  LET pairs[i \in Nat] ==
        IF i = 0 THEN {<<v, w>>}
        ELSE UNION {PartPairs(x[1], x[2]) : x \in {y \in pairs[i - 1] : Alike(y[1], y[2])}}
  IN pairs[n]

\* v carries what w carries with more of it decided, or the same.
Extends(v, w) == \A n \in 0 .. Deepest : \A x \in PairsDown(v, w, n) : Decides(x[1], x[2])

(***************************************************************************)
(* What a program means, order aside: every declaration evaluated at once, *)
(* k times over, from nothing.                                             *)
(***************************************************************************)
Nothing == [d \in Decls |-> Incomplete]
EvaluateAll(p, env) == [d \in Decls |-> Evaluate(p, env, d)]

MeaningOf(p, k) ==
  LET m[i \in 0 .. k] == IF i = 0 THEN Nothing ELSE EvaluateAll(p, m[i - 1])
  IN m[k]

Meaning(k) == MeaningOf(program, k)

\* All is decided, and nothing lies deeper than the walk of is_unresolved_within looks.
Complete(m) ==
  \A d \in Decls : ~Unresolved(m[d]) /\ Level(m[d], MaxUnresolvedDepth) = {}

\* A loop that gives up on what it is still refining has made this many passes.
Allowed == MaxRefinementPasses + 1

SettlesAfter(k) ==
  mode = "done" /\ Complete(Meaning(k)) /\ (why = "spent" => k <= Allowed)
    => entry = Meaning(k)

(***************************************************************************)
(* A literal whose references resolve evaluates to its meaning, whatever   *)
(* the order of its declarations and whatever the enclosing scopes bind,   *)
(* if it needs no more rounds than the allowance or the loop has not spent *)
(* it: no transient bottom, partial value or outer binding survives in a   *)
(* field ("settling declarations order-independently").                    *)
(***************************************************************************)
SettlesToMeaning == \A k \in {Allowed, Allowed + 1} : SettlesAfter(k)

(***************************************************************************)
(* While the loop repeats, a name is only ever bound to more of the same   *)
(* value: a pass never takes back what another declaration may have read.  *)
(***************************************************************************)
BindingsOnlyGrow ==
  [][mode = "pass" /\ mode' = "pass" => \A d \in Decls : Extends(binds'[d], binds[d])]_vars

(***************************************************************************)
(* A field written before the final pass holds nothing that could still    *)
(* resolve: "a partial deeper than that walk's budget is judged resolved   *)
(* and written with a bottom buried inside it.  Eight leaves room for a    *)
(* cycle through four fields."                                             *)
(***************************************************************************)
NoBuriedPartial ==
  mode = "pass" => \A d \in Decls : entry[d] # Unbound => ~HoldsPending(entry[d])
=============================================================================
