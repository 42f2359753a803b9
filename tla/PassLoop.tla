------------------------------ MODULE PassLoop ------------------------------
(***************************************************************************)
(* The pass loop of RelaxationLoop::eval_decls_scoped, whatever the        *)
(* declarations compute: an attempt at one either settles it or leaves it  *)
(* pending, perhaps bound to more than it was.  Passes repeat while they   *)
(* settle something; one that settles nothing may be followed by a bounded *)
(* number of refinement passes, and then by the final pass, which accepts  *)
(* whatever is left.  Any attempt may raise an error that ends the loop.   *)
(***************************************************************************)
EXTENDS Naturals, FiniteSets

CONSTANTS
  Decls,                \* the declarations of one literal
  MaxRefinementPasses   \* MAX_REFINEMENT_PASSES

ASSUME DeclsFinite == IsFiniteSet(Decls)
ASSUME AllowanceIsNat == MaxRefinementPasses \in Nat

VARIABLES
  mode,         \* "pass", "final", "done" or "failed"
  todo,         \* declarations this pass has still to attempt
  next,         \* next_pending: those it could not settle
  settled,      \* declarations evaluated and written
  iteration,    \* passes begun
  refinements,  \* refinement passes spent
  progress,     \* made_progress: this pass settled a declaration
  refined       \* refined_any: it bound a pending one to more than it was

vars == <<mode, todo, next, settled, iteration, refinements, progress, refined>>

N == Cardinality(Decls)

Init ==
  /\ mode = IF Decls = {} THEN "done" ELSE "pass"
  /\ todo = Decls
  /\ next = {}
  /\ settled = {}
  /\ iteration = IF Decls = {} THEN 0 ELSE 1
  /\ refinements = 0
  /\ progress = FALSE
  /\ refined = FALSE

(* Fault: a settled declaration is pushed on next_pending as well. *)
SettleAndDefer(d) ==
  /\ mode = "pass" /\ d \in todo
  /\ todo' = todo \ {d}
  /\ next' = next \cup {d}
  /\ settled' = settled \cup {d}
  /\ progress' = TRUE
  /\ UNCHANGED <<mode, iteration, refinements, refined>>

Settle(d) ==
  /\ mode = "pass" /\ d \in todo
  /\ todo' = todo \ {d}
  /\ settled' = settled \cup {d}
  /\ progress' = TRUE
  /\ UNCHANGED <<mode, next, iteration, refinements, refined>>

Defer(d) ==
  /\ mode = "pass" /\ d \in todo
  /\ todo' = todo \ {d}
  /\ next' = next \cup {d}
  /\ refined' \in {refined, TRUE}
  /\ UNCHANGED <<mode, settled, iteration, refinements, progress>>

(* Fault: the allowance of the loop's bound does not grow with refinements. *)
WithinBoundFixed(passes, refining) == passes < N + 3

\* The condition of the loop, after `passes` passes.
WithinBound(passes, refining) == passes < N + 3 + refining

\* Back to the loop's condition with the declarations left over.
Repeat(refining) ==
  /\ refinements' = refining
  /\ \/ /\ next # {} /\ WithinBound(iteration, refining)
        /\ todo' = next /\ next' = {}
        /\ iteration' = iteration + 1
        /\ mode' = "pass"
     \/ /\ ~(next # {} /\ WithinBound(iteration, refining))
        /\ mode' = "done"
        /\ UNCHANGED <<todo, next, iteration>>
  /\ progress' = FALSE
  /\ refined' = FALSE
  /\ UNCHANGED settled

PassOver == mode = "pass" /\ todo = {}

AfterProgress ==
  /\ PassOver /\ progress
  /\ Repeat(refinements)

(* Fault: a refinement pass starts without being counted. *)
RefineUncounted ==
  /\ PassOver /\ ~progress /\ refined
  /\ todo' = next /\ next' = {}
  /\ refined' = FALSE
  /\ UNCHANGED <<mode, settled, iteration, refinements, progress>>

(* Fault: the allowance is compared after it was spent. *)
RefineOnceMore ==
  /\ PassOver /\ ~progress /\ refined
  /\ refinements <= MaxRefinementPasses
  /\ Repeat(refinements + 1)

Refine ==
  /\ PassOver /\ ~progress /\ refined
  /\ refinements < MaxRefinementPasses
  /\ Repeat(refinements + 1)

\* Saturated, the allowance spent, or every wait is on an enclosing literal.
GoFinal ==
  /\ PassOver /\ ~progress
  /\ mode' = "final"
  /\ UNCHANGED <<todo, next, settled, iteration, refinements, progress, refined>>

Accept(d) ==
  /\ mode = "final" /\ d \in next
  /\ next' = next \ {d}
  /\ settled' = settled \cup {d}
  /\ UNCHANGED <<mode, todo, iteration, refinements, progress, refined>>

Finish ==
  /\ mode = "final" /\ next = {}
  /\ mode' = "done"
  /\ UNCHANGED <<todo, next, settled, iteration, refinements, progress, refined>>

\* An attempt, in a pass or in the final one, returns an EvalError.
Fail ==
  /\ \/ mode = "pass" /\ todo # {}
     \/ mode = "final" /\ next # {}
  /\ mode' = "failed"
  /\ UNCHANGED <<todo, next, settled, iteration, refinements, progress, refined>>

Ended == mode \in {"done", "failed"} /\ UNCHANGED vars

Step ==
  \/ \E d \in Decls : Settle(d) \/ Defer(d) \/ Accept(d)
  \/ AfterProgress \/ Refine \/ GoFinal \/ Finish \/ Fail

Next == Step \/ Ended

Spec == Init /\ [][Next]_vars

\* The loop is sequential code: nothing stops it between two steps.
FairSpec == Spec /\ WF_vars(Step)

-----------------------------------------------------------------------------
\* Types; a declaration is waiting, put off or settled, and never two of these.
TypeOK ==
  /\ mode \in {"pass", "final", "done", "failed"}
  /\ todo \in SUBSET Decls /\ next \in SUBSET Decls /\ settled \in SUBSET Decls
  /\ iteration \in Nat /\ refinements \in 0 .. MaxRefinementPasses
  /\ progress \in BOOLEAN /\ refined \in BOOLEAN
  /\ todo \cap next = {} /\ todo \cap settled = {} /\ next \cap settled = {}
  /\ todo \cup next \cup settled = Decls

(***************************************************************************)
(* The loop never leaves through its pass bound with declarations pending: *)
(* they would be missing from the struct without any error.  Nothing in    *)
(* the loop checks this; it follows from decls.len() + 3 + refinements.    *)
(***************************************************************************)
NoDeclarationDropped == mode = "done" => settled = Decls

(***************************************************************************)
(* A literal of n declarations is passed over at most n times and once     *)
(* more per refinement, so evaluation is at most quadratic in its size.    *)
(***************************************************************************)
PassesBounded == iteration <= N + MaxRefinementPasses

(***************************************************************************)
(* Whatever the declarations compute, the loop ends.                       *)
(***************************************************************************)
Terminates == <>(mode \in {"done", "failed"})
=============================================================================
