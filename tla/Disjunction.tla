---------------------------- MODULE Disjunction ----------------------------
(***************************************************************************)
(* Disjunctions in unify.rs and eval.rs: alternatives, some marked as the  *)
(* default, met pair by pair; a pair that fails is dropped, one equal to a *)
(* pair already kept is absorbed, and what is left is settled.             *)
(*                                                                         *)
(* A field's constraints meet in some order and grouping.  A reference may *)
(* be pending in the first pass; a result that still waits is evaluated    *)
(* again once the name is bound, and any other is written for good.        *)
(*                                                                         *)
(* An alternative is the set of values it admits; a struct or a list that  *)
(* holds the pending reference `waits`.  Choices nest one level.           *)
(***************************************************************************)
EXTENDS Naturals, Sequences, FiniteSets, SequencesExt

CONSTANTS
  Programs,  \* records [operands, target]: a field's constraints, and what
             \* the reference in them is bound to in the end
  Contents,  \* what values of one kind are told apart by
  TooLarge   \* sets of values whose alternatives exceed the comparison budget

VARIABLES
  program,
  ref,       \* "pending" or "bound": what reading the reference yields now
  operands,  \* the values still to be unified
  lost,      \* a pending alternative was dropped beside one that was kept
  mode       \* "evaluate", "meet", "done"

vars == <<program, ref, operands, lost, mode>>

-----------------------------------------------------------------------------
(* Values *)

Leaf(S) == [t |-> "leaf", set |-> S, waits |-> FALSE]
Holding(S) == [t |-> "leaf", set |-> S, waits |-> TRUE]
Bottom(kind) == [t |-> "bottom", kind |-> kind, custom |-> FALSE]
Custom == [t |-> "bottom", kind |-> "custom", custom |-> TRUE]
Choice(branches) == [t |-> "choice", branches |-> branches]
Branch(default, val) == [default |-> default, val |-> val]

\* The values there are, of each kind.
Kinds == {"plain", "list", "struct"}
Every(kind) == {<<kind, i>> : i \in Contents}
Points == Kinds \X Contents

IsBottom(v) == v.t = "bottom"
IsChoice(v) == v.t = "choice"

\* BottomKind::may_resolve_later.
IsPending(v) == IsBottom(v) /\ v.kind = "unresolved"

\* is_unresolved: the value itself, or something it holds.
UnresolvedPlain(v) == IsPending(v) \/ (v.t = "leaf" /\ v.waits)
UnresolvedFlat(v) ==
  IF IsChoice(v) THEN \E i \in DOMAIN v.branches : UnresolvedPlain(v.branches[i].val)
  ELSE UnresolvedPlain(v)
Unresolved(v) ==
  IF IsChoice(v) THEN \E i \in DOMAIN v.branches : UnresolvedFlat(v.branches[i].val)
  ELSE UnresolvedPlain(v)

HasDefault(branches) == \E i \in DOMAIN branches : branches[i].default

-----------------------------------------------------------------------------
(* Keeping and settling alternatives *)

(* Fault: every alternative is kept. *)
PushAll(kept, b) == Append(kept, b)

(* Fault: a copy is absorbed without its mark. *)
PushUnmarked(kept, b) ==
  IF \E i \in DOMAIN kept : kept[i].val = b.val THEN kept ELSE Append(kept, b)

Large(v) == v.t = "leaf" /\ v.set \in TooLarge

\* compare_values answers Equal; Unknown keeps both.
SameContent(v, w) == v = w /\ ~Large(v)

\* push_branch: a copy of what is kept passes its mark on.
PushBranch(kept, b) ==
  LET same == {i \in DOMAIN kept : SameContent(kept[i].val, b.val)}
  IN IF same = {} THEN Append(kept, b)
     ELSE [kept EXCEPT ![CHOOSE i \in same : \A j \in same : i <= j].default = @ \/ b.default]

\* ... of branches pushed one after the other, those that `failed` left out.
Keep(branches, failed) ==
  LET upto[i \in 0 .. Len(branches)] ==
        IF i = 0 THEN <<>>
        ELSE IF branches[i].val \in failed THEN upto[i - 1]
        ELSE PushBranch(upto[i - 1], branches[i])
  IN upto[Len(branches)]

(* Fault: a name none of the alternatives could do without is a conflict. *)
SettleAsConflict(kept, errors) ==
  CASE Len(kept) = 0 -> Bottom("conflict")
    [] Len(kept) = 1 -> kept[1].val
    [] OTHER -> Choice(kept)

\* settle_disjunction, of the kept alternatives and the failures of the rest.
SettleChoice(kept, errors) ==
  LET custom == \E e \in errors : e.kind = "custom"
      waiting == \E e \in errors : IsPending(e)
  IN CASE Len(kept) = 0 /\ waiting -> Bottom("unresolved")
       [] Len(kept) = 0 /\ ~waiting -> [Bottom("conflict") EXCEPT !.custom = custom]
       [] Len(kept) = 1 -> IF IsBottom(kept[1].val) /\ custom
                           THEN [kept[1].val EXCEPT !.custom = TRUE] ELSE kept[1].val
       [] OTHER -> Choice(kept)

-----------------------------------------------------------------------------
(* Unification *)

\* A list whose element is pending fails where it meets another list; a
\* struct keeps the pending field.
MeetPlain(x, y) ==
  IF IsBottom(x) THEN x ELSE IF IsBottom(y) THEN y
  ELSE LET both == x.set \cap y.set
       IN IF both = {} THEN Bottom("conflict")
          ELSE IF x.waits \/ y.waits
          THEN IF \A a \in both : a[1] = "list" THEN Bottom("unresolved") ELSE Holding(both)
          ELSE Leaf(both)

\* The mark of a pair: both sides' where both have one, else the one side's.
Mark(d1, d2, one, other) ==
  CASE d1 /\ d2 -> one /\ other [] d1 /\ ~d2 -> one
    [] ~d1 /\ d2 -> other       [] OTHER -> FALSE

\* The trials of x's alternatives against y, or against each of y's.
Trials(Meet(_, _), x, y) ==
  LET others == IF IsChoice(y) THEN y.branches ELSE <<Branch(FALSE, y)>>
      row(b) == [j \in DOMAIN others |->
                   Branch(Mark(HasDefault(x.branches), HasDefault(others), b.default, others[j].default),
                          Meet(b.val, others[j].val))]
  IN FlattenSeq([i \in DOMAIN x.branches |-> row(x.branches[i])])

Failed(branches) == {branches[i].val : i \in {i \in DOMAIN branches : IsBottom(branches[i].val)}}

\* unify_disjunction_inner; a failed trial is rolled back.
Tried(trials) == SettleChoice(Keep(trials, Failed(trials)), Failed(trials))

MeetWith(Meet(_, _), x, y) ==
  IF IsBottom(x) THEN x ELSE IF IsBottom(y) THEN y
  ELSE IF IsChoice(x) THEN Tried(Trials(Meet, x, y))
  ELSE IF IsChoice(y) THEN Tried(Trials(Meet, y, x))
  ELSE MeetPlain(x, y)

MeetFlat(x, y) == MeetWith(MeetPlain, x, y)
MeetValues(x, y) == MeetWith(MeetFlat, x, y)

\* A trial failed on the pending reference and another was kept.
LosesPending(trials) ==
  /\ \E i \in DOMAIN trials : IsPending(trials[i].val)
  /\ \E i \in DOMAIN trials : ~IsBottom(trials[i].val)
LosesWith(Meet(_, _), Loses(_, _), x, y) ==
  /\ ~IsBottom(x) /\ ~IsBottom(y) /\ (IsChoice(x) \/ IsChoice(y))
  /\ LET a == IF IsChoice(x) THEN x ELSE y
         b == IF IsChoice(x) THEN y ELSE x
         others == IF IsChoice(b) THEN b.branches ELSE <<Branch(FALSE, b)>>
     IN \/ LosesPending(Trials(Meet, a, b))
        \/ \E i \in DOMAIN a.branches, j \in DOMAIN others :
             Loses(a.branches[i].val, others[j].val)
LosesPlain(x, y) == FALSE
LosesFlat(x, y) == LosesWith(MeetPlain, LosesPlain, x, y)
Loses(x, y) == LosesWith(MeetFlat, LosesFlat, x, y)

-----------------------------------------------------------------------------
(* Expressions: [op |-> "value", v], the reference, a list or a struct     *)
(* that holds it, and [op |-> "choice", branches].                         *)

In(kind, S) == {<<kind, a[2]>> : a \in S}

EvalPlain(e, r) ==
  CASE e.op = "value" -> e.v
    [] e.op = "ref" -> IF r = "pending" THEN Bottom("unresolved") ELSE Leaf(program.target)
    [] e.op = "held" -> IF r = "pending" THEN Holding(Every(e.kind))
                        ELSE Leaf(In(e.kind, program.target))

\* An error("...") alternative is settled at once; one that already failed
\* for good goes with it, and of alternatives that only wait one is kept.
Definite(v) == IsBottom(v) /\ v.kind \notin {"unresolved", "incomplete"}
Final(branches) == {v \in Failed(branches) : Definite(v)}
Rank(v) == IF v.kind = "incomplete" THEN 1 ELSE 3
OneFailure(kept) ==
  LET decided == {i \in DOMAIN kept : \A j \in DOMAIN kept : Rank(kept[i].val) <= Rank(kept[j].val)}
  IN IF kept # <<>> /\ \A i \in DOMAIN kept : IsBottom(kept[i].val)
     THEN <<kept[CHOOSE i \in decided : \A j \in decided : i <= j]>> ELSE kept
EvalChoice(branches) ==
  IF \A i \in DOMAIN branches : branches[i].val # Custom THEN Choice(Keep(branches, {}))
  ELSE SettleChoice(OneFailure(Keep(branches, Final(branches))), Final(branches))

EvalWith(Eval(_, _), e, r) ==
  IF e.op = "choice"
  THEN EvalChoice([i \in DOMAIN e.branches |->
                     Branch(e.branches[i].default, Eval(e.branches[i].expr, r))])
  ELSE EvalPlain(e, r)
EvalFlat(e, r) == EvalWith(EvalPlain, e, r)
EvalExpr(e, r) == EvalWith(EvalFlat, e, r)

-----------------------------------------------------------------------------
(* What a field may be declared as *)

Bottoms ==
  [t : {"bottom"}, kind : {"conflict", "incomplete", "unresolved", "custom"}, custom : BOOLEAN]
Leaves == [t : {"leaf"}, set : SUBSET Points, waits : BOOLEAN]

FormedPlain(e) ==
  \/ e.op = "value" /\ e.v \in Bottoms \cup Leaves /\ ~UnresolvedPlain(e.v)
  \/ e.op = "ref"
  \/ e.op = "held" /\ e.kind \in Kinds
FormedOver(Formed(_), e) ==
  \/ Formed(e)
  \/ /\ e.op = "choice"
     /\ e.branches \in Seq(ToSet(e.branches))
     /\ \A i \in DOMAIN e.branches : e.branches[i].default \in BOOLEAN /\ Formed(e.branches[i].expr)
FormedFlat(e) == FormedOver(FormedPlain, e)

PartsFlat(e) == IF e.op = "choice" THEN {e.branches[i].expr : i \in DOMAIN e.branches} ELSE {e}
Parts(e) ==
  IF e.op = "choice" THEN UNION {PartsFlat(e.branches[i].expr) : i \in DOMAIN e.branches} ELSE {e}

\* No reference stands beside both an incomplete value and an error("...").
Incompletes(parts) == {e \in parts : e.op = "value" /\ IsBottom(e.v) /\ e.v.kind = "incomplete"}
Errors(parts) == {e \in parts : e.op = "value" /\ e.v = Custom}
Refs(parts) == {e \in parts : e.op = "ref"}
Unmixed(parts) == {} \in {Incompletes(parts), Errors(parts), Refs(parts)}

ASSUME ProgramsFormed ==
  \A p \in Programs :
    /\ p.target \in SUBSET Points
    /\ p.operands # <<>> /\ p.operands \in Seq(ToSet(p.operands))
    /\ \A k \in DOMAIN p.operands :
         FormedOver(FormedFlat, p.operands[k]) /\ Unmixed(Parts(p.operands[k]))

\* A choice inside an alternative has no marks of its own.
UnmarkedWithin(e) ==
  e.op = "choice" =>
    \A i \in DOMAIN e.branches : LET b == e.branches[i].expr IN
      b.op = "choice" => \A j \in DOMAIN b.branches : ~b.branches[j].default

-----------------------------------------------------------------------------
Init ==
  /\ program \in Programs
  /\ ref \in {"pending", "bound"}
  /\ operands = <<>>
  /\ lost = FALSE
  /\ mode = "evaluate"

Evaluate ==
  /\ mode = "evaluate"
  /\ operands' = [i \in DOMAIN program.operands |-> EvalExpr(program.operands[i], ref)]
  /\ lost' = FALSE
  /\ mode' = "meet"
  /\ UNCHANGED <<program, ref>>

Unify ==
  /\ mode = "meet"
  /\ \E i, j \in DOMAIN operands :
       /\ i # j
       /\ operands' = RemoveAt([operands EXCEPT ![i] = MeetValues(@, operands[j])], j)
       /\ lost' = (lost \/ Loses(operands[i], operands[j]))
  /\ UNCHANGED <<program, ref, mode>>

Whole == mode = "meet" /\ Len(operands) = 1

\* The name is bound by the time of the next pass.
Retry ==
  /\ Whole /\ Unresolved(operands[1]) /\ ref = "pending"
  /\ ref' = "bound"
  /\ mode' = "evaluate"
  /\ UNCHANGED <<program, operands, lost>>

Write ==
  /\ Whole /\ ~(Unresolved(operands[1]) /\ ref = "pending")
  /\ mode' = "done"
  /\ UNCHANGED <<program, ref, operands, lost>>

Ended == mode = "done" /\ UNCHANGED vars

Next == Evaluate \/ Unify \/ Retry \/ Write \/ Ended

Spec == Init /\ [][Next]_vars

-----------------------------------------------------------------------------
\* The values an operand admits, and those it would have by default.
AdmitPlain(v) == IF IsBottom(v) THEN {} ELSE v.set
Over(Of(_), branches, some) == UNION {Of(branches[i].val) : i \in some}
AdmitFlat(v) == IF IsChoice(v) THEN Over(AdmitPlain, v.branches, DOMAIN v.branches) ELSE AdmitPlain(v)
Admits(v) == IF IsChoice(v) THEN Over(AdmitFlat, v.branches, DOMAIN v.branches) ELSE AdmitPlain(v)

Marked(branches) ==
  {i \in DOMAIN branches : HasDefault(branches) => branches[i].default}
PreferFlat(v) == IF IsChoice(v) THEN Over(AdmitPlain, v.branches, Marked(v.branches)) ELSE AdmitPlain(v)
Prefers(v) == IF IsChoice(v) THEN Over(PreferFlat, v.branches, Marked(v.branches)) ELSE AdmitPlain(v)

Meant(Of(_)) ==
  LET of == {Of(EvalExpr(program.operands[i], "bound")) : i \in DOMAIN program.operands}
  IN {a \in UNION of : \A S \in of : a \in S}

(***************************************************************************)
(* In every order and grouping a field's constraints leave exactly the     *)
(* values they all admit, dropped, absorbed and settled alternatives and a *)
(* retry for a pending name included ("a distinct branch dropped costs     *)
(* meaning") - unless an alternative was dropped for a pending name beside *)
(* one that was kept.                                                      *)
(***************************************************************************)
AlternativesKept ==
  mode = "done" /\ ~lost => Admits(operands[1]) = Meant(Admits)

(***************************************************************************)
(* Where some value is preferred by every constraint that prefers any, the *)
(* result prefers just those ("losing it would silently change which       *)
(* branch an ambiguous disjunction exports"), in every order and grouping. *)
(* Marks that exclude each other are forgotten by the pair that met, so a  *)
(* third constraint's mark may win or not: nothing is said of those.       *)
(***************************************************************************)
PreferenceKept ==
  mode = "done" /\ ~lost /\ Meant(Prefers) # {} => Prefers(operands[1]) = Meant(Prefers)

(***************************************************************************)
(* "Keeps a branch only if no branch already kept holds the same content": *)
(* however often a field is declared its disjunction is no wider than the  *)
(* values it tells apart.                                                  *)
(***************************************************************************)
NoCopies ==
  \A k \in DOMAIN operands : IsChoice(operands[k]) =>
    \A i, j \in DOMAIN operands[k].branches :
      LET b == operands[k].branches IN SameContent(b[i].val, b[j].val) => i = j

(***************************************************************************)
(* "A branch that failed only because a reference has not resolved yet has *)
(* not failed": no value is lost for a name bound later, even where some   *)
(* other alternative was kept meanwhile.                                   *)
(***************************************************************************)
PendingNotFailed ==
  mode = "done" => Admits(operands[1]) = Meant(Admits)
=============================================================================
