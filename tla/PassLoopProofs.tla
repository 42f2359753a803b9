--------------------------- MODULE PassLoopProofs ---------------------------
(***************************************************************************)
(* No declaration is dropped and the passes are bounded, for any literal   *)
(* and any allowance.  The argument counts: a pass that repeats has        *)
(* settled a declaration or spent a refinement.                            *)
(***************************************************************************)
EXTENDS PassLoop, FiniteSetTheorems, TLAPS

\* Every pass but this one settled a declaration or was a refinement.
Accounted ==
  mode = "pass" =>
    iteration + (IF progress THEN 1 ELSE 0) <= 1 + refinements + Cardinality(settled)

\* A pass that has settled nothing still has its declarations at hand.
Occupied == mode = "pass" /\ ~progress => todo \cup next # {}

Within == iteration <= N + refinements

Drained == mode = "final" => todo = {}

IInv == TypeOK /\ Accounted /\ Occupied /\ Within /\ Drained /\ NoDeclarationDropped

(***************************************************************************)
(* The number of settled declarations: at most n, and fewer while one is   *)
(* left; settling one that was not adds one.                               *)
(***************************************************************************)
LEMMA SettledCount ==
  ASSUME NEW S \in SUBSET Decls
  PROVE  /\ IsFiniteSet(S) /\ Cardinality(S) \in Nat /\ N \in Nat
         /\ Cardinality(S) <= N
         /\ S # Decls => Cardinality(S) <= N - 1
         /\ \A d \in Decls \ S : Cardinality(S \cup {d}) = Cardinality(S) + 1
<1>1. IsFiniteSet(S) /\ Cardinality(S) <= N
  BY DeclsFinite, FS_Subset DEF N
<1>2. Cardinality(S) \in Nat /\ N \in Nat
  BY <1>1, DeclsFinite, FS_CardinalityType DEF N
<1>3. ASSUME S # Decls
      PROVE  Cardinality(S) <= N - 1
  <2>1. Cardinality(S) # N
    BY <1>3, DeclsFinite, FS_Subset DEF N
  <2> QED
    BY <2>1, <1>1, <1>2
<1>4. \A d \in Decls \ S : Cardinality(S \cup {d}) = Cardinality(S) + 1
  BY <1>1, FS_AddElement
<1> QED
  BY <1>1, <1>2, <1>3, <1>4

LEMMA Initially == Init => IInv
<1> SUFFICES ASSUME Init PROVE IInv
  OBVIOUS
<1>1. N \in Nat /\ Cardinality({}) = 0 /\ (Decls # {} => N >= 1)
  <2>1. N \in Nat /\ Cardinality({}) = 0 /\ {} \in SUBSET Decls
    BY SettledCount, FS_EmptySet
  <2>2. Decls # {} => Cardinality({}) <= N - 1
    BY <2>1, SettledCount
  <2> QED
    BY <2>1, <2>2
<1>2. TypeOK
  <2>1. /\ mode \in {"pass", "final", "done", "failed"}
        /\ iteration \in Nat /\ refinements \in 0 .. MaxRefinementPasses
    BY AllowanceIsNat DEF Init
  <2>2. /\ todo \in SUBSET Decls /\ next \in SUBSET Decls /\ settled \in SUBSET Decls
        /\ todo \cap next = {} /\ todo \cap settled = {} /\ next \cap settled = {}
        /\ todo \cup next \cup settled = Decls
    BY DEF Init
  <2>3. progress \in BOOLEAN /\ refined \in BOOLEAN
    BY DEF Init
  <2> QED
    BY <2>1, <2>2, <2>3 DEF TypeOK
<1>3. Accounted /\ Within
  BY <1>1 DEF Init, Accounted, Within
<1>4. Occupied /\ Drained /\ NoDeclarationDropped
  BY DEF Init, Occupied, Drained, NoDeclarationDropped
<1> QED
  BY <1>2, <1>3, <1>4 DEF IInv

(***************************************************************************)
(* The pass bound is slack whenever declarations are left: Repeat ends the *)
(* loop only when none is.                                                 *)
(***************************************************************************)
LEMMA RepeatKeeps ==
  ASSUME IInv, PassOver, NEW r \in 0 .. MaxRefinementPasses, Repeat(r),
         \/ progress /\ r = refinements
         \/ ~progress /\ r = refinements + 1
  PROVE  IInv'
<1> USE AllowanceIsNat
<1>1. /\ Cardinality(settled) \in Nat /\ N \in Nat /\ Cardinality(settled) <= N
      /\ settled # Decls => Cardinality(settled) <= N - 1
  BY SettledCount DEF IInv, TypeOK
<1>2. iteration + 1 <= 1 + r + Cardinality(settled)
  BY <1>1 DEF IInv, Accounted, PassOver, TypeOK
<1>3. next = Decls \ settled
  BY DEF IInv, TypeOK, PassOver
<1>4. CASE next # {} /\ WithinBound(iteration, r)
  <2>1. TypeOK'
    <3>1. todo' = next /\ next' = {} /\ settled' = settled /\ refinements' = r
          /\ iteration' = iteration + 1 /\ mode' = "pass"
          /\ progress' = FALSE /\ refined' = FALSE
      BY <1>4 DEF Repeat
    <3>2. /\ mode' \in {"pass", "final", "done", "failed"}
          /\ iteration' \in Nat /\ refinements' \in 0 .. MaxRefinementPasses
      BY <3>1 DEF IInv, TypeOK
    <3>3. /\ todo' \in SUBSET Decls /\ next' \in SUBSET Decls
          /\ settled' \in SUBSET Decls
          /\ todo' \cap next' = {} /\ todo' \cap settled' = {}
          /\ next' \cap settled' = {}
          /\ todo' \cup next' \cup settled' = Decls
      BY <3>1, <1>3 DEF IInv, TypeOK
    <3>4. progress' \in BOOLEAN /\ refined' \in BOOLEAN
      BY <3>1
    <3> QED
      BY <3>2, <3>3, <3>4 DEF TypeOK
  <2>2. Accounted' /\ Occupied' /\ Drained' /\ NoDeclarationDropped'
    BY <1>1, <1>2, <1>4
    DEF IInv, TypeOK, Repeat, Accounted, Occupied, Drained, NoDeclarationDropped
  <2>3. Within'
    BY <1>1, <1>2, <1>3, <1>4 DEF IInv, TypeOK, Repeat, Within
  <2> QED
    BY <2>1, <2>2, <2>3 DEF IInv
<1>5. CASE ~(next # {} /\ WithinBound(iteration, r))
  <2>1. WithinBound(iteration, r)
    BY <1>1, <1>2 DEF WithinBound, IInv, TypeOK
  <2>2. next = {} /\ settled = Decls
    BY <1>3, <1>5, <2>1 DEF IInv, TypeOK
  <2>3. TypeOK'
    BY <1>5 DEF IInv, TypeOK, Repeat
  <2>4. Accounted' /\ Occupied' /\ Drained' /\ NoDeclarationDropped'
    BY <1>5, <2>2 DEF Repeat, Accounted, Occupied, Drained, NoDeclarationDropped
  <2>5. Within'
    BY <1>1, <1>2, <1>5 DEF IInv, TypeOK, Repeat, Within
  <2> QED
    BY <2>3, <2>4, <2>5 DEF IInv
<1> QED
  BY <1>4, <1>5

LEMMA StepKeeps == IInv /\ [Next]_vars => IInv'
<1> USE AllowanceIsNat
<1> SUFFICES ASSUME IInv, [Next]_vars PROVE IInv'
  OBVIOUS
<1>1. ASSUME NEW d \in Decls, Settle(d)
      PROVE  IInv'
  <2>1. /\ Cardinality(settled) \in Nat
        /\ Cardinality(settled') = Cardinality(settled) + 1
    BY <1>1, SettledCount DEF IInv, TypeOK, Settle
  <2>2. TypeOK'
    BY <1>1 DEF IInv, TypeOK, Settle
  <2>3. Accounted'
    BY <1>1, <2>1 DEF IInv, TypeOK, Settle, Accounted
  <2>4. Occupied' /\ Drained' /\ NoDeclarationDropped' /\ Within'
    BY <1>1 DEF IInv, Settle, Occupied, Drained, NoDeclarationDropped, Within, N
  <2> QED
    BY <2>2, <2>3, <2>4 DEF IInv
<1>2. ASSUME NEW d \in Decls, Defer(d)
      PROVE  IInv'
  <2>1. TypeOK'
    BY <1>2 DEF IInv, TypeOK, Defer
  <2>2. Accounted' /\ Within'
    BY <1>2 DEF IInv, TypeOK, Defer, Accounted, Within, N
  <2>3. Occupied' /\ Drained' /\ NoDeclarationDropped'
    BY <1>2 DEF IInv, Defer, Occupied, Drained, NoDeclarationDropped
  <2> QED
    BY <2>1, <2>2, <2>3 DEF IInv
<1>3. ASSUME NEW d \in Decls, Accept(d)
      PROVE  IInv'
  <2>1. TypeOK'
    BY <1>3 DEF IInv, TypeOK, Accept
  <2>2. Accounted' /\ Occupied' /\ Within' /\ Drained' /\ NoDeclarationDropped'
    BY <1>3
    DEF IInv, Accept, Accounted, Occupied, Within, Drained, NoDeclarationDropped, N
  <2> QED
    BY <2>1, <2>2 DEF IInv
<1>4. CASE AfterProgress
  BY <1>4, RepeatKeeps DEF AfterProgress, IInv, TypeOK
<1>5. CASE Refine
  <2>1. refinements + 1 \in 0 .. MaxRefinementPasses
    BY <1>5 DEF Refine, IInv, TypeOK
  <2> QED
    BY <1>5, <2>1, RepeatKeeps DEF Refine
<1>6. CASE GoFinal
  <2>1. TypeOK'
    BY <1>6 DEF IInv, TypeOK, GoFinal
  <2>2. Accounted' /\ Occupied' /\ Within' /\ Drained' /\ NoDeclarationDropped'
    BY <1>6
    DEF IInv, GoFinal, PassOver, Accounted, Occupied, Within, Drained,
        NoDeclarationDropped, N
  <2> QED
    BY <2>1, <2>2 DEF IInv
<1>7. CASE Finish
  <2>1. TypeOK'
    BY <1>7 DEF IInv, TypeOK, Finish
  <2>2. settled = Decls
    BY <1>7 DEF IInv, TypeOK, Finish, Drained
  <2>3. Accounted' /\ Occupied' /\ Within' /\ Drained' /\ NoDeclarationDropped'
    BY <1>7, <2>2
    DEF IInv, Finish, Accounted, Occupied, Within, Drained, NoDeclarationDropped, N
  <2> QED
    BY <2>1, <2>3 DEF IInv
<1>8. CASE Fail
  <2>1. TypeOK'
    BY <1>8 DEF IInv, TypeOK, Fail
  <2>2. Accounted' /\ Occupied' /\ Within' /\ Drained' /\ NoDeclarationDropped'
    BY <1>8
    DEF IInv, Fail, Accounted, Occupied, Within, Drained, NoDeclarationDropped, N
  <2> QED
    BY <2>1, <2>2 DEF IInv
<1>9. CASE UNCHANGED vars
  BY <1>9
  DEF vars, IInv, TypeOK, Accounted, Occupied, Within, Drained, NoDeclarationDropped, N
<1> QED
  BY <1>1, <1>2, <1>3, <1>4, <1>5, <1>6, <1>7, <1>8, <1>9 DEF Next, Step, Ended

LEMMA Inductive == Spec => []IInv
<1>1. Init => IInv
  BY Initially
<1>2. IInv /\ [Next]_vars => IInv'
  BY StepKeeps
<1> QED
  BY <1>1, <1>2, PTL DEF Spec

(***************************************************************************)
(* The sets of pending, put-off and settled declarations partition the     *)
(* literal, whatever it holds.                                             *)
(***************************************************************************)
THEOREM Partitioned == Spec => []TypeOK
<1>1. IInv => TypeOK
  BY DEF IInv
<1> QED
  BY Inductive, <1>1, PTL

(***************************************************************************)
(* The loop of eval_decls_scoped never ends with a declaration unwritten.  *)
(***************************************************************************)
THEOREM NothingDropped == Spec => []NoDeclarationDropped
<1>1. IInv => NoDeclarationDropped
  BY DEF IInv
<1> QED
  BY Inductive, <1>1, PTL

(***************************************************************************)
(* It makes at most n passes and one more per refinement allowed.          *)
(***************************************************************************)
THEOREM BoundedPasses == Spec => []PassesBounded
<1>1. IInv => PassesBounded
  <2>1. N \in Nat
    BY SettledCount
  <2> QED
    BY <2>1, AllowanceIsNat DEF IInv, Within, TypeOK, PassesBounded
<1> QED
  BY Inductive, <1>1, PTL
=============================================================================
