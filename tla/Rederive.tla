------------------------------ MODULE Rederive ------------------------------
(***************************************************************************)
(* Re-derivation of a merged struct (rederive_struct in relaxation.rs).    *)
(*                                                                         *)
(* `base & {...}` unifies values computed before the merge.  The loop then *)
(* runs the recipes that read a name the merge moved, descends into merged *)
(* values, and runs comprehensions again, which give back what they        *)
(* generated and generate anew, until nothing moves.                       *)
(*                                                                         *)
(* A value is [v, in]: a scalar and a field beside it that reads it, the   *)
(* nested recipe a merge leaves stale and a descent derives again.  A      *)
(* scalar is a default that gives way ("d0"), "0", "1", "err", or "any".   *)
(***************************************************************************)
EXTENDS Naturals, Sequences, FiniteSets, SequencesExt

CONSTANTS
  Names,       \* the fields of the struct
  Merges,      \* [base, added, recipes]: conjuncts on both sides, comprehensions
  Shared,      \* values the arena interns: equal ones have one id
  LargeSets,   \* choices of the fields whose values are too large to compare
  MaxPasses,   \* bound on the passes over the literal
  MaxSweeps    \* MAX_REDERIVE_SWEEPS

VARIABLES
  merge,     \* the merge being derived
  large,     \* its fields whose values are too large to compare
  entry,     \* entry[n]: [val, conj], conj empty where there is no such field
  recipes,   \* the struct's comprehensions, each with its last run
  runs,      \* runs made so far: each has an outcome of its own
  order,     \* the derivation order
  moved,     \* names that moved in the sweep before; then in this one too
  next,      \* names that moved in this one
  todo,      \* the comprehensions this sweep has yet to look at
  sweeps,
  mode       \* "literal", "merge", "seed", "descend", "sweep", "recipes",
             \* then "settled", "capped" or "refused"

vars == <<merge, large, entry, recipes, runs, order, moved, next, todo, sweeps, mode>>

-----------------------------------------------------------------------------
(* Values and conjuncts *)

Scalars == {"d0", "0", "1", "err", "any"}
MeetScalar(s, t) ==
  IF s = "any" \/ s = t THEN t
  ELSE IF t = "any" THEN s
  ELSE IF "err" \in {s, t} THEN "err"
  ELSE IF s = "d0" THEN t ELSE IF t = "d0" THEN s ELSE "err"

Meet(x, y) == [v |-> MeetScalar(x.v, y.v), in |-> MeetScalar(x.in, y.in)]
Top == [v |-> "any", in |-> "any"]

\* Deriving a nested merge again: the field inside reads what is beside it.
Settle(x) == IF x.in = "any" THEN x ELSE [x EXCEPT !.in = x.v]

\* The default is taken where a concrete value is needed.
Concrete(s) == IF s = "d0" THEN "0" ELSE s
Flip(s) == IF Concrete(s) = "0" THEN "1" ELSE IF s = "1" THEN "0" ELSE s

\* A conjunct: by whom (0: a literal), and a value, a reference or `1 - x.in`.
Derived(c, val) ==
  CASE c.op = "lit" -> c.v
    [] c.op = "copy" -> val[c.of]
    [] c.op = "flip" -> LET s == Flip(val[c.of].in) IN [v |-> s, in |-> s]

\* Values meet one after the other.
MeetAll(values) ==
  LET upto[i \in 0 .. Len(values)] == IF i = 0 THEN Top ELSE Meet(upto[i - 1], values[i])
  IN upto[Len(values)]

DeriveField(conj, val) == MeetAll([i \in DOMAIN conj |-> Derived(conj[i], val)])

ReadsAny(conj, names) ==
  \E i \in DOMAIN conj : conj[i].op # "lit" /\ conj[i].of \in names

\* Conjunct::same: a value is told by its id, and interned ones share theirs.
Same(c, d) ==
  \/ c = d
  \/ c.op = "lit" /\ d.op = "lit" /\ c.v = d.v /\ c.v \in Shared

-----------------------------------------------------------------------------
(* What may be merged *)

\* A field that reads another is not known where that one is not.
Vals == {x \in [v : Scalars, in : Scalars] : x.v = "any" => x.in = "any"}

\* Conjuncts: what is not a literal reads a field that the base declares.
Readings(m) ==
  {c \in [by : Nat, op : {"lit", "copy", "flip"}, v : Vals, of : Names \cup {"none"}] :
     c.op # "lit" => c.of \in Names /\ m.base[c.of] # <<>>}

\* Comprehensions are numbered in the order they are written.
MaxId == 9

\* A comprehension generates one field; only one with a condition holds another.
\* What it reads is a name of the base, as a reference in a field is.
Formed(m) ==
  /\ m.base \in [Names -> Seq(Readings(m))]
  /\ m.added \in [Names -> Seq(Readings(m))]
  /\ \A n \in Names : \A c \in ToSet(m.base[n]) \cup ToSet(m.added[n]) : c.by = 0
  /\ \A d \in m.recipes :
       /\ d.id \in 1 .. MaxId /\ \A k \in m.recipes : k.id = d.id => k = d
       /\ d.reads \in Names /\ d.into \in Names \cup {"none"}
       /\ m.base[d.reads] # <<>>
       /\ d.body \in Readings(m) /\ d.body.by = d.id
       /\ d.kind = "let" => \A k \in m.recipes : k.within # d.id

ASSUME MergesFormed ==
  /\ IsFiniteSet(Names)
  /\ \A m \in Merges : Formed(m)
  /\ LargeSets \subseteq SUBSET Names

-----------------------------------------------------------------------------
Present(e) == {n \in Names : e[n].conj # <<>>}
Values(e) == [n \in Names |-> e[n].val]

\* A field the unifier merged has two recipes or more.
Merged(e) == {n \in Names : Len(e[n].conj) > 1}

\* What is left of a list when only some are kept.
Only(kept, list) ==
  LET upto[i \in 0 .. Len(list)] ==
        IF i = 0 THEN <<>>
        ELSE IF list[i] \in kept THEN Append(upto[i - 1], list[i]) ELSE upto[i - 1]
  IN upto[Len(list)]

-----------------------------------------------------------------------------
(* Comprehensions: `if reads {into: body}`, `let y = reads {into: y}`, and  *)
(* one declared in the body of another (within).                           *)

Decl(id) == CHOOSE d \in merge.recipes : d.id = id

Guard(d, val) == d.kind = "let" \/ Concrete(val[d.reads].in) = "1"
Undecided(d, val) == d.kind = "if" /\ val[d.reads].in = "any"

Generates(d, val) ==
  IF d.into = "none" \/ ~Guard(d, val) THEN <<>>
  ELSE IF d.kind = "let" THEN <<[name |-> d.into,
         conj |-> [by |-> d.id, op |-> "lit", v |-> val[d.reads], of |-> "none"]]>>
  ELSE <<[name |-> d.into, conj |-> d.body]>>

InnerRun(d, val, run) ==
  [id |-> d.id, run |-> run, out |-> Generates(d, val), inner |-> <<>>,
   incomplete |-> Undecided(d, val)]

\* The comprehension of d's body, run where d's guard holds.
Inner(decls, d) == {k \in decls : k.within = d.id}
Run(decls, d, val, run) ==
  LET inner == IF Inner(decls, d) = {} \/ ~Guard(d, val) THEN <<>>
               ELSE <<InnerRun(CHOOSE k \in Inner(decls, d) : TRUE, val, run)>>
      deep == IF inner = <<>> THEN <<>> ELSE inner[1].out
  IN [id |-> d.id, run |-> run, out |-> Generates(d, val) \o deep, inner |-> inner,
      incomplete |-> Undecided(d, val)]

\* The recipes a run leaves: those of the literals it generated, then its own.
Kept(r) == r.inner \o <<r>>

Outer(decls) == {d \in decls : d.within = 0}
InOrder(decls) ==
  LET ids == {d.id : d \in decls}
      list == Only(ids, [i \in 1 .. MaxId |-> i])
  IN [i \in DOMAIN list |-> CHOOSE d \in decls : d.id = list[i]]

\* What the comprehensions generate from val, each run afresh.
AllRuns(decls, val) ==
  LET list == InOrder(Outer(decls)) IN [i \in DOMAIN list |-> Run(decls, list[i], val, 0)]

\* What is generated for one field.
Named(outs, n) ==
  LET these == Only({o \in ToSet(outs) : o.name = n}, outs) IN [i \in DOMAIN these |-> these[i].conj]
Contributed(rs, n) == Named(FlattenSeq([i \in DOMAIN rs |-> rs[i].out]), n)

-----------------------------------------------------------------------------
(* A struct evaluated from scratch: its literals' conjuncts and what the    *)
(* comprehensions generate, merged values descended into.                  *)

Whole(conj, val) ==
  IF Len(conj) > 1 THEN Settle(DeriveField(conj, val)) ELSE DeriveField(conj, val)
Conjuncts(literals, val) ==
  LET rs == AllRuns(merge.recipes, val)
  IN [n \in Names |-> literals[n] \o Contributed(rs, n)]

Literals == [n \in Names |-> merge.base[n] \o merge.added[n]]
Failed(x) == "err" \in {x.v, x.in}

\* derivation_order: a field after those it reads, unless it waits for itself.
Reads(e, n) == {k \in Present(e) \ {n} : ReadsAny(e[n].conj, {k})}
Orders(e) ==
  LET reads == [n \in Present(e) |-> Reads(e, n)]
      further(r) == [n \in DOMAIN r |-> r[n] \cup UNION {r[k] : k \in r[n]}]
      waits == further(further(reads))
  IN {o \in [1 .. Cardinality(DOMAIN reads) -> DOMAIN reads] :
        \A i, j \in DOMAIN o : i < j =>
          /\ o[i] # o[j]
          /\ o[j] \in reads[o[i]] => o[i] \in waits[o[i]]}

-----------------------------------------------------------------------------
Init ==
  /\ merge \in Merges
  /\ large \in LargeSets
  /\ entry = [n \in Names |-> [val |-> Top, conj |-> <<>>]]
  /\ recipes = <<>> /\ order = <<>> /\ todo = <<>>
  /\ moved = {} /\ next = {}
  /\ runs = 0 /\ sweeps = 0
  /\ mode = "literal"

\* The literal's own passes, until its values stand.
Evaluate ==
  /\ mode = "literal"
  /\ LET conj == Conjuncts(merge.base, Values(entry))
     IN entry' = [n \in Names |-> [val |-> Whole(conj[n], Values(entry)), conj |-> conj[n]]]
  /\ IF entry' # entry /\ sweeps < MaxPasses
     THEN mode' = "literal" /\ sweeps' = sweeps + 1
     ELSE /\ mode' = IF entry' # entry \/ \E n \in Names : Failed(entry'[n].val)
                     THEN "refused" ELSE "merge"
          /\ sweeps' = 0
  /\ UNCHANGED <<merge, large, recipes, runs, order, moved, next, todo>>

\* unify_structs: the values of both sides meet and their conjuncts join.  A
\* conflict is the whole struct's, and nothing of it is derived again.
Unify ==
  /\ mode = "merge"
  /\ entry' = [n \in Names |->
                 [val |-> Meet(entry[n].val, DeriveField(merge.added[n], Values(entry))),
                  conj |-> entry[n].conj \o merge.added[n]]]
  /\ LET rs == AllRuns(merge.recipes, Values(entry))
     IN recipes' = FlattenSeq([i \in DOMAIN rs |-> Kept(rs[i])])
  /\ mode' = IF \E n \in Names : Failed(entry'[n].val) THEN "refused" ELSE "seed"
  /\ UNCHANGED <<merge, large, runs, order, moved, next, todo, sweeps>>

\* seed_moved: the fields the merge gave a second recipe to.  With none,
\* nothing merged into this struct.
Seed ==
  /\ mode = "seed"
  /\ moved' = Merged(entry)
  /\ order' \in Orders(entry)
  /\ mode' = IF moved' = {} THEN "settled" ELSE "descend"
  /\ UNCHANGED <<merge, large, entry, recipes, runs, next, todo, sweeps>>

(* Fault: descending happens before the first sweep only. *)
DescendOnce ==
  /\ mode = "descend"
  /\ LET stale == IF sweeps > 0 THEN {}
                  ELSE {n \in Merged(entry) : Settle(entry[n].val) # entry[n].val}
     IN /\ entry' = [n \in Names |-> IF n \in stale THEN [entry[n] EXCEPT !.val = Settle(@)]
                                     ELSE entry[n]]
        /\ moved' = moved \cup stale
  /\ mode' = "sweep"
  /\ UNCHANGED <<merge, large, recipes, runs, order, next, todo, sweeps>>

\* rederive_children: merged values settle, and what that changes moves.
Descend ==
  /\ mode = "descend"
  /\ LET stale == {n \in Merged(entry) : Settle(entry[n].val) # entry[n].val}
     IN /\ entry' = [n \in Names |-> IF n \in stale THEN [entry[n] EXCEPT !.val = Settle(@)]
                                     ELSE entry[n]]
        /\ moved' = moved \cup stale
  /\ mode' = "sweep"
  /\ UNCHANGED <<merge, large, recipes, runs, order, next, todo, sweeps>>

(* Fault: a recipe that produces the same value again counts as moved. *)
SweepCountingAll(live) ==
  LET at[i \in 0 .. Len(order)] ==
        IF i = 0 THEN [entry |-> entry, live |-> live, moved |-> {}]
        ELSE LET s == at[i - 1]
                 n == order[i]
             IN IF ~ReadsAny(s.entry[n].conj, s.live) THEN s
                ELSE [entry |-> [s.entry EXCEPT ![n].val =
                                   DeriveField(s.entry[n].conj, Values(s.entry))],
                      live |-> s.live \cup ({n} \ large),
                      moved |-> s.moved \cup ({n} \ large)]
  IN at[Len(order)]

\* rederive_sweep at one field: its recipe runs if it reads what moved, and counts
\* as moved for the fields after it.  A value too large to compare is written and
\* does not count.
SweepField(s, n) ==
  LET x == DeriveField(s.entry[n].conj, Values(s.entry))
  IN IF ~ReadsAny(s.entry[n].conj, s.live) \/ x = s.entry[n].val THEN s
     ELSE [entry |-> [s.entry EXCEPT ![n].val = x],
           live |-> s.live \cup ({n} \ large),
           moved |-> s.moved \cup ({n} \ large)]

\* ... and at one after the other, in order.
SweepResult(live) ==
  LET at[i \in 0 .. Len(order)] ==
        IF i = 0 THEN [entry |-> entry, live |-> live, moved |-> {}]
        ELSE SweepField(at[i - 1], order[i])
  IN at[Len(order)]

Sweep ==
  /\ mode = "sweep"
  /\ LET result == SweepResult(moved)
     IN /\ entry' = result.entry
        /\ next' = result.moved
        /\ moved' = moved \cup result.moved
  /\ todo' = recipes
  /\ mode' = "recipes"
  /\ UNCHANGED <<merge, large, recipes, runs, order, sweeps>>

-----------------------------------------------------------------------------
(* derive_recipes: one comprehension of the list as it was, at a time.     *)

\* What a field's conjuncts come to without those `given` contributed.
Others(conj, given) == {c \in ToSet(conj) : ~\E i \in DOMAIN given : Same(given[i], c)}
Without(conj, given) == Only(Others(conj, given), conj)

Given(r, n) == Named(r.out, n)
Generated(r) == {r.out[i].name : i \in DOMAIN r.out}
Among(r, list) == \E i \in DOMAIN list : list[i] = r

\* Names it takes conjuncts back from.
Retracted(r) == {n \in Generated(r) : Without(entry[n].conj, Given(r, n)) # entry[n].conj}

(* Fault: what a comprehension generated before stays. *)
RetractNothing(r) == entry

\* retract: a field nothing else declares goes with its last conjunct.
Retract(r) ==
  [n \in Names |->
     IF n \notin Retracted(r) THEN entry[n]
     ELSE LET rest == Without(entry[n].conj, Given(r, n))
          IN [val |-> DeriveField(rest, Values(entry)), conj |-> rest]]

\* merge_generated: what it generates now meets what is there.
MergeGenerated(e, r) ==
  [n \in Names |->
     IF n \notin Generated(r) THEN e[n]
     ELSE [val |-> Meet(e[n].val, DeriveField(Given(r, n), Values(entry))),
           conj |-> e[n].conj \o Given(r, n)]]

\* adopt_rerun: the new conjuncts stand where the old ones stood.
Replace(conj, old, new) ==
  LET others == Others(conj, old)
      first == CHOOSE i \in DOMAIN conj :
                 conj[i] \notin others /\ \A j \in DOMAIN conj : conj[j] \notin others => i <= j
  IN Only(others, SubSeq(conj, 1, first - 1)) \o new
     \o Only(others, SubSeq(conj, first + 1, Len(conj)))
Adopt(old, new) ==
  [n \in Names |->
     IF n \notin Retracted(old) THEN entry[n]
     ELSE LET conj == Replace(entry[n].conj, Given(old, n), Given(new, n))
          IN [val |-> DeriveField(conj, Values(entry)), conj |-> conj]]

SameDecision(r, s) ==
  /\ r.incomplete = s.incomplete
  /\ [i \in DOMAIN r.out |-> r.out[i].name] = [i \in DOMAIN s.out |-> s.out[i].name]

\* The list without r and the recipes of the literals it generated.
Drop(r) == Only({k \in ToSet(recipes) : k # r /\ ~Among(k, r.inner)}, recipes)

\* ... with the rerun's recipes where r stood.
InPlace(r, fresh) ==
  LET at == CHOOSE i \in DOMAIN recipes : recipes[i] = r
      rest == Drop(r)
      cut == IF at - 1 <= Len(rest) THEN at - 1 ELSE Len(rest)
  IN SubSeq(rest, 1, cut) \o Kept(fresh) \o SubSeq(rest, cut + 1, Len(rest))

Changed(e) == {n \in Names : e[n].val # entry[n].val}

Reruns(r) == Decl(r.id).reads \in moved /\ Among(r, recipes)
GuardFails(r) == Decl(r.id).kind = "if" /\ entry[Decl(r.id).reads].val.in = "err"

\* A guard that is an error is the error of the whole evaluation.
Fail ==
  /\ mode = "recipes" /\ todo # <<>>
  /\ Reruns(Head(todo)) /\ GuardFails(Head(todo))
  /\ mode' = "refused"
  /\ UNCHANGED <<merge, large, entry, recipes, runs, order, moved, next, todo, sweeps>>

RunRecipe ==
  /\ mode = "recipes" /\ todo # <<>>
  /\ ~(Reruns(Head(todo)) /\ GuardFails(Head(todo)))
  /\ LET r == Head(todo)
         fresh == Run(merge.recipes, Decl(r.id), Values(entry), runs + 1)
     IN \/ /\ ~Reruns(r)
           /\ UNCHANGED <<entry, recipes, runs, order, next>>
        \/ /\ Reruns(r) /\ SameDecision(r, fresh)
           /\ IF Decl(r.id).kind = "let"
              THEN /\ entry' = Adopt(r, fresh)
                   /\ recipes' = InPlace(r, fresh)
                   /\ runs' = runs + 1
                   /\ next' = next \cup Changed(entry') \cup (Retracted(r) \cap large)
                   /\ order' \in Orders(entry')
              ELSE UNCHANGED <<entry, recipes, runs, order, next>>
        \/ /\ Reruns(r) /\ ~SameDecision(r, fresh)
           /\ entry' = MergeGenerated(Retract(r), fresh)
           /\ recipes' = Drop(r) \o Kept(fresh)
           /\ runs' = runs + 1
           /\ next' = next \cup Retracted(r) \cup Generated(fresh)
           /\ order' \in Orders(entry')
  /\ todo' = Tail(todo)
  /\ UNCHANGED <<merge, large, moved, sweeps, mode>>

EndSweep ==
  /\ mode = "recipes" /\ todo = <<>>
  /\ moved' = next /\ next' = {} /\ sweeps' = sweeps + 1
  /\ mode' = IF next = {} THEN "settled"
             ELSE IF sweeps + 1 = MaxSweeps THEN "capped" ELSE "descend"
  /\ UNCHANGED <<merge, large, entry, recipes, runs, order, todo>>

Ended == mode \in {"settled", "capped", "refused"} /\ UNCHANGED vars

Next == Evaluate \/ Unify \/ Seed \/ Descend \/ Sweep \/ RunRecipe \/ Fail \/ EndSweep \/ Ended

Spec == Init /\ [][Next]_vars

-----------------------------------------------------------------------------
(* Fields that may read a value too large to compare, at any remove.       *)
Downstream ==
  LET sees(S) == {n \in Names : ReadsAny(entry[n].conj, S)} \cup
                 {d.into : d \in {d \in merge.recipes : d.reads \in S}} \cup
                 {k.into : k \in {k \in merge.recipes :
                                    \E d \in merge.recipes : k.within = d.id /\ d.reads \in S}}
      down[k \in 0 .. Cardinality(Names)] ==
        IF k = 0 THEN large ELSE LET d == down[k - 1] IN d \cup sees(d)
  IN down[Cardinality(Names)]

(***************************************************************************)
(* Deriving only what read a moved name ends where deriving everything     *)
(* would: each field is what its conjuncts give on the values beside it,   *)
(* merged values below it included.  Only a value too large to compare may *)
(* be left as it was written, and what reads it as it was.                 *)
(***************************************************************************)
SettledFieldsAreDerived ==
  mode = "settled" =>
    \A n \in Names \ large :
      ~ReadsAny(entry[n].conj, large) => entry[n].val = Whole(entry[n].conj, Values(entry))

(***************************************************************************)
(* A field holds what its literals declare and what the comprehensions     *)
(* generate from the merged values, and nothing a comprehension generated  *)
(* before ("contributes what it generates instead").                       *)
(***************************************************************************)
GeneratedAsDecided ==
  mode = "settled" =>
    LET conj == Conjuncts(Literals, Values(entry))
    IN \A n \in Names \ Downstream : ToSet(entry[n].conj) = ToSet(conj[n])

(***************************************************************************)
(* Recipes that do not wait for themselves settle: the sweeps it takes are *)
(* few, and the cap is never what ends the loop.                           *)
(***************************************************************************)
SettlesWithoutCap == mode # "capped"
=============================================================================
