-------------------------- MODULE RelaxationProofs --------------------------
(***************************************************************************)
(* What the loop over values does, for any literal, any order of its       *)
(* declarations and any allowance.                                         *)
(*                                                                         *)
(* First, every run of it is a run of PassLoop.  Two things have to be     *)
(* shown: that no declaration is attempted twice or lost between the two   *)
(* lists, and that no value ever is the mark of a name not bound, so that  *)
(* what is written is settled.                                             *)
(*                                                                         *)
(* Then, bindings only grow: an evaluation is monotone in what it reads,   *)
(* so a declaration never yields less than its name is bound to.           *)
(*                                                                         *)
(* Then, the fields come to what the declarations mean together.  After i  *)
(* passes a name is bound to at least what i rounds of evaluating all at   *)
(* once give it, and to no more than the meaning; what is resolved between *)
(* these two is the meaning.                                               *)
(*                                                                         *)
(* Last, values nest no deeper than the passes are many: an evaluation     *)
(* nests one level more.  So with few declarations the walk that looks for *)
(* something pending sees all of a value, and buries nothing in a field.   *)
(***************************************************************************)
EXTENDS RelaxationMeaning, SequenceTheorems, FiniteSetTheorems, WellFoundedInduction, TLAPS

Leaves ==
  {Known("const"), Outer, Cycle, Incomplete, Bottom("conflict"), Bottom("undefined"),
   Bottom("notfound")}

\* A stock of values, with all they hold.
Hereditary(S) ==
  /\ Leaves \subseteq S /\ Unbound \notin S
  /\ \A w \in S : Parts(w) \subseteq S
  /\ \A w \in S : w.tag = "struct" => \E D, f : f \in [D -> S] /\ w = Struct(f)

EnvIn(S, env) == \A d \in Decls : env[d] \in S \cup {Unbound}

BindsIn(S) == EnvIn(S, binds)

BindsWhole == \E S : Hereditary(S) /\ BindsIn(S)

Listed ==
  /\ todo \in Seq(Decls) /\ Once(todo)
  /\ next \in Seq(Decls) /\ Once(next)
  /\ Names(todo) \cap Names(next) = {}

Typed ==
  /\ program \in Programs
  /\ DOMAIN binds = Decls /\ DOMAIN entry = Decls
  /\ refined \in BOOLEAN

IInv == Typed /\ Listed /\ BindsWhole

Settled == {d \in Decls : entry[d] # Unbound}

-----------------------------------------------------------------------------
(* Lists *)

LEMMA HeadTaken ==
  ASSUME NEW s \in Seq(Decls), Once(s), s # <<>>
  PROVE  /\ Head(s) \in Decls /\ Head(s) \in Names(s)
         /\ Tail(s) \in Seq(Decls) /\ Once(Tail(s))
         /\ Names(Tail(s)) = Names(s) \ {Head(s)}
<1> DEFINE n == Len(s)
<1>1. /\ n \in Nat \ {0} /\ DOMAIN s = 1 .. n /\ Head(s) = s[1] /\ Tail(s) \in Seq(Decls)
      /\ DOMAIN Tail(s) = 1 .. n - 1
      /\ \A i \in 1 .. n - 1 : Tail(s)[i] = s[i + 1]
  BY EmptySeq, HeadTailProperties
<1> HIDE DEF n
<1>2. 1 \in DOMAIN s /\ Head(s) \in Decls /\ Head(s) \in Names(s)
  BY <1>1 DEF Names
<1>3. \A i \in 1 .. n - 1 : i + 1 \in DOMAIN s /\ i + 1 # 1
  BY <1>1
<1>4. Once(Tail(s))
  <2> SUFFICES ASSUME NEW i \in 1 .. n - 1, NEW j \in 1 .. n - 1, Tail(s)[i] = Tail(s)[j]
               PROVE  i = j
    BY <1>1 DEF Once
  <2>1. i + 1 = j + 1
    BY <1>1, <1>3 DEF Once
  <2> QED
    BY <1>1, <2>1
<1>5. ASSUME NEW i \in 1 .. n - 1 PROVE Tail(s)[i] \in Names(s) \ {Head(s)}
  BY <1>1, <1>2, <1>3 DEF Names, Once
<1>6. ASSUME NEW x \in Names(s) \ {Head(s)} PROVE x \in Names(Tail(s))
  <2>1. PICK i \in 1 .. n : x = s[i]
    BY <1>1 DEF Names
  <2>2. i # 1
    BY <1>1, <2>1
  <2>3. i - 1 \in 1 .. n - 1 /\ Tail(s)[i - 1] = s[i]
    <3>1. i - 1 \in 1 .. n - 1 /\ (i - 1) + 1 = i
      BY <1>1, <2>2
    <3> QED
      BY <1>1, <3>1
  <2> QED
    BY <1>1, <2>1, <2>3 DEF Names
<1>7. Names(Tail(s)) \subseteq Names(s) \ {Head(s)}
  BY <1>1, <1>5 DEF Names
<1> QED
  BY <1>1, <1>2, <1>4, <1>6, <1>7

LEMMA NameAppended ==
  ASSUME NEW s \in Seq(Decls), Once(s), NEW d \in Decls, d \notin Names(s)
  PROVE  /\ Append(s, d) \in Seq(Decls) /\ Once(Append(s, d))
         /\ Names(Append(s, d)) = Names(s) \cup {d}
<1> DEFINE n == Len(s)
           t == Append(s, d)
<1>1. /\ n \in Nat /\ DOMAIN s = 1 .. n /\ t \in Seq(Decls)
      /\ DOMAIN t = 1 .. n + 1 /\ t[n + 1] = d
      /\ \A i \in 1 .. n : t[i] = s[i]
  BY AppendProperties
<1> HIDE DEF n, t
<1>2. \A i \in 1 .. n + 1 : i \in 1 .. n \/ i = n + 1
  BY <1>1
<1>3. \A i \in 1 .. n : s[i] # d
  BY <1>1 DEF Names
<1>4. Once(t)
  BY <1>1, <1>2, <1>3 DEF Once
<1>5. Names(t) = Names(s) \cup {d}
  <2>1. ASSUME NEW i \in 1 .. n PROVE s[i] \in Names(t)
    <3>1. i \in DOMAIN t /\ t[i] = s[i]
      BY <1>1
    <3> QED
      BY <3>1 DEF Names
  <2>2. d \in Names(t)
    <3>1. n + 1 \in DOMAIN t
      BY <1>1
    <3> QED
      BY <1>1, <3>1 DEF Names
  <2>3. ASSUME NEW i \in 1 .. n + 1 PROVE t[i] \in Names(s) \cup {d}
    BY <1>1, <1>2 DEF Names
  <2> QED
    BY <1>1, <2>1, <2>2, <2>3 DEF Names
<1> QED
  BY <1>1, <1>4, <1>5 DEF t

LEMMA NoNames == /\ Names(<<>>) = {} /\ Once(<<>>) /\ <<>> \in Seq(Decls)
                 /\ \A s \in Seq(Decls) : Names(s) = {} => s = <<>>
<1>1. DOMAIN <<>> = {}
  OBVIOUS
<1>2. ASSUME NEW s \in Seq(Decls), Names(s) = {} PROVE s = <<>>
  <2>1. DOMAIN s = 1 .. Len(s) /\ Len(s) \in Nat
    OBVIOUS
  <2>2. Len(s) = 0
    <3>1. DOMAIN s = {}
      BY <1>2 DEF Names
    <3>2. 1 \notin 1 .. Len(s)
      BY <2>1, <3>1
    <3> QED
      BY <2>1, <3>2
  <2> QED
    BY <2>2, EmptySeq
<1> QED
  BY <1>1, <1>2 DEF Names, Once

(* A literal holds as many declarations as its source order lists.          *)
LEMMA DeclsCounted == IsFiniteSet(Decls) /\ Cardinality(Decls) = Len(Order)
<1> DEFINE n == Len(Order)
<1>1. n \in Nat /\ DOMAIN Order = 1 .. n /\ Order \in [1 .. n -> Decls]
  BY DeclaredOnce
<1>2. Order \in Bijection(1 .. n, Decls)
  <2>1. Order \in Injection(1 .. n, Decls)
    BY <1>1, DeclaredOnce DEF Once, Injection, IsInjective
  <2>2. Order \in Surjection(1 .. n, Decls)
    BY <1>1 DEF Surjection, Decls, Names
  <2> QED
    BY <2>1, <2>2 DEF Bijection
<1>3. ExistsBijection(1 .. n, Decls)
  BY <1>2 DEF ExistsBijection
<1> QED
  BY <1>1, <1>3, FS_CountingElements, FS_NatBijection

-----------------------------------------------------------------------------
(* Values *)

LEMMA Marks ==
  /\ \A c : Known(c).tag = "known" /\ Known(c) # Unbound
  /\ \A k : Bottom(k).tag = "bottom" /\ Bottom(k) # Unbound
  /\ \A f : Struct(f).tag = "struct" /\ Struct(f).parts = f /\ Struct(f) # Unbound
BY DEF Known, Bottom, Struct, Unbound

LEMMA SelectWhole ==
  ASSUME NEW S, Hereditary(S), NEW v \in S, NEW p
  PROVE  Select(v, p) \in S
<1>1. CASE v.tag = "bottom"
  BY <1>1 DEF Select
<1>2. CASE v.tag # "bottom" /\ v.tag # "struct"
  BY <1>2 DEF Select, Hereditary, Leaves
<1>3. CASE v.tag = "struct" /\ p \in DOMAIN v.parts
  <2>1. Select(v, p) = v.parts[p]
    BY <1>3 DEF Select
  <2>2. v.parts[p] \in Parts(v)
    BY <1>3 DEF Parts
  <2> QED
    BY <2>1, <2>2 DEF Hereditary
<1>4. CASE v.tag = "struct" /\ p \notin DOMAIN v.parts
  BY <1>4 DEF Select, Hereditary, Leaves
<1> QED
  BY <1>1, <1>2, <1>3, <1>4

LEMMA ReadsWhole ==
  ASSUME NEW S, Hereditary(S), NEW env, EnvIn(S, env), NEW outer,
         NEW d \in Decls, NEW n \in Decls \cup {External}
  PROVE  ReadOwn(env, d, n) \in S /\ ReadNested(outer, env, n) \in S
<1>1. n # External => env[n] \in S \cup {Unbound}
  BY DEF EnvIn
<1>2. {Incomplete, Cycle, Outer, Bottom("notfound")} \subseteq S
  BY DEF Hereditary, Leaves
<1>3. ReadOwn(env, d, n) \in S
  BY <1>1, <1>2 DEF ReadOwn
<1>4. Lookup(outer, env, n) \in S \cup {Unbound}
  BY <1>1, <1>2 DEF Lookup
<1> QED
  BY <1>2, <1>3, <1>4 DEF ReadNested

\* An expression read as a field's own, or from inside a literal.
EvalOwn(env, d, e) ==
  CASE e.op = "const" -> Known("const")
    [] e.op = "ref" -> ReadOwn(env, d, e.to)
    [] e.op = "sel" -> Select(ReadOwn(env, d, e.to), e.part)

EvalNested(p, env, e) ==
  CASE e.op = "const" -> Known("const")
    [] e.op = "ref" -> ReadNested(p.outer, env, e.to)
    [] e.op = "sel" -> Select(ReadNested(p.outer, env, e.to), e.part)

PartsOf(p, env, d) ==
  [q \in DOMAIN p.form[d].parts |-> EvalNested(p, env, p.form[d].parts[q])]

LEMMA EvaluateIs ==
  ASSUME NEW p, NEW env, NEW d
  PROVE  Evaluate(p, env, d) =
           IF p.form[d].literal THEN Struct(PartsOf(p, env, d)) ELSE EvalOwn(env, d, p.form[d].expr)
BY DEF Evaluate, PartsOf, EvalOwn, EvalNested

LEMMA ExprCases ==
  ASSUME NEW p \in Programs, NEW d \in Decls, NEW e \in Exprs(p.form[d])
  PROVE  e.op = "const" \/ (e.op \in {"ref", "sel"} /\ e.to \in Decls \cup {External})
BY ProgramsFormed

(* What a declaration yields is a value; with it the stock is whole again.  *)
LEMMA ExprWhole ==
  ASSUME NEW S, Hereditary(S), NEW env, EnvIn(S, env), NEW p \in Programs, NEW d \in Decls,
         NEW e \in Exprs(p.form[d])
  PROVE  EvalOwn(env, d, e) \in S /\ EvalNested(p, env, e) \in S
<1>1. e.op = "const" \/ (e.op \in {"ref", "sel"} /\ e.to \in Decls \cup {External})
  BY ExprCases
<1>2. CASE e.op = "const"
  BY <1>2 DEF Hereditary, Leaves, EvalOwn, EvalNested
<1>3. CASE e.op = "ref"
  BY <1>1, <1>3, ReadsWhole DEF EvalOwn, EvalNested
<1>4. CASE e.op = "sel"
  <2>1. ReadOwn(env, d, e.to) \in S /\ ReadNested(p.outer, env, e.to) \in S
    BY <1>1, <1>4, ReadsWhole
  <2>2. /\ Select(ReadOwn(env, d, e.to), e.part) \in S
        /\ Select(ReadNested(p.outer, env, e.to), e.part) \in S
    BY <2>1, SelectWhole
  <2> QED
    BY <1>4, <2>2 DEF EvalOwn, EvalNested
<1> QED
  BY <1>1, <1>2, <1>3, <1>4

LEMMA StructWhole ==
  ASSUME NEW S, Hereditary(S), NEW D, NEW f \in [D -> S]
  PROVE  Hereditary(S \cup {Struct(f)})
<1>1. Parts(Struct(f)) \subseteq S
  BY Marks DEF Parts
<1> DEFINE T == S \cup {Struct(f)}
<1>2. ASSUME NEW w \in T PROVE Parts(w) \subseteq T
  BY <1>1 DEF Hereditary
<1>3. ASSUME NEW w \in T, w.tag = "struct" PROVE \E E, g : g \in [E -> T] /\ w = Struct(g)
  <2>1. CASE w = Struct(f)
    <3>1. f \in [D -> T]
      OBVIOUS
    <3> QED
      BY <2>1, <3>1
  <2>2. CASE w \in S
    <3>1. PICK E, g : g \in [E -> S] /\ w = Struct(g)
      BY <1>3, <2>2 DEF Hereditary
    <3>2. g \in [E -> T]
      BY <3>1
    <3> QED
      BY <3>1, <3>2
  <2> QED
    BY <2>1, <2>2
<1>4. Leaves \subseteq T /\ Unbound \notin T
  BY Marks DEF Hereditary
<1> HIDE DEF T
<1> QED
  BY <1>2, <1>3, <1>4 DEF Hereditary, T

LEMMA EvaluateWhole ==
  ASSUME NEW S, Hereditary(S), NEW env, EnvIn(S, env), NEW p \in Programs, NEW d \in Decls
  PROVE  \E T : Hereditary(T) /\ S \subseteq T /\ Evaluate(p, env, d) \in T
<1> DEFINE form == p.form[d]
<1>1. \A e \in Exprs(form) : EvalOwn(env, d, e) \in S /\ EvalNested(p, env, e) \in S
  BY ExprWhole
<1>3. CASE form.literal
  <2> DEFINE f == PartsOf(p, env, d)
             T == S \cup {Struct(f)}
  <2>1. f \in [DOMAIN form.parts -> S]
    BY <1>1, <1>3 DEF Exprs, PartsOf
  <2>3. Hereditary(T)
    BY <2>1, StructWhole
  <2>4. Evaluate(p, env, d) \in T
    BY <1>3, EvaluateIs
  <2> HIDE DEF T
  <2> QED
    BY <2>3, <2>4 DEF T
<1>4. CASE ~form.literal
  <2>1. form.expr \in Exprs(form)
    BY <1>4 DEF Exprs
  <2>2. Evaluate(p, env, d) \in S
    BY <1>1, <1>4, <2>1, EvaluateIs
  <2> QED
    BY <2>2
<1> QED
  BY <1>3, <1>4

LEMMA ValueWhole ==
  ASSUME NEW S, Hereditary(S), BindsIn(S), program \in Programs, NEW d \in Decls
  PROVE  \E T : Hereditary(T) /\ S \subseteq T /\ Value(binds, d) \in T
BY EvaluateWhole DEF BindsIn, Value

-----------------------------------------------------------------------------
(* The invariant *)

LEMMA Initially == Init => IInv
<1> SUFFICES ASSUME Init PROVE IInv
  OBVIOUS
<1>1. Hereditary(Leaves)
  <2>1. \A w \in Leaves : w.tag # "struct" /\ w # Unbound
    BY Marks DEF Leaves, Outer, Cycle, Incomplete
  <2> QED
    BY <2>1 DEF Hereditary, Parts
<1>2. BindsIn(Leaves)
  BY DEF Init, ReservedBindings, BindsIn, EnvIn, Leaves
<1>3. Listed
  BY DeclaredOnce, NoNames DEF Init, Listed
<1>4. Typed
  BY DEF Init, Typed, ReservedBindings
<1> QED
  BY <1>1, <1>2, <1>3, <1>4 DEF IInv, BindsWhole

\* What an attempt or the final pass yields, and what binding it leaves.
LEMMA BindsKept ==
  ASSUME IInv, NEW d \in Decls
  PROVE  /\ Value(binds, d) # Unbound
         /\ binds' = [binds EXCEPT ![d] = Value(binds, d)] => BindsWhole' /\ DOMAIN binds' = Decls
<1>1. PICK S : Hereditary(S) /\ BindsIn(S)
  BY DEF IInv, BindsWhole
<1>2. PICK T : Hereditary(T) /\ S \subseteq T /\ Value(binds, d) \in T
  BY <1>1, ValueWhole DEF IInv, Typed
<1>3. ASSUME binds' = [binds EXCEPT ![d] = Value(binds, d)]
      PROVE  BindsWhole' /\ DOMAIN binds' = Decls
  <2>1. \A c \in Decls : binds'[c] \in T \cup {Unbound}
    BY <1>1, <1>2, <1>3 DEF BindsIn, EnvIn, IInv, Typed
  <2>2. BindsIn(T)'
    BY <2>1 DEF BindsIn, EnvIn
  <2> QED
    BY <1>2, <1>3, <2>2 DEF BindsWhole, IInv, Typed
<1> QED
  BY <1>2, <1>3 DEF Hereditary

LEMMA BindsDropped ==
  ASSUME IInv, NEW D, binds' = [d \in Decls |-> IF d \in D THEN Unbound ELSE binds[d]]
  PROVE  BindsWhole' /\ DOMAIN binds' = Decls
<1>1. PICK S : Hereditary(S) /\ BindsIn(S)
  BY DEF IInv, BindsWhole
<1>2. BindsIn(S)'
  BY <1>1 DEF BindsIn, EnvIn
<1> QED
  BY <1>1, <1>2 DEF BindsWhole

LEMMA ListedNow ==
  ASSUME NEW s \in Seq(Decls), Once(s), NEW t \in Seq(Decls), Once(t),
         Names(s) \cap Names(t) = {}, todo' = s, next' = t
  PROVE  Listed'
<1>1. todo' \in Seq(Decls) /\ Once(todo') /\ next' \in Seq(Decls) /\ Once(next')
  OBVIOUS
<1>2. Names(todo') \cap Names(next') = {}
  OBVIOUS
<1> QED
  BY <1>1, <1>2 DEF Listed

LEMMA BindsSame == BindsWhole /\ binds' = binds => BindsWhole'
BY DEF BindsWhole, BindsIn, EnvIn

\* An attempt settles a declaration or puts it off.
Settles(d) ==
  /\ todo' = Tail(todo) /\ next' = next
  /\ entry' = [entry EXCEPT ![d] = Value(binds, d)]
  /\ progress' = TRUE /\ refined' = refined

Defers(d) ==
  /\ todo' = Tail(todo) /\ next' = Append(next, d)
  /\ entry' = entry
  /\ progress' = progress /\ refined' \in {refined, TRUE}

LEMMA Attempted ==
  ASSUME IInv, Attempt
  PROVE  /\ todo # <<>> /\ mode = "pass" /\ Head(todo) \in Decls
         /\ Settles(Head(todo)) \/ Defers(Head(todo))
         /\ binds' = [binds EXCEPT ![Head(todo)] = Value(binds, Head(todo))]
         /\ UNCHANGED <<program, before, mode, iteration, refinements, why>>
<1>1. todo # <<>> /\ mode = "pass" /\ Head(todo) \in Decls
  BY HeadTaken DEF IInv, Listed, Attempt
<1>2. \A d, v : Refined(d, v) \in BOOLEAN
  BY DEF Refined
<1>3. refined \in BOOLEAN
  BY DEF IInv, Typed
<1> DEFINE d == Head(todo)
           v == Value(binds, d)
<1>4. \/ ~Unresolved(v) /\ Write(d, v) /\ progress' = TRUE /\ UNCHANGED <<next, refined>>
      \/ /\ Unresolved(v) /\ KeepPartial(d, v) /\ next' = Append(next, d)
         /\ refined' = (refined \/ Refined(d, v)) /\ UNCHANGED progress
  BY DEF Attempt
<1>5. /\ todo' = Tail(todo)
      /\ UNCHANGED <<program, before, mode, iteration, refinements, why>>
  BY DEF Attempt
<1> HIDE DEF d, v
<1>6. CASE ~Unresolved(v) /\ Write(d, v) /\ progress' = TRUE /\ UNCHANGED <<next, refined>>
  BY <1>1, <1>5, <1>6 DEF Write, Settles, d, v
<1>7. CASE /\ Unresolved(v) /\ KeepPartial(d, v) /\ next' = Append(next, d)
           /\ refined' = (refined \/ Refined(d, v)) /\ UNCHANGED progress
  <2>1. refined' \in {refined, TRUE}
    BY <1>2, <1>3, <1>7
  <2> QED
    BY <1>1, <1>5, <1>7, <2>1 DEF KeepPartial, Defers, d, v
<1> QED
  BY <1>4, <1>6, <1>7

LEMMA AttemptKeeps ==
  ASSUME IInv, Attempt
  PROVE  IInv'
<1> DEFINE d == Head(todo)
<1>1. /\ todo \in Seq(Decls) /\ Once(todo) /\ next \in Seq(Decls) /\ Once(next)
      /\ Names(todo) \cap Names(next) = {}
  BY DEF IInv, Listed
<1>2. /\ d \in Decls /\ d \in Names(todo) /\ todo' = Tail(todo)
      /\ Tail(todo) \in Seq(Decls) /\ Once(Tail(todo))
      /\ Names(Tail(todo)) = Names(todo) \ {d}
      /\ next' = next \/ next' = Append(next, d)
  BY <1>1, Attempted, HeadTaken DEF Settles, Defers
<1> HIDE DEF d
<1>3. Listed'
  <2>1. CASE next' = next
    <3>1. (Names(todo) \ {d}) \cap Names(next) = {}
      BY <1>1
    <3> QED
      BY <1>1, <1>2, <2>1, <3>1, ListedNow
  <2>2. CASE next' = Append(next, d)
    <3>1. /\ Append(next, d) \in Seq(Decls) /\ Once(Append(next, d))
          /\ Names(Append(next, d)) = Names(next) \cup {d}
      BY <1>1, <1>2, NameAppended
    <3>2. (Names(todo) \ {d}) \cap (Names(next) \cup {d}) = {}
      BY <1>1
    <3> QED
      BY <1>1, <1>2, <2>2, <3>1, <3>2, ListedNow
  <2> QED
    BY <1>2, <2>1, <2>2
<1>4. BindsWhole' /\ DOMAIN binds' = Decls
  BY <1>2, Attempted, BindsKept DEF d
<1>5. program' \in Programs /\ DOMAIN entry' = Decls /\ refined' \in BOOLEAN
  BY Attempted DEF IInv, Typed, Settles, Defers
<1> QED
  BY <1>3, <1>4, <1>5 DEF IInv, Typed

LEMMA RepeatKeeps ==
  ASSUME IInv, PassOver, NEW r, Repeat(r)
  PROVE  IInv'
<1>1. BindsWhole' /\ Typed'
  BY BindsSame DEF IInv, Typed, Repeat
<1>2. Listed'
  <2>1. CASE todo' = next /\ next' = <<>>
    BY <2>1, NoNames DEF IInv, Listed, Once, Names
  <2>2. CASE UNCHANGED <<todo, next>>
    BY <2>2 DEF IInv, Listed, Once, Names
  <2> QED
    BY <2>1, <2>2 DEF Repeat
<1> QED
  BY <1>1, <1>2 DEF IInv

LEMMA AcceptKeeps ==
  ASSUME IInv, Accept
  PROVE  /\ IInv' /\ Head(next) \in Decls
<1>1. /\ next \in Seq(Decls) /\ Once(next) /\ next # <<>> /\ todo' = todo
      /\ next' = Tail(next) /\ Names(todo) \cap Names(next) = {}
      /\ todo \in Seq(Decls) /\ Once(todo)
  BY DEF IInv, Listed, Accept
<1>2. /\ Head(next) \in Decls
      /\ Tail(next) \in Seq(Decls) /\ Once(Tail(next))
      /\ Names(Tail(next)) = Names(next) \ {Head(next)}
  BY <1>1, HeadTaken
<1>3. Listed'
  <2>1. Names(todo) \cap (Names(next) \ {Head(next)}) = {}
    BY <1>1
  <2> QED
    BY <1>1, <1>2, <2>1, ListedNow
<1>4. BindsWhole' /\ DOMAIN binds' = Decls
  BY <1>2, BindsKept DEF Accept, Write
<1>5. program' \in Programs /\ DOMAIN entry' = Decls /\ refined' \in BOOLEAN
  BY DEF IInv, Typed, Accept, Write
<1> QED
  BY <1>2, <1>3, <1>4, <1>5 DEF IInv, Typed

LEMMA Inductive == Spec => []IInv
<1>1. Init => IInv
  BY Initially
<1>2. ASSUME IInv, [Next]_vars
      PROVE  IInv'
  <2>1. CASE Attempt
    BY <1>2, <2>1, AttemptKeeps
  <2>2. CASE AfterProgress
    BY <1>2, <2>2, RepeatKeeps DEF AfterProgress
  <2>3. CASE Refine
    BY <1>2, <2>3, RepeatKeeps DEF Refine
  <2>4. CASE GoFinal
    <3>1. BindsWhole' /\ DOMAIN binds' = Decls
      <4>1. CASE UNCHANGED binds
        BY <1>2, <4>1, BindsSame DEF IInv, Typed
      <4>2. CASE binds' = [d \in Decls |-> IF d \in Names(next) THEN Unbound ELSE binds[d]]
        BY <1>2, <4>2, BindsDropped
      <4> QED
        BY <2>4, <4>1, <4>2 DEF GoFinal
    <3>2. Listed'
      BY <1>2, <2>4 DEF IInv, Listed, Once, Names, GoFinal
    <3> QED
      BY <1>2, <2>4, <3>1, <3>2 DEF IInv, Typed, GoFinal
  <2>5. CASE Accept
    BY <1>2, <2>5, AcceptKeeps
  <2>6. CASE Finish
    <3>1. Listed'
      BY <1>2, <2>6 DEF IInv, Listed, Once, Names, Finish
    <3> QED
      BY <1>2, <2>6, <3>1, BindsSame DEF IInv, Typed, Finish
  <2>7. CASE UNCHANGED vars
    <3>1. Listed'
      BY <1>2, <2>7 DEF IInv, Listed, Once, Names, vars
    <3> QED
      BY <1>2, <2>7, <3>1, BindsSame DEF IInv, Typed, vars
  <2> QED
    BY <1>2, <2>1, <2>2, <2>3, <2>4, <2>5, <2>6, <2>7 DEF Next, Ended
<1> QED
  BY <1>1, <1>2, PTL DEF Spec

-----------------------------------------------------------------------------
(* Each step is a step of PassLoop *)

LEMMA EmptyLists ==
  ASSUME IInv
  PROVE  (Names(todo) = {} <=> todo = <<>>) /\ (Names(next) = {} <=> next = <<>>)
BY NoNames DEF IInv, Listed

LEMMA SettledAfter ==
  ASSUME IInv, NEW d \in Decls, entry' = [entry EXCEPT ![d] = Value(binds, d)]
  PROVE  Settled' = Settled \cup {d}
<1>1. Value(binds, d) # Unbound
  BY BindsKept
<1> QED
  BY <1>1 DEF Settled, IInv, Typed

LEMMA SameBound ==
  ASSUME NEW passes, NEW refining
  PROVE  Loop!WithinBound(passes, refining) <=> WithinBound(passes, refining)
<1>1. Loop!N = Len(Order)
  BY DeclsCounted DEF Loop!N, Loop!Cardinality, Cardinality
<1> QED
  BY <1>1 DEF Loop!WithinBound, WithinBound

LEMMA InitSimulates == Init => Loop!Init
<1> SUFFICES ASSUME Init PROVE Loop!Init
  OBVIOUS
<1>1. Names(todo) = Decls /\ Names(next) = {}
  BY NoNames DEF Init, Decls
<1>2. Order = <<>> <=> Decls = {}
  BY NoNames, DeclaredOnce DEF Decls
<1>3. {d \in Decls : entry[d] # Unbound} = {}
  BY DEF Init
<1> QED
  BY <1>1, <1>2, <1>3 DEF Init, Loop!Init

LEMMA AttemptSimulates ==
  ASSUME IInv, Attempt, NEW d, d = Head(todo)
  PROVE  d \in Decls /\ (Loop!Settle(d) \/ Loop!Defer(d))
<1>1. /\ d \in Decls /\ d \in Names(todo) /\ mode = "pass"
      /\ Names(Tail(todo)) = Names(todo) \ {d}
      /\ Settles(d) \/ Defers(d)
      /\ UNCHANGED <<mode, iteration, refinements>>
  BY Attempted, HeadTaken DEF IInv, Listed
<1>2. d \notin Names(next) /\ next \in Seq(Decls) /\ Once(next)
  BY <1>1 DEF IInv, Listed
<1>3. CASE Settles(d)
  <2>1. Names(todo') = Names(todo) \ {d} /\ Names(next') = Names(next)
    BY <1>1, <1>3 DEF Settles
  <2>2. Settled' = Settled \cup {d}
    BY <1>1, <1>3, SettledAfter DEF Settles
  <2>3. Loop!Settle(d)
    BY <1>1, <1>3, <2>1, <2>2 DEF Loop!Settle, Settles, Settled
  <2> QED
    BY <1>1, <2>3
<1>4. CASE Defers(d)
  <2>1. Names(todo') = Names(todo) \ {d} /\ Names(next') = Names(next) \cup {d}
    BY <1>1, <1>2, <1>4, NameAppended DEF Defers
  <2>2. Settled' = Settled
    BY <1>4 DEF Defers, Settled
  <2>3. Loop!Defer(d)
    BY <1>1, <1>4, <2>1, <2>2 DEF Loop!Defer, Defers, Settled
  <2> QED
    BY <1>1, <2>3
<1> QED
  BY <1>1, <1>3, <1>4

LEMMA RepeatSimulates ==
  ASSUME IInv, PassOver, NEW r, Repeat(r)
  PROVE  Loop!PassOver /\ Loop!Repeat(r)
<1>1. Loop!PassOver
  BY NoNames DEF PassOver, Loop!PassOver
<1>2. Settled' = Settled
  BY DEF Repeat, Settled
<1>3. CASE next # <<>> /\ WithinBound(iteration, r)
  <2>1. /\ todo' = next /\ next' = <<>> /\ iteration' = iteration + 1 /\ mode' = "pass"
    BY <1>3 DEF Repeat
  <2>2. Names(todo') = Names(next) /\ Names(next') = {} /\ Names(next) # {}
    BY <1>3, <2>1, NoNames, EmptyLists
  <2> QED
    BY <1>1, <1>2, <1>3, <2>1, <2>2, SameBound DEF Repeat, Loop!Repeat, Settled
<1>4. CASE ~(next # <<>> /\ WithinBound(iteration, r))
  <2>1. mode' = "done" /\ UNCHANGED <<todo, next, iteration>>
    BY <1>4 DEF Repeat
  <2>2. Names(todo') = Names(todo) /\ Names(next') = Names(next)
    BY <2>1
  <2>3. ~(Names(next) # {} /\ Loop!WithinBound(iteration, r))
    BY <1>4, EmptyLists, SameBound
  <2> QED
    BY <1>1, <1>2, <2>1, <2>2, <2>3 DEF Repeat, Loop!Repeat, Settled
<1> QED
  BY <1>3, <1>4

LEMMA AcceptSimulates ==
  ASSUME IInv, Accept, NEW d, d = Head(next)
  PROVE  d \in Decls /\ Loop!Accept(d)
<1>1. d \in Decls /\ d \in Names(next) /\ Names(Tail(next)) = Names(next) \ {d}
  BY HeadTaken DEF IInv, Listed, Accept
<1>2. /\ mode = "final" /\ next' = Tail(next) /\ entry' = [entry EXCEPT ![d] = Value(binds, d)]
      /\ UNCHANGED <<mode, todo, iteration, refinements, progress, refined>>
  BY DEF Accept, Write
<1>3. Settled' = Settled \cup {d}
  BY <1>1, <1>2, SettledAfter
<1>4. Names(next') = Names(next) \ {d} /\ Names(todo') = Names(todo)
  BY <1>1, <1>2
<1>5. Loop!Accept(d)
  BY <1>1, <1>2, <1>3, <1>4 DEF Loop!Accept, Settled
<1> QED
  BY <1>1, <1>5

LEMMA StepSimulates ==
  ASSUME IInv, [Next]_vars
  PROVE  [Loop!Next]_Loop!vars
<1>1. CASE Attempt
  <2>1. PICK d : d = Head(todo)
    OBVIOUS
  <2>2. d \in Decls /\ (Loop!Settle(d) \/ Loop!Defer(d))
    BY <1>1, <2>1, AttemptSimulates
  <2> QED
    BY <2>2 DEF Loop!Next, Loop!Step
<1>2. CASE AfterProgress
  BY <1>2, RepeatSimulates DEF AfterProgress, Loop!AfterProgress, Loop!Next, Loop!Step
<1>3. CASE Refine
  BY <1>3, RepeatSimulates DEF Refine, Loop!Refine, Loop!Next, Loop!Step
<1>4. CASE GoFinal
  <2>1. UNCHANGED <<entry, todo, next>>
    BY <1>4 DEF GoFinal
  <2>2. Settled' = Settled /\ Names(todo') = Names(todo) /\ Names(next') = Names(next)
    BY <2>1 DEF Settled
  <2>3. Loop!PassOver
    BY <1>4, NoNames DEF GoFinal, PassOver, Loop!PassOver
  <2>4. Loop!GoFinal
    BY <1>4, <2>2, <2>3 DEF GoFinal, PassOver, Loop!GoFinal, Settled
  <2> QED
    BY <2>4 DEF Loop!Next, Loop!Step
<1>5. CASE Accept
  <2>1. PICK d : d = Head(next)
    OBVIOUS
  <2>2. d \in Decls /\ Loop!Accept(d)
    BY <1>5, <2>1, AcceptSimulates
  <2> QED
    BY <2>2 DEF Loop!Next, Loop!Step
<1>6. CASE Finish
  <2>1. UNCHANGED <<entry, todo, next>>
    BY <1>6 DEF Finish
  <2>2. Settled' = Settled /\ Names(todo') = Names(todo) /\ Names(next') = Names(next)
    BY <2>1 DEF Settled
  <2>3. Loop!Finish
    BY <1>6, <2>2, NoNames DEF Finish, Loop!Finish, Settled
  <2> QED
    BY <2>3 DEF Loop!Next, Loop!Step
<1>7. CASE UNCHANGED vars
  <2>1. UNCHANGED <<mode, todo, next, entry, iteration, refinements, progress, refined>>
    BY <1>7 DEF vars
  <2>2. Settled' = Settled /\ Names(todo') = Names(todo) /\ Names(next') = Names(next)
    BY <2>1 DEF Settled
  <2> QED
    BY <2>1, <2>2 DEF Loop!vars, Settled
<1> QED
  BY <1>1, <1>2, <1>3, <1>4, <1>5, <1>6, <1>7 DEF Next, Ended

(***************************************************************************)
(* The loop of eval_decls_scoped over values - whatever its declarations   *)
(* read, yield and leave bound, and for any allowance - is a PassLoop:     *)
(* each attempt settles one declaration or puts it off, none is attempted  *)
(* twice or lost, and the loop repeats and ends where PassLoop does.       *)
(***************************************************************************)
THEOREM RunsPassLoop == Spec => ImplementsPassLoop
<1>1. Init => Loop!Init
  BY InitSimulates
<1>2. IInv /\ [Next]_vars => [Loop!Next]_Loop!vars
  BY StepSimulates
<1> QED
  BY <1>1, <1>2, Inductive, PTL DEF Spec, ImplementsPassLoop, Loop!Spec

-----------------------------------------------------------------------------
(* What is proved of PassLoop holds of the loop over values *)

Counts == INSTANCE PassLoopProofs WITH
  todo <- Names(todo), next <- Names(next),
  settled <- {d \in Decls : entry[d] # Unbound}

LEMMA CountsAssumed == MaxRefinementPasses \in Nat /\ Counts!IsFiniteSet(Decls)
BY DepthIsNat, DeclsCounted DEF MaxRefinementPasses, Counts!IsFiniteSet, IsFiniteSet

LEMMA CountsSame ==
  /\ Loop!Init => Counts!Init
  /\ [Loop!Next]_Loop!vars => [Counts!Next]_Counts!vars
<1>1. Loop!Init => Counts!Init
  BY DEF Loop!Init, Counts!Init
<1>2. \A r : Loop!Repeat(r) => Counts!Repeat(r)
  BY DEF Loop!Repeat, Counts!Repeat, Loop!WithinBound, Counts!WithinBound, Loop!N, Counts!N,
    Loop!Cardinality, Counts!Cardinality
<1>3. /\ Loop!AfterProgress => Counts!AfterProgress
      /\ Loop!Refine => Counts!Refine
      /\ Loop!GoFinal => Counts!GoFinal
      /\ Loop!Finish => Counts!Finish
      /\ Loop!Fail => Counts!Fail
      /\ Loop!Ended => Counts!Ended
      /\ UNCHANGED Loop!vars => UNCHANGED Counts!vars
  BY <1>2 DEF Loop!PassOver, Counts!PassOver, Loop!AfterProgress, Counts!AfterProgress, Loop!Refine,
    Counts!Refine, Loop!GoFinal, Counts!GoFinal, Loop!Finish, Counts!Finish, Loop!Fail, Counts!Fail,
    Loop!Ended, Counts!Ended, Loop!vars, Counts!vars
<1>4. \A d \in Decls : /\ Loop!Settle(d) => Counts!Settle(d)
                       /\ Loop!Defer(d) => Counts!Defer(d)
                       /\ Loop!Accept(d) => Counts!Accept(d)
  BY DEF Loop!Settle, Counts!Settle, Loop!Defer, Counts!Defer, Loop!Accept, Counts!Accept
<1>5. Loop!Next => Counts!Next
  BY <1>3, <1>4 DEF Loop!Next, Loop!Step, Counts!Next, Counts!Step
<1> QED
  BY <1>1, <1>3, <1>5

\* Whatever a literal declares is in the struct when the loop ends.
AllWritten == mode = "done" => \A d \in Decls : entry[d] # Unbound

\* At most one pass for each declaration and one more for each refinement.
PassesCounted == iteration <= Len(Order) + MaxRefinementPasses

(***************************************************************************)
(* The theorems about PassLoop, carried over: no field is missing from the *)
(* struct without an error, however its value came out, and a literal of n *)
(* declarations is passed over n times and once more for each refinement   *)
(* at most.                                                                *)
(***************************************************************************)
THEOREM EachWritten == Spec => [](AllWritten /\ PassesCounted)
<1>1. Counts!Spec => []Counts!NoDeclarationDropped /\ []Counts!PassesBounded
  BY Counts!NothingDropped, Counts!BoundedPasses, CountsAssumed, PTL
<1>2. ImplementsPassLoop => Counts!Spec
  BY CountsSame, PTL DEF ImplementsPassLoop, Loop!Spec, Counts!Spec
<1>3. Counts!NoDeclarationDropped => AllWritten
  BY DEF Counts!NoDeclarationDropped, AllWritten
<1>4. Counts!PassesBounded => PassesCounted
  BY DeclsCounted
  DEF Counts!PassesBounded, PassesCounted, Counts!N, Counts!Cardinality, Cardinality
<1> QED
  BY <1>1, <1>2, <1>3, <1>4, RunsPassLoop, PTL

-----------------------------------------------------------------------------
(* Counting up, and functions defined step by step *)

(* Any set of naturals that is not empty has a least member. *)
LEMMA Least ==
  ASSUME NEW T \in SUBSET Nat, T # {}
  PROVE  \E m \in T : \A k \in T : m <= k
<1>1. PICK m \in T : \A k \in T : <<k, m>> \notin OpToRel(<, Nat)
  BY NatLessThanWellFounded, WFMin
<1>2. \A k \in T : ~(k < m)
  BY <1>1 DEF OpToRel
<1> QED
  BY <1>2

(* A set of naturals that holds 0 and with each number the next holds all. *)
LEMMA Upward ==
  ASSUME NEW T, 0 \in T, \A i \in Nat : i \in T => i + 1 \in T
  PROVE  Nat \subseteq T
<1> DEFINE Bad == Nat \ T
<1>1. SUFFICES ASSUME Bad # {} PROVE FALSE
  OBVIOUS
<1>2. PICK m \in Bad : \A k \in Bad : m <= k
  <2>1. Bad \in SUBSET Nat
    OBVIOUS
  <2> HIDE DEF Bad
  <2> QED
    BY <1>1, <2>1, Least
<1>3. m \in Nat /\ m # 0
  BY <1>2
<1>4. m - 1 \in Nat /\ (m - 1) + 1 = m /\ ~(m <= m - 1)
  BY <1>3
<1>5. m - 1 \in T
  BY <1>2, <1>4
<1> QED
  BY <1>2, <1>4, <1>5

-----------------------------------------------------------------------------
(* The values below a value, level by level *)

Below(l) == UNION {Parts(w) : w \in l}

LEMMA LevelIs ==
  ASSUME NEW v
  PROVE  /\ Level(v, 0) = {v}
         /\ \A n \in Nat : Level(v, n + 1) = Below(Level(v, n))
<1> DEFINE F(g) == [i \in Nat |-> IF i = 0 THEN {v} ELSE UNION {Parts(w) : w \in g[i - 1]}]
           Runs(f, k) == f[0] = {v} /\ \A i \in 1 .. k : f[i] = Below(f[i - 1])
           T == {k \in Nat : \E f : Runs(f, k)}
           h == [k \in Nat |-> (CHOOSE f : Runs(f, k))[k]]
<1>1. \A k \in Nat : \E f : Runs(f, k)
  <2>1. 0 \in T
    <3>1. Runs([i \in {0} |-> {v}], 0)
      OBVIOUS
    <3> HIDE DEF Runs
    <3> QED
      BY <3>1
  <2>2. ASSUME NEW k \in Nat, k \in T PROVE k + 1 \in T
    <3>1. PICK f : Runs(f, k)
      BY <2>2
    <3> DEFINE g == [i \in 0 .. k + 1 |-> IF i = k + 1 THEN Below(f[k]) ELSE f[i]]
    <3>2. \A i \in 1 .. k : g[i] = f[i] /\ g[i - 1] = f[i - 1]
      OBVIOUS
    <3>3. g[0] = f[0] /\ g[k + 1] = Below(f[k]) /\ g[k] = f[k]
      OBVIOUS
    <3> HIDE DEF g
    <3>4. \A i \in 1 .. k + 1 : i = k + 1 \/ i \in 1 .. k
      OBVIOUS
    <3>5. Runs(g, k + 1)
      <4>1. \A i \in 1 .. k + 1 : g[i] = Below(g[i - 1])
        <5>1. \A i \in 1 .. k : g[i] = Below(g[i - 1])
          BY <3>1, <3>2
        <5>2. g[k + 1] = Below(g[(k + 1) - 1])
          BY <3>3
        <5> QED
          BY <3>4, <5>1, <5>2
      <4> QED
        BY <3>1, <3>3, <4>1
    <3> HIDE DEF Runs
    <3> QED
      BY <3>5
  <2> HIDE DEF T
  <2>3. Nat \subseteq T
    BY <2>1, <2>2, Upward
  <2> QED
    BY <2>3 DEF T
<1>2. ASSUME NEW k \in Nat, NEW j \in Nat, NEW f, NEW g, Runs(f, k), Runs(g, j), k <= j
      PROVE  f[k] = g[k]
  <2> DEFINE U == {i \in Nat : i <= k => f[i] = g[i]}
  <2>1. 0 \in U
    BY <1>2
  <2>2. ASSUME NEW i \in Nat, i \in U PROVE i + 1 \in U
    <3>1. ASSUME i + 1 <= k PROVE f[i + 1] = g[i + 1]
      <4>1. i + 1 \in 1 .. k /\ i + 1 \in 1 .. j /\ (i + 1) - 1 = i /\ i <= k
        BY <3>1, <1>2
      <4>2. f[i] = g[i]
        BY <2>2, <4>1
      <4>3. f[i + 1] = Below(f[i]) /\ g[i + 1] = Below(g[i])
        BY <1>2, <4>1
      <4> QED
        BY <4>2, <4>3
    <3> QED
      BY <3>1
  <2> HIDE DEF U
  <2>3. Nat \subseteq U
    BY <2>1, <2>2, Upward
  <2> QED
    BY <2>3 DEF U
<1>3. h[0] = {v} /\ \A n \in Nat : h[n + 1] = Below(h[n])
  <2> DEFINE R(k) == CHOOSE f : Runs(f, k)
  <2>1. \A k \in Nat : Runs(R(k), k)
    <3> HIDE DEF Runs
    <3> QED
      BY <1>1
  <2>2. \A k \in Nat : h[k] = R(k)[k]
    OBVIOUS
  <2> HIDE DEF R, h
  <2>3. h[0] = {v}
    BY <2>1, <2>2
  <2>4. ASSUME NEW n \in Nat PROVE h[n + 1] = Below(h[n])
    <3>1. Runs(R(n + 1), n + 1) /\ Runs(R(n), n) /\ n <= n + 1 /\ n + 1 \in Nat
      BY <2>1
    <3>2. R(n)[n] = R(n + 1)[n]
      <4> HIDE DEF Runs
      <4> QED
        BY <1>2, <3>1
    <3>3. R(n + 1)[n + 1] = Below(R(n + 1)[n])
      <4>1. n + 1 \in 1 .. n + 1 /\ (n + 1) - 1 = n
        OBVIOUS
      <4> QED
        BY <3>1, <4>1
    <3> QED
      BY <2>2, <3>1, <3>2, <3>3
  <2> QED
    BY <2>3, <2>4
<1>4. h = F(h)
  <2>1. ASSUME NEW i \in Nat PROVE h[i] = F(h)[i]
    <3>1. CASE i = 0
      BY <1>3, <3>1
    <3>2. CASE i # 0
      <4>1. i - 1 \in Nat /\ (i - 1) + 1 = i
        BY <3>2
      <4>2. h[i] = Below(h[i - 1])
        BY <1>3, <4>1
      <4> HIDE DEF h
      <4> QED
        BY <3>2, <4>2 DEF Below
    <3> QED
      BY <3>1, <3>2
  <2>2. h = [i \in Nat |-> h[i]] /\ F(h) = [i \in Nat |-> F(h)[i]]
    OBVIOUS
  <2> HIDE DEF h, F
  <2> QED
    BY <2>1, <2>2
<1> DEFINE u == CHOOSE g : g = F(g)
<1>5. u = F(u)
  <2> HIDE DEF F, h
  <2> QED
    BY <1>4
<1>6. \A n \in Nat : Level(v, n) = u[n]
  BY DEF Level
<1>7. u[0] = {v} /\ \A n \in Nat : u[n + 1] = Below(u[n])
  <2> HIDE DEF u
  <2>1. u[0] = {v}
    BY <1>5
  <2>2. ASSUME NEW n \in Nat PROVE u[n + 1] = Below(u[n])
    <3>1. n + 1 \in Nat /\ n + 1 # 0 /\ (n + 1) - 1 = n
      OBVIOUS
    <3>2. u[n + 1] = UNION {Parts(w) : w \in u[n]}
      BY <1>5, <3>1
    <3> QED
      BY <3>2 DEF Below
  <2> QED
    BY <2>1, <2>2
<1> HIDE DEF u
<1> QED
  BY <1>6, <1>7

PartsBeside(l) == UNION {PartPairs(x[1], x[2]) : x \in {y \in l : Alike(y[1], y[2])}}

LEMMA PairsAre ==
  ASSUME NEW v, NEW w
  PROVE  /\ PairsDown(v, w, 0) = {<<v, w>>}
         /\ \A n \in Nat : PairsDown(v, w, n + 1) = PartsBeside(PairsDown(v, w, n))
<1> DEFINE F(g) == [i \in Nat |->
                     IF i = 0 THEN {<<v, w>>}
                     ELSE UNION {PartPairs(x[1], x[2]) : x \in {y \in g[i - 1] : Alike(y[1], y[2])}}]
           Runs(f, k) == f[0] = {<<v, w>>} /\ \A i \in 1 .. k : f[i] = PartsBeside(f[i - 1])
           T == {k \in Nat : \E f : Runs(f, k)}
           h == [k \in Nat |-> (CHOOSE f : Runs(f, k))[k]]
<1>1. \A k \in Nat : \E f : Runs(f, k)
  <2>1. 0 \in T
    <3>1. Runs([i \in {0} |-> {<<v, w>>}], 0)
      OBVIOUS
    <3> HIDE DEF Runs
    <3> QED
      BY <3>1
  <2>2. ASSUME NEW k \in Nat, k \in T PROVE k + 1 \in T
    <3>1. PICK f : Runs(f, k)
      BY <2>2
    <3> DEFINE g == [i \in 0 .. k + 1 |-> IF i = k + 1 THEN PartsBeside(f[k]) ELSE f[i]]
    <3>2. \A i \in 1 .. k : g[i] = f[i] /\ g[i - 1] = f[i - 1]
      OBVIOUS
    <3>3. g[0] = f[0] /\ g[k + 1] = PartsBeside(f[k]) /\ g[k] = f[k]
      OBVIOUS
    <3> HIDE DEF g
    <3>4. \A i \in 1 .. k + 1 : i = k + 1 \/ i \in 1 .. k
      OBVIOUS
    <3>5. Runs(g, k + 1)
      <4>1. \A i \in 1 .. k + 1 : g[i] = PartsBeside(g[i - 1])
        <5>1. \A i \in 1 .. k : g[i] = PartsBeside(g[i - 1])
          BY <3>1, <3>2
        <5>2. g[k + 1] = PartsBeside(g[(k + 1) - 1])
          BY <3>3
        <5> QED
          BY <3>4, <5>1, <5>2
      <4> QED
        BY <3>1, <3>3, <4>1
    <3> HIDE DEF Runs
    <3> QED
      BY <3>5
  <2> HIDE DEF T
  <2>3. Nat \subseteq T
    BY <2>1, <2>2, Upward
  <2> QED
    BY <2>3 DEF T
<1>2. ASSUME NEW k \in Nat, NEW j \in Nat, NEW f, NEW g, Runs(f, k), Runs(g, j), k <= j
      PROVE  f[k] = g[k]
  <2> DEFINE U == {i \in Nat : i <= k => f[i] = g[i]}
  <2>1. 0 \in U
    BY <1>2
  <2>2. ASSUME NEW i \in Nat, i \in U PROVE i + 1 \in U
    <3>1. ASSUME i + 1 <= k PROVE f[i + 1] = g[i + 1]
      <4>1. i + 1 \in 1 .. k /\ i + 1 \in 1 .. j /\ (i + 1) - 1 = i /\ i <= k
        BY <3>1, <1>2
      <4>2. f[i] = g[i]
        BY <2>2, <4>1
      <4>3. f[i + 1] = PartsBeside(f[i]) /\ g[i + 1] = PartsBeside(g[i])
        BY <1>2, <4>1
      <4> QED
        BY <4>2, <4>3
    <3> QED
      BY <3>1
  <2> HIDE DEF U
  <2>3. Nat \subseteq U
    BY <2>1, <2>2, Upward
  <2> QED
    BY <2>3 DEF U
<1>3. h[0] = {<<v, w>>} /\ \A n \in Nat : h[n + 1] = PartsBeside(h[n])
  <2> DEFINE R(k) == CHOOSE f : Runs(f, k)
  <2>1. \A k \in Nat : Runs(R(k), k)
    <3> HIDE DEF Runs
    <3> QED
      BY <1>1
  <2>2. \A k \in Nat : h[k] = R(k)[k]
    OBVIOUS
  <2> HIDE DEF R, h
  <2>3. h[0] = {<<v, w>>}
    BY <2>1, <2>2
  <2>4. ASSUME NEW n \in Nat PROVE h[n + 1] = PartsBeside(h[n])
    <3>1. Runs(R(n + 1), n + 1) /\ Runs(R(n), n) /\ n <= n + 1 /\ n + 1 \in Nat
      BY <2>1
    <3>2. R(n)[n] = R(n + 1)[n]
      <4> HIDE DEF Runs
      <4> QED
        BY <1>2, <3>1
    <3>3. R(n + 1)[n + 1] = PartsBeside(R(n + 1)[n])
      <4>1. n + 1 \in 1 .. n + 1 /\ (n + 1) - 1 = n
        OBVIOUS
      <4> QED
        BY <3>1, <4>1
    <3> QED
      BY <2>2, <3>1, <3>2, <3>3
  <2> QED
    BY <2>3, <2>4
<1>4. h = F(h)
  <2>1. ASSUME NEW i \in Nat PROVE h[i] = F(h)[i]
    <3>1. CASE i = 0
      BY <1>3, <3>1
    <3>2. CASE i # 0
      <4>1. i - 1 \in Nat /\ (i - 1) + 1 = i
        BY <3>2
      <4>2. h[i] = PartsBeside(h[i - 1])
        BY <1>3, <4>1
      <4> HIDE DEF h
      <4> QED
        BY <3>2, <4>2 DEF PartsBeside
    <3> QED
      BY <3>1, <3>2
  <2>2. h = [i \in Nat |-> h[i]] /\ F(h) = [i \in Nat |-> F(h)[i]]
    OBVIOUS
  <2> HIDE DEF h, F
  <2> QED
    BY <2>1, <2>2
<1> DEFINE u == CHOOSE g : g = F(g)
<1>5. u = F(u)
  <2> HIDE DEF F, h
  <2> QED
    BY <1>4
<1>6. \A n \in Nat : PairsDown(v, w, n) = u[n]
  BY DEF PairsDown
<1>7. u[0] = {<<v, w>>} /\ \A n \in Nat : u[n + 1] = PartsBeside(u[n])
  <2> HIDE DEF u
  <2>1. u[0] = {<<v, w>>}
    BY <1>5
  <2>2. ASSUME NEW n \in Nat PROVE u[n + 1] = PartsBeside(u[n])
    <3>1. n + 1 \in Nat /\ n + 1 # 0 /\ (n + 1) - 1 = n
      OBVIOUS
    <3>2. u[n + 1] = UNION {PartPairs(x[1], x[2]) : x \in {y \in u[n] : Alike(y[1], y[2])}}
      BY <1>5, <3>1
    <3> QED
      BY <3>2 DEF PartsBeside
  <2> QED
    BY <2>1, <2>2
<1> HIDE DEF u
<1> QED
  BY <1>6, <1>7

LEMMA MeaningIs ==
  ASSUME NEW p
  PROVE  /\ MeaningOf(p, 0) = Nothing
         /\ \A n \in Nat : MeaningOf(p, n + 1) = EvaluateAll(p, MeaningOf(p, n))
<1> DEFINE Runs(f, k) == f[0] = Nothing /\ \A i \in 1 .. k : f[i] = EvaluateAll(p, f[i - 1])
           T == {k \in Nat : \E f : Runs(f, k)}
<1>1. \A k \in Nat : \E f : Runs(f, k)
  <2>1. 0 \in T
    <3>1. Runs([i \in {0} |-> Nothing], 0)
      OBVIOUS
    <3> HIDE DEF Runs
    <3> QED
      BY <3>1
  <2>2. ASSUME NEW k \in Nat, k \in T PROVE k + 1 \in T
    <3>1. PICK f : Runs(f, k)
      BY <2>2
    <3> DEFINE g == [i \in 0 .. k + 1 |-> IF i = k + 1 THEN EvaluateAll(p, f[k]) ELSE f[i]]
    <3>2. \A i \in 1 .. k : g[i] = f[i] /\ g[i - 1] = f[i - 1]
      OBVIOUS
    <3>3. g[0] = f[0] /\ g[k + 1] = EvaluateAll(p, f[k]) /\ g[k] = f[k]
      OBVIOUS
    <3> HIDE DEF g
    <3>4. \A i \in 1 .. k + 1 : i = k + 1 \/ i \in 1 .. k
      OBVIOUS
    <3>5. Runs(g, k + 1)
      <4>1. \A i \in 1 .. k + 1 : g[i] = EvaluateAll(p, g[i - 1])
        <5>1. \A i \in 1 .. k : g[i] = EvaluateAll(p, g[i - 1])
          BY <3>1, <3>2
        <5>2. g[k + 1] = EvaluateAll(p, g[(k + 1) - 1])
          BY <3>3
        <5> QED
          BY <3>4, <5>1, <5>2
      <4> QED
        BY <3>1, <3>3, <4>1
    <3> HIDE DEF Runs
    <3> QED
      BY <3>5
  <2> HIDE DEF T
  <2>3. Nat \subseteq T
    BY <2>1, <2>2, Upward
  <2> QED
    BY <2>3 DEF T
<1>2. ASSUME NEW k \in Nat, NEW j \in Nat, NEW f, NEW g, Runs(f, k), Runs(g, j), k <= j
      PROVE  f[k] = g[k]
  <2> DEFINE U == {i \in Nat : i <= k => f[i] = g[i]}
  <2>1. 0 \in U
    BY <1>2
  <2>2. ASSUME NEW i \in Nat, i \in U PROVE i + 1 \in U
    <3>1. ASSUME i + 1 <= k PROVE f[i + 1] = g[i + 1]
      <4>1. i + 1 \in 1 .. k /\ i + 1 \in 1 .. j /\ (i + 1) - 1 = i /\ i <= k
        BY <3>1, <1>2
      <4>2. f[i] = g[i]
        BY <2>2, <4>1
      <4>3. f[i + 1] = EvaluateAll(p, f[i]) /\ g[i + 1] = EvaluateAll(p, g[i])
        BY <1>2, <4>1
      <4> QED
        BY <4>2, <4>3
    <3> QED
      BY <3>1
  <2> HIDE DEF U
  <2>3. Nat \subseteq U
    BY <2>1, <2>2, Upward
  <2> QED
    BY <2>3 DEF U
<1> DEFINE F(g, k) == [i \in 0 .. k |-> IF i = 0 THEN Nothing ELSE EvaluateAll(p, g[i - 1])]
           u(k) == CHOOSE g : g = F(g, k)
<1>3. ASSUME NEW k \in Nat PROVE Runs(u(k), k)
  <2>1. PICK f : Runs(f, k)
    BY <1>1
  <2> DEFINE h == [i \in 0 .. k |-> f[i]]
  <2>2. h = F(h, k)
    <3>1. ASSUME NEW i \in 0 .. k PROVE h[i] = F(h, k)[i]
      <4>1. CASE i = 0
        BY <2>1, <4>1
      <4>2. CASE i # 0
        <5>1. i \in 1 .. k /\ i - 1 \in 0 .. k
          BY <4>2
        <5>2. h[i] = EvaluateAll(p, h[i - 1])
          BY <2>1, <5>1
        <5> HIDE DEF h
        <5> QED
          BY <4>2, <5>2
      <4> QED
        BY <4>1, <4>2
    <3> HIDE DEF Runs
    <3> QED
      BY <3>1
  <2>3. u(k) = F(u(k), k)
    <3> HIDE DEF F, h, Runs
    <3> QED
      BY <2>2
  <2> HIDE DEF u
  <2>4. u(k)[0] = Nothing
    BY <2>3
  <2>5. \A i \in 1 .. k : u(k)[i] = EvaluateAll(p, u(k)[i - 1])
    BY <2>3
  <2> QED
    BY <2>4, <2>5
<1>4. \A k \in Nat : MeaningOf(p, k) = u(k)[k]
  BY DEF MeaningOf
<1> HIDE DEF u
<1>5. MeaningOf(p, 0) = Nothing
  BY <1>3, <1>4
<1>6. ASSUME NEW n \in Nat PROVE MeaningOf(p, n + 1) = EvaluateAll(p, MeaningOf(p, n))
  <2>1. Runs(u(n + 1), n + 1) /\ Runs(u(n), n) /\ n <= n + 1 /\ n + 1 \in Nat
    BY <1>3
  <2>2. u(n)[n] = u(n + 1)[n]
    <3> HIDE DEF Runs
    <3> QED
      BY <1>2, <2>1
  <2>3. u(n + 1)[n + 1] = EvaluateAll(p, u(n + 1)[n])
    <3>1. n + 1 \in 1 .. n + 1 /\ (n + 1) - 1 = n
      OBVIOUS
    <3> QED
      BY <2>1, <3>1
  <2> QED
    BY <1>4, <2>1, <2>2, <2>3
<1> QED
  BY <1>5, <1>6

-----------------------------------------------------------------------------
(* More of the same value.  That v carries what w carries, at any depth, is *)
(* that some set of pairs says so of v and w and of all it compares.        *)

Compared(Q) ==
  \A x \in Q :
    \/ x[2] = Unbound
    \/ Pending(x[2]) /\ x[1] # Unbound
    \/ x[1] = x[2]
    \/ Alike(x[1], x[2]) /\ PartPairs(x[1], x[2]) \subseteq Q

Above(v, w) == \E Q : Compared(Q) /\ <<v, w>> \in Q

LEMMA AboveLeaf ==
  ASSUME NEW v, NEW w, w = Unbound \/ (Pending(w) /\ v # Unbound) \/ v = w
  PROVE  Above(v, w)
<1>1. Compared({<<v, w>>})
  BY DEF Compared
<1> QED
  BY <1>1 DEF Above

LEMMA AboveStruct ==
  ASSUME NEW v, NEW w, Alike(v, w),
         \A p \in DOMAIN w.parts : Above(v.parts[p], w.parts[p])
  PROVE  Above(v, w)
<1> DEFINE R(p) == CHOOSE Q : Compared(Q) /\ <<v.parts[p], w.parts[p]>> \in Q
           S == UNION {R(p) : p \in DOMAIN w.parts}
           T == S \cup {<<v, w>>}
<1>1. \A p \in DOMAIN w.parts : Compared(R(p)) /\ <<v.parts[p], w.parts[p]>> \in R(p)
  BY DEF Above
<1> HIDE DEF R
<1>2. Compared(S)
  <2> SUFFICES ASSUME NEW x \in S
               PROVE  \/ x[2] = Unbound
                      \/ Pending(x[2]) /\ x[1] # Unbound
                      \/ x[1] = x[2]
                      \/ Alike(x[1], x[2]) /\ PartPairs(x[1], x[2]) \subseteq S
    BY DEF Compared
  <2>1. PICK p \in DOMAIN w.parts : x \in R(p)
    OBVIOUS
  <2>2. Compared(R(p)) /\ R(p) \subseteq S
    BY <1>1
  <2> HIDE DEF S
  <2> QED
    BY <2>1, <2>2 DEF Compared
<1>3. PartPairs(v, w) \subseteq S
  BY <1>1 DEF PartPairs
<1> HIDE DEF S
<1>4. Compared(T)
  BY <1>2, <1>3 DEF Compared
<1> QED
  BY <1>4 DEF Above

LEMMA AboveCases ==
  ASSUME NEW v, NEW w, Above(v, w)
  PROVE  \/ w = Unbound
         \/ Pending(w) /\ v # Unbound
         \/ v = w
         \/ /\ Alike(v, w)
            /\ \A p \in DOMAIN w.parts : Above(v.parts[p], w.parts[p])
<1>1. PICK Q : Compared(Q) /\ <<v, w>> \in Q
  BY DEF Above
<1>2. \/ w = Unbound
      \/ Pending(w) /\ v # Unbound
      \/ v = w
      \/ Alike(v, w) /\ PartPairs(v, w) \subseteq Q
  BY <1>1 DEF Compared
<1>3. ASSUME PartPairs(v, w) \subseteq Q, NEW p \in DOMAIN w.parts
      PROVE  Above(v.parts[p], w.parts[p])
  <2>1. <<v.parts[p], w.parts[p]>> \in Q
    BY <1>3 DEF PartPairs
  <2> QED
    BY <1>1, <2>1 DEF Above
<1> QED
  BY <1>2, <1>3

(* What is more than more is more. *)
LEMMA AboveTransitive ==
  ASSUME NEW u, NEW v, NEW w, Above(u, v), Above(v, w)
  PROVE  Above(u, w)
<1>1. PICK P : Compared(P) /\ <<u, v>> \in P
  BY DEF Above
<1>2. PICK Q : Compared(Q) /\ <<v, w>> \in Q
  BY DEF Above
<1> DEFINE PQ == {x \in {p[1] : p \in P} \X {q[2] : q \in Q} :
                    \E y : <<x[1], y>> \in P /\ <<y, x[2]>> \in Q}
           T == P \cup Q \cup PQ
<1>3. ASSUME NEW x, NEW z, NEW y, <<x, y>> \in P, <<y, z>> \in Q PROVE <<x, z>> \in PQ
  <2>1. x \in {p[1] : p \in P} /\ z \in {q[2] : q \in Q}
    <3>1. <<x, y>>[1] = x /\ <<y, z>>[2] = z
      OBVIOUS
    <3> QED
      BY <1>3, <3>1
  <2> QED
    BY <1>3, <2>1
<1>4. ASSUME NEW r \in PQ PROVE \E x, y, z : r = <<x, z>> /\ <<x, y>> \in P /\ <<y, z>> \in Q
  <2>1. r = <<r[1], r[2]>>
    OBVIOUS
  <2>2. \E y : <<r[1], y>> \in P /\ <<y, r[2]>> \in Q
    OBVIOUS
  <2> HIDE DEF PQ
  <2> QED
    BY <2>1, <2>2
<1> HIDE DEF PQ
<1>5. ASSUME NEW x, NEW z, <<x, z>> \in PQ
      PROVE  \/ z = Unbound
             \/ Pending(z) /\ x # Unbound
             \/ x = z
             \/ Alike(x, z) /\ PartPairs(x, z) \subseteq T
  <2>1. PICK y : <<x, y>> \in P /\ <<y, z>> \in Q
    BY <1>4, <1>5
  <2>2. \/ y = Unbound \/ (Pending(y) /\ x # Unbound) \/ x = y
        \/ Alike(x, y) /\ PartPairs(x, y) \subseteq P
    BY <1>1, <2>1 DEF Compared
  <2>3. \/ z = Unbound \/ (Pending(z) /\ y # Unbound) \/ y = z
        \/ Alike(y, z) /\ PartPairs(y, z) \subseteq Q
    BY <1>2, <2>1 DEF Compared
  <2>4. Unbound.tag = "unbound"
    BY DEF Unbound
  <2>5. CASE x = y
    BY <2>3, <2>5
  <2>6. CASE y = z
    BY <2>2, <2>6
  <2>7. CASE Pending(z) /\ y # Unbound
    BY <2>2, <2>4, <2>7 DEF Alike
  <2>8. CASE Alike(y, z) /\ PartPairs(y, z) \subseteq Q
    <3>1. CASE Alike(x, y) /\ PartPairs(x, y) \subseteq P
      <4>1. x.tag = "struct" /\ z.tag = "struct" /\ DOMAIN x.parts = DOMAIN z.parts
        BY <2>8, <3>1 DEF Alike
      <4>2. ASSUME NEW p \in DOMAIN z.parts PROVE <<x.parts[p], z.parts[p]>> \in PQ
        <5>1. p \in DOMAIN y.parts
          BY <2>8 DEF Alike
        <5>2. <<x.parts[p], y.parts[p]>> \in P /\ <<y.parts[p], z.parts[p]>> \in Q
          BY <2>8, <3>1, <5>1 DEF PartPairs
        <5> QED
          BY <1>3, <5>2
      <4>3. PartPairs(x, z) \subseteq T
        BY <4>2 DEF PartPairs
      <4> HIDE DEF T
      <4> QED
        BY <4>1, <4>3 DEF Alike
    <3>2. y # Unbound /\ ~Pending(y)
      BY <2>4, <2>8 DEF Alike, Pending
    <3> QED
      BY <2>2, <2>5, <3>1, <3>2
  <2> QED
    BY <2>3, <2>6, <2>7, <2>8
<1>6. Compared(T)
  <2> SUFFICES ASSUME NEW r \in T
               PROVE  \/ r[2] = Unbound
                      \/ Pending(r[2]) /\ r[1] # Unbound
                      \/ r[1] = r[2]
                      \/ Alike(r[1], r[2]) /\ PartPairs(r[1], r[2]) \subseteq T
    BY DEF Compared
  <2>1. CASE r \in P
    BY <1>1, <2>1 DEF Compared
  <2>2. CASE r \in Q
    BY <1>2, <2>2 DEF Compared
  <2>3. CASE r \in PQ
    <3>1. PICK x, z : r = <<x, z>>
      BY <1>4, <2>3
    <3>2. r[1] = x /\ r[2] = z
      BY <3>1
    <3> HIDE DEF T
    <3> QED
      BY <1>5, <2>3, <3>1, <3>2
  <2> QED
    BY <2>1, <2>2, <2>3
<1>7. <<u, w>> \in T
  BY <1>1, <1>2, <1>3
<1> HIDE DEF T
<1> QED
  BY <1>6, <1>7 DEF Above

(* What the run of the model compares, level by level, is compared by then. *)
LEMMA AboveExtends ==
  ASSUME NEW v, NEW w, Above(v, w)
  PROVE  Extends(v, w)
<1>1. PICK Q : Compared(Q) /\ <<v, w>> \in Q
  BY DEF Above
<1> DEFINE T == {n \in Nat : PairsDown(v, w, n) \subseteq Q}
<1>2. 0 \in T
  BY <1>1, PairsAre
<1>3. ASSUME NEW n \in Nat, n \in T PROVE n + 1 \in T
  <2>1. \A x \in PairsDown(v, w, n) : Alike(x[1], x[2]) => PartPairs(x[1], x[2]) \subseteq Q
    <3> SUFFICES ASSUME NEW x \in PairsDown(v, w, n), Alike(x[1], x[2])
                 PROVE  PartPairs(x[1], x[2]) \subseteq Q
      OBVIOUS
    <3>1. x \in Q
      BY <1>3
    <3>2. x[2] # Unbound /\ ~Pending(x[2]) /\ x[1] # x[2]
      BY DEF Alike, Pending, Unbound
    <3> QED
      BY <1>1, <3>1, <3>2 DEF Compared
  <2>2. PartsBeside(PairsDown(v, w, n)) \subseteq Q
    BY <2>1 DEF PartsBeside
  <2>3. PairsDown(v, w, n + 1) \subseteq Q
    BY <2>2, PairsAre
  <2> QED
    BY <2>3
<1>4. \A n \in Nat : PairsDown(v, w, n) \subseteq Q
  <2> HIDE DEF T
  <2>1. Nat \subseteq T
    BY <1>2, <1>3, Upward
  <2> QED
    BY <2>1 DEF T
<1>5. \A x \in Q : Decides(x[1], x[2])
  BY <1>1 DEF Compared, Decides, Alike
<1>6. \A n \in 0 .. Deepest : n \in Nat
  OBVIOUS
<1> QED
  BY <1>4, <1>5, <1>6 DEF Extends

-----------------------------------------------------------------------------
(* From more, a declaration yields more *)

EnvWhole(env) == \E S : Hereditary(S) /\ EnvIn(S, env)

\* env has at least what is decided in low.
Covers(env, low) == \A n \in Decls : Pending(low[n]) \/ Above(env[n], low[n])

\* A field that is only itself is a cycle from the first time it is read.
ReadsItself(p, d) == ~p.form[d].literal /\ p.form[d].expr.op # "const" /\ p.form[d].expr.to = d
Looped(p, env) == \A d \in Decls : ReadsItself(p, d) => env[d] \in {Unbound, Incomplete, Cycle}

\* A name the literal declares never lets an outer binding through.
Hidden(p, env) == \A d \in Decls : d \in p.outer => env[d] # Unbound

LEMMA StocksJoined ==
  ASSUME NEW S, Hereditary(S), NEW T, Hereditary(T)
  PROVE  Hereditary(S \cup T)
<1> DEFINE U == S \cup T
<1>1. \A w \in U : Parts(w) \subseteq U
  BY DEF Hereditary
<1>2. ASSUME NEW w \in U, w.tag = "struct" PROVE \E D, f : f \in [D -> U] /\ w = Struct(f)
  <2>1. \/ \E D, f : f \in [D -> S] /\ w = Struct(f)
        \/ \E D, f : f \in [D -> T] /\ w = Struct(f)
    BY <1>2 DEF Hereditary
  <2>2. \A D : [D -> S] \subseteq [D -> U] /\ [D -> T] \subseteq [D -> U]
    OBVIOUS
  <2> HIDE DEF U
  <2> QED
    BY <2>1, <2>2
<1> HIDE DEF U
<1> QED
  BY <1>1, <1>2 DEF Hereditary, U

LEMMA WholeTogether ==
  ASSUME NEW env, EnvWhole(env), NEW low, EnvWhole(low)
  PROVE  \E S : Hereditary(S) /\ EnvIn(S, env) /\ EnvIn(S, low)
<1>1. PICK S : Hereditary(S) /\ EnvIn(S, env)
  BY DEF EnvWhole
<1>2. PICK T : Hereditary(T) /\ EnvIn(T, low)
  BY DEF EnvWhole
<1>3. Hereditary(S \cup T) /\ EnvIn(S \cup T, env) /\ EnvIn(S \cup T, low)
  BY <1>1, <1>2, StocksJoined DEF EnvIn
<1> QED
  BY <1>3

LEMMA SelectAbove ==
  ASSUME NEW S, Hereditary(S), NEW v \in S, NEW w \in S, Above(v, w), NEW q
  PROVE  Above(Select(v, q), Select(w, q))
<1>1. w # Unbound /\ Select(v, q) # Unbound
  <2>1. Select(v, q) \in S
    BY SelectWhole
  <2> QED
    BY <2>1 DEF Hereditary
<1>2. CASE Pending(w)
  <2>1. Select(w, q) = w
    BY <1>2 DEF Select, Pending
  <2> QED
    BY <1>1, <1>2, <2>1, AboveLeaf
<1>3. CASE v = w
  BY <1>3, AboveLeaf
<1>4. CASE Alike(v, w) /\ \A p \in DOMAIN w.parts : Above(v.parts[p], w.parts[p])
  <2>1. CASE q \in DOMAIN w.parts
    <3>1. Select(v, q) = v.parts[q] /\ Select(w, q) = w.parts[q]
      BY <1>4, <2>1 DEF Alike, Select
    <3> QED
      BY <1>4, <2>1, <3>1
  <2>2. CASE q \notin DOMAIN w.parts
    <3>1. Select(v, q) = Select(w, q)
      BY <1>4, <2>2 DEF Alike, Select
    <3> QED
      BY <3>1, AboveLeaf
  <2> QED
    BY <2>1, <2>2
<1> QED
  BY <1>1, <1>2, <1>3, <1>4, AboveCases

LEMMA PendingKinds ==
  /\ Pending(Incomplete) /\ Pending(Bottom("notfound")) /\ Pending(Bottom("undefined"))
  /\ ~Pending(Cycle) /\ ~Pending(Unbound) /\ Cycle # Unbound
  /\ \A f : ~Pending(Struct(f))
BY DEF Pending, Incomplete, Cycle, Bottom, Unbound, Struct, MayResolveLater

LEMMA OwnAbove ==
  ASSUME NEW S, Hereditary(S), NEW env, EnvIn(S, env), NEW low, EnvIn(S, low), Covers(env, low),
         NEW d \in Decls, NEW n \in Decls \cup {External},
         n = d => env[d] \in {Unbound, Incomplete, Cycle} /\ low[d] \in {Unbound, Incomplete, Cycle}
  PROVE  Above(ReadOwn(env, d, n), ReadOwn(low, d, n))
<1>1. ReadOwn(env, d, n) # Unbound
  <2>1. ReadOwn(env, d, n) \in S
    <3>1. \A outer : ReadOwn(env, d, n) \in S /\ ReadNested(outer, env, n) \in S
      BY ReadsWhole
    <3> QED
      BY <3>1
  <2> QED
    BY <2>1 DEF Hereditary
<1>2. CASE n = External
  <2>1. ReadOwn(env, d, n) = ReadOwn(low, d, n)
    BY <1>2 DEF ReadOwn
  <2> QED
    BY <2>1, AboveLeaf
<1>3. CASE n # External /\ n = d
  <2>1. \A x : x \in {Unbound, Incomplete, Cycle} => x = Unbound \/ IsIncomplete(x) \/ x = Cycle
    BY DEF IsIncomplete, Incomplete, Bottom
  <2>2. ReadOwn(env, d, n) = Cycle /\ ReadOwn(low, d, n) = Cycle
    BY <1>3, <2>1, PendingKinds DEF ReadOwn
  <2> QED
    BY <2>2, AboveLeaf
<1>4. CASE n # External /\ n # d
  <2>1. ReadOwn(low, d, n) = IF low[n] = Unbound THEN Incomplete ELSE low[n]
    BY <1>4 DEF ReadOwn
  <2>2. CASE low[n] = Unbound \/ Pending(low[n])
    BY <1>1, <2>1, <2>2, PendingKinds, AboveLeaf
  <2>3. CASE low[n] # Unbound /\ ~Pending(low[n])
    <3>1. Above(env[n], low[n])
      BY <1>4, <2>3 DEF Covers
    <3>2. env[n] # Unbound
      BY <2>3, <3>1, AboveCases DEF Alike, Unbound
    <3>3. ReadOwn(env, d, n) = env[n] /\ ReadOwn(low, d, n) = low[n]
      BY <1>4, <2>3, <3>2 DEF ReadOwn
    <3> QED
      BY <3>1, <3>3
  <2> QED
    BY <2>2, <2>3
<1> QED
  BY <1>2, <1>3, <1>4

LEMMA NestedAbove ==
  ASSUME NEW S, Hereditary(S), NEW env, EnvIn(S, env), NEW low, EnvIn(S, low), Covers(env, low),
         NEW p, Hidden(p, low), NEW n \in Decls \cup {External}
  PROVE  Above(ReadNested(p.outer, env, n), ReadNested(p.outer, low, n))
<1>1. CASE n = External
  <2>1. ReadNested(p.outer, env, n) = ReadNested(p.outer, low, n)
    BY <1>1 DEF ReadNested, Lookup
  <2> QED
    BY <2>1, AboveLeaf
<1>2. CASE n # External
  <2>1. n \in Decls
    BY <1>2
  <2>2. ReadNested(p.outer, env, n) # Unbound
    <3>1. Bottom("notfound") # Unbound
      BY Marks
    <3> QED
      BY <3>1 DEF ReadNested
  <2>3. ReadNested(p.outer, low, n) = IF low[n] = Unbound THEN Bottom("notfound") ELSE low[n]
    BY <1>2, <2>1 DEF ReadNested, Lookup, Hidden
  <2>4. CASE low[n] = Unbound \/ Pending(low[n])
    BY <2>2, <2>3, <2>4, PendingKinds, AboveLeaf
  <2>5. CASE low[n] # Unbound /\ ~Pending(low[n])
    <3>1. Above(env[n], low[n])
      BY <2>1, <2>5 DEF Covers
    <3>2. env[n] # Unbound
      BY <2>5, <3>1, AboveCases DEF Alike, Unbound
    <3>3. ReadNested(p.outer, env, n) = env[n] /\ ReadNested(p.outer, low, n) = low[n]
      BY <1>2, <2>5, <3>2 DEF ReadNested, Lookup
    <3> QED
      BY <3>1, <3>3
  <2> QED
    BY <2>4, <2>5
<1> QED
  BY <1>1, <1>2

(* An evaluation reads more where more is bound, and yields more of the same. *)
LEMMA EvaluateAbove ==
  ASSUME NEW env, EnvWhole(env), NEW low, EnvWhole(low), Covers(env, low),
         NEW p \in Programs, Looped(p, env), Looped(p, low), Hidden(p, low),
         NEW d \in Decls
  PROVE  Above(Evaluate(p, env, d), Evaluate(p, low, d))
<1>1. PICK S : Hereditary(S) /\ EnvIn(S, env) /\ EnvIn(S, low)
  BY WholeTogether
<1>2. CASE ~p.form[d].literal
  <2> DEFINE e == p.form[d].expr
  <2>1. e \in Exprs(p.form[d])
    BY <1>2 DEF Exprs
  <2>2. e.op = "const" \/ (e.op \in {"ref", "sel"} /\ e.to \in Decls \cup {External})
    BY <2>1, ExprCases
  <2>3. Above(EvalOwn(env, d, e), EvalOwn(low, d, e))
    <3>1. CASE e.op = "const"
      BY <3>1, AboveLeaf DEF EvalOwn
    <3>2. CASE e.op \in {"ref", "sel"} /\ e.to \in Decls \cup {External}
      <4>1. e.to = d => env[d] \in {Unbound, Incomplete, Cycle} /\ low[d] \in {Unbound, Incomplete, Cycle}
        BY <1>2, <3>2 DEF Looped, ReadsItself
      <4> HIDE DEF e
      <4>2. Above(ReadOwn(env, d, e.to), ReadOwn(low, d, e.to))
        BY <1>1, <3>2, <4>1, OwnAbove
      <4>3. ReadOwn(env, d, e.to) \in S /\ ReadOwn(low, d, e.to) \in S
        BY <1>1, <3>2, ReadsWhole
      <4>4. \A q : Above(Select(ReadOwn(env, d, e.to), q), Select(ReadOwn(low, d, e.to), q))
        BY <1>1, <4>2, <4>3, SelectAbove
      <4> QED
        BY <3>2, <4>2, <4>4 DEF EvalOwn
    <3> QED
      BY <2>2, <3>1, <3>2
  <2> QED
    BY <1>2, <2>3, EvaluateIs
<1>3. CASE p.form[d].literal
  <2> DEFINE f == PartsOf(p, env, d)
             g == PartsOf(p, low, d)
  <2>1. DOMAIN f = DOMAIN p.form[d].parts /\ DOMAIN g = DOMAIN p.form[d].parts
    BY DEF PartsOf
  <2>2. ASSUME NEW q \in DOMAIN p.form[d].parts PROVE Above(f[q], g[q])
    <3> DEFINE e == p.form[d].parts[q]
    <3>1. f[q] = EvalNested(p, env, e) /\ g[q] = EvalNested(p, low, e)
      BY DEF PartsOf
    <3>2. e \in Exprs(p.form[d])
      BY <1>3 DEF Exprs
    <3>3. e.op = "const" \/ (e.op \in {"ref", "sel"} /\ e.to \in Decls \cup {External})
      BY <3>2, ExprCases
    <3> HIDE DEF e
    <3>4. CASE e.op = "const"
      BY <3>1, <3>4, AboveLeaf DEF EvalNested
    <3>5. CASE e.op \in {"ref", "sel"} /\ e.to \in Decls \cup {External}
      <4>1. Above(ReadNested(p.outer, env, e.to), ReadNested(p.outer, low, e.to))
        BY <1>1, <3>5, NestedAbove
      <4>2. ReadNested(p.outer, env, e.to) \in S /\ ReadNested(p.outer, low, e.to) \in S
        BY <1>1, <3>5, ReadsWhole
      <4>3. \A r : Above(Select(ReadNested(p.outer, env, e.to), r), Select(ReadNested(p.outer, low, e.to), r))
        BY <1>1, <4>1, <4>2, SelectAbove
      <4> QED
        BY <3>1, <3>5, <4>1, <4>3 DEF EvalNested
    <3> QED
      BY <3>3, <3>4, <3>5
  <2>3. Evaluate(p, env, d) = Struct(f) /\ Evaluate(p, low, d) = Struct(g)
    BY <1>3, EvaluateIs
  <2> HIDE DEF f, g
  <2>4. Struct(f) = Struct(g) \/ Alike(Struct(f), Struct(g))
    BY <2>1, Marks DEF Alike
  <2>5. Above(Struct(f), Struct(g))
    BY <2>1, <2>2, <2>4, Marks, AboveStruct, AboveLeaf
  <2> QED
    BY <2>3, <2>5
<1> QED
  BY <1>2, <1>3

LEMMA EvaluateIsValue ==
  ASSUME NEW env, EnvWhole(env), NEW p \in Programs, NEW d \in Decls
  PROVE  /\ Evaluate(p, env, d) # Unbound
         /\ ReadsItself(p, d) /\ Looped(p, env) => Evaluate(p, env, d) \in {Incomplete, Cycle}
<1>1. PICK S : Hereditary(S) /\ EnvIn(S, env)
  BY DEF EnvWhole
<1>2. \E T : Hereditary(T) /\ Evaluate(p, env, d) \in T
  BY <1>1, EvaluateWhole
<1>3. ASSUME ReadsItself(p, d), Looped(p, env) PROVE Evaluate(p, env, d) \in {Incomplete, Cycle}
  <2> DEFINE e == p.form[d].expr
  <2>1. e \in Exprs(p.form[d]) /\ ~p.form[d].literal /\ e.op # "const" /\ e.to = d
    BY <1>3 DEF Exprs, ReadsItself
  <2>2. e.op \in {"ref", "sel"}
    BY <2>1, ExprCases
  <2>3. env[d] \in {Unbound, Incomplete, Cycle}
    BY <1>3 DEF Looped
  <2>4. IsIncomplete(Incomplete)
    BY DEF IsIncomplete, Incomplete, Bottom
  <2>5. ReadOwn(env, d, d) \in {Incomplete, Cycle}
    BY <2>3, <2>4 DEF ReadOwn
  <2>6. \A q : Select(Cycle, q) = Cycle /\ Select(Incomplete, q) = Incomplete
    BY DEF Select, Cycle, Incomplete, Bottom
  <2>7. EvalOwn(env, d, e) \in {Incomplete, Cycle}
    <3> HIDE DEF e
    <3> QED
      BY <2>1, <2>2, <2>5, <2>6 DEF EvalOwn
  <2> QED
    BY <2>1, <2>7, EvaluateIs
<1> QED
  BY <1>2, <1>3 DEF Hereditary

-----------------------------------------------------------------------------
(* How deep a value is *)

Shallow(v, n) == Level(v, n) = {}

\* Nothing above level n may resolve later.
Decided(v, n) == \A i \in Nat : i < n => \A w \in Level(v, i) : ~Pending(w)

LEMMA LevelShift ==
  ASSUME NEW v
  PROVE  \A i \in Nat : Level(v, i + 1) = UNION {Level(w, i) : w \in Parts(v)}
<1> DEFINE T == {i \in Nat : Level(v, i + 1) = UNION {Level(w, i) : w \in Parts(v)}}
<1>1. 0 \in T
  <2>1. Level(v, 0 + 1) = Parts(v)
    <3>1. Level(v, 0) = {v} /\ Level(v, 0 + 1) = Below(Level(v, 0))
      BY LevelIs
    <3>2. Below({v}) = Parts(v)
      BY DEF Below
    <3> QED
      BY <3>1, <3>2
  <2>2. \A w \in Parts(v) : Level(w, 0) = {w}
    BY LevelIs
  <2> QED
    BY <2>1, <2>2
<1>2. ASSUME NEW i \in Nat, i \in T PROVE i + 1 \in T
  <2>1. Level(v, i + 1) = UNION {Level(w, i) : w \in Parts(v)}
    BY <1>2
  <2>2. Level(v, (i + 1) + 1) = Below(Level(v, i + 1))
    BY LevelIs
  <2>3. \A w \in Parts(v) : Level(w, i + 1) = Below(Level(w, i))
    BY LevelIs
  <2>4. Below(UNION {Level(w, i) : w \in Parts(v)}) = UNION {Below(Level(w, i)) : w \in Parts(v)}
    BY DEF Below
  <2>5. UNION {Below(Level(w, i)) : w \in Parts(v)} = UNION {Level(w, i + 1) : w \in Parts(v)}
    BY <2>3
  <2> QED
    BY <2>1, <2>2, <2>4, <2>5
<1> HIDE DEF T
<1>3. Nat \subseteq T
  BY <1>1, <1>2, Upward
<1> QED
  BY <1>3 DEF T

LEMMA ShallowParts ==
  ASSUME NEW v, NEW n \in Nat
  PROVE  /\ ~Shallow(v, 0)
         /\ Shallow(v, n + 1) <=> \A w \in Parts(v) : Shallow(w, n)
<1>1. Level(v, n + 1) = UNION {Level(w, n) : w \in Parts(v)}
  BY LevelShift
<1>2. Level(v, 0) = {v}
  BY LevelIs
<1> QED
  BY <1>1, <1>2 DEF Shallow

LEMMA ShallowOn ==
  ASSUME NEW v, NEW n \in Nat, Shallow(v, n), NEW m \in Nat, n <= m
  PROVE  Shallow(v, m)
<1> DEFINE T == {i \in Nat : Shallow(v, n + i)}
<1>1. 0 \in T
  OBVIOUS
<1>2. ASSUME NEW i \in Nat, i \in T PROVE i + 1 \in T
  <2>1. n + i \in Nat /\ n + (i + 1) = (n + i) + 1
    OBVIOUS
  <2>2. Level(v, (n + i) + 1) = Below(Level(v, n + i))
    BY <2>1, LevelIs
  <2>3. Level(v, n + i) = {}
    BY <1>2 DEF Shallow
  <2>4. Below({}) = {}
    BY DEF Below
  <2> QED
    BY <2>1, <2>2, <2>3, <2>4 DEF Shallow
<1> HIDE DEF T
<1>3. Nat \subseteq T
  BY <1>1, <1>2, Upward
<1>4. m - n \in Nat /\ n + (m - n) = m
  OBVIOUS
<1>5. m - n \in T
  BY <1>3, <1>4
<1> QED
  BY <1>4, <1>5 DEF T

LEMMA DecidedParts ==
  ASSUME NEW v, NEW n \in Nat, Decided(v, n + 1)
  PROVE  ~Pending(v) /\ \A w \in Parts(v) : Decided(w, n)
<1>1. 0 < n + 1 /\ v \in Level(v, 0)
  BY LevelIs
<1>2. ASSUME NEW w \in Parts(v), NEW i \in Nat, i < n, NEW x \in Level(w, i)
      PROVE  ~Pending(x)
  <2>1. x \in Level(v, i + 1)
    BY LevelShift
  <2>2. i + 1 \in Nat /\ i + 1 < n + 1
    BY <1>2
  <2> QED
    BY <2>1, <2>2 DEF Decided
<1>3. ~Pending(v)
  BY <1>1 DEF Decided
<1> QED
  BY <1>2, <1>3 DEF Decided

(* A value with nothing left to resolve has nothing more to come.           *)
LEMMA CompleteAbove ==
  ASSUME NEW S, Hereditary(S), NEW n \in Nat, NEW v \in S, NEW x \in S,
         Above(x, v), Shallow(v, n), Decided(v, n)
  PROVE  x = v
<1> DEFINE Same(i) == \A a \in S, b \in S : Above(a, b) /\ Shallow(b, i) /\ Decided(b, i) => a = b
           T == {i \in Nat : Same(i)}
<1>1. 0 \in T
  BY ShallowParts
<1>2. ASSUME NEW i \in Nat, i \in T PROVE i + 1 \in T
  <2> SUFFICES ASSUME NEW a \in S, NEW b \in S, Above(a, b), Shallow(b, i + 1), Decided(b, i + 1)
               PROVE  a = b
    OBVIOUS
  <2>1. b # Unbound /\ ~Pending(b)
    BY DecidedParts DEF Hereditary
  <2>2. CASE Alike(a, b) /\ \A p \in DOMAIN b.parts : Above(a.parts[p], b.parts[p])
    <3>1. PICK D, f : f \in [D -> S] /\ a = Struct(f)
      BY <2>2 DEF Alike, Hereditary
    <3>2. PICK E, g : g \in [E -> S] /\ b = Struct(g)
      BY <2>2 DEF Alike, Hereditary
    <3>3. a.parts = f /\ b.parts = g /\ D = E
      BY <2>2, <3>1, <3>2, Marks DEF Alike
    <3>4. ASSUME NEW p \in D PROVE f[p] = g[p]
      <4>1. g[p] \in Parts(b) /\ f[p] \in S /\ g[p] \in S
        BY <2>2, <3>1, <3>2, <3>3 DEF Alike, Parts
      <4>2. Shallow(g[p], i) /\ Decided(g[p], i)
        BY <4>1, ShallowParts, DecidedParts
      <4>3. Above(f[p], g[p])
        BY <2>2, <3>2, <3>3
      <4> QED
        BY <1>2, <4>1, <4>2, <4>3
    <3>5. f = g
      BY <3>1, <3>2, <3>3, <3>4
    <3> QED
      BY <3>1, <3>2, <3>5
  <2> QED
    BY <2>1, <2>2, AboveCases
<1> HIDE DEF T, Same
<1>3. Nat \subseteq T
  BY <1>1, <1>2, Upward
<1>4. Same(n)
  BY <1>3 DEF T
<1> QED
  BY <1>4 DEF Same

(* Nothing decided stands deeper in a value than in what it grows to.       *)
LEMMA AboveDepth ==
  ASSUME NEW n \in Nat, NEW v, NEW x, Above(x, v), Shallow(x, n + 1)
  PROVE  Shallow(v, n + 1)
<1> DEFINE Fits(i) == \A a, b : Above(a, b) /\ Shallow(a, i + 1) => Shallow(b, i + 1)
           T == {i \in Nat : Fits(i)}
<1>1. ASSUME NEW a, NEW b, Above(a, b), a # b
      PROVE  \/ Parts(b) = {}
             \/ /\ Parts(a) = {a.parts[p] : p \in DOMAIN b.parts}
                /\ Parts(b) = {b.parts[p] : p \in DOMAIN b.parts}
                /\ \A p \in DOMAIN b.parts : Above(a.parts[p], b.parts[p])
  <2>1. b = Unbound \/ Pending(b) => Parts(b) = {}
    BY DEF Unbound, Pending, Parts
  <2>2. Alike(a, b) => /\ Parts(a) = {a.parts[p] : p \in DOMAIN b.parts}
                       /\ Parts(b) = {b.parts[p] : p \in DOMAIN b.parts}
    BY DEF Alike, Parts
  <2> QED
    BY <1>1, <2>1, <2>2, AboveCases
<1>2. 0 \in T
  <2> SUFFICES ASSUME NEW a, NEW b, Above(a, b), Shallow(a, 0 + 1) PROVE Shallow(b, 0 + 1)
    OBVIOUS
  <2>1. Parts(a) = {}
    BY ShallowParts
  <2>2. Parts(b) = {}
    BY <1>1, <2>1
  <2> QED
    BY <2>2, ShallowParts
<1>3. ASSUME NEW i \in Nat, i \in T PROVE i + 1 \in T
  <2> SUFFICES ASSUME NEW a, NEW b, Above(a, b), Shallow(a, (i + 1) + 1)
               PROVE  Shallow(b, (i + 1) + 1)
    OBVIOUS
  <2>1. \A w \in Parts(a) : Shallow(w, i + 1)
    BY ShallowParts
  <2>2. ASSUME NEW w \in Parts(b) PROVE Shallow(w, i + 1)
    BY <1>1, <1>3, <2>1, <2>2
  <2> QED
    BY <2>2, ShallowParts
<1> HIDE DEF T, Fits
<1>4. Nat \subseteq T
  BY <1>2, <1>3, Upward
<1>5. Fits(n)
  BY <1>4 DEF T
<1> QED
  BY <1>5 DEF Fits

(* What is no deeper than n makes a stock of its own.                       *)
LEMMA ShallowStock ==
  ASSUME NEW S, Hereditary(S), NEW n \in Nat
  PROVE  Hereditary({w \in S : Shallow(w, n + 1)})
<1> DEFINE U == {w \in S : Shallow(w, n + 1)}
<1>1. ASSUME NEW w \in Leaves PROVE w \in U
  <2>1. Parts(w) = {} /\ w \in S
    BY Marks DEF Hereditary, Leaves, Outer, Cycle, Incomplete, Parts
  <2> QED
    BY <2>1, ShallowParts
<1>2. ASSUME NEW w \in U PROVE Parts(w) \subseteq U
  <2>1. ASSUME NEW x \in Parts(w) PROVE x \in U
    <3>1. x \in S /\ Shallow(x, n)
      BY ShallowParts DEF Hereditary
    <3>2. n <= n + 1 /\ n + 1 \in Nat
      OBVIOUS
    <3>3. Shallow(x, n + 1)
      BY <3>1, <3>2, ShallowOn
    <3> QED
      BY <3>1, <3>3
  <2> QED
    BY <2>1
<1>3. ASSUME NEW w \in U, w.tag = "struct" PROVE \E D, f : f \in [D -> U] /\ w = Struct(f)
  <2>1. PICK D, f : f \in [D -> S] /\ w = Struct(f)
    BY <1>3 DEF Hereditary
  <2>2. \A p \in D : f[p] \in Parts(w)
    BY <2>1, Marks DEF Parts
  <2>3. f \in [D -> U]
    BY <1>2, <2>1, <2>2
  <2> QED
    BY <2>1, <2>3
<1>4. Unbound \notin U
  BY DEF Hereditary
<1> HIDE DEF U
<1> QED
  BY <1>1, <1>2, <1>3, <1>4 DEF Hereditary, U

-----------------------------------------------------------------------------
(* What the declarations mean together *)

LEMMA LeavesStock == Hereditary(Leaves)
<1>1. \A w \in Leaves : w.tag # "struct" /\ w # Unbound
  BY Marks DEF Leaves, Outer, Cycle, Incomplete
<1> QED
  BY <1>1 DEF Hereditary, Parts

(* Names each bound to a value are bound to values of one stock.            *)
LEMMA WholeNames ==
  ASSUME NEW env, \A d \in Decls : \E T : Hereditary(T) /\ env[d] \in T \cup {Unbound}
  PROVE  EnvWhole(env)
<1> DEFINE R(d) == CHOOSE T : Hereditary(T) /\ env[d] \in T \cup {Unbound}
           U == Leaves \cup UNION {R(d) : d \in Decls}
<1>1. \A d \in Decls : Hereditary(R(d)) /\ env[d] \in R(d) \cup {Unbound}
  OBVIOUS
<1> HIDE DEF R
<1>2. ASSUME NEW w \in U
      PROVE  \E T : Hereditary(T) /\ T \subseteq U /\ w \in T
  <2>1. CASE w \in Leaves
    BY <2>1, LeavesStock
  <2>2. CASE \E d \in Decls : w \in R(d)
    <3>1. PICK d \in Decls : w \in R(d)
      BY <2>2
    <3>2. R(d) \subseteq U
      OBVIOUS
    <3> QED
      BY <1>1, <3>1, <3>2
  <2> QED
    BY <2>1, <2>2
<1>3. Leaves \subseteq U /\ EnvIn(U, env)
  BY <1>1 DEF EnvIn
<1> HIDE DEF U
<1>4. ASSUME NEW w \in U
      PROVE  /\ Parts(w) \subseteq U /\ w # Unbound
             /\ w.tag = "struct" => \E D, f : f \in [D -> U] /\ w = Struct(f)
  <2>1. PICK T : Hereditary(T) /\ T \subseteq U /\ w \in T
    BY <1>2
  <2>2. \A D : [D -> T] \subseteq [D -> U]
    BY <2>1
  <2>3. Parts(w) \subseteq T /\ w # Unbound
    BY <2>1 DEF Hereditary
  <2>4. w.tag = "struct" => \E D, f : f \in [D -> T] /\ w = Struct(f)
    BY <2>1 DEF Hereditary
  <2> QED
    BY <2>1, <2>2, <2>3, <2>4
<1>5. Hereditary(U)
  BY <1>3, <1>4 DEF Hereditary
<1> QED
  BY <1>3, <1>5 DEF EnvWhole

\* Every name is bound, to a value.
Full(env) == EnvWhole(env) /\ \A d \in Decls : env[d] # Unbound

LEMMA FullHidden ==
  ASSUME NEW env, Full(env), NEW p
  PROVE  Hidden(p, env)
BY DEF Full, Hidden

LEMMA AllAtOnce ==
  ASSUME NEW env, EnvWhole(env), NEW p \in Programs
  PROVE  /\ Full(EvaluateAll(p, env))
         /\ Looped(p, env) => Looped(p, EvaluateAll(p, env))
<1> DEFINE new == EvaluateAll(p, env)
<1>1. PICK S : Hereditary(S) /\ EnvIn(S, env)
  BY DEF EnvWhole
<1>2. \A d \in Decls : new[d] = Evaluate(p, env, d)
  BY DEF EvaluateAll
<1> HIDE DEF new
<1>3. \A d \in Decls : \E T : Hereditary(T) /\ Evaluate(p, env, d) \in T
  BY <1>1, EvaluateWhole
<1>4. EnvWhole(new)
  BY <1>2, <1>3, WholeNames
<1>5. \A d \in Decls : new[d] # Unbound
  BY <1>2, EvaluateIsValue
<1>6. Looped(p, env) => Looped(p, new)
  BY <1>2, EvaluateIsValue DEF Looped
<1> QED
  BY <1>4, <1>5, <1>6 DEF Full, new

LEMMA MeaningFull ==
  ASSUME NEW p \in Programs
  PROVE  \A k \in Nat : Full(MeaningOf(p, k)) /\ Looped(p, MeaningOf(p, k))
<1> DEFINE T == {k \in Nat : Full(MeaningOf(p, k)) /\ Looped(p, MeaningOf(p, k))}
<1>1. 0 \in T
  <2>1. \A d \in Decls : Nothing[d] = Incomplete
    BY DEF Nothing
  <2>2. Incomplete \in Leaves /\ Incomplete # Unbound
    BY Marks DEF Leaves, Incomplete
  <2>3. EnvWhole(Nothing)
    BY <2>1, <2>2, LeavesStock DEF EnvWhole, EnvIn
  <2> QED
    BY <2>1, <2>2, <2>3, MeaningIs DEF Full, Looped
<1>2. ASSUME NEW k \in Nat, k \in T PROVE k + 1 \in T
  <2>1. EnvWhole(MeaningOf(p, k)) /\ Looped(p, MeaningOf(p, k))
    BY <1>2 DEF Full
  <2> QED
    BY <2>1, AllAtOnce, MeaningIs
<1> HIDE DEF T
<1>3. Nat \subseteq T
  BY <1>1, <1>2, Upward
<1> QED
  BY <1>3 DEF T

LEMMA MeaningNext ==
  ASSUME NEW p \in Programs, NEW k \in Nat, NEW d \in Decls
  PROVE  MeaningOf(p, k + 1)[d] = Evaluate(p, MeaningOf(p, k), d)
BY MeaningIs DEF EvaluateAll

(* Evaluated once more, the declarations mean more of the same.             *)
LEMMA MeaningRises ==
  ASSUME NEW p \in Programs
  PROVE  \A k \in Nat : \A d \in Decls : Above(MeaningOf(p, k + 1)[d], MeaningOf(p, k)[d])
<1> DEFINE T == {k \in Nat : \A d \in Decls : Above(MeaningOf(p, k + 1)[d], MeaningOf(p, k)[d])}
<1>1. 0 \in T
  <2> SUFFICES ASSUME NEW d \in Decls PROVE Above(MeaningOf(p, 0 + 1)[d], MeaningOf(p, 0)[d])
    OBVIOUS
  <2>1. MeaningOf(p, 0)[d] = Incomplete
    BY MeaningIs DEF Nothing
  <2>2. MeaningOf(p, 0 + 1)[d] # Unbound
    BY MeaningFull DEF Full
  <2> QED
    BY <2>1, <2>2, PendingKinds, AboveLeaf
<1>2. ASSUME NEW k \in Nat, k \in T PROVE k + 1 \in T
  <2> SUFFICES ASSUME NEW d \in Decls
               PROVE  Above(MeaningOf(p, (k + 1) + 1)[d], MeaningOf(p, k + 1)[d])
    OBVIOUS
  <2> DEFINE env == MeaningOf(p, k + 1)
             low == MeaningOf(p, k)
  <2>1. /\ EnvWhole(env) /\ Looped(p, env) /\ EnvWhole(low) /\ Looped(p, low) /\ Hidden(p, low)
    BY MeaningFull, FullHidden DEF Full
  <2>2. Covers(env, low)
    BY <1>2 DEF Covers
  <2>3. MeaningOf(p, (k + 1) + 1)[d] = Evaluate(p, env, d) /\ env[d] = Evaluate(p, low, d)
    BY MeaningNext
  <2> HIDE DEF env, low
  <2>4. Above(Evaluate(p, env, d), Evaluate(p, low, d))
    BY <2>1, <2>2, EvaluateAbove
  <2> QED
    BY <2>3, <2>4 DEF env
<1> HIDE DEF T
<1>3. Nat \subseteq T
  BY <1>1, <1>2, Upward
<1> QED
  BY <1>3 DEF T

LEMMA MeaningAbove ==
  ASSUME NEW p \in Programs, NEW k \in Nat, NEW j \in Nat, k <= j, NEW d \in Decls
  PROVE  Above(MeaningOf(p, j)[d], MeaningOf(p, k)[d])
<1> DEFINE T == {i \in Nat : Above(MeaningOf(p, k + i)[d], MeaningOf(p, k)[d])}
<1>1. 0 \in T
  BY AboveLeaf
<1>2. ASSUME NEW i \in Nat, i \in T PROVE i + 1 \in T
  <2>1. k + i \in Nat /\ k + (i + 1) = (k + i) + 1
    OBVIOUS
  <2>2. Above(MeaningOf(p, (k + i) + 1)[d], MeaningOf(p, k + i)[d])
    BY <2>1, MeaningRises
  <2>3. Above(MeaningOf(p, (k + i) + 1)[d], MeaningOf(p, k)[d])
    BY <1>2, <2>2, AboveTransitive
  <2> QED
    BY <2>1, <2>3
<1> HIDE DEF T
<1>3. Nat \subseteq T
  BY <1>1, <1>2, Upward
<1>4. j - k \in Nat /\ k + (j - k) = j
  OBVIOUS
<1>5. j - k \in T
  BY <1>3, <1>4
<1> QED
  BY <1>4, <1>5 DEF T

(* An evaluation nests what it reads one level deeper at most.              *)
LEMMA EvaluateDepth ==
  ASSUME NEW env, EnvWhole(env), NEW n \in Nat, \A d \in Decls : Shallow(env[d], n + 1),
         NEW p \in Programs, NEW d \in Decls
  PROVE  Shallow(Evaluate(p, env, d), n + 2)
<1>1. PICK S : Hereditary(S) /\ EnvIn(S, env)
  BY DEF EnvWhole
<1> DEFINE U == {w \in S : Shallow(w, n + 1)}
<1>2. Hereditary(U)
  BY <1>1, ShallowStock
<1>3. EnvIn(U, env)
  BY <1>1 DEF EnvIn
<1>4. \A w \in U : Shallow(w, n + 1)
  OBVIOUS
<1> HIDE DEF U
<1>5. \A e \in Exprs(p.form[d]) : EvalOwn(env, d, e) \in U /\ EvalNested(p, env, e) \in U
  BY <1>2, <1>3, ExprWhole
<1>6. n + 1 \in Nat /\ n + 2 \in Nat /\ n + 1 <= n + 2 /\ (n + 1) + 1 = n + 2
  OBVIOUS
<1>7. CASE ~p.form[d].literal
  <2>1. Evaluate(p, env, d) \in U
    BY <1>5, <1>7, EvaluateIs DEF Exprs
  <2>2. Shallow(Evaluate(p, env, d), n + 1)
    BY <1>4, <2>1
  <2> QED
    BY <1>6, <2>2, ShallowOn
<1>8. CASE p.form[d].literal
  <2> DEFINE f == PartsOf(p, env, d)
  <2>1. Evaluate(p, env, d) = Struct(f)
    BY <1>8, EvaluateIs
  <2>2. \A q \in DOMAIN f : f[q] \in U
    BY <1>5, <1>8 DEF PartsOf, Exprs
  <2> HIDE DEF f
  <2>3. \A w \in Parts(Struct(f)) : w \in U
    BY <2>2, Marks DEF Parts
  <2>4. \A w \in Parts(Struct(f)) : Shallow(w, n + 1)
    BY <1>4, <2>3
  <2>5. Shallow(Struct(f), (n + 1) + 1)
    BY <1>6, <2>4, ShallowParts
  <2> QED
    BY <1>6, <2>1, <2>5
<1> QED
  BY <1>7, <1>8

LEMMA MeaningDepth ==
  ASSUME NEW p \in Programs
  PROVE  \A k \in Nat : \A d \in Decls : Shallow(MeaningOf(p, k)[d], k + 1)
<1> DEFINE T == {k \in Nat : \A d \in Decls : Shallow(MeaningOf(p, k)[d], k + 1)}
<1>1. 0 \in T
  <2> SUFFICES ASSUME NEW d \in Decls PROVE Shallow(MeaningOf(p, 0)[d], 0 + 1)
    OBVIOUS
  <2>1. Parts(Incomplete) = {}
    BY DEF Incomplete, Bottom, Parts
  <2>2. MeaningOf(p, 0)[d] = Incomplete
    BY MeaningIs DEF Nothing
  <2> QED
    BY <2>1, <2>2, ShallowParts
<1>2. ASSUME NEW k \in Nat, k \in T PROVE k + 1 \in T
  <2>1. EnvWhole(MeaningOf(p, k)) /\ \A d \in Decls : Shallow(MeaningOf(p, k)[d], k + 1)
    BY <1>2, MeaningFull DEF Full
  <2>2. \A d \in Decls : Shallow(Evaluate(p, MeaningOf(p, k), d), k + 2)
    BY <2>1, EvaluateDepth
  <2>3. k + 2 = (k + 1) + 1
    OBVIOUS
  <2> QED
    BY <2>2, <2>3, MeaningNext
<1> HIDE DEF T
<1>3. Nat \subseteq T
  BY <1>1, <1>2, Upward
<1> QED
  BY <1>3 DEF T

-----------------------------------------------------------------------------
(* Bindings only grow *)

\* Each name's declaration yields at least what the name is bound to.
Growing(p, env) ==
  /\ EnvWhole(env) /\ DOMAIN env = Decls
  /\ Looped(p, env) /\ Hidden(p, env)
  /\ \A d \in Decls : Above(Evaluate(p, env, d), env[d])

\* What a name is bound to when its declaration is evaluated.
Rebound(p, env, d) == [env EXCEPT ![d] = Evaluate(p, env, d)]

LEMMA ReboundWhole ==
  ASSUME NEW env, EnvWhole(env), DOMAIN env = Decls, NEW p \in Programs, Looped(p, env),
         NEW d \in Decls
  PROVE  /\ EnvWhole(Rebound(p, env, d)) /\ DOMAIN Rebound(p, env, d) = Decls
         /\ Looped(p, Rebound(p, env, d))
<1> DEFINE new == Rebound(p, env, d)
<1>1. /\ DOMAIN new = Decls /\ new[d] = Evaluate(p, env, d)
      /\ \A e \in Decls : e # d => new[e] = env[e]
  BY DEF Rebound
<1> HIDE DEF new
<1>2. PICK S : Hereditary(S) /\ EnvIn(S, env)
  BY DEF EnvWhole
<1>3. PICK T : Hereditary(T) /\ S \subseteq T /\ Evaluate(p, env, d) \in T
  BY <1>2, EvaluateWhole
<1>4. EnvIn(T, new)
  BY <1>1, <1>2, <1>3 DEF EnvIn
<1>5. EnvWhole(new)
  BY <1>3, <1>4 DEF EnvWhole
<1>6. Looped(p, new)
  <2>1. ReadsItself(p, d) => new[d] \in {Incomplete, Cycle}
    BY <1>1, EvaluateIsValue
  <2> QED
    BY <1>1, <2>1 DEF Looped
<1> QED
  BY <1>1, <1>5, <1>6 DEF new

LEMMA BoundToMore ==
  ASSUME NEW p \in Programs, NEW env, Growing(p, env), NEW d \in Decls
  PROVE  /\ Growing(p, Rebound(p, env, d))
         /\ \A e \in Decls : Above(Rebound(p, env, d)[e], env[e])
<1> DEFINE new == Rebound(p, env, d)
<1>1. /\ EnvWhole(env) /\ DOMAIN env = Decls /\ Looped(p, env) /\ Hidden(p, env)
      /\ \A e \in Decls : Above(Evaluate(p, env, e), env[e])
  BY DEF Growing
<1>2. /\ new[d] = Evaluate(p, env, d)
      /\ \A e \in Decls : e # d => new[e] = env[e]
  BY <1>1 DEF Rebound
<1>3. EnvWhole(new) /\ DOMAIN new = Decls /\ Looped(p, new)
  BY <1>1, ReboundWhole
<1> HIDE DEF new
<1>4. \A e \in Decls : Above(new[e], env[e])
  <2>1. \A e \in Decls : e # d => Above(new[e], env[e])
    BY <1>2, AboveLeaf
  <2> QED
    BY <1>1, <1>2, <2>1
<1>5. Hidden(p, new)
  <2>1. new[d] # Unbound
    BY <1>1, <1>2, EvaluateIsValue
  <2> QED
    BY <1>1, <1>2, <2>1 DEF Hidden
<1>6. ASSUME NEW e \in Decls PROVE Above(Evaluate(p, new, e), new[e])
  <2>1. Covers(new, env)
    BY <1>4 DEF Covers
  <2>2. Above(Evaluate(p, new, e), Evaluate(p, env, e))
    BY <1>1, <1>3, <2>1, EvaluateAbove
  <2>3. Above(Evaluate(p, env, e), env[e])
    BY <1>1
  <2> QED
    BY <1>2, <2>2, <2>3, AboveTransitive
<1> QED
  BY <1>3, <1>4, <1>5, <1>6 DEF Growing, new

Grows ==
  /\ Looped(program, binds)
  /\ mode = "pass" => Growing(program, binds)

LEMMA GrowsAtFirst == Init => Grows
<1> SUFFICES ASSUME Init PROVE Grows
  OBVIOUS
<1>1. /\ program \in Programs /\ DOMAIN binds = Decls /\ EnvWhole(binds)
  BY Initially DEF IInv, Typed, BindsWhole, BindsIn, EnvWhole
<1>2. \A d \in Decls : binds[d] = IF d \in program.outer THEN Incomplete ELSE Unbound
  BY DEF Init, ReservedBindings
<1>3. Looped(program, binds)
  BY <1>2 DEF Looped
<1>4. Incomplete # Unbound
  BY Marks DEF Incomplete
<1>5. Hidden(program, binds)
  BY <1>2, <1>4 DEF Hidden
<1>6. ASSUME NEW d \in Decls PROVE Above(Evaluate(program, binds, d), binds[d])
  <2>1. Evaluate(program, binds, d) # Unbound
    BY <1>1, EvaluateIsValue
  <2> QED
    BY <1>2, <2>1, PendingKinds, AboveLeaf
<1> QED
  BY <1>1, <1>3, <1>5, <1>6 DEF Grows, Growing

LEMMA BindsAreWhole ==
  ASSUME IInv
  PROVE  program \in Programs /\ DOMAIN binds = Decls /\ EnvWhole(binds)
BY DEF IInv, Typed, BindsWhole, BindsIn, EnvWhole

LEMMA GrowsOn ==
  ASSUME IInv, Grows, [Next]_vars
  PROVE  /\ Grows'
         /\ mode = "pass" /\ mode' = "pass" => \A d \in Decls : Above(binds'[d], binds[d])
<1>1. program \in Programs /\ DOMAIN binds = Decls /\ EnvWhole(binds) /\ Looped(program, binds)
  BY BindsAreWhole DEF Grows
<1>2. CASE Attempt
  <2>1. PICK d \in Decls : d = Head(todo)
    BY <1>2, Attempted
  <2>2. binds' = Rebound(program, binds, d) /\ program' = program /\ mode = "pass" /\ mode' = "pass"
    BY <1>2, <2>1, Attempted DEF Value, Rebound
  <2>3. Growing(program, binds)
    BY <2>2 DEF Grows
  <2>4. Growing(program, binds') /\ \A e \in Decls : Above(binds'[e], binds[e])
    BY <1>1, <2>2, <2>3, BoundToMore
  <2>5. Growing(program', binds') /\ Looped(program', binds')
    BY <2>2, <2>4 DEF Growing
  <2> QED
    BY <2>4, <2>5 DEF Grows
<1>3. CASE binds' = binds /\ program' = program /\ (mode' = "pass" => mode = "pass")
  <2>1. Looped(program', binds') /\ (mode' = "pass" => Growing(program', binds'))
    BY <1>3 DEF Grows
  <2>2. \A e \in Decls : Above(binds'[e], binds[e])
    BY <1>3, AboveLeaf
  <2> QED
    BY <2>1, <2>2 DEF Grows
<1>4. CASE GoFinal /\ binds' # binds
  <2>1. /\ binds' = [d \in Decls |-> IF d \in Names(next) THEN Unbound ELSE binds[d]]
        /\ mode' = "final" /\ program' = program
    BY <1>4 DEF GoFinal
  <2>2. Looped(program', binds')
    BY <1>1, <2>1 DEF Looped
  <2> QED
    BY <2>1, <2>2 DEF Grows
<1>5. CASE Accept
  <2>1. PICK d \in Decls : d = Head(next)
    BY <1>5, AcceptKeeps
  <2>2. binds' = Rebound(program, binds, d) /\ program' = program /\ mode = "final" /\ mode' = "final"
    BY <1>5, <2>1 DEF Accept, Write, Value, Rebound
  <2>3. Looped(program', binds')
    BY <1>1, <2>2, ReboundWhole
  <2> QED
    BY <2>2, <2>3 DEF Grows
<1>6. CASE AfterProgress \/ Refine
  BY <1>3, <1>6 DEF AfterProgress, Refine, Repeat, PassOver
<1>7. CASE (GoFinal /\ binds' = binds) \/ Finish \/ UNCHANGED vars
  BY <1>3, <1>7 DEF GoFinal, Finish, vars
<1> QED
  BY <1>2, <1>4, <1>5, <1>6, <1>7 DEF Next, Ended

LEMMA AlwaysGrows == Spec => []Grows
<1>1. IInv /\ Grows /\ [Next]_vars => Grows'
  BY GrowsOn
<1> QED
  BY <1>1, GrowsAtFirst, Inductive, PTL DEF Spec

(***************************************************************************)
(* While the loop repeats, what eval_decls_scoped binds a name to carries  *)
(* all that the name was bound to before, with more of it decided or the   *)
(* same: no pass takes back what another declaration may have read.        *)
(***************************************************************************)
THEOREM OnlyGrow == Spec => BindingsOnlyGrow
<1>1. IInv /\ Grows /\ [Next]_vars
        => [mode = "pass" /\ mode' = "pass" => \A d \in Decls : Extends(binds'[d], binds[d])]_vars
  <2> SUFFICES ASSUME IInv, Grows, [Next]_vars, mode = "pass", mode' = "pass", NEW d \in Decls
               PROVE  Extends(binds'[d], binds[d])
    OBVIOUS
  <2> QED
    BY GrowsOn, AboveExtends
<1> QED
  BY <1>1, Inductive, AlwaysGrows, PTL DEF Spec, BindingsOnlyGrow

-----------------------------------------------------------------------------
(* The meaning of a literal that resolves *)

(* A meaning in no more rounds than the walk looks deep is no deeper.       *)
LEMMA MeaningFits ==
  ASSUME NEW p \in Programs, NEW k \in Nat, k < MaxUnresolvedDepth, NEW d \in Decls
  PROVE  Level(MeaningOf(p, k)[d], MaxUnresolvedDepth) = {}
<1>1. k + 1 \in Nat /\ k + 1 <= MaxUnresolvedDepth
  BY DepthIsNat
<1>2. Shallow(MeaningOf(p, k)[d], k + 1)
  BY MeaningDepth
<1>3. Shallow(MeaningOf(p, k)[d], MaxUnresolvedDepth)
  BY <1>1, <1>2, DepthIsNat, ShallowOn
<1> QED
  BY <1>3 DEF Shallow

LEMMA MeantWhole ==
  ASSUME NEW p \in Programs, NEW n \in Nat, Complete(MeaningOf(p, n)), NEW d \in Decls
  PROVE  /\ Shallow(MeaningOf(p, n)[d], MaxUnresolvedDepth)
         /\ \A i \in Nat : \A w \in Level(MeaningOf(p, n)[d], i) : ~Pending(w)
<1> DEFINE v == MeaningOf(p, n)[d]
<1>1. ~Unresolved(v) /\ Shallow(v, MaxUnresolvedDepth)
  BY DEF Complete, Shallow
<1> HIDE DEF v
<1>2. ASSUME NEW i \in Nat, NEW w \in Level(v, i) PROVE ~Pending(w)
  <2>1. ~(MaxUnresolvedDepth <= i)
    <3>1. MaxUnresolvedDepth <= i => Shallow(v, i)
      BY <1>1, DepthIsNat, ShallowOn
    <3> QED
      BY <3>1 DEF Shallow
  <2>2. i \in 0 .. MaxUnresolvedDepth - 1
    BY <2>1, DepthIsNat
  <2> QED
    BY <1>1, <2>2 DEF Unresolved, UnresolvedWithin
<1> QED
  BY <1>1, <1>2 DEF v

(* Nothing is decided that the meaning leaves open.                         *)
LEMMA NothingMore ==
  ASSUME NEW p \in Programs, NEW n \in Nat, Complete(MeaningOf(p, n)), NEW d \in Decls,
         NEW env, EnvWhole(env), Above(env[d], MeaningOf(p, n)[d])
  PROVE  env[d] = MeaningOf(p, n)[d]
<1> DEFINE low == MeaningOf(p, n)
<1>1. Full(low)
  BY MeaningFull
<1>2. Shallow(low[d], MaxUnresolvedDepth) /\ \A i \in Nat : \A w \in Level(low[d], i) : ~Pending(w)
  BY MeantWhole
<1>3. Above(env[d], low[d])
  OBVIOUS
<1> HIDE DEF low
<1>4. PICK S : Hereditary(S) /\ EnvIn(S, env) /\ EnvIn(S, low)
  BY <1>1, WholeTogether DEF Full
<1>5. low[d] # Unbound /\ ~Pending(low[d])
  BY <1>1, <1>2, LevelIs DEF Full
<1>6. env[d] # Unbound
  BY <1>3, <1>5, AboveCases DEF Alike, Unbound
<1>7. env[d] \in S /\ low[d] \in S
  BY <1>4, <1>5, <1>6 DEF EnvIn
<1>8. Decided(low[d], MaxUnresolvedDepth)
  BY <1>2 DEF Decided
<1>9. MaxUnresolvedDepth \in Nat
  BY DepthIsNat
<1>10. env[d] = low[d]
  BY <1>2, <1>3, <1>4, <1>7, <1>8, <1>9, CompleteAbove
<1> QED
  BY <1>10 DEF low

LEMMA MeantAgain ==
  ASSUME NEW p \in Programs, NEW n \in Nat, Complete(MeaningOf(p, n)), NEW d \in Decls
  PROVE  Evaluate(p, MeaningOf(p, n), d) = MeaningOf(p, n)[d]
<1>1. /\ EnvWhole(MeaningOf(p, n + 1))
      /\ Above(MeaningOf(p, n + 1)[d], MeaningOf(p, n)[d])
      /\ MeaningOf(p, n + 1)[d] = Evaluate(p, MeaningOf(p, n), d)
  BY MeaningFull, MeaningRises, MeaningNext DEF Full
<1> QED
  BY <1>1, NothingMore

(* The walk of is_unresolved_within looks as deep as any part of the        *)
(* meaning: what it finds resolved is what was meant.                       *)
LEMMA ResolvedIsMeant ==
  ASSUME NEW p \in Programs, NEW n \in Nat, Complete(MeaningOf(p, n)), NEW d \in Decls,
         NEW env, EnvWhole(env), env[d] # Unbound, Above(MeaningOf(p, n)[d], env[d]),
         ~Unresolved(env[d])
  PROVE  env[d] = MeaningOf(p, n)[d]
<1> DEFINE top == MeaningOf(p, n)
<1>1. Full(top) /\ Shallow(top[d], MaxUnresolvedDepth) /\ Above(top[d], env[d])
  BY MeaningFull, MeantWhole
<1> HIDE DEF top
<1>2. PICK S : Hereditary(S) /\ EnvIn(S, env) /\ EnvIn(S, top)
  BY <1>1, WholeTogether DEF Full
<1>3. env[d] \in S /\ top[d] \in S
  BY <1>1, <1>2 DEF EnvIn, Full
<1>4. Shallow(env[d], MaxUnresolvedDepth)
  <2>1. MaxUnresolvedDepth # 0
    <3>1. ~Shallow(top[d], 0)
      BY ShallowParts
    <3> QED
      BY <1>1, <3>1
  <2>2. MaxUnresolvedDepth - 1 \in Nat /\ (MaxUnresolvedDepth - 1) + 1 = MaxUnresolvedDepth
    BY <2>1, DepthIsNat
  <2>3. Shallow(env[d], (MaxUnresolvedDepth - 1) + 1)
    BY <1>1, <2>2, AboveDepth
  <2> QED
    BY <2>2, <2>3
<1>5. Decided(env[d], MaxUnresolvedDepth)
  <2> SUFFICES ASSUME NEW i \in Nat, i < MaxUnresolvedDepth, NEW w \in Level(env[d], i)
               PROVE  ~Pending(w)
    BY DEF Decided
  <2>1. i \in 0 .. MaxUnresolvedDepth - 1
    BY DepthIsNat
  <2> QED
    BY <2>1 DEF Unresolved, UnresolvedWithin
<1>6. MaxUnresolvedDepth \in Nat
  BY DepthIsNat
<1>7. top[d] = env[d]
  BY <1>1, <1>2, <1>3, <1>4, <1>5, <1>6, CompleteAbove
<1> QED
  BY <1>7 DEF top

LEMMA CoversMeant ==
  ASSUME NEW p \in Programs, NEW n \in Nat, Complete(MeaningOf(p, n)), NEW d \in Decls,
         NEW env, EnvWhole(env), Covers(env, MeaningOf(p, n))
  PROVE  env[d] = MeaningOf(p, n)[d] /\ ~Unresolved(env[d])
<1>1. \A i \in Nat : \A w \in Level(MeaningOf(p, n)[d], i) : ~Pending(w)
  BY MeantWhole
<1>2. ~Pending(MeaningOf(p, n)[d])
  BY <1>1, LevelIs
<1>3. Above(env[d], MeaningOf(p, n)[d])
  BY <1>2 DEF Covers
<1>4. env[d] = MeaningOf(p, n)[d]
  BY <1>3, NothingMore
<1>5. \A i \in 0 .. MaxUnresolvedDepth - 1 : i \in Nat
  BY DepthIsNat
<1> QED
  BY <1>1, <1>4, <1>5 DEF Unresolved, UnresolvedWithin

LEMMA CycleResolved == ~Unresolved(Cycle)
<1>1. Parts(Cycle) = {} /\ ~Pending(Cycle)
  BY PendingKinds DEF Cycle, Bottom, Parts
<1>2. Level(Cycle, 0) = {Cycle}
  BY LevelIs
<1>3. ASSUME NEW i \in 0 .. MaxUnresolvedDepth - 1, NEW w \in Level(Cycle, i) PROVE ~Pending(w)
  <2>1. CASE i = 0
    BY <1>1, <1>2, <2>1
  <2>2. CASE i # 0
    <3>1. i \in Nat /\ 1 \in Nat /\ 1 <= i
      BY <2>2, DepthIsNat
    <3>2. Shallow(Cycle, 0 + 1)
      BY <1>1, ShallowParts
    <3>3. Shallow(Cycle, i)
      BY <3>1, <3>2, ShallowOn
    <3> QED
      BY <3>3 DEF Shallow
  <2> QED
    BY <2>1, <2>2
<1> QED
  BY <1>3 DEF Unresolved, UnresolvedWithin

(* A declaration that reads what an enclosing literal has yet to compute    *)
(* has no meaning within the allowance.                                     *)
LEMMA ReadsOutside ==
  ASSUME NEW p \in Programs, NEW n \in Nat, Complete(MeaningOf(p, n)), NEW d \in Decls,
         NEW e \in Exprs(p.form[d])
  PROVE  e.op # "const" => e.to # External
<1> SUFFICES ASSUME e.op # "const", e.to = External PROVE FALSE
  OBVIOUS
<1> DEFINE env == MeaningOf(p, n)
<1>1. \A i \in Nat : \A w \in Level(env[d], i) : ~Pending(w)
  BY MeantWhole
<1>2. Evaluate(p, env, d) = env[d]
  BY MeantAgain
<1> HIDE DEF env
<1>3. e.op \in {"ref", "sel"}
  BY ExprCases
<1>4. \A q : Select(Incomplete, q) = Incomplete
  BY DEF Select, Incomplete, Bottom
<1>5. ReadOwn(env, d, External) = Incomplete /\ ReadNested(p.outer, env, External) = Incomplete
  <2>1. Incomplete # Unbound
    BY Marks DEF Incomplete
  <2> QED
    BY <2>1 DEF ReadOwn, ReadNested, Lookup
<1>6. EvalOwn(env, d, e) = Incomplete /\ EvalNested(p, env, e) = Incomplete
  BY <1>3, <1>4, <1>5 DEF EvalOwn, EvalNested
<1>7. CASE ~p.form[d].literal
  <2>1. env[d] = Incomplete
    BY <1>2, <1>6, <1>7, EvaluateIs DEF Exprs
  <2> QED
    BY <1>1, <2>1, LevelIs, PendingKinds
<1>8. CASE p.form[d].literal
  <2>1. PICK q \in DOMAIN p.form[d].parts : e = p.form[d].parts[q]
    BY <1>8 DEF Exprs
  <2> DEFINE f == PartsOf(p, env, d)
  <2>2. env[d] = Struct(f) /\ q \in DOMAIN f /\ f[q] = Incomplete
    BY <1>2, <1>6, <1>8, <2>1, EvaluateIs DEF PartsOf
  <2> HIDE DEF f
  <2>3. Incomplete \in Parts(env[d])
    BY <2>2, Marks DEF Parts
  <2>4. Level(env[d], 0 + 1) = Below({env[d]})
    BY LevelIs
  <2>5. Incomplete \in Level(env[d], 1)
    BY <2>3, <2>4 DEF Below
  <2> QED
    BY <1>1, <2>5, PendingKinds
<1> QED
  BY <1>7, <1>8

-----------------------------------------------------------------------------
(* What the loop has settled so far *)

\* Of the loop alone: each declaration not written is listed, one put off is bound
\* to what was not resolved, and a pass that changes nothing has nothing to change.
Kept ==
  /\ binds = [d \in Decls |-> binds[d]] /\ entry = [d \in Decls |-> entry[d]]
  /\ iteration \in Nat /\ refinements \in Nat
  /\ mode = "pass" =>
       /\ why = "none" /\ refinements + 1 <= iteration
       /\ \A d \in Decls : entry[d] = Unbound => d \in Names(todo) \cup Names(next)
       /\ \A d \in Names(next) : Unresolved(binds[d])
       /\ ~refined /\ ~progress =>
            binds = before /\ \A d \in Names(next) : Evaluate(program, binds, d) = binds[d]

\* An attempt in full: what is bound, and where the declaration goes.
LEMMA AttemptInFull ==
  ASSUME IInv, Attempt
  PROVE  \E d \in Decls :
           /\ d \in Names(todo) /\ Names(todo') = Names(todo) \ {d}
           /\ mode = "pass" /\ binds' = Rebound(program, binds, d)
           /\ binds'[d] = Evaluate(program, binds, d)
           /\ UNCHANGED <<program, before, mode, iteration, refinements, why>>
           /\ \/ /\ ~Unresolved(binds'[d]) /\ entry' = [entry EXCEPT ![d] = binds'[d]]
                 /\ progress' = TRUE /\ next' = next /\ refined' = refined
              \/ /\ Unresolved(binds'[d]) /\ entry' = entry
                 /\ Names(next') = Names(next) \cup {d} /\ progress' = progress
                 /\ refined' = (refined \/ Refined(d, binds'[d]))
<1>1. /\ todo \in Seq(Decls) /\ Once(todo) /\ next \in Seq(Decls) /\ Once(next)
      /\ Names(todo) \cap Names(next) = {} /\ DOMAIN binds = Decls
  BY DEF IInv, Listed, Typed
<1>2. PICK d \in Decls : d = Head(todo)
  BY Attempted
<1>3. /\ d \in Names(todo) /\ Names(todo') = Names(todo) \ {d} /\ mode = "pass"
      /\ UNCHANGED <<program, before, mode, iteration, refinements, why>>
  BY <1>1, <1>2, HeadTaken DEF Attempt
<1>4. binds' = Rebound(program, binds, d)
  BY <1>2, Attempted DEF Value, Rebound
<1>5. binds'[d] = Evaluate(program, binds, d) /\ Value(binds, d) = binds'[d]
  BY <1>1, <1>4 DEF Rebound, Value
<1>6. Names(Append(next, d)) = Names(next) \cup {d}
  BY <1>1, <1>3, NameAppended
<1> DEFINE v == Value(binds, d)
<1>7. \/ /\ ~Unresolved(v) /\ entry' = [entry EXCEPT ![d] = v]
         /\ progress' = TRUE /\ next' = next /\ refined' = refined
      \/ /\ Unresolved(v) /\ entry' = entry
         /\ next' = Append(next, d) /\ progress' = progress
         /\ refined' = (refined \/ Refined(d, v))
  BY <1>2 DEF Attempt, Write, KeepPartial
<1> HIDE DEF v
<1>8. v = binds'[d]
  BY <1>5 DEF v
<1> QED
  BY <1>2, <1>3, <1>4, <1>5, <1>6, <1>7, <1>8

LEMMA KeptAtFirst == Init => Kept
<1> SUFFICES ASSUME Init PROVE Kept
  OBVIOUS
<1>1. Names(todo) = Decls /\ Names(next) = {}
  BY NoNames DEF Init, Decls
<1>2. /\ binds = [d \in Decls |-> binds[d]] /\ entry = [d \in Decls |-> entry[d]]
  BY DEF Init, ReservedBindings
<1>3. /\ iteration \in Nat /\ refinements \in Nat
      /\ mode = "pass" => why = "none" /\ refinements + 1 <= iteration
  BY DEF Init
<1>4. binds = before
  BY DEF Init
<1> QED
  BY <1>1, <1>2, <1>3, <1>4 DEF Kept

LEMMA AttemptStaysKept ==
  ASSUME IInv, Kept, Attempt
  PROVE  Kept'
<1>1. PICK d \in Decls :
           /\ d \in Names(todo) /\ Names(todo') = Names(todo) \ {d}
           /\ mode = "pass" /\ binds' = Rebound(program, binds, d)
           /\ binds'[d] = Evaluate(program, binds, d)
           /\ UNCHANGED <<program, before, mode, iteration, refinements, why>>
           /\ \/ /\ ~Unresolved(binds'[d]) /\ entry' = [entry EXCEPT ![d] = binds'[d]]
                 /\ progress' = TRUE /\ next' = next /\ refined' = refined
              \/ /\ Unresolved(binds'[d]) /\ entry' = entry
                 /\ Names(next') = Names(next) \cup {d} /\ progress' = progress
                 /\ refined' = (refined \/ Refined(d, binds'[d]))
  BY AttemptInFull
<1>2. /\ binds = [e \in Decls |-> binds[e]] /\ entry = [e \in Decls |-> entry[e]]
      /\ iteration \in Nat /\ refinements \in Nat /\ why = "none" /\ refinements + 1 <= iteration
      /\ \A e \in Decls : entry[e] = Unbound => e \in Names(todo) \cup Names(next)
      /\ \A e \in Names(next) : Unresolved(binds[e])
      /\ ~refined /\ ~progress =>
           binds = before /\ \A e \in Names(next) : Evaluate(program, binds, e) = binds[e]
  BY <1>1 DEF Kept
<1>3. /\ d \notin Names(next) /\ Names(next) \subseteq Decls
      /\ program \in Programs /\ EnvWhole(binds) /\ refined \in BOOLEAN
  <2>1. next \in Seq(Decls) /\ Names(todo) \cap Names(next) = {}
    BY DEF IInv, Listed
  <2>2. Names(next) \subseteq Decls
    BY <2>1 DEF Names
  <2> QED
    BY <1>1, <2>1, <2>2, BindsAreWhole DEF IInv, Typed
<1>4. \A e \in Decls : e # d => binds'[e] = binds[e]
  BY <1>1, <1>2 DEF Rebound
<1>5. binds' = [e \in Decls |-> binds'[e]]
  <2>1. \A b : b = [e \in Decls |-> b[e]] => Rebound(program, b, d) = [e \in Decls |-> Rebound(program, b, d)[e]]
    BY DEF Rebound
  <2> QED
    BY <1>1, <1>2, <2>1
<1>6. entry' = [e \in Decls |-> entry'[e]]
  BY <1>1, <1>2
<1>7. binds'[d] # Unbound
  BY <1>1, <1>3, EvaluateIsValue
<1>8. \A e \in Decls : entry'[e] = Unbound => e \in Names(todo') \cup Names(next')
  BY <1>1, <1>2, <1>7
<1>9. \A e \in Names(next') : Unresolved(binds'[e])
  BY <1>1, <1>2, <1>3, <1>4
<1>10. ASSUME ~refined', ~progress'
       PROVE  binds' = before' /\ \A e \in Names(next') : Evaluate(program', binds', e) = binds'[e]
  <2>1. /\ Unresolved(binds'[d]) /\ Names(next') = Names(next) \cup {d} /\ ~progress
        /\ ~refined /\ ~Refined(d, binds'[d])
    <3>1. /\ Unresolved(binds'[d]) /\ Names(next') = Names(next) \cup {d} /\ progress' = progress
          /\ refined' = (refined \/ Refined(d, binds'[d]))
      BY <1>1, <1>10
    <3>2. ~progress
      BY <1>10, <3>1
    <3>3. Refined(d, binds'[d]) \in BOOLEAN
      BY DEF Refined
    <3>4. ~refined /\ ~Refined(d, binds'[d])
      BY <1>3, <1>10, <3>1, <3>3
    <3> QED
      BY <3>1, <3>2, <3>4
  <2>2. binds = before /\ \A e \in Names(next) : Evaluate(program, binds, e) = binds[e]
    BY <1>2, <2>1
  <2>3. binds'[d] = before[d]
    BY <2>1, CycleResolved DEF Refined
  <2>4. \A e \in Decls : binds'[e] = binds[e]
    BY <1>4, <2>2, <2>3
  <2>5. binds' = binds
    BY <1>2, <1>5, <2>4
  <2>6. Evaluate(program, binds, d) = binds[d]
    BY <1>1, <2>5
  <2> QED
    BY <1>1, <2>1, <2>2, <2>5, <2>6
<1>11. /\ iteration' \in Nat /\ refinements' \in Nat
       /\ why' = "none" /\ refinements' + 1 <= iteration'
  BY <1>1, <1>2
<1> QED
  BY <1>5, <1>6, <1>8, <1>9, <1>10, <1>11 DEF Kept

LEMMA RepeatStaysKept ==
  ASSUME IInv, Kept, PassOver, NEW r, r \in {refinements, refinements + 1}, Repeat(r)
  PROVE  Kept'
<1>1. /\ binds = [e \in Decls |-> binds[e]] /\ entry = [e \in Decls |-> entry[e]]
      /\ iteration \in Nat /\ refinements \in Nat /\ why = "none" /\ refinements + 1 <= iteration
      /\ \A e \in Decls : entry[e] = Unbound => e \in Names(todo) \cup Names(next)
  BY DEF Kept, PassOver
<1>2. UNCHANGED <<program, binds, entry, why>> /\ refinements' = r
  BY DEF Repeat
<1>3. refinements' \in Nat
  BY <1>1, <1>2
<1>4. CASE mode' = "done" /\ iteration' = iteration
  BY <1>1, <1>2, <1>3, <1>4 DEF Kept
<1>5. CASE /\ todo' = next /\ next' = <<>> /\ iteration' = iteration + 1 /\ before' = binds
           /\ mode' = "pass"
  <2>1. Names(todo) = {} /\ Names(next') = {} /\ Names(todo') = Names(next)
    BY <1>5, NoNames DEF PassOver
  <2>2. iteration' \in Nat /\ why' = "none" /\ refinements' + 1 <= iteration'
    BY <1>1, <1>2, <1>5
  <2>3. binds' = before'
    BY <1>2, <1>5
  <2>4. \A e \in Decls : entry'[e] = Unbound => e \in Names(todo') \cup Names(next')
    BY <1>1, <1>2, <2>1
  <2>5. binds' = [e \in Decls |-> binds'[e]] /\ entry' = [e \in Decls |-> entry'[e]]
    BY <1>1, <1>2
  <2> QED
    BY <1>3, <2>1, <2>2, <2>3, <2>4, <2>5 DEF Kept
<1> QED
  BY <1>4, <1>5 DEF Repeat

LEMMA StaysKept ==
  ASSUME IInv, Kept, [Next]_vars
  PROVE  Kept'
<1>1. /\ binds = [e \in Decls |-> binds[e]] /\ entry = [e \in Decls |-> entry[e]]
      /\ iteration \in Nat /\ refinements \in Nat
  BY DEF Kept
<1>2. CASE Attempt
  BY <1>2, AttemptStaysKept
<1>3. CASE AfterProgress
  BY <1>3, RepeatStaysKept DEF AfterProgress
<1>4. CASE Refine
  BY <1>4, RepeatStaysKept DEF Refine
<1>5. CASE GoFinal
  <2>1. mode' = "final" /\ UNCHANGED <<entry, iteration, refinements>>
    BY <1>5 DEF GoFinal
  <2>2. binds' = binds \/ binds' = [d \in Decls |-> IF d \in Names(next) THEN Unbound ELSE binds[d]]
    BY <1>5 DEF GoFinal
  <2>3. binds' = [e \in Decls |-> binds'[e]]
    BY <1>1, <2>2
  <2> QED
    BY <1>1, <2>1, <2>3 DEF Kept
<1>6. CASE Accept
  <2>1. PICK d : /\ entry' = [entry EXCEPT ![d] = Value(binds, d)]
                 /\ binds' = [binds EXCEPT ![d] = Value(binds, d)]
                 /\ mode' = "final" /\ UNCHANGED <<iteration, refinements>>
    BY <1>6 DEF Accept, Write
  <2>2. binds' = [e \in Decls |-> binds'[e]] /\ entry' = [e \in Decls |-> entry'[e]]
    BY <1>1, <2>1
  <2> QED
    BY <1>1, <2>1, <2>2 DEF Kept
<1>7. CASE Finish
  BY <1>1, <1>7 DEF Kept, Finish
<1>8. CASE UNCHANGED vars
  BY <1>8 DEF Kept, vars, Names, Unresolved
<1> QED
  BY <1>2, <1>3, <1>4, <1>5, <1>6, <1>7, <1>8 DEF Next, Ended

LEMMA AlwaysKept == Spec => []Kept
<1>1. IInv /\ Kept /\ [Next]_vars => Kept'
  BY StaysKept
<1> QED
  BY <1>1, KeptAtFirst, Inductive, PTL DEF Spec

-----------------------------------------------------------------------------
(* The bindings near the meaning from below, and the fields hold it         *)

\* Evaluated once more than a pass has run, no declaration means more than it has
\* bound its name to.
Caught(k, d) == k < iteration \/ (k = iteration /\ d \notin Names(todo))

Nears(n) ==
  /\ \A d \in Decls : Above(MeaningOf(program, n)[d], binds[d])
  /\ \A d \in Decls : entry[d] # Unbound =>
       entry[d] = MeaningOf(program, n)[d] /\ binds[d] = MeaningOf(program, n)[d]
  /\ mode = "pass" => \A k \in 0 .. n, d \in Decls :
       Caught(k, d) => Pending(MeaningOf(program, k)[d]) \/ Above(binds[d], MeaningOf(program, k)[d])
  /\ mode = "final" => next = <<>>

Approaches ==
  \A n \in Nat :
    Complete(MeaningOf(program, n)) /\ (why = "spent" => n <= Allowed) => Nears(n)

LEMMA ApproachesAtFirst == Init => Approaches
<1> SUFFICES ASSUME Init, NEW n \in Nat PROVE Nears(n)
  BY DEF Approaches
<1>1. program \in Programs
  BY DEF Init
<1>2. \A d \in Decls : MeaningOf(program, n)[d] # Unbound
  BY <1>1, MeaningFull DEF Full
<1>3. \A d \in Decls : binds[d] \in {Unbound, Incomplete} /\ entry[d] = Unbound
  BY DEF Init, ReservedBindings
<1>4. \A d \in Decls : Above(MeaningOf(program, n)[d], binds[d])
  BY <1>2, <1>3, PendingKinds, AboveLeaf
<1>5. Names(todo) = Decls /\ (mode = "pass" => iteration = 1) /\ mode # "final"
  BY DEF Init, Decls
<1>6. ASSUME mode = "pass", NEW k \in 0 .. n, NEW d \in Decls, Caught(k, d)
      PROVE  Pending(MeaningOf(program, k)[d])
  <2>1. k = 0
    BY <1>5, <1>6 DEF Caught
  <2> QED
    BY <2>1, MeaningIs, PendingKinds DEF Nothing
<1> QED
  BY <1>3, <1>4, <1>5, <1>6 DEF Nears

LEMMA AttemptApproaches ==
  ASSUME IInv, Grows, Kept, NEW n \in Nat, Nears(n), Complete(MeaningOf(program, n)), Attempt
  PROVE  Nears(n)'
<1> DEFINE M(k) == MeaningOf(program, k)
<1>1. PICK d \in Decls :
           /\ d \in Names(todo) /\ Names(todo') = Names(todo) \ {d}
           /\ mode = "pass" /\ binds' = Rebound(program, binds, d)
           /\ binds'[d] = Evaluate(program, binds, d)
           /\ UNCHANGED <<program, before, mode, iteration, refinements, why>>
           /\ \/ /\ ~Unresolved(binds'[d]) /\ entry' = [entry EXCEPT ![d] = binds'[d]]
                 /\ progress' = TRUE /\ next' = next /\ refined' = refined
              \/ /\ Unresolved(binds'[d]) /\ entry' = entry
                 /\ Names(next') = Names(next) \cup {d} /\ progress' = progress
                 /\ refined' = (refined \/ Refined(d, binds'[d]))
  BY AttemptInFull
<1>2. /\ program \in Programs /\ EnvWhole(binds) /\ DOMAIN binds = Decls
      /\ Looped(program, binds) /\ Hidden(program, binds) /\ Growing(program, binds)
      /\ iteration \in Nat /\ 1 <= iteration
  BY <1>1, BindsAreWhole DEF Grows, Growing, Kept
<1>3. /\ \A e \in Decls : Above(M(n)[e], binds[e])
      /\ \A e \in Decls : entry[e] # Unbound => entry[e] = M(n)[e] /\ binds[e] = M(n)[e]
      /\ \A k \in 0 .. n, e \in Decls :
           Caught(k, e) => Pending(M(k)[e]) \/ Above(binds[e], M(k)[e])
  BY <1>1 DEF Nears
<1>4. Complete(M(n)) /\ \A k \in Nat : Full(M(k)) /\ Looped(program, M(k)) /\ Hidden(program, M(k))
  BY <1>2, MeaningFull, FullHidden
<1>5. n \in Nat
  OBVIOUS
<1>6. \A e \in Decls : Evaluate(program, M(n), e) = M(n)[e]
  BY <1>2, <1>4, MeantAgain
<1>7. /\ \A k \in Nat : \A e \in Decls : M(k + 1)[e] = Evaluate(program, M(k), e)
  BY <1>2, MeaningNext
<1>8. \A env : EnvWhole(env) => \A e \in Decls : Above(env[e], M(n)[e]) => env[e] = M(n)[e]
  BY <1>2, <1>4, NothingMore
<1>9. EnvWhole(binds') /\ (\A e \in Decls : Above(binds'[e], binds[e]))
      /\ \A e \in Decls : e # d => binds'[e] = binds[e]
  BY <1>1, <1>2, BoundToMore DEF Growing, Rebound
<1>10. binds'[d] # Unbound
  BY <1>1, <1>2, EvaluateIsValue
<1>11. Above(M(n)[d], binds'[d])
  <2>1. Covers(M(n), binds)
    BY <1>3 DEF Covers
  <2>2. Above(Evaluate(program, M(n), d), Evaluate(program, binds, d))
    <3>1. EnvWhole(M(n)) /\ Looped(program, M(n))
      BY <1>4, <1>5 DEF Full
    <3> HIDE DEF M
    <3> QED
      BY <1>2, <2>1, <3>1, EvaluateAbove
  <2> QED
    BY <1>1, <1>6, <2>2
<1>12. ~Unresolved(binds'[d]) => binds'[d] = M(n)[d]
  BY <1>2, <1>4, <1>9, <1>10, <1>11, ResolvedIsMeant
<1>13. ASSUME NEW k \in 0 .. n, k = iteration
       PROVE  Above(binds'[d], M(k)[d])
  <2>1. k - 1 \in Nat /\ k - 1 \in 0 .. n /\ k - 1 < iteration /\ (k - 1) + 1 = k
    BY <1>2, <1>5, <1>13
  <2>2. Covers(binds, M(k - 1))
    BY <1>3, <2>1 DEF Covers, Caught
  <2>3. Above(Evaluate(program, binds, d), Evaluate(program, M(k - 1), d))
    <3>1. EnvWhole(M(k - 1)) /\ Looped(program, M(k - 1)) /\ Hidden(program, M(k - 1))
      BY <1>4, <2>1 DEF Full
    <3> HIDE DEF M
    <3> QED
      BY <1>2, <2>2, <3>1, EvaluateAbove
  <2>4. M(k)[d] = Evaluate(program, M(k - 1), d)
    <3>1. M((k - 1) + 1)[d] = Evaluate(program, M(k - 1), d)
      BY <1>7, <2>1
    <3> HIDE DEF M
    <3> QED
      BY <2>1, <3>1
  <2> HIDE DEF M
  <2> QED
    BY <1>1, <2>3, <2>4
<1> HIDE DEF M
<1>14. \A e \in Decls : Above(M(n)[e], binds'[e])
  BY <1>3, <1>9, <1>11
<1>15. ASSUME NEW e \in Decls, entry'[e] # Unbound
       PROVE  entry'[e] = M(n)[e] /\ binds'[e] = M(n)[e]
  <2>1. CASE e # d
    <3>1. entry'[e] = entry[e] /\ binds'[e] = binds[e]
      <4>1. DOMAIN entry = Decls
        BY DEF IInv, Typed
      <4>2. entry' = entry \/ entry' = [entry EXCEPT ![d] = binds'[d]]
        BY <1>1
      <4> QED
        BY <1>9, <2>1, <4>1, <4>2
    <3> QED
      BY <1>3, <1>15, <3>1
  <2>2. CASE e = d /\ entry' = entry
    <3>1. entry[d] = M(n)[d] /\ Above(binds'[d], M(n)[d])
      BY <1>3, <1>9, <1>15, <2>2
    <3> QED
      BY <1>8, <1>9, <2>2, <3>1
  <2>3. CASE e = d /\ ~Unresolved(binds'[d]) /\ entry' = [entry EXCEPT ![d] = binds'[d]]
    <3>1. entry'[d] = binds'[d]
      BY <2>3 DEF IInv, Typed
    <3> QED
      BY <1>12, <2>3, <3>1
  <2> QED
    BY <1>1, <2>1, <2>2, <2>3
<1>16. ASSUME NEW k \in 0 .. n, NEW e \in Decls, k < iteration \/ (k = iteration /\ e \notin Names(todo'))
       PROVE  Pending(M(k)[e]) \/ Above(binds'[e], M(k)[e])
  <2>1. CASE Caught(k, e)
    <3>1. Pending(M(k)[e]) \/ Above(binds[e], M(k)[e])
      BY <1>3, <2>1
    <3> QED
      BY <1>9, <3>1, AboveTransitive
  <2>2. CASE ~Caught(k, e)
    <3>1. k = iteration /\ e = d
      BY <1>1, <1>16, <2>2 DEF Caught
    <3> QED
      BY <1>13, <3>1
  <2> QED
    BY <2>1, <2>2
<1>17. program' = program /\ iteration' = iteration /\ mode' = "pass"
  BY <1>1
<1> QED
  BY <1>14, <1>15, <1>16, <1>17 DEF Nears, Caught, M

LEMMA RepeatApproaches ==
  ASSUME IInv, Kept, NEW n \in Nat, Nears(n), PassOver, NEW r, Repeat(r)
  PROVE  Nears(n)'
<1> DEFINE M(k) == MeaningOf(program, k)
<1>1. /\ program \in Programs /\ iteration \in Nat /\ Names(todo) = {}
      /\ \A e \in Decls : entry[e] = Unbound => e \in Names(todo) \cup Names(next)
  BY BindsAreWhole, NoNames DEF Kept, PassOver
<1>2. /\ \A e \in Decls : Above(M(n)[e], binds[e])
      /\ \A e \in Decls : entry[e] # Unbound => entry[e] = M(n)[e] /\ binds[e] = M(n)[e]
      /\ \A k \in 0 .. n, e \in Decls :
           Caught(k, e) => Pending(M(k)[e]) \/ Above(binds[e], M(k)[e])
  BY DEF Nears, PassOver
<1>3. UNCHANGED <<program, binds, entry>>
  BY DEF Repeat
<1>4. \A k \in 0 .. n, e \in Decls : Above(M(n)[e], M(k)[e])
  BY <1>1, MeaningAbove
<1> HIDE DEF M
<1>5. CASE mode' = "done"
  BY <1>2, <1>3, <1>5 DEF Nears, M
<1>6. CASE todo' = next /\ iteration' = iteration + 1 /\ mode' = "pass"
  <2>1. ASSUME NEW k \in 0 .. n, NEW e \in Decls,
               k < iteration' \/ (k = iteration' /\ e \notin Names(todo'))
        PROVE  Pending(M(k)[e]) \/ Above(binds[e], M(k)[e])
    <3>1. CASE k <= iteration
      <4>1. Caught(k, e)
        BY <1>1, <3>1 DEF Caught
      <4> QED
        BY <1>2, <4>1
    <3>2. CASE ~(k <= iteration)
      <4>1. e \notin Names(next)
        BY <1>1, <1>6, <2>1, <3>2
      <4>2. binds[e] = M(n)[e]
        BY <1>1, <1>2, <4>1
      <4> QED
        BY <1>4, <4>2
    <3> QED
      BY <3>1, <3>2
  <2> QED
    BY <1>2, <1>3, <1>6, <2>1 DEF Nears, Caught, M
<1> QED
  BY <1>5, <1>6 DEF Repeat

(* The final pass finds nothing to accept: what a literal that resolves     *)
(* waits for is neither outside it nor out of reach.                        *)
LEMMA NothingLeft ==
  ASSUME IInv, Grows, Kept, NEW n \in Nat, Nears(n), Complete(MeaningOf(program, n)), GoFinal,
         why' = "spent" => n <= Allowed
  PROVE  Names(next) = {}
<1> SUFFICES ASSUME NEW d \in Names(next) PROVE FALSE
  OBVIOUS
<1> DEFINE M(k) == MeaningOf(program, k)
<1>1. mode = "pass" /\ Names(todo) = {} /\ ~progress
  BY NoNames DEF GoFinal, PassOver
<1>2. /\ program \in Programs /\ EnvWhole(binds) /\ Looped(program, binds)
      /\ next \in Seq(Decls)
  BY <1>1, BindsAreWhole DEF Grows, IInv, Listed
<1>3. /\ d \in Decls /\ Unresolved(binds[d]) /\ iteration \in Nat /\ refinements + 1 <= iteration
      /\ \A e \in Decls : entry[e] = Unbound => e \in Names(next)
      /\ ~refined => \A e \in Names(next) : Evaluate(program, binds, e) = binds[e]
  <2>1. d \in Decls
    <3>1. \A i \in DOMAIN next : next[i] \in Decls
      BY <1>2
    <3> QED
      BY <3>1 DEF Names
  <2>2. /\ \A e \in Decls : entry[e] = Unbound => e \in Names(todo) \cup Names(next)
        /\ \A e \in Names(next) : Unresolved(binds[e])
        /\ ~refined /\ ~progress => \A e \in Names(next) : Evaluate(program, binds, e) = binds[e]
        /\ iteration \in Nat /\ refinements + 1 <= iteration
    BY <1>1 DEF Kept
  <2> QED
    BY <1>1, <2>1, <2>2
<1>4. /\ \A e \in Decls : entry[e] # Unbound => binds[e] = M(n)[e]
      /\ \A k \in 0 .. n, e \in Decls :
           Caught(k, e) => Pending(M(k)[e]) \/ Above(binds[e], M(k)[e])
      /\ Complete(M(n))
  BY <1>1 DEF Nears
<1>5. n \in Nat
  OBVIOUS
<1>6. ~Covers(binds, M(n))
  BY <1>2, <1>3, <1>4, CoversMeant
<1>7. CASE ~refined
  <2> DEFINE T == {k \in Nat : k <= n => Covers(binds, M(k))}
  <2>1. 0 \in T
    BY MeaningIs, PendingKinds DEF Covers, Nothing
  <2>2. ASSUME NEW k \in Nat, k \in T PROVE k + 1 \in T
    <3> SUFFICES ASSUME k + 1 <= n, NEW e \in Decls
                 PROVE  Above(binds[e], M(k + 1)[e])
      BY DEF Covers
    <3>1. Covers(binds, M(k))
      BY <1>5, <2>2
    <3>2. CASE e \in Names(next)
      <4>1. EnvWhole(M(k)) /\ Looped(program, M(k)) /\ Hidden(program, M(k))
        BY <1>2, MeaningFull, FullHidden DEF Full
      <4>2. M(k + 1)[e] = Evaluate(program, M(k), e)
        BY <1>2, MeaningNext
      <4>3. Evaluate(program, binds, e) = binds[e]
        BY <1>3, <1>7, <3>2
      <4> HIDE DEF M
      <4>4. Above(Evaluate(program, binds, e), Evaluate(program, M(k), e))
        BY <1>2, <3>1, <4>1, EvaluateAbove
      <4> QED
        BY <4>2, <4>3, <4>4
    <3>3. CASE e \notin Names(next)
      <4>1. binds[e] = M(n)[e]
        BY <1>3, <1>4, <3>3
      <4>2. Above(M(n)[e], M(k + 1)[e])
        BY <1>2, <1>5, MeaningAbove
      <4> QED
        BY <4>1, <4>2
    <3> QED
      BY <3>2, <3>3
  <2> HIDE DEF T, M
  <2>3. Nat \subseteq T
    BY <2>1, <2>2, Upward
  <2>4. Covers(binds, M(n))
    BY <1>5, <2>3 DEF T
  <2> QED
    BY <1>6, <2>4
<1>8. CASE AllExternal
  <2>1. WaitsOnlyOnExternal(d)
    BY <1>8 DEF AllExternal
  <2>2. PICK e \in Deps(d) : IsIncomplete(Bound(e)) /\ e \notin Decls
    BY <2>1 DEF WaitsOnlyOnExternal
  <2>3. PICK x \in Exprs(program.form[d]) : x.op # "const" /\ e = x.to
    BY DEF Deps
  <2>4. x.to = External
    BY <1>2, <1>3, <2>2, <2>3, ExprCases
  <2> QED
    BY <1>2, <1>3, <1>4, <2>3, <2>4, ReadsOutside
<1>9. CASE refinements = MaxRefinementPasses /\ why' = "spent"
  <2>1. n <= iteration /\ n \in 0 .. n
    BY <1>3, <1>5, <1>9, DepthIsNat DEF Allowed, MaxRefinementPasses
  <2>2. \A e \in Decls : Caught(n, e)
    BY <1>1, <1>3, <1>5, <2>1 DEF Caught
  <2>3. Covers(binds, M(n))
    BY <1>4, <2>1, <2>2 DEF Covers
  <2> QED
    BY <1>6, <2>3
<1> QED
  BY <1>7, <1>8, <1>9 DEF GoFinal

LEMMA StaysNear ==
  ASSUME IInv, Grows, Kept, Approaches, [Next]_vars
  PROVE  Approaches'
<1>1. program' = program
  BY DEF Next, Attempt, AfterProgress, Refine, GoFinal, Accept, Finish, Ended, Repeat, vars
<1> SUFFICES ASSUME NEW n \in Nat, Complete(MeaningOf(program, n)), why' = "spent" => n <= Allowed
             PROVE  Nears(n)'
  BY <1>1 DEF Approaches, Complete
<1>2. Nears(n)
  <2>1. why = "spent" => why' = "spent"
    <3>1. mode = "pass" => why = "none"
      BY DEF Kept
    <3> QED
      BY <3>1 DEF Next, Attempt, AfterProgress, Refine, GoFinal, Accept, Finish, Ended, Repeat,
        PassOver, vars
  <2> QED
    BY <2>1 DEF Approaches
<1>3. CASE Attempt
  BY <1>2, <1>3, AttemptApproaches
<1>4. CASE AfterProgress
  BY <1>2, <1>4, RepeatApproaches DEF AfterProgress
<1>5. CASE Refine
  BY <1>2, <1>5, RepeatApproaches DEF Refine
<1>6. CASE GoFinal
  <2>1. Names(next) = {}
    BY <1>2, <1>6, NothingLeft
  <2>2. next = <<>>
    BY <2>1, NoNames DEF IInv, Listed
  <2>3. \A d \in Decls : binds'[d] = binds[d]
    BY <1>6, <2>1 DEF GoFinal
  <2>4. UNCHANGED <<entry, next>> /\ mode' = "final"
    BY <1>6 DEF GoFinal
  <2> QED
    BY <1>1, <1>2, <2>2, <2>3, <2>4 DEF Nears
<1>7. CASE Accept
  BY <1>2, <1>7 DEF Accept, Nears
<1>8. CASE Finish
  BY <1>2, <1>8 DEF Nears, Finish
<1>9. CASE UNCHANGED vars
  BY <1>2, <1>9 DEF Nears, Caught, vars, Names
<1> QED
  BY <1>3, <1>4, <1>5, <1>6, <1>7, <1>8, <1>9 DEF Next, Ended

LEMMA AlwaysNear == Spec => []Approaches
<1>1. IInv /\ Grows /\ Kept /\ Approaches /\ [Next]_vars => Approaches'
  BY StaysNear
<1> QED
  BY <1>1, ApproachesAtFirst, Inductive, AlwaysGrows, AlwaysKept, PTL DEF Spec

LEMMA MeantAtLast ==
  ASSUME IInv, Kept, Approaches, AllWritten, NEW n \in Nat
  PROVE  SettlesAfter(n)
<1> SUFFICES ASSUME mode = "done", Complete(MeaningOf(program, n)), why = "spent" => n <= Allowed
             PROVE  entry = MeaningOf(program, n)
  BY DEF SettlesAfter, Meaning
<1>1. \A d \in Decls : entry[d] = MeaningOf(program, n)[d]
  BY DEF AllWritten, Approaches, Nears
<1>2. entry = [d \in Decls |-> entry[d]]
  BY DEF Kept
<1>3. MeaningOf(program, n) = [d \in Decls |-> MeaningOf(program, n)[d]]
  <2>1. CASE n = 0
    BY <2>1, MeaningIs DEF Nothing
  <2>2. CASE n # 0
    <3>1. n - 1 \in Nat /\ (n - 1) + 1 = n
      BY <2>2
    <3>2. MeaningOf(program, (n - 1) + 1) = EvaluateAll(program, MeaningOf(program, n - 1))
      BY <3>1, MeaningIs
    <3> QED
      BY <3>1, <3>2 DEF EvaluateAll
  <2> QED
    BY <2>1, <2>2
<1> QED
  BY <1>1, <1>2, <1>3

(***************************************************************************)
(* Declarations settle order-independently: whatever the order of a        *)
(* literal's declarations, whatever they read from each other and whatever *)
(* the enclosing scopes bind, eval_decls_scoped leaves in the fields what  *)
(* the declarations mean together - in however many rounds that is decided *)
(* - unless it gave up refining, and then still if the allowance covers    *)
(* those rounds.  No transient bottom, partial value or outer binding      *)
(* stays.                                                                  *)
(***************************************************************************)
THEOREM OrderIndependent == Spec => [](SettlesToMeaning /\ \A n \in Nat : SettlesAfter(n))
<1>1. IInv /\ Kept /\ Approaches /\ AllWritten => \A n \in Nat : SettlesAfter(n)
  BY MeantAtLast
<1>2. (\A n \in Nat : SettlesAfter(n)) => SettlesToMeaning
  BY DepthIsNat DEF SettlesToMeaning, Allowed, MaxRefinementPasses
<1>3. IInv /\ Kept /\ Approaches /\ AllWritten => SettlesToMeaning /\ \A n \in Nat : SettlesAfter(n)
  BY <1>1, <1>2
<1> QED
  BY <1>3, Inductive, AlwaysKept, AlwaysNear, EachWritten, PTL

-----------------------------------------------------------------------------
(* How deep the loop nests values *)

NestsTo(env, k) == \A d \in Decls : Shallow(env[d], k + 1)

\* Evaluations there is room for in the passes begun, less those still to be made
\* in this one.
Evaluations ==
  LET n == Len(Order)
  IN CASE mode = "pass" -> n * (iteration - 1) + (n - Len(todo))
       [] mode = "final" -> n * iteration + (n - Len(next))
       [] OTHER -> n * (iteration + 1)

Bounded ==
  /\ iteration \in Nat /\ (mode = "pass" => iteration >= 1)
  /\ Len(todo) + Len(next) <= Len(Order)
  /\ NestsTo(binds, Evaluations) /\ NestsTo(entry, Evaluations)

WrittenResolved == mode = "pass" => \A d \in Decls : entry[d] # Unbound => ~Unresolved(entry[d])

LEMMA NestsOn ==
  ASSUME NEW env, NEW k \in Nat, NestsTo(env, k), NEW m \in Nat, k <= m
  PROVE  NestsTo(env, m)
<1>1. k + 1 \in Nat /\ m + 1 \in Nat /\ k + 1 <= m + 1
  OBVIOUS
<1> QED
  BY <1>1, ShallowOn DEF NestsTo

LEMMA LeafNests ==
  ASSUME NEW k \in Nat, NEW v \in {Unbound, Incomplete}
  PROVE  Shallow(v, k + 1)
<1>1. Parts(v) = {}
  BY DEF Unbound, Incomplete, Bottom, Parts
<1>2. Shallow(v, 0 + 1)
  BY <1>1, ShallowParts
<1>3. 0 + 1 \in Nat /\ k + 1 \in Nat /\ 0 + 1 <= k + 1
  OBVIOUS
<1> QED
  BY <1>2, <1>3, ShallowOn

\* One more evaluation nests one level deeper.
LEMMA OneMore ==
  ASSUME IInv, NEW k \in Nat, NestsTo(binds, k), NEW d \in Decls, NEW env, DOMAIN env = Decls,
         NestsTo(env, k)
  PROVE  NestsTo([env EXCEPT ![d] = Value(binds, d)], k + 1)
<1>1. \A e \in Decls : Shallow(binds[e], k + 1)
  BY DEF NestsTo
<1>2. Shallow(Value(binds, d), k + 2)
  BY <1>1, BindsAreWhole, EvaluateDepth DEF Value
<1>3. (k + 1) + 1 = k + 2 /\ k + 1 \in Nat /\ k <= k + 1
  OBVIOUS
<1>4. NestsTo(env, k + 1)
  BY <1>3, NestsOn
<1> QED
  BY <1>2, <1>3, <1>4 DEF NestsTo

LEMMA BoundedAtFirst == Init => Bounded /\ WrittenResolved
<1> SUFFICES ASSUME Init PROVE Bounded /\ WrittenResolved
  OBVIOUS
<1>1. /\ binds = [d \in Decls |-> IF d \in program.outer THEN Incomplete ELSE Unbound]
      /\ entry = [d \in Decls |-> Unbound] /\ todo = Order /\ next = <<>>
      /\ iteration = IF Order = <<>> THEN 0 ELSE 1
      /\ mode = IF Order = <<>> THEN "done" ELSE "pass"
  BY DEF Init, ReservedBindings
<1>2. WrittenResolved
  BY <1>1 DEF WrittenResolved
<1>3. Len(Order) \in Nat /\ Len(next) = 0
  BY <1>1, DeclaredOnce
<1>4. Evaluations \in Nat
  <2>1. CASE Order = <<>>
    <3>1. Len(Order) = 0
      BY <2>1
    <3> QED
      BY <1>1, <2>1, <3>1 DEF Evaluations
  <2>2. CASE Order # <<>>
    <3>1. Evaluations = Len(Order) * (1 - 1) + (Len(Order) - Len(Order))
      BY <1>1, <2>2 DEF Evaluations
    <3> QED
      BY <1>3, <3>1
  <2> QED
    BY <2>1, <2>2
<1>5. NestsTo(binds, Evaluations) /\ NestsTo(entry, Evaluations)
  BY <1>1, <1>4, LeafNests DEF NestsTo
<1> QED
  BY <1>1, <1>2, <1>3, <1>5 DEF Bounded

LEMMA Lengths ==
  ASSUME IInv
  PROVE  /\ Len(todo) \in Nat /\ Len(next) \in Nat /\ Len(Order) \in Nat
         /\ todo # <<>> => Len(todo) >= 1 /\ Len(Tail(todo)) = Len(todo) - 1
         /\ next # <<>> => Len(next) >= 1 /\ Len(Tail(next)) = Len(next) - 1
         /\ \A d : Len(Append(next, d)) = Len(next) + 1
         /\ Len(<<>>) = 0
<1>1. todo \in Seq(Decls) /\ next \in Seq(Decls) /\ Order \in Seq(Decls)
  BY DeclaredOnce DEF IInv, Listed
<1> QED
  BY <1>1

LEMMA AttemptBounded ==
  ASSUME IInv, Bounded, WrittenResolved, Attempt
  PROVE  Bounded' /\ WrittenResolved'
<1> DEFINE d == Head(todo)
           n == Len(Order)
           k == n * (iteration - 1) + (n - Len(todo))
<1>1. /\ todo # <<>> /\ mode = "pass" /\ d \in Decls
      /\ Settles(d) \/ Defers(d)
      /\ binds' = [binds EXCEPT ![d] = Value(binds, d)]
      /\ UNCHANGED <<mode, iteration>>
  BY Attempted
<1>2. /\ todo' = Tail(todo)
      /\ \/ entry' = entry /\ next' = Append(next, d)
         \/ /\ entry' = [entry EXCEPT ![d] = Value(binds, d)] /\ next' = next
            /\ ~Unresolved(Value(binds, d))
  BY DEF Attempt, Write, KeepPartial
<1>3. DOMAIN binds = Decls /\ DOMAIN entry = Decls
  BY DEF IInv, Typed
<1> HIDE DEF d
<1>4. WrittenResolved'
  BY <1>1, <1>2, <1>3 DEF WrittenResolved
<1>5. /\ n \in Nat /\ iteration \in Nat /\ iteration >= 1
      /\ Len(todo) \in Nat /\ Len(next) \in Nat /\ Len(todo) >= 1
      /\ Len(todo) + Len(next) <= n
      /\ Len(todo') = Len(todo) - 1
      /\ Len(next') = Len(next) \/ Len(next') = Len(next) + 1
  BY <1>1, <1>2, Lengths DEF Bounded
<1>6. n * (iteration - 1) \in Nat
  BY <1>5
<1>7. k \in Nat /\ k + 1 = n * (iteration - 1) + (n - Len(todo'))
  <2> DEFINE a == n * (iteration - 1)
  <2> HIDE DEF a, n
  <2> QED
    BY <1>5, <1>6 DEF a
<1>8. Evaluations = k /\ Evaluations' = k + 1
  BY <1>1, <1>7 DEF Evaluations
<1>9. NestsTo(binds, k) /\ NestsTo(entry, k)
  BY <1>8 DEF Bounded
<1> HIDE DEF k
<1>10. NestsTo(binds', k + 1)
  BY <1>1, <1>3, <1>7, <1>9, OneMore
<1>11. NestsTo(entry', k + 1)
  <2>1. NestsTo(entry, k + 1)
    BY <1>7, <1>9, NestsOn
  <2>2. NestsTo([entry EXCEPT ![d] = Value(binds, d)], k + 1)
    BY <1>1, <1>3, <1>7, <1>9, OneMore
  <2> QED
    BY <1>2, <2>1, <2>2
<1>12. NestsTo(binds, Evaluations)' /\ NestsTo(entry, Evaluations)'
  BY <1>8, <1>10, <1>11 DEF NestsTo
<1>13. Len(todo') + Len(next') <= n
  BY <1>5
<1> QED
  BY <1>1, <1>4, <1>5, <1>12, <1>13 DEF Bounded

\* What nests no deeper than before, where there is room for more.
LEMMA RoomForMore ==
  ASSUME Bounded, Evaluations \in Nat, Evaluations' \in Nat, Evaluations <= Evaluations',
         \A d \in Decls : binds'[d] \in {binds[d], Unbound}, entry' = entry
  PROVE  NestsTo(binds, Evaluations)' /\ NestsTo(entry, Evaluations)'
<1>1. NestsTo(binds, Evaluations') /\ NestsTo(entry, Evaluations')
  BY NestsOn DEF Bounded
<1>2. \A d \in Decls : Shallow(binds'[d], Evaluations' + 1) /\ Shallow(entry'[d], Evaluations' + 1)
  BY <1>1, LeafNests DEF NestsTo
<1> QED
  BY <1>2 DEF NestsTo

LEMMA PassOverBounded ==
  ASSUME IInv, Bounded, WrittenResolved, PassOver, entry' = entry,
         \A d \in Decls : binds'[d] \in {binds[d], Unbound},
         \/ mode' = "pass" /\ todo' = next /\ next' = <<>> /\ iteration' = iteration + 1
         \/ mode' \in {"final", "done"} /\ UNCHANGED <<todo, next, iteration>>
  PROVE  Bounded' /\ WrittenResolved'
<1> DEFINE n == Len(Order)
           a == n * iteration
<1>1. mode = "pass" /\ todo = <<>>
  BY DEF PassOver
<1>2. WrittenResolved'
  BY <1>1 DEF WrittenResolved
<1>3. /\ n \in Nat /\ iteration \in Nat /\ iteration >= 1
      /\ Len(next) \in Nat /\ Len(todo) = 0 /\ Len(next) <= n /\ Len(<<>>) = 0
  BY <1>1, Lengths DEF Bounded
<1>4. /\ a \in Nat /\ n * (iteration - 1) + (n - 0) = a
      /\ n * ((iteration + 1) - 1) = a /\ n * (iteration + 1) = a + n
  BY <1>3
<1>5. Evaluations = a
  BY <1>1, <1>3, <1>4 DEF Evaluations
<1>6. Evaluations' = a + (n - Len(next)) \/ Evaluations' = a + n
  BY <1>3, <1>4 DEF Evaluations
<1> HIDE DEF a, n
<1>7. Evaluations' \in Nat /\ Evaluations <= Evaluations'
  BY <1>3, <1>4, <1>5, <1>6
<1>8. NestsTo(binds, Evaluations)' /\ NestsTo(entry, Evaluations)'
  BY <1>4, <1>5, <1>7, RoomForMore
<1>9. Len(todo') + Len(next') <= n /\ iteration' \in Nat /\ iteration' >= 1
  BY <1>1, <1>3
<1> QED
  BY <1>2, <1>8, <1>9 DEF Bounded, n

LEMMA AcceptBounded ==
  ASSUME IInv, Bounded, Accept
  PROVE  Bounded' /\ WrittenResolved'
<1> DEFINE d == Head(next)
           n == Len(Order)
           k == n * iteration + (n - Len(next))
<1>1. /\ next # <<>> /\ mode = "final" /\ d \in Decls /\ next' = Tail(next)
      /\ binds' = [binds EXCEPT ![d] = Value(binds, d)]
      /\ entry' = [entry EXCEPT ![d] = Value(binds, d)]
      /\ UNCHANGED <<mode, iteration, todo>>
  BY AcceptKeeps DEF Accept, Write
<1>2. DOMAIN binds = Decls /\ DOMAIN entry = Decls
  BY DEF IInv, Typed
<1> HIDE DEF d
<1>3. /\ n \in Nat /\ iteration \in Nat
      /\ Len(todo) \in Nat /\ Len(next) \in Nat /\ Len(next) >= 1
      /\ Len(todo) + Len(next) <= n
      /\ Len(next') = Len(next) - 1
  BY <1>1, Lengths DEF Bounded
<1>4. n * iteration \in Nat
  BY <1>3
<1>5. k \in Nat /\ k + 1 = n * iteration + (n - Len(next'))
  <2> DEFINE a == n * iteration
  <2> HIDE DEF a, n
  <2> QED
    BY <1>3, <1>4 DEF a
<1>6. Evaluations = k /\ Evaluations' = k + 1
  BY <1>1, <1>5 DEF Evaluations
<1>7. NestsTo(binds, k) /\ NestsTo(entry, k)
  BY <1>6 DEF Bounded
<1> HIDE DEF k
<1>8. NestsTo(binds', k + 1) /\ NestsTo(entry', k + 1)
  BY <1>1, <1>2, <1>5, <1>7, OneMore
<1>9. NestsTo(binds, Evaluations)' /\ NestsTo(entry, Evaluations)'
  BY <1>6, <1>8 DEF NestsTo
<1>10. Len(todo') + Len(next') <= n
  BY <1>1, <1>3
<1> QED
  BY <1>1, <1>3, <1>9, <1>10 DEF Bounded, WrittenResolved

LEMMA AlwaysBounded == Spec => [](Bounded /\ WrittenResolved)
<1>1. ASSUME IInv, Bounded, WrittenResolved, [Next]_vars PROVE Bounded' /\ WrittenResolved'
  <2>1. CASE Attempt
    BY <1>1, <2>1, AttemptBounded
  <2>2. CASE AfterProgress \/ Refine
    BY <1>1, <2>2, PassOverBounded DEF AfterProgress, Refine, Repeat, PassOver
  <2>3. CASE GoFinal
    <3>1. \A d \in Decls : binds'[d] \in {binds[d], Unbound}
      BY <2>3 DEF GoFinal
    <3> QED
      BY <1>1, <2>3, <3>1, PassOverBounded DEF GoFinal
  <2>4. CASE Accept
    BY <1>1, <2>4, AcceptBounded
  <2>5. CASE Finish
    <3>1. /\ mode = "final" /\ mode' = "done" /\ next = <<>>
          /\ UNCHANGED <<binds, entry, todo, next, iteration>>
      BY <2>5 DEF Finish
    <3>2. Len(Order) \in Nat /\ iteration \in Nat /\ Len(next) = 0
      BY <1>1, <3>1, Lengths DEF Bounded
    <3>3. Len(Order) * iteration + (Len(Order) - 0) = Len(Order) * (iteration + 1)
      BY <3>2
    <3>4. Evaluations' = Evaluations
      BY <3>1, <3>2, <3>3 DEF Evaluations
    <3> QED
      BY <1>1, <3>1, <3>4 DEF Bounded, WrittenResolved, NestsTo
  <2>6. CASE UNCHANGED vars
    <3>1. UNCHANGED <<binds, entry, todo, next, iteration, mode>>
      BY <2>6 DEF vars
    <3>2. Evaluations' = Evaluations
      BY <3>1 DEF Evaluations
    <3> QED
      BY <1>1, <3>1, <3>2 DEF Bounded, WrittenResolved, NestsTo
  <2> QED
    BY <1>1, <2>1, <2>2, <2>3, <2>4, <2>5, <2>6 DEF Next, Ended
<1> QED
  BY <1>1, BoundedAtFirst, Inductive, PTL DEF Spec

LEMMA EvaluationsCounted ==
  ASSUME IInv, Bounded, PassesCounted
  PROVE  /\ Evaluations \in Nat /\ Deepest \in Nat /\ Evaluations <= Deepest
         /\ Len(Order) * (Len(Order) + MaxRefinementPasses) \in Nat
         /\ mode = "pass" => Evaluations <= Len(Order) * (Len(Order) + MaxRefinementPasses)
<1> DEFINE n == Len(Order)
           i == iteration
           r == MaxRefinementPasses
<1>1. /\ n \in Nat /\ i \in Nat /\ r \in Nat /\ i <= n + r
      /\ Len(todo) \in Nat /\ Len(next) \in Nat /\ Len(todo) <= n /\ Len(next) <= n
  BY Lengths, CountsAssumed DEF Bounded, PassesCounted
<1>2. /\ Evaluations = IF mode = "pass" THEN n * (i - 1) + (n - Len(todo))
                       ELSE IF mode = "final" THEN n * i + (n - Len(next)) ELSE n * (i + 1)
      /\ mode = "pass" => i >= 1
      /\ Deepest = n * (n + r + 1)
  BY DEF Evaluations, Bounded, Deepest
<1> HIDE DEF n, i, r
<1>3. /\ n * i \in Nat /\ n * (n + r) \in Nat /\ n * i <= n * (n + r)
      /\ n * (n + r + 1) = n * (n + r) + n /\ n * (i + 1) = n * i + n
      /\ n * (i - 1) = n * i - n
  <2>1. n * (n + r) = n * i + n * ((n + r) - i)
    BY <1>1
  <2>2. n * ((n + r) - i) \in Nat /\ n * i \in Nat
    BY <1>1
  <2>3. n * (n + r + 1) = n * (n + r) + n /\ n * (i + 1) = n * i + n /\ n * (i - 1) = n * i - n
    BY <1>1
  <2> QED
    BY <2>1, <2>2, <2>3
<1> DEFINE a == n * i
           b == n * (n + r)
<1>4. /\ a \in Nat /\ b \in Nat /\ a <= b /\ Deepest = b + n
      /\ Evaluations = IF mode = "pass" THEN (a - n) + (n - Len(todo))
                       ELSE IF mode = "final" THEN a + (n - Len(next)) ELSE a + n
  BY <1>2, <1>3
<1>5. mode = "pass" => a - n \in Nat
  <2> SUFFICES ASSUME mode = "pass" PROVE n * (i - 1) \in Nat
    BY <1>3
  <2> QED
    BY <1>1, <1>2
<1> HIDE DEF a, b
<1>6. /\ Evaluations \in Nat /\ Deepest \in Nat /\ Evaluations <= Deepest
      /\ mode = "pass" => Evaluations <= b
  BY <1>1, <1>4, <1>5
<1> QED
  BY <1>4, <1>6 DEF b, n, r

\* What Deepest counts bounds every value.
NoneDeeper ==
  \A d \in Decls : \A n \in Nat :
    n > Deepest => Level(binds[d], n) = {} /\ Level(entry[d], n) = {}

(***************************************************************************)
(* However the declarations of a literal read each other, no value that    *)
(* eval_decls_scoped binds or writes nests deeper than Deepest levels.  So *)
(* the properties that look down that far look at all of a value, and a    *)
(* cycle that unrolls a level with each pass is cut off.                   *)
(***************************************************************************)
THEOREM NestingIsBounded == Spec => []NoneDeeper
<1>1. ASSUME IInv, Bounded, PassesCounted, NEW d \in Decls, NEW n \in Nat, n > Deepest
      PROVE  Level(binds[d], n) = {} /\ Level(entry[d], n) = {}
  <2>1. Evaluations \in Nat /\ Deepest \in Nat /\ Evaluations <= Deepest
    BY <1>1, EvaluationsCounted
  <2>2. Evaluations + 1 \in Nat /\ Evaluations + 1 <= n
    BY <1>1, <2>1
  <2>3. Shallow(binds[d], Evaluations + 1) /\ Shallow(entry[d], Evaluations + 1)
    BY <1>1 DEF Bounded, NestsTo
  <2> QED
    BY <2>2, <2>3, ShallowOn DEF Shallow
<1>2. IInv /\ Bounded /\ PassesCounted => NoneDeeper
  BY <1>1 DEF NoneDeeper
<1> QED
  BY <1>2, Inductive, AlwaysBounded, EachWritten, PTL

\* The declarations are few enough for what the allowance lets them unroll.
FewEnough == Len(Order) * (Len(Order) + MaxRefinementPasses) < MaxUnresolvedDepth

(***************************************************************************)
(* No field is written with something buried in it that may resolve later, *)
(* where the walk of is_unresolved_within looks deeper than the passes can *)
(* nest a value: with the code's depth of 64, and so eight refinements,    *)
(* for every literal of up to four fields ("Eight leaves room for a cycle  *)
(* through four fields").                                                  *)
(***************************************************************************)
THEOREM NothingBuried == Spec => [](FewEnough => NoBuriedPartial)
<1>1. ASSUME FewEnough, IInv, Bounded, WrittenResolved, PassesCounted PROVE NoBuriedPartial
  <2> SUFFICES ASSUME mode = "pass", NEW d \in Decls, entry[d] # Unbound,
                      NEW n \in 0 .. Deepest, NEW w \in Level(entry[d], n), Pending(w)
               PROVE  FALSE
    BY DEF NoBuriedPartial, HoldsPending
  <2> DEFINE most == Len(Order) * (Len(Order) + MaxRefinementPasses)
  <2>1. /\ Evaluations \in Nat /\ Deepest \in Nat /\ most \in Nat /\ Evaluations <= most
        /\ most < MaxUnresolvedDepth /\ MaxUnresolvedDepth \in Nat /\ n \in Nat
    BY <1>1, EvaluationsCounted, DepthIsNat DEF FewEnough
  <2> HIDE DEF most
  <2>2. n < MaxUnresolvedDepth
    <3>1. Shallow(entry[d], Evaluations + 1)
      BY <1>1 DEF Bounded, NestsTo
    <3>2. Evaluations + 1 \in Nat /\ (n >= MaxUnresolvedDepth => Evaluations + 1 <= n)
      BY <2>1
    <3>3. n >= MaxUnresolvedDepth => Shallow(entry[d], n)
      BY <2>1, <3>1, <3>2, ShallowOn
    <3> QED
      BY <2>1, <3>3 DEF Shallow
  <2>3. n \in 0 .. MaxUnresolvedDepth - 1
    BY <2>1, <2>2
  <2>4. ~Unresolved(entry[d])
    BY <1>1 DEF WrittenResolved
  <2> QED
    BY <2>3, <2>4 DEF Unresolved, UnresolvedWithin
<1>2. IInv /\ Bounded /\ WrittenResolved /\ PassesCounted => (FewEnough => NoBuriedPartial)
  BY <1>1
<1> QED
  BY <1>2, Inductive, AlwaysBounded, EachWritten, PTL
=============================================================================
