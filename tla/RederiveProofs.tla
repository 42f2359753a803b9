--------------------------- MODULE RederiveProofs ---------------------------
(***************************************************************************)
(* Re-deriving only what reads a moved name is enough, for any fields, any *)
(* merge, any choice of values too large to compare and any derivation     *)
(* order.  At every point of the loop a field is current unless it reads a *)
(* name that is still to be looked at; where nothing is left to be looked  *)
(* at, every field is.  The same goes for the run of a comprehension: it   *)
(* is the one a rerun would make, unless it reads such a name.             *)
(***************************************************************************)
EXTENDS Rederive, SequenceTheorems, FiniteSetTheorems, TLAPS

Conjs == Readings(merge)
Entries == [Names -> [val : Vals, conj : Seq(Conjs)]]

Ids == {d.id : d \in merge.recipes}
Outs == Seq([name : Names, conj : Conjs])
OneField(r) == Decl(r.id).kind = "let" => Len(r.out) <= 1
InnerRuns ==
  {r \in [id : Ids, run : Nat, out : Outs, inner : {<<>>}, incomplete : BOOLEAN] : OneField(r)}
RunsMade ==
  {r \in [id : Ids, run : Nat, out : Outs, inner : Seq(InnerRuns), incomplete : BOOLEAN] :
     OneField(r)}

Typed ==
  /\ merge \in Merges
  /\ large \in SUBSET Names
  /\ entry \in Entries
  /\ recipes \in Seq(RunsMade)
  /\ todo \in Seq(RunsMade)
  /\ runs \in Nat
  /\ order \in Seq(Names)
  /\ moved \in SUBSET Names
  /\ next \in SUBSET Names

\* Every field has its turn in a sweep.
Covers(o, e) == \A n \in Present(e) : \E i \in DOMAIN o : o[i] = n

\* Equal but for a nested field that is stale.
Alike(x, y) == x.v = y.v /\ (x.in = "any" <=> y.in = "any")

\* What a field's conjuncts give on the values beside it, up to a merged value
\* below it that is still to be descended into.
IsCurrent(f, val) ==
  IF Len(f.conj) > 1 THEN Alike(f.val, DeriveField(f.conj, val))
  ELSE f.val = DeriveField(f.conj, val)

\* ... of all fields but those that read one of some names.
CurrentBut(e, names) ==
  \A n \in Names : ReadsAny(e[n].conj, names) \/ IsCurrent(e[n], Values(e))

SettledBut(e, names) == \A n \in Merged(e) \ names : Settle(e[n].val) = e[n].val

Evaluated ==
  mode = "merge" =>
    \A n \in Names : /\ entry[n].val = Whole(entry[n].conj, Values(entry))
                     /\ merge.base[n] # <<>> => entry[n].conj # <<>>
Ordered == mode \in {"descend", "sweep", "recipes"} => Covers(order, entry)
Following ==
  /\ mode = "seed" => CurrentBut(entry, large \cup Merged(entry))
  /\ mode \in {"descend", "sweep"} => CurrentBut(entry, large \cup moved)
  /\ mode = "recipes" => CurrentBut(entry, large \cup next)
Descended ==
  /\ mode = "sweep" => SettledBut(entry, large)
  /\ mode = "recipes" => SettledBut(entry, large \cup next)

IInv == Typed /\ Evaluated /\ Ordered /\ Following /\ Descended /\ SettledFieldsAreDerived

-----------------------------------------------------------------------------
(* Counting up, and functions defined step by step *)

(* Any set of naturals that is not empty has a least member. *)
LEMMA Least ==
  ASSUME NEW T \in SUBSET Nat, T # {}
  PROVE  \E m \in T : \A k \in T : m <= k
<1>1. PICK m \in T : \A k \in T : <<k, m>> \notin OpToRel(<, Nat)
  BY NatLessThanWellFounded, WFMin
<1>2. \A k \in T : ~(k < m)
  BY <1>1 DEF OpToRel
<1> QED
  BY <1>2

(* A set of indices that holds the first and with each the next holds all. *)
LEMMA Upward ==
  ASSUME NEW N \in Nat, NEW T, 0 \in T, \A i \in 1 .. N : i - 1 \in T => i \in T
  PROVE  0 .. N \subseteq T
<1> DEFINE Bad == (0 .. N) \ T
<1>1. SUFFICES ASSUME Bad # {} PROVE FALSE
  OBVIOUS
<1>2. PICK m \in Bad : \A k \in Bad : m <= k
  <2>1. Bad \in SUBSET Nat
    OBVIOUS
  <2> HIDE DEF Bad
  <2> QED
    BY <1>1, <2>1, Least
<1>3. m \in 1 .. N /\ m - 1 \in 0 .. N /\ m - 1 < m
  BY <1>2
<1>4. m - 1 \notin Bad
  BY <1>2, <1>3
<1> QED
  BY <1>2, <1>3, <1>4

\* The states that steps lead to one after the other.
Follows(f, S, init, N, step) ==
  /\ f \in [0 .. N -> S]
  /\ f[0] = init
  /\ \A i \in 1 .. N : f[i] = step[<<f[i - 1], i>>]

(* Steps from a state to a state, begun in one, can be followed to the end. *)
LEMMA Iterates ==
  ASSUME NEW S, NEW init \in S, NEW N \in Nat, NEW step \in [S \X (1 .. N) -> S]
  PROVE  \E f : Follows(f, S, init, N, step)
<1> DEFINE Goes(k) ==
             \E f \in [0 .. k -> S] :
               f[0] = init /\ \A i \in 1 .. k : f[i] = step[<<f[i - 1], i>>]
           T == {k \in 0 .. N : Goes(k)}
<1>1. 0 \in T
  <2> DEFINE f == [i \in 0 .. 0 |-> init]
  <2>1. f \in [0 .. 0 -> S] /\ f[0] = init
    OBVIOUS
  <2>2. \A i \in 1 .. 0 : f[i] = step[<<f[i - 1], i>>]
    OBVIOUS
  <2>3. Goes(0)
    BY <2>1, <2>2
  <2> QED
    BY <2>3
<1>2. ASSUME NEW i \in 1 .. N, i - 1 \in T PROVE i \in T
  <2>1. PICK f \in [0 .. i - 1 -> S] :
          f[0] = init /\ \A j \in 1 .. i - 1 : f[j] = step[<<f[j - 1], j>>]
    BY <1>2
  <2> DEFINE g == [j \in 0 .. i |-> IF j = i THEN step[<<f[i - 1], i>>] ELSE f[j]]
  <2>2. f[i - 1] \in S /\ step[<<f[i - 1], i>>] \in S
    BY <2>1
  <2>3. g \in [0 .. i -> S]
    BY <2>1, <2>2
  <2>4. \A j \in 1 .. i : g[j] = step[<<g[j - 1], j>>]
    <3>1. ASSUME NEW j \in 1 .. i - 1 PROVE g[j] = f[j] /\ g[j - 1] = f[j - 1]
      OBVIOUS
    <3>2. g[i] = step[<<f[i - 1], i>>] /\ g[i - 1] = f[i - 1]
      OBVIOUS
    <3>3. \A j \in 1 .. i : j = i \/ j \in 1 .. i - 1
      OBVIOUS
    <3> HIDE DEF g
    <3>4. \A j \in 1 .. i - 1 : g[j] = step[<<g[j - 1], j>>]
      BY <2>1, <3>1
    <3> QED
      BY <3>2, <3>3, <3>4
  <2>5. g[0] = init
    BY <2>1
  <2>6. Goes(i)
    BY <2>3, <2>4, <2>5
  <2> QED
    BY <2>6
<1>3. N \in T
  <2> HIDE DEF T
  <2>1. 0 .. N \subseteq T
    BY <1>1, <1>2, Upward
  <2> QED
    BY <2>1
<1> QED
  BY <1>3 DEF Follows

-----------------------------------------------------------------------------
(* Values *)

LEMMA MeetTyped ==
  ASSUME NEW x \in Vals, NEW y \in Vals
  PROVE  Meet(x, y) \in Vals
  BY DEF Meet, MeetScalar, Vals, Scalars

LEMMA TopMeets ==
  /\ Top \in Vals
  /\ \A x \in Vals : Meet(x, Top) = x /\ Meet(Top, x) = x
  BY DEF Meet, MeetScalar, Vals, Top, Scalars

LEMMA ScalarsAssociate ==
  ASSUME NEW r \in Scalars, NEW s \in Scalars, NEW t \in Scalars
  PROVE  MeetScalar(MeetScalar(r, s), t) = MeetScalar(r, MeetScalar(s, t))
  BY DEF MeetScalar, Scalars

LEMMA MeetsAssociate ==
  ASSUME NEW x \in Vals, NEW y \in Vals, NEW z \in Vals
  PROVE  Meet(Meet(x, y), z) = Meet(x, Meet(y, z))
<1>1. /\ x.v \in Scalars /\ y.v \in Scalars /\ z.v \in Scalars
      /\ x.in \in Scalars /\ y.in \in Scalars /\ z.in \in Scalars
  BY DEF Vals
<1> QED
  BY <1>1, ScalarsAssociate DEF Meet

LEMMA SettleTyped ==
  ASSUME NEW x \in Vals
  PROVE  /\ Settle(x) \in Vals
         /\ Alike(Settle(x), x)
  BY DEF Settle, Vals, Alike

(* Values that are alike settle to the same. *)
LEMMA AlikeSettle ==
  ASSUME NEW x \in Vals, NEW y \in Vals, Alike(x, y)
  PROVE  Settle(x) = Settle(y)
  BY DEF Settle, Vals, Alike

(* ... and stay alike where both meet a third. *)
LEMMA AlikeMeets ==
  ASSUME NEW x \in Vals, NEW y \in Vals, NEW z \in Vals, Alike(x, y)
  PROVE  Alike(Meet(x, z), Meet(y, z))
<1>1. ASSUME NEW s \in Scalars, NEW t \in Scalars
      PROVE  MeetScalar(s, t) = "any" <=> (s = "any" /\ t = "any")
  BY DEF MeetScalar, Scalars
<1>2. /\ x.in \in Scalars /\ y.in \in Scalars /\ z.in \in Scalars
  BY DEF Vals
<1> QED
  BY <1>1, <1>2 DEF Alike, Meet

-----------------------------------------------------------------------------
(* Several values meet *)

LEMMA MeetAllSteps ==
  ASSUME NEW xs \in Seq(Vals)
  PROVE  \E f \in [0 .. Len(xs) -> Vals] :
           /\ f[0] = Top
           /\ \A i \in 1 .. Len(xs) : f[i] = Meet(f[i - 1], xs[i])
           /\ MeetAll(xs) = f[Len(xs)]
<1> DEFINE N == Len(xs)
           step == [p \in Vals \X (1 .. N) |-> Meet(p[1], xs[p[2]])]
           F(g) == [i \in 0 .. N |-> IF i = 0 THEN Top ELSE Meet(g[i - 1], xs[i])]
           u == CHOOSE g : g = F(g)
<1>1. N \in Nat /\ \A i \in 1 .. N : xs[i] \in Vals
  OBVIOUS
<1>2. step \in [Vals \X (1 .. N) -> Vals]
  BY <1>1, MeetTyped
<1>3. PICK f : Follows(f, Vals, Top, N, step)
  <2>1. N \in Nat /\ Top \in Vals
    BY <1>1, TopMeets
  <2> HIDE DEF step, N, F, u
  <2> QED
    BY <1>2, <2>1, Iterates
<1>4. /\ f \in [0 .. N -> Vals] /\ f[0] = Top
      /\ \A i \in 1 .. N : f[i] = Meet(f[i - 1], xs[i])
  <2>1. /\ f \in [0 .. N -> Vals] /\ f[0] = Top
        /\ \A i \in 1 .. N : f[i] = step[<<f[i - 1], i>>]
    BY <1>3 DEF Follows
  <2>2. \A i \in 1 .. N : f[i - 1] \in Vals
    BY <1>1, <2>1
  <2> QED
    BY <2>1, <2>2
<1>5. f = F(f)
  BY <1>1, <1>4
<1>6. u = F(u)
  BY <1>5
<1>7. u[0] = Top /\ \A i \in 1 .. N : u[i] = Meet(u[i - 1], xs[i])
  <2> HIDE DEF u
  <2> QED
    BY <1>1, <1>6
<1>8. u \in [0 .. N -> Vals]
  <2> HIDE DEF u
  <2> DEFINE T == {i \in 0 .. N : u[i] \in Vals}
  <2>1. 0 \in T
    BY <1>1, <1>7, TopMeets
  <2>2. ASSUME NEW i \in 1 .. N, i - 1 \in T PROVE i \in T
    BY <1>1, <1>7, <2>2, MeetTyped
  <2>3. 0 .. N \subseteq T
    BY <1>1, <2>1, <2>2, Upward
  <2> QED
    BY <1>6, <2>3
<1>9. MeetAll(xs) = u[N]
  BY DEF MeetAll
<1> QED
  <2> HIDE DEF u
  <2> QED
    BY <1>7, <1>8, <1>9

LEMMA MeetAllTyped ==
  ASSUME NEW xs \in Seq(Vals)
  PROVE  MeetAll(xs) \in Vals
  BY MeetAllSteps

LEMMA MeetAllNone == MeetAll(<<>>) = Top
<1>1. <<>> \in Seq(Vals) /\ Len(<<>>) = 0
  OBVIOUS
<1> QED
  BY <1>1, MeetAllSteps

(* What two lists give together is what one gives and the other. *)
LEMMA MeetAllConcat ==
  ASSUME NEW xs \in Seq(Vals), NEW ys \in Seq(Vals)
  PROVE  MeetAll(xs \o ys) = Meet(MeetAll(xs), MeetAll(ys))
<1> DEFINE M == Len(xs)  K == Len(ys)  zs == xs \o ys
<1>1. /\ M \in Nat /\ K \in Nat /\ zs \in Seq(Vals) /\ Len(zs) = M + K
      /\ \A i \in 1 .. M : zs[i] = xs[i]
      /\ \A i \in 1 .. K : zs[M + i] = ys[i] /\ ys[i] \in Vals
  OBVIOUS
<1>2. PICK f \in [0 .. M -> Vals] :
        /\ f[0] = Top /\ \A i \in 1 .. M : f[i] = Meet(f[i - 1], xs[i])
        /\ MeetAll(xs) = f[M]
  BY MeetAllSteps
<1>3. PICK g \in [0 .. K -> Vals] :
        /\ g[0] = Top /\ \A i \in 1 .. K : g[i] = Meet(g[i - 1], ys[i])
        /\ MeetAll(ys) = g[K]
  BY MeetAllSteps
<1>4. PICK h \in [0 .. M + K -> Vals] :
        /\ h[0] = Top /\ \A i \in 1 .. M + K : h[i] = Meet(h[i - 1], zs[i])
        /\ MeetAll(zs) = h[M + K]
  <2> HIDE DEF zs
  <2> QED
    BY <1>1, MeetAllSteps
<1> HIDE DEF zs, M, K
<1>5. h[M] = f[M]
  <2> DEFINE T == {i \in 0 .. M : h[i] = f[i]}
  <2>1. 0 \in T
    BY <1>1, <1>2, <1>4
  <2>2. ASSUME NEW i \in 1 .. M, i - 1 \in T PROVE i \in T
    <3>1. i \in 1 .. M + K /\ i - 1 \in 0 .. M
      BY <1>1
    <3> QED
      BY <1>1, <1>2, <1>4, <2>2, <3>1
  <2> HIDE DEF T, M
  <2>3. 0 .. M \subseteq T
    BY <1>1, <2>1, <2>2, Upward
  <2> USE DEF T
  <2> QED
    BY <1>1, <2>3
<1>6. h[M + K] = Meet(f[M], g[K])
  <2> DEFINE T == {i \in 0 .. K : h[M + i] = Meet(f[M], g[i])}
  <2>0. f[M] \in Vals
    BY <1>1, <1>2
  <2>1. 0 \in T
    BY <1>1, <1>3, <1>5, <2>0, TopMeets
  <2>2. ASSUME NEW i \in 1 .. K, i - 1 \in T PROVE i \in T
    <3>1. M + i \in 1 .. M + K /\ (M + i) - 1 = M + (i - 1)
      BY <1>1
    <3>2. h[M + i] = Meet(h[M + (i - 1)], ys[i])
      BY <1>1, <1>4, <3>1
    <3>3. h[M + i] = Meet(Meet(f[M], g[i - 1]), ys[i])
      BY <2>2, <3>2
    <3>4. g[i - 1] \in Vals /\ ys[i] \in Vals
      BY <1>1, <1>3
    <3>5. h[M + i] = Meet(f[M], Meet(g[i - 1], ys[i]))
      BY <2>0, <3>3, <3>4, MeetsAssociate
    <3> QED
      BY <1>1, <1>3, <3>5
  <2> HIDE DEF T, K
  <2>3. 0 .. K \subseteq T
    BY <1>1, <2>1, <2>2, Upward
  <2> USE DEF T
  <2> QED
    BY <1>1, <2>3
<1> USE DEF zs
<1> QED
  BY <1>2, <1>3, <1>4, <1>6

-----------------------------------------------------------------------------
(* What a field's conjuncts give *)

\* Values of all fields.
Valued == [Names -> Vals]

LEMMA DerivedTyped ==
  ASSUME NEW m, NEW c \in Readings(m), NEW val \in Valued
  PROVE  Derived(c, val) \in Vals
<1>1. c.op \in {"lit", "copy", "flip"} /\ c.v \in Vals
  BY DEF Readings
<1>2. CASE c.op = "lit"
  BY <1>1, <1>2 DEF Derived
<1>3. CASE c.op = "copy"
  <2>1. c.of \in Names
    BY <1>3 DEF Readings
  <2> QED
    BY <1>3, <2>1 DEF Derived, Valued
<1>4. CASE c.op = "flip"
  <2>1. c.of \in Names
    BY <1>4 DEF Readings
  <2>2. val[c.of].in \in Scalars
    BY <2>1 DEF Valued, Vals
  <2>3. Flip(val[c.of].in) \in Scalars
    BY <2>2 DEF Flip, Concrete, Scalars
  <2> QED
    BY <1>4, <2>3 DEF Derived, Vals
<1> QED
  BY <1>1, <1>2, <1>3, <1>4

LEMMA DerivedSeq ==
  ASSUME NEW m, NEW conj \in Seq(Readings(m)), NEW val \in Valued
  PROVE  /\ [i \in DOMAIN conj |-> Derived(conj[i], val)] \in Seq(Vals)
         /\ Len([i \in DOMAIN conj |-> Derived(conj[i], val)]) = Len(conj)
<1>1. Len(conj) \in Nat /\ DOMAIN conj = 1 .. Len(conj)
  OBVIOUS
<1>2. \A i \in 1 .. Len(conj) : Derived(conj[i], val) \in Vals
  BY DerivedTyped
<1> QED
  BY <1>1, <1>2, SeqDef

LEMMA DerivedField ==
  ASSUME NEW m, NEW conj \in Seq(Readings(m)), NEW val \in Valued
  PROVE  DeriveField(conj, val) \in Vals
  BY DerivedSeq, MeetAllTyped DEF DeriveField

(* A field without conjuncts is anything. *)
LEMMA DeriveNone ==
  ASSUME NEW val
  PROVE  DeriveField(<<>>, val) = Top
<1>1. [i \in DOMAIN <<>> |-> Derived(<<>>[i], val)] = <<>>
  OBVIOUS
<1> QED
  BY <1>1, MeetAllNone DEF DeriveField

LEMMA SeqIsFunction ==
  ASSUME NEW S, NEW s \in Seq(S)
  PROVE  s = [i \in DOMAIN s |-> s[i]]
<1>1. s \in [1 .. Len(s) -> S]
  OBVIOUS
<1> QED
  BY <1>1

LEMMA ConcatAt ==
  ASSUME NEW S, NEW s \in Seq(S), NEW t \in Seq(S)
  PROVE  s \o t = [i \in 1 .. Len(s) + Len(t) |-> IF i <= Len(s) THEN s[i] ELSE t[i - Len(s)]]
<1>1. /\ Len(s) \in Nat /\ Len(t) \in Nat
      /\ s \o t \in Seq(S) /\ Len(s \o t) = Len(s) + Len(t)
      /\ \A i \in 1 .. Len(s) + Len(t) : (s \o t)[i] = IF i <= Len(s) THEN s[i] ELSE t[i - Len(s)]
  OBVIOUS
<1>2. DOMAIN (s \o t) = 1 .. Len(s) + Len(t)
  BY <1>1
<1>3. s \o t = [i \in DOMAIN (s \o t) |-> (s \o t)[i]]
  BY <1>1, SeqIsFunction
<1> QED
  BY <1>1, <1>2, <1>3

(* Conjuncts that follow others give what both give, met. *)
LEMMA DeriveConcat ==
  ASSUME NEW m, NEW c \in Seq(Readings(m)), NEW d \in Seq(Readings(m)), NEW val \in Valued
  PROVE  DeriveField(c \o d, val) = Meet(DeriveField(c, val), DeriveField(d, val))
<1> DEFINE xs == [i \in DOMAIN c |-> Derived(c[i], val)]
           ys == [i \in DOMAIN d |-> Derived(d[i], val)]
           zs == [i \in DOMAIN (c \o d) |-> Derived((c \o d)[i], val)]
<1>1. /\ xs \in Seq(Vals) /\ Len(xs) = Len(c)
      /\ ys \in Seq(Vals) /\ Len(ys) = Len(d)
  BY DerivedSeq
<1>2. /\ Len(c) \in Nat /\ Len(d) \in Nat
      /\ DOMAIN (c \o d) = 1 .. Len(c) + Len(d)
      /\ DOMAIN c = 1 .. Len(c) /\ DOMAIN d = 1 .. Len(d)
      /\ \A i \in 1 .. Len(c) + Len(d) :
           (c \o d)[i] = IF i <= Len(c) THEN c[i] ELSE d[i - Len(c)]
  OBVIOUS
<1>3. zs = xs \o ys
  <2>1. xs \o ys = [i \in 1 .. Len(c) + Len(d) |-> IF i <= Len(c) THEN xs[i] ELSE ys[i - Len(c)]]
    <3> HIDE DEF xs, ys
    <3>1. xs \o ys = [i \in 1 .. Len(xs) + Len(ys) |-> IF i <= Len(xs) THEN xs[i] ELSE ys[i - Len(xs)]]
      BY <1>1, ConcatAt
    <3> QED
      BY <1>1, <3>1
  <2>2. ASSUME NEW i \in 1 .. Len(c) + Len(d)
        PROVE  zs[i] = IF i <= Len(c) THEN xs[i] ELSE ys[i - Len(c)]
    <3>1. CASE i <= Len(c)
      <4>1. i \in 1 .. Len(c)
        BY <1>2, <3>1
      <4> QED
        BY <1>2, <3>1, <4>1
    <3>2. CASE ~(i <= Len(c))
      <4>1. i - Len(c) \in 1 .. Len(d)
        BY <1>2, <3>2
      <4> QED
        BY <1>2, <3>2, <4>1
    <3> QED
      BY <3>1, <3>2
  <2> QED
    BY <1>2, <2>1, <2>2
<1> HIDE DEF xs, ys
<1>4. MeetAll(zs) = Meet(MeetAll(xs), MeetAll(ys))
  BY <1>1, <1>3, MeetAllConcat
<1> QED
  BY <1>4 DEF DeriveField, xs, ys

(* Conjuncts give the same where the names they read have the same values. *)
LEMMA DeriveSame ==
  ASSUME NEW m, NEW conj \in Seq(Readings(m)), NEW u, NEW w,
         \A i \in DOMAIN conj : conj[i].op # "lit" => u[conj[i].of] = w[conj[i].of]
  PROVE  DeriveField(conj, u) = DeriveField(conj, w)
<1>1. ASSUME NEW i \in DOMAIN conj PROVE Derived(conj[i], u) = Derived(conj[i], w)
  <2>1. conj[i] \in Readings(m)
    OBVIOUS
  <2>2. conj[i].op \in {"lit", "copy", "flip"}
    BY <2>1 DEF Readings
  <2>3. CASE conj[i].op = "lit"
    BY <2>3 DEF Derived
  <2>4. CASE conj[i].op = "copy"
    BY <2>4 DEF Derived
  <2>5. CASE conj[i].op = "flip"
    BY <2>5 DEF Derived
  <2> QED
    BY <2>2, <2>3, <2>4, <2>5
<1>2. [i \in DOMAIN conj |-> Derived(conj[i], u)] = [i \in DOMAIN conj |-> Derived(conj[i], w)]
  BY <1>1
<1> QED
  BY <1>2 DEF DeriveField

-----------------------------------------------------------------------------
(* Lists *)

LEMMA AppendHolds ==
  ASSUME NEW S, NEW s \in Seq(S), NEW x \in S
  PROVE  ToSet(Append(s, x)) = ToSet(s) \cup {x}
<1>1. /\ Len(s) \in Nat /\ DOMAIN s = 1 .. Len(s)
      /\ DOMAIN Append(s, x) = (1 .. Len(s)) \cup {Len(s) + 1}
      /\ \A i \in 1 .. Len(s) : Append(s, x)[i] = s[i]
      /\ Append(s, x)[Len(s) + 1] = x
  OBVIOUS
<1> QED
  BY <1>1 DEF ToSet

LEMMA ConcatHolds ==
  ASSUME NEW S, NEW s \in Seq(S), NEW t \in Seq(S)
  PROVE  ToSet(s \o t) = ToSet(s) \cup ToSet(t)
<1>1. /\ Len(s) \in Nat /\ DOMAIN s = 1 .. Len(s)
      /\ Len(t) \in Nat /\ DOMAIN t = 1 .. Len(t)
      /\ DOMAIN (s \o t) = 1 .. Len(s) + Len(t)
      /\ \A i \in 1 .. Len(s) : (s \o t)[i] = s[i]
      /\ \A i \in 1 .. Len(t) : (s \o t)[Len(s) + i] = t[i]
  OBVIOUS
<1>2. \A i \in 1 .. Len(s) + Len(t) :
        i \in 1 .. Len(s) \/ \E j \in 1 .. Len(t) : i = Len(s) + j
  <2> SUFFICES ASSUME NEW i \in 1 .. Len(s) + Len(t), i \notin 1 .. Len(s)
               PROVE  \E j \in 1 .. Len(t) : i = Len(s) + j
    OBVIOUS
  <2>1. i - Len(s) \in 1 .. Len(t) /\ i = Len(s) + (i - Len(s))
    BY <1>1
  <2> QED
    BY <2>1
<1>3. /\ \A i \in 1 .. Len(s) : i \in 1 .. Len(s) + Len(t)
      /\ \A i \in 1 .. Len(t) : Len(s) + i \in 1 .. Len(s) + Len(t)
  BY <1>1
<1>4. ASSUME NEW x \in ToSet(s \o t) PROVE x \in ToSet(s) \cup ToSet(t)
  <2>1. PICK i \in 1 .. Len(s) + Len(t) : x = (s \o t)[i]
    BY <1>1, <1>4 DEF ToSet
  <2> QED
    BY <1>1, <1>2, <2>1 DEF ToSet
<1>5. ASSUME NEW x \in ToSet(s) PROVE x \in ToSet(s \o t)
  BY <1>1, <1>3, <1>5 DEF ToSet
<1>6. ASSUME NEW x \in ToSet(t) PROVE x \in ToSet(s \o t)
  <2>1. PICK i \in 1 .. Len(t) : x = t[i]
    BY <1>1, <1>6 DEF ToSet
  <2>2. Len(s) + i \in DOMAIN (s \o t) /\ (s \o t)[Len(s) + i] = x
    BY <1>1, <1>3, <2>1
  <2> QED
    BY <2>2 DEF ToSet
<1> QED
  BY <1>4, <1>5, <1>6

\* What is left of a list, member by member.
PicksOut(f, kept, list) ==
  /\ f[0] = <<>>
  /\ \A i \in 1 .. Len(list) :
       f[i] = IF list[i] \in kept THEN Append(f[i - 1], list[i]) ELSE f[i - 1]
  /\ Only(kept, list) = f[Len(list)]

LEMMA OnlySteps ==
  ASSUME NEW X, NEW list \in Seq(X), NEW kept
  PROVE  \E f : PicksOut(f, kept, list)
<1> DEFINE N == Len(list)
           S == Seq(X \cap kept)
           next1(s, i) == IF list[i] \in kept THEN Append(s, list[i]) ELSE s
           step == [p \in S \X (1 .. N) |-> next1(p[1], p[2])]
<1>1. N \in Nat /\ \A i \in 1 .. N : list[i] \in X
  OBVIOUS
<1>2. \A s \in S, i \in 1 .. N : next1(s, i) \in S /\ Len(next1(s, i)) \in {Len(s), Len(s) + 1}
  BY <1>1
<1>3. step \in [S \X (1 .. N) -> S]
  <2> HIDE DEF next1, S
  <2> QED
    BY <1>2
<1>4. PICK f : Follows(f, S, <<>>, N, step)
  <2>1. <<>> \in S
    OBVIOUS
  <2> HIDE DEF step, N, S, next1
  <2> QED
    BY <1>1, <1>3, <2>1, Iterates
<1>5. /\ f \in [0 .. N -> S] /\ f[0] = <<>>
      /\ \A i \in 1 .. N : f[i] = next1(f[i - 1], i)
  <2>1. /\ f \in [0 .. N -> S] /\ f[0] = <<>>
        /\ \A i \in 1 .. N : f[i] = step[<<f[i - 1], i>>]
    BY <1>4 DEF Follows
  <2>2. \A i \in 1 .. N : f[i - 1] \in S
    BY <1>1, <2>1
  <2> HIDE DEF next1, S
  <2> QED
    BY <2>1, <2>2
<1> DEFINE F(g) == [i \in 0 .. N |-> IF i = 0 THEN <<>>
                                      ELSE IF list[i] \in kept THEN Append(g[i - 1], list[i]) ELSE g[i - 1]]
           u == CHOOSE g : g = F(g)
<1>6. f = F(f)
  <2>1. ASSUME NEW i \in 0 .. N PROVE f[i] = F(f)[i]
    <3>1. CASE i = 0
      BY <1>5, <3>1
    <3>2. CASE i # 0
      <4>1. i \in 1 .. N
        BY <1>1, <3>2
      <4>2. F(f)[i] = next1(f[i - 1], i)
        BY <3>2
      <4> QED
        BY <1>5, <4>1, <4>2
    <3> QED
      BY <3>1, <3>2
  <2> HIDE DEF N
  <2> QED
    BY <1>5, <2>1
<1>7. u = F(u)
  BY <1>6
<1>8. u[0] = <<>> /\ \A i \in 1 .. N : u[i] = next1(u[i - 1], i)
  <2> HIDE DEF u
  <2>1. 0 \in 0 .. N /\ \A i \in 1 .. N : i \in 0 .. N /\ i # 0
    BY <1>1
  <2> HIDE DEF N
  <2>2. u[0] = F(u)[0] /\ \A i \in 1 .. N : u[i] = F(u)[i]
    BY <1>7
  <2>3. F(u)[0] = <<>>
    BY <2>1
  <2>4. \A i \in 1 .. N : F(u)[i] = next1(u[i - 1], i)
    BY <2>1
  <2> HIDE DEF F, next1
  <2> QED
    BY <2>2, <2>3, <2>4
<1>9. Only(kept, list) = u[N]
  BY DEF Only
<1>10. PicksOut(u, kept, list)
  <2> HIDE DEF u, F, step
  <2> QED
    BY <1>8, <1>9 DEF PicksOut
<1> HIDE DEF u
<1> QED
  BY <1>10

(* What is left of a list are members of it that are kept. *)
LEMMA OnlyKept ==
  ASSUME NEW X, NEW list \in Seq(X), NEW kept
  PROVE  /\ Only(kept, list) \in Seq(X \cap kept)
         /\ Len(Only(kept, list)) <= Len(list)
<1> DEFINE N == Len(list)
           S == Seq(X \cap kept)
<1>1. N \in Nat /\ \A i \in 1 .. N : list[i] \in X
  OBVIOUS
<1>0. PICK f : PicksOut(f, kept, list)
  BY OnlySteps
<1>2. /\ f[0] = <<>>
      /\ \A i \in 1 .. N :
           f[i] = IF list[i] \in kept THEN Append(f[i - 1], list[i]) ELSE f[i - 1]
      /\ Only(kept, list) = f[N]
  BY <1>0 DEF PicksOut
<1> DEFINE T == {i \in 0 .. N : f[i] \in S /\ Len(f[i]) <= i}
<1>3. 0 \in T
  <2>1. f[0] \in S /\ Len(f[0]) <= 0
    BY <1>2
  <2> QED
    BY <1>1, <2>1
<1>4. ASSUME NEW i \in 1 .. N, i - 1 \in T PROVE i \in T
  <2>1. f[i - 1] \in S /\ Len(f[i - 1]) <= i - 1 /\ Len(f[i - 1]) \in Nat
    BY <1>4
  <2>2. CASE list[i] \in kept
    <3>1. f[i] = Append(f[i - 1], list[i]) /\ list[i] \in X \cap kept
      BY <1>1, <1>2, <2>2
    <3>2. f[i] \in S /\ Len(f[i]) = Len(f[i - 1]) + 1
      BY <2>1, <3>1
    <3> QED
      BY <2>1, <3>2
  <2>3. CASE list[i] \notin kept
    <3>1. f[i] = f[i - 1]
      BY <1>2, <2>3
    <3> QED
      BY <2>1, <3>1
  <2> QED
    BY <2>2, <2>3
<1> HIDE DEF T
<1>5. 0 .. N \subseteq T
  BY <1>1, <1>3, <1>4, Upward
<1> QED
  BY <1>1, <1>2, <1>5 DEF T

(* ... and all of them. *)
LEMMA OnlyIs ==
  ASSUME NEW X, NEW list \in Seq(X), NEW kept
  PROVE  ToSet(Only(kept, list)) = ToSet(list) \cap kept
<1> DEFINE N == Len(list)
           upto(i) == {list[j] : j \in 1 .. i} \cap kept
<1>1. N \in Nat /\ DOMAIN list = 1 .. N /\ \A i \in 1 .. N : list[i] \in X
  OBVIOUS
<1>0. PICK f : PicksOut(f, kept, list)
  BY OnlySteps
<1>2. /\ f[0] = <<>>
      /\ \A i \in 1 .. N :
           f[i] = IF list[i] \in kept THEN Append(f[i - 1], list[i]) ELSE f[i - 1]
      /\ Only(kept, list) = f[N]
  BY <1>0 DEF PicksOut
<1> DEFINE T == {i \in 0 .. N : f[i] \in Seq(X) /\ ToSet(f[i]) = upto(i)}
<1>3. 0 \in T
  <2>1. ToSet(<<>>) = {} /\ upto(0) = {} /\ <<>> \in Seq(X)
    BY DEF ToSet
  <2>2. 0 \in 0 .. N /\ f[0] \in Seq(X) /\ ToSet(f[0]) = upto(0)
    <3>1. f[0] = <<>> /\ 0 \in 0 .. N
      BY <1>1, <1>2
    <3> HIDE DEF upto, N
    <3> QED
      BY <2>1, <3>1
  <2> HIDE DEF upto, N
  <2> QED
    BY <2>2
<1>4. ASSUME NEW i \in 1 .. N, i - 1 \in T PROVE i \in T
  <2>1. f[i - 1] \in Seq(X) /\ ToSet(f[i - 1]) = upto(i - 1) /\ list[i] \in X
    BY <1>1, <1>4
  <2>2. 1 .. i = (1 .. (i - 1)) \cup {i}
    OBVIOUS
  <2>3. CASE list[i] \in kept
    <3>1. upto(i) = upto(i - 1) \cup {list[i]}
      BY <2>2, <2>3
    <3>2. ToSet(Append(f[i - 1], list[i])) = ToSet(f[i - 1]) \cup {list[i]}
      BY <2>1, AppendHolds
    <3>3. f[i] = Append(f[i - 1], list[i])
      BY <1>2, <2>3
    <3>4. f[i] \in Seq(X)
      BY <2>1, <3>3
    <3> HIDE DEF upto
    <3>5. ToSet(f[i]) = upto(i)
      BY <2>1, <3>1, <3>2, <3>3
    <3> QED
      BY <3>4, <3>5
  <2>4. CASE list[i] \notin kept
    <3>1. upto(i) = upto(i - 1)
      BY <2>2, <2>4
    <3>2. f[i] = f[i - 1]
      BY <1>2, <2>4
    <3> HIDE DEF upto
    <3>3. f[i] \in Seq(X) /\ ToSet(f[i]) = upto(i)
      BY <2>1, <3>1, <3>2
    <3> QED
      BY <3>3
  <2> QED
    BY <2>3, <2>4
<1>5. upto(N) = ToSet(list) \cap kept
  BY <1>1 DEF ToSet
<1> HIDE DEF T, upto
<1>6. 0 .. N \subseteq T
  BY <1>1, <1>3, <1>4, Upward
<1> QED
  BY <1>1, <1>2, <1>5, <1>6 DEF T

\* A list of lists, flattened one after the other.
Joins(f, ss) ==
  /\ \A i \in 1 .. Len(ss) : f[i] = IF i = 1 THEN ss[i] ELSE f[i - 1] \o ss[i]
  /\ FlattenSeq(ss) = IF Len(ss) = 0 THEN <<>> ELSE f[Len(ss)]

LEMMA FlattenSteps ==
  ASSUME NEW X, NEW ss \in Seq(Seq(X))
  PROVE  \E f : Joins(f, ss)
<1> DEFINE N == Len(ss)
           S == Seq(X)
           next1(s, i) == IF i = 1 THEN ss[i] ELSE s \o ss[i]
           step == [p \in S \X (1 .. N) |-> next1(p[1], p[2])]
<1>1. N \in Nat /\ \A i \in 1 .. N : ss[i] \in S
  OBVIOUS
<1>2. \A s \in S, i \in 1 .. N : next1(s, i) \in S
  BY <1>1
<1>3. step \in [S \X (1 .. N) -> S]
  <2> HIDE DEF next1, S
  <2> QED
    BY <1>2
<1>4. PICK f : Follows(f, S, <<>>, N, step)
  <2>1. <<>> \in S
    OBVIOUS
  <2> HIDE DEF step, N, S, next1
  <2> QED
    BY <1>1, <1>3, <2>1, Iterates
<1>5. /\ f \in [0 .. N -> S]
      /\ \A i \in 1 .. N : f[i] = next1(f[i - 1], i)
  <2>1. /\ f \in [0 .. N -> S]
        /\ \A i \in 1 .. N : f[i] = step[<<f[i - 1], i>>]
    BY <1>4 DEF Follows
  <2>2. \A i \in 1 .. N : f[i - 1] \in S
    <3>1. \A i \in 1 .. N : i - 1 \in 0 .. N
      BY <1>1
    <3> HIDE DEF S, next1, N, step
    <3> QED
      BY <2>1, <3>1
  <2> HIDE DEF next1, S
  <2> QED
    BY <2>1, <2>2
<1> DEFINE F(g) == [i \in 1 .. N |-> IF i = 1 THEN ss[i] ELSE g[i - 1] \o ss[i]]
           u == CHOOSE g : g = F(g)
           h == [i \in 1 .. N |-> f[i]]
<1>6. h = F(h)
  <2>1. ASSUME NEW i \in 1 .. N PROVE h[i] = F(h)[i]
    <3>1. CASE i = 1
      BY <1>5, <3>1
    <3>2. CASE i # 1
      <4>1. i - 1 \in 1 .. N
        BY <1>1, <3>2
      <4> QED
        BY <1>5, <3>2, <4>1
    <3> QED
      BY <3>1, <3>2
  <2> QED
    BY <2>1
<1>7. u = F(u)
  BY <1>6
<1>8. \A i \in 1 .. N : u[i] = next1(u[i - 1], i)
  <2> HIDE DEF u
  <2> QED
    BY <1>1, <1>7
<1>9. N # 0 => FlattenSeq(ss) = u[N]
  BY DEF FlattenSeq
<1>10. N = 0 => FlattenSeq(ss) = <<>>
  <2>1. N = 0 => ss = <<>>
    OBVIOUS
  <2> QED
    BY <2>1 DEF FlattenSeq
<1>11. Joins(u, ss)
  <2> HIDE DEF u, F, step, h
  <2> QED
    BY <1>8, <1>9, <1>10 DEF Joins
<1> HIDE DEF u
<1> QED
  BY <1>11

(* A list of lists, flattened, holds what they hold. *)
LEMMA Flattened ==
  ASSUME NEW X, NEW ss \in Seq(Seq(X))
  PROVE  /\ FlattenSeq(ss) \in Seq(X)
         /\ ToSet(FlattenSeq(ss)) = UNION {ToSet(ss[i]) : i \in DOMAIN ss}
<1> DEFINE N == Len(ss)
           upto(i) == UNION {ToSet(ss[j]) : j \in 1 .. i}
<1>1. N \in Nat /\ DOMAIN ss = 1 .. N /\ \A i \in 1 .. N : ss[i] \in Seq(X)
  OBVIOUS
<1>2. PICK f : Joins(f, ss)
  BY FlattenSteps
<1>3. /\ \A i \in 1 .. N : f[i] = IF i = 1 THEN ss[i] ELSE f[i - 1] \o ss[i]
      /\ FlattenSeq(ss) = IF N = 0 THEN <<>> ELSE f[N]
  BY <1>2 DEF Joins
<1> DEFINE T == {0} \cup {i \in 1 .. N : f[i] \in Seq(X) /\ ToSet(f[i]) = upto(i)}
<1>4. 0 \in T
  OBVIOUS
<1>5. ASSUME NEW i \in 1 .. N, i - 1 \in T PROVE i \in T
  <2>1. ss[i] \in Seq(X)
    BY <1>1
  <2>2. CASE i = 1
    <3>1. f[i] = ss[i]
      BY <1>3, <2>2
    <3>2. upto(i) = ToSet(ss[i])
      <4>1. 1 .. i = {i}
        BY <2>2
      <4> QED
        BY <4>1
    <3> HIDE DEF upto
    <3> QED
      BY <2>1, <3>1, <3>2
  <2>3. CASE i # 1
    <3>1. f[i - 1] \in Seq(X) /\ ToSet(f[i - 1]) = upto(i - 1)
      BY <1>1, <1>5, <2>3
    <3>2. f[i] = f[i - 1] \o ss[i]
      BY <1>3, <2>3
    <3>3. ToSet(f[i - 1] \o ss[i]) = ToSet(f[i - 1]) \cup ToSet(ss[i])
      BY <2>1, <3>1, ConcatHolds
    <3>4. upto(i) = upto(i - 1) \cup ToSet(ss[i])
      <4>1. 1 .. i = (1 .. (i - 1)) \cup {i}
        OBVIOUS
      <4> QED
        BY <4>1
    <3> HIDE DEF upto
    <3>5. f[i] \in Seq(X) /\ ToSet(f[i]) = upto(i)
      BY <2>1, <3>1, <3>2, <3>3, <3>4
    <3> QED
      BY <3>5
  <2> QED
    BY <2>2, <2>3
<1>6. upto(N) = UNION {ToSet(ss[i]) : i \in DOMAIN ss}
  BY <1>1
<1> HIDE DEF T, upto
<1>7. 0 .. N \subseteq T
  BY <1>1, <1>4, <1>5, Upward
<1>8. CASE N = 0
  <2>1. FlattenSeq(ss) = <<>> /\ ToSet(<<>>) = {} /\ <<>> \in Seq(X)
    BY <1>3, <1>8 DEF ToSet
  <2>2. DOMAIN ss = {}
    BY <1>1, <1>8
  <2> QED
    BY <2>1, <2>2
<1>9. CASE N # 0
  <2>1. N \in T /\ N \in 1 .. N
    BY <1>1, <1>7, <1>9
  <2>2. f[N] \in Seq(X) /\ ToSet(f[N]) = upto(N)
    BY <1>9, <2>1 DEF T
  <2> QED
    BY <1>3, <1>6, <1>9, <2>2
<1> QED
  BY <1>8, <1>9

LEMMA SeqMapped ==
  ASSUME NEW S, NEW T, NEW s \in Seq(S), NEW g \in [S -> T]
  PROVE  /\ [i \in DOMAIN s |-> g[s[i]]] \in Seq(T)
         /\ Len([i \in DOMAIN s |-> g[s[i]]]) = Len(s)
<1>1. Len(s) \in Nat /\ DOMAIN s = 1 .. Len(s) /\ \A i \in 1 .. Len(s) : s[i] \in S
  OBVIOUS
<1>2. [i \in DOMAIN s |-> g[s[i]]] \in [1 .. Len(s) -> T]
  BY <1>1
<1> QED
  BY <1>1, <1>2, SeqDef

LEMMA SeqMember ==
  ASSUME NEW S, NEW s \in Seq(S), NEW i \in DOMAIN s
  PROVE  s[i] \in S
  OBVIOUS

LEMMA LenConcat ==
  ASSUME NEW S, NEW s \in Seq(S), NEW t \in Seq(S)
  PROVE  /\ Len(s) \in Nat /\ Len(t) \in Nat /\ Len(s \o t) = Len(s) + Len(t)
         /\ s \o t \in Seq(S)
         /\ Len(t) = 0 => t = <<>>
         /\ Len(s) = 0 => s = <<>>
  OBVIOUS

-----------------------------------------------------------------------------
(* Comprehensions generate what a field may hold *)

LEMMA MergeFormed ==
  ASSUME NEW m \in Merges
  PROVE  Formed(m)
  BY MergesFormed

LEMMA NamedTyped ==
  ASSUME NEW m, NEW outs \in Seq([name : Names, conj : Readings(m)]), NEW n
  PROVE  /\ Named(outs, n) \in Seq(Readings(m))
         /\ Len(Named(outs, n)) <= Len(outs)
<1> DEFINE O == [name : Names, conj : Readings(m)]
           kept == {o \in ToSet(outs) : o.name = n}
           these == Only(kept, outs)
           g == [o \in O |-> o.conj]
<1>1. these \in Seq(O \cap kept) /\ Len(these) <= Len(outs)
  BY OnlyKept
<1>2. these \in Seq(O)
  BY <1>1
<1>3. g \in [O -> Readings(m)]
  OBVIOUS
<1>4. [i \in DOMAIN these |-> g[these[i]]] = [i \in DOMAIN these |-> these[i].conj]
  <2> HIDE DEF these
  <2> HIDE DEF O
  <2>1. \A i \in DOMAIN these : these[i] \in O
    BY <1>2
  <2> USE DEF O
  <2> QED
    BY <2>1
<1>5. Named(outs, n) = [i \in DOMAIN these |-> these[i].conj]
  BY DEF Named
<1> HIDE DEF these, g, O
<1>6. /\ [i \in DOMAIN these |-> g[these[i]]] \in Seq(Readings(m))
      /\ Len([i \in DOMAIN these |-> g[these[i]]]) = Len(these)
  BY <1>2, <1>3, SeqMapped
<1> QED
  BY <1>1, <1>4, <1>5, <1>6

LEMMA GeneratesTyped ==
  ASSUME NEW m \in Merges, NEW d \in m.recipes, NEW val \in Valued
  PROVE  /\ Generates(d, val) \in Seq([name : Names, conj : Readings(m)])
         /\ Len(Generates(d, val)) <= 1
<1>1. /\ d.id \in Nat /\ d.reads \in Names
      /\ d.into \in Names \cup {"none"} /\ d.body \in Readings(m)
  <2>1. Formed(m)
    BY MergeFormed
  <2>2. /\ d.id \in 1 .. MaxId /\ d.reads \in Names
        /\ d.into \in Names \cup {"none"} /\ d.body \in Readings(m)
    BY <2>1 DEF Formed
  <2> QED
    BY <2>2 DEF MaxId
<1>2. val[d.reads] \in Vals
  BY <1>1 DEF Valued
<1>3. CASE d.into = "none" \/ ~Guard(d, val)
  BY <1>3 DEF Generates
<1>4. CASE ~(d.into = "none" \/ ~Guard(d, val)) /\ d.kind = "let"
  <2>1. [by |-> d.id, op |-> "lit", v |-> val[d.reads], of |-> "none"] \in Readings(m)
    BY <1>1, <1>2 DEF Readings
  <2>2. Generates(d, val) =
          <<[name |-> d.into,
             conj |-> [by |-> d.id, op |-> "lit", v |-> val[d.reads], of |-> "none"]]>>
    BY <1>4 DEF Generates
  <2> HIDE DEF Generates
  <2> QED
    BY <1>1, <1>4, <2>1, <2>2
<1>5. CASE ~(d.into = "none" \/ ~Guard(d, val)) /\ d.kind # "let"
  <2>1. Generates(d, val) = <<[name |-> d.into, conj |-> d.body]>>
    BY <1>5 DEF Generates
  <2> QED
    BY <1>1, <1>5, <2>1
<1> QED
  BY <1>3, <1>4, <1>5

LEMMA DeclById ==
  ASSUME Typed, NEW d \in merge.recipes
  PROVE  /\ Decl(d.id) = d
         /\ d.id \in Ids
  BY MergeFormed DEF Typed, Formed, Decl, Ids

LEMMA DeclTyped ==
  ASSUME Typed, NEW k \in Ids
  PROVE  /\ Decl(k) \in merge.recipes
         /\ Decl(k).id = k
  BY DEF Decl, Ids

LEMMA InnerRunTyped ==
  ASSUME Typed, NEW d \in merge.recipes, NEW val \in Valued, NEW k \in Nat
  PROVE  InnerRun(d, val, k) \in InnerRuns
<1>1. Generates(d, val) \in Outs /\ Len(Generates(d, val)) <= 1
  BY GeneratesTyped DEF Typed, Outs, Conjs
<1>2. Undecided(d, val) \in BOOLEAN
  BY DEF Undecided
<1>3. d.id \in Ids
  BY DeclById
<1> QED
  BY <1>1, <1>2, <1>3 DEF InnerRun, InnerRuns, OneField

LEMMA InnerIsRun == InnerRuns \subseteq RunsMade
<1> SUFFICES ASSUME NEW r \in InnerRuns PROVE r \in RunsMade
  OBVIOUS
<1>1. <<>> \in Seq(InnerRuns)
  OBVIOUS
<1>2. /\ r \in [id : Ids, run : Nat, out : Outs, inner : {<<>>}, incomplete : BOOLEAN]
      /\ OneField(r)
  BY DEF InnerRuns
<1>3. r \in [id : Ids, run : Nat, out : Outs, inner : Seq(InnerRuns), incomplete : BOOLEAN]
  <2> HIDE DEF InnerRuns
  <2> QED
    BY <1>1, <1>2
<1> QED
  BY <1>2, <1>3 DEF RunsMade

LEMMA RunTyped ==
  ASSUME Typed, NEW d \in merge.recipes, NEW val \in Valued, NEW k \in Nat
  PROVE  /\ Run(merge.recipes, d, val, k) \in RunsMade
         /\ Run(merge.recipes, d, val, k).id = d.id
<1> DEFINE inner == IF Inner(merge.recipes, d) = {} \/ ~Guard(d, val) THEN <<>>
                    ELSE <<InnerRun(CHOOSE i \in Inner(merge.recipes, d) : TRUE, val, k)>>
           deep == IF inner = <<>> THEN <<>> ELSE inner[1].out
           out == Generates(d, val) \o deep
<1>1. Run(merge.recipes, d, val, k) =
        [id |-> d.id, run |-> k, out |-> out, inner |-> inner, incomplete |-> Undecided(d, val)]
  BY DEF Run
<1>2. Generates(d, val) \in Outs /\ Len(Generates(d, val)) <= 1
  BY GeneratesTyped DEF Typed, Outs, Conjs
<1>3. inner \in Seq(InnerRuns)
  <2>1. CASE Inner(merge.recipes, d) = {} \/ ~Guard(d, val)
    BY <2>1
  <2>2. CASE ~(Inner(merge.recipes, d) = {} \/ ~Guard(d, val))
    <3> DEFINE i == CHOOSE i \in Inner(merge.recipes, d) : TRUE
    <3>1. i \in Inner(merge.recipes, d)
      BY <2>2
    <3>2. i \in merge.recipes
      BY <3>1 DEF Inner
    <3> HIDE DEF i
    <3>3. InnerRun(i, val, k) \in InnerRuns
      BY <3>2, InnerRunTyped
    <3> USE DEF i
    <3>4. inner = <<InnerRun(i, val, k)>>
      BY <2>2
    <3> HIDE DEF i, inner
    <3> QED
      BY <3>3, <3>4
  <2> QED
    BY <2>1, <2>2
<1>4. Decl(d.id).kind = "let" => inner = <<>>
  <2>1. Decl(d.id) = d
    BY DeclById
  <2>2. d.kind = "let" => Inner(merge.recipes, d) = {}
    BY MergeFormed DEF Typed, Formed, Inner
  <2> QED
    BY <2>1, <2>2
<1> HIDE DEF inner
<1>5. deep \in Outs /\ (inner = <<>> => deep = <<>>)
  <2>1. CASE inner = <<>>
    BY <2>1 DEF Outs
  <2>2. CASE inner # <<>>
    <3>1. inner[1] \in InnerRuns
      BY <1>3, <2>2
    <3> QED
      BY <2>2, <3>1 DEF InnerRuns
  <2> QED
    BY <2>1, <2>2
<1> HIDE DEF deep
<1>6. out \in Outs /\ (Decl(d.id).kind = "let" => Len(out) <= 1)
  <2>1. out \in Outs
    BY <1>2, <1>5 DEF Outs
  <2>2. inner = <<>> => Len(out) <= 1
    BY <1>2, <1>5 DEF Outs
  <2> QED
    BY <1>4, <2>1, <2>2
<1> HIDE DEF out
<1>7. Undecided(d, val) \in BOOLEAN /\ d.id \in Ids
  BY DeclById DEF Undecided
<1> QED
  BY <1>1, <1>3, <1>6, <1>7 DEF RunsMade, OneField

LEMMA KeptTyped ==
  ASSUME NEW r \in RunsMade
  PROVE  Kept(r) \in Seq(RunsMade)
<1>1. r.inner \in Seq(RunsMade)
  BY InnerIsRun DEF RunsMade
<1> QED
  BY <1>1 DEF Kept

LEMMA InOrderTyped ==
  ASSUME NEW decls
  PROVE  InOrder(decls) \in Seq(decls)
<1> DEFINE ids == {d.id : d \in decls}
           list == Only(ids, [i \in 1 .. MaxId |-> i])
           g == [i \in (1 .. MaxId) \cap ids |-> CHOOSE d \in decls : d.id = i]
<1>1. [i \in 1 .. MaxId |-> i] \in Seq(1 .. MaxId)
  BY SeqDef DEF MaxId
<1>2. list \in Seq((1 .. MaxId) \cap ids)
  <2> HIDE DEF ids
  <2> QED
    BY <1>1, OnlyKept
<1>3. g \in [(1 .. MaxId) \cap ids -> decls]
  OBVIOUS
<1>4. InOrder(decls) = [i \in DOMAIN list |-> CHOOSE d \in decls : d.id = list[i]]
  BY DEF InOrder
<1> HIDE DEF list
<1>5. [i \in DOMAIN list |-> g[list[i]]] = [i \in DOMAIN list |-> CHOOSE d \in decls : d.id = list[i]]
  BY <1>2
<1> HIDE DEF g, ids
<1>6. [i \in DOMAIN list |-> g[list[i]]] \in Seq(decls)
  BY <1>2, <1>3, SeqMapped
<1> QED
  BY <1>4, <1>5, <1>6

LEMMA AllRunsTyped ==
  ASSUME Typed, NEW val \in Valued
  PROVE  AllRuns(merge.recipes, val) \in Seq(RunsMade)
<1> DEFINE outer == Outer(merge.recipes)
           list == InOrder(outer)
           g == [d \in outer |-> Run(merge.recipes, d, val, 0)]
<1>1. list \in Seq(outer)
  BY InOrderTyped
<1>2. g \in [outer -> RunsMade]
  BY RunTyped DEF Outer
<1>3. AllRuns(merge.recipes, val) = [i \in DOMAIN list |-> Run(merge.recipes, list[i], val, 0)]
  BY DEF AllRuns
<1> HIDE DEF list, outer
<1>4. [i \in DOMAIN list |-> g[list[i]]] = [i \in DOMAIN list |-> Run(merge.recipes, list[i], val, 0)]
  BY <1>1
<1> HIDE DEF g
<1>5. [i \in DOMAIN list |-> g[list[i]]] \in Seq(RunsMade)
  BY <1>1, <1>2, SeqMapped
<1> QED
  BY <1>3, <1>4, <1>5

LEMMA ContributedTyped ==
  ASSUME Typed, NEW rs \in Seq(RunsMade), NEW n
  PROVE  Contributed(rs, n) \in Seq(Conjs)
<1> DEFINE g == [r \in RunsMade |-> r.out]
           outs == [i \in DOMAIN rs |-> rs[i].out]
<1>1. g \in [RunsMade -> Outs]
  BY DEF RunsMade
<1>2. [i \in DOMAIN rs |-> g[rs[i]]] = outs
  OBVIOUS
<1> HIDE DEF g
<1>3. outs \in Seq(Outs)
  BY <1>1, <1>2, SeqMapped
<1> HIDE DEF outs
<1>4. FlattenSeq(outs) \in Outs
  BY <1>3, Flattened DEF Outs
<1>5. Named(FlattenSeq(outs), n) \in Seq(Conjs)
  BY <1>4, NamedTyped DEF Outs, Conjs
<1> QED
  BY <1>5 DEF Contributed, outs

LEMMA GivenTyped ==
  ASSUME NEW r \in RunsMade, NEW n
  PROVE  /\ Given(r, n) \in Seq(Conjs)
         /\ OneField(r) /\ (Decl(r.id).kind = "let" => Len(Given(r, n)) <= 1)
<1>1. r.out \in Outs /\ OneField(r)
  BY DEF RunsMade
<1>2. Given(r, n) \in Seq(Conjs) /\ Len(Given(r, n)) <= Len(r.out)
  BY <1>1, NamedTyped DEF Given, Outs, Conjs
<1>3. Len(Given(r, n)) \in Nat /\ Len(r.out) \in Nat
  BY <1>1, <1>2 DEF Outs
<1> QED
  BY <1>1, <1>2, <1>3 DEF OneField

-----------------------------------------------------------------------------
(* What is taken back and put in its place *)

LEMMA WithoutTyped ==
  ASSUME NEW m, NEW conj \in Seq(Readings(m)), NEW given
  PROVE  /\ Without(conj, given) \in Seq(Readings(m))
         /\ Len(Without(conj, given)) <= Len(conj)
<1> DEFINE others == Others(conj, given)
<1>1. /\ Only(others, conj) \in Seq(Readings(m) \cap others)
      /\ Len(Only(others, conj)) <= Len(conj)
  <2> HIDE DEF others
  <2> QED
    BY OnlyKept
<1>2. Only(others, conj) \in Seq(Readings(m))
  <2> HIDE DEF others
  <2> QED
    BY <1>1
<1> QED
  BY <1>1, <1>2 DEF Without

(* A list from which nothing is taken is what it was. *)
LEMMA OnlyAll ==
  ASSUME NEW X, NEW list \in Seq(X), NEW kept, \A i \in DOMAIN list : list[i] \in kept
  PROVE  Only(kept, list) = list
<1> DEFINE N == Len(list)
           F(g) == [i \in 0 .. N |-> IF i = 0 THEN <<>>
                                      ELSE IF list[i] \in kept THEN Append(g[i - 1], list[i]) ELSE g[i - 1]]
           f == [i \in 0 .. N |-> SubSeq(list, 1, i)]
           u == CHOOSE g : g = F(g)
<1>1. /\ N \in Nat /\ \A i \in 1 .. N : list[i] \in X /\ list[i] \in kept
      /\ SubSeq(list, 1, 0) = <<>> /\ SubSeq(list, 1, N) = list
  OBVIOUS
<1>2. ASSUME NEW i \in 1 .. N PROVE SubSeq(list, 1, i) = Append(SubSeq(list, 1, i - 1), list[i])
  OBVIOUS
<1>3. f = F(f)
  <2>1. ASSUME NEW i \in 0 .. N PROVE f[i] = F(f)[i]
    <3>1. CASE i = 0
      BY <1>1, <3>1
    <3>2. CASE i # 0
      <4>1. i \in 1 .. N /\ i - 1 \in 0 .. N
        BY <1>1, <3>2
      <4> QED
        BY <1>1, <1>2, <3>2, <4>1
    <3> QED
      BY <3>1, <3>2
  <2> QED
    BY <2>1
<1>4. u = F(u)
  BY <1>3
<1> HIDE DEF f
<1>5. u[0] = <<>> /\ \A i \in 1 .. N : u[i] = Append(u[i - 1], list[i])
  <2> HIDE DEF u
  <2>1. 0 \in 0 .. N /\ \A i \in 1 .. N : i \in 0 .. N /\ i # 0
    BY <1>1
  <2>2. u[0] = F(u)[0] /\ \A i \in 1 .. N : u[i] = F(u)[i]
    <3> HIDE DEF N
    <3> QED
      BY <1>4, <2>1
  <2>3. F(u)[0] = <<>>
    BY <2>1
  <2>4. \A i \in 1 .. N : F(u)[i] = Append(u[i - 1], list[i])
    BY <1>1, <2>1
  <2> HIDE DEF F
  <2> QED
    BY <2>2, <2>3, <2>4
<1>6. Only(kept, list) = u[N]
  BY DEF Only
<1> HIDE DEF u
<1>7. \A i \in 0 .. N : u[i] = SubSeq(list, 1, i)
  <2> DEFINE T == {i \in 0 .. N : u[i] = SubSeq(list, 1, i)}
  <2>1. 0 \in T
    <3>1. 0 \in 0 .. N /\ u[0] = SubSeq(list, 1, 0)
      BY <1>1, <1>5
    <3> HIDE DEF N
    <3> QED
      BY <3>1
  <2>2. ASSUME NEW i \in 1 .. N, i - 1 \in T PROVE i \in T
    <3>1. u[i - 1] = SubSeq(list, 1, i - 1) /\ i \in 0 .. N
      BY <1>1, <2>2
    <3> QED
      BY <1>2, <1>5, <3>1
  <2>3. 0 .. N \subseteq T
    <3> HIDE DEF T, N
    <3> QED
      BY <1>1, <2>1, <2>2, Upward
  <2> QED
    BY <2>3
<1> QED
  BY <1>1, <1>6, <1>7

LEMMA TakenFirst ==
  ASSUME NEW X, NEW conj \in Seq(X), NEW old, Without(conj, old) # conj
  PROVE  LET others == Others(conj, old)
             first == CHOOSE i \in DOMAIN conj :
                        conj[i] \notin others /\ \A j \in DOMAIN conj : conj[j] \notin others => i <= j
         IN first \in DOMAIN conj /\ conj[first] \notin others
<1> DEFINE others == Others(conj, old)
           first == CHOOSE i \in DOMAIN conj :
                      conj[i] \notin others /\ \A j \in DOMAIN conj : conj[j] \notin others => i <= j
<1>1. Len(conj) \in Nat /\ DOMAIN conj = 1 .. Len(conj)
  OBVIOUS
<1>2. \E i \in DOMAIN conj : conj[i] \notin others
  <2> HIDE DEF others
  <2>1. CASE \A i \in DOMAIN conj : conj[i] \in others
    <3>1. Only(others, conj) = conj
      BY <2>1, OnlyAll
    <3> USE DEF others
    <3> QED
      BY <3>1 DEF Without
  <2> QED
    BY <2>1
<1>3. first \in DOMAIN conj /\ conj[first] \notin others
  <2> DEFINE T == {i \in DOMAIN conj : conj[i] \notin others}
  <2>1. T \in SUBSET Nat /\ T # {}
    BY <1>1, <1>2
  <2>2. PICK i \in T : \A j \in T : i <= j
    <3> HIDE DEF T
    <3> QED
      BY <2>1, Least
  <2>3. \E k \in DOMAIN conj :
          conj[k] \notin others /\ \A j \in DOMAIN conj : conj[j] \notin others => k <= j
    <3> HIDE DEF others
    <3> QED
      BY <2>2
  <2> HIDE DEF others
  <2> QED
    BY <2>3
<1> QED
  BY <1>3

(* The rerun's conjunct stands where one or more stood: none is added. *)
LEMMA ReplaceTyped ==
  ASSUME NEW m, NEW conj \in Seq(Readings(m)), NEW old, NEW new \in Seq(Readings(m)),
         Len(new) <= 1, Without(conj, old) # conj
  PROVE  /\ Replace(conj, old, new) \in Seq(Readings(m))
         /\ Len(Replace(conj, old, new)) <= Len(conj)
<1> DEFINE others == Others(conj, old)
           first == CHOOSE i \in DOMAIN conj :
                      conj[i] \notin others /\ \A j \in DOMAIN conj : conj[j] \notin others => i <= j
           before == SubSeq(conj, 1, first - 1)
           after == SubSeq(conj, first + 1, Len(conj))
<1>1. Len(conj) \in Nat /\ DOMAIN conj = 1 .. Len(conj)
  OBVIOUS
<1>3. first \in DOMAIN conj
  BY TakenFirst
<1>4. Replace(conj, old, new) = (Only(others, before) \o new) \o Only(others, after)
  BY DEF Replace
<1> HIDE DEF first, others
<1>5. /\ before \in Seq(Readings(m)) /\ Len(before) = first - 1
      /\ after \in Seq(Readings(m)) /\ Len(after) = Len(conj) - first
  BY <1>1, <1>3
<1> HIDE DEF before, after
<1>6. /\ Only(others, before) \in Seq(Readings(m)) /\ Len(Only(others, before)) <= first - 1
      /\ Only(others, after) \in Seq(Readings(m)) /\ Len(Only(others, after)) <= Len(conj) - first
  <2>1. /\ Only(others, before) \in Seq(Readings(m) \cap others)
        /\ Len(Only(others, before)) <= Len(before)
        /\ Only(others, after) \in Seq(Readings(m) \cap others)
        /\ Len(Only(others, after)) <= Len(after)
    BY <1>5, OnlyKept
  <2>2. /\ Only(others, before) \in Seq(Readings(m))
        /\ Only(others, after) \in Seq(Readings(m))
    BY <2>1
  <2> QED
    BY <1>5, <2>1, <2>2
<1> QED
  BY <1>1, <1>3, <1>4, <1>6

LEMMA DropTyped ==
  ASSUME Typed, NEW r
  PROVE  Drop(r) \in Seq(RunsMade)
<1> DEFINE kept == {k \in ToSet(recipes) : k # r /\ ~Among(k, r.inner)}
<1>1. recipes \in Seq(RunsMade)
  BY DEF Typed
<1> HIDE DEF kept
<1>2. Only(kept, recipes) \in Seq(RunsMade \cap kept)
  BY <1>1, OnlyKept
<1>3. Only(kept, recipes) \in Seq(RunsMade)
  BY <1>2
<1> QED
  BY <1>3 DEF Drop, kept

LEMMA InPlaceTyped ==
  ASSUME Typed, NEW r, Among(r, recipes), NEW fresh \in RunsMade
  PROVE  InPlace(r, fresh) \in Seq(RunsMade)
<1> DEFINE at == CHOOSE i \in DOMAIN recipes : recipes[i] = r
           rest == Drop(r)
           cut == IF at - 1 <= Len(rest) THEN at - 1 ELSE Len(rest)
<1>1. at \in DOMAIN recipes /\ at \in Nat \ {0}
  <2>1. at \in DOMAIN recipes
    BY DEF Among
  <2>2. DOMAIN recipes = 1 .. Len(recipes) /\ Len(recipes) \in Nat
    BY DEF Typed
  <2> HIDE DEF at
  <2> QED
    BY <2>1, <2>2
<1> HIDE DEF at
<1>2. rest \in Seq(RunsMade)
  BY DropTyped
<1> HIDE DEF rest
<1>3. cut \in 0 .. Len(rest)
  BY <1>1, <1>2
<1> HIDE DEF cut
<1>4. SubSeq(rest, 1, cut) \in Seq(RunsMade) /\ SubSeq(rest, cut + 1, Len(rest)) \in Seq(RunsMade)
  BY <1>2, <1>3
<1>5. Kept(fresh) \in Seq(RunsMade)
  BY KeptTyped
<1>6. (SubSeq(rest, 1, cut) \o Kept(fresh)) \o SubSeq(rest, cut + 1, Len(rest)) \in Seq(RunsMade)
  BY <1>4, <1>5
<1> QED
  BY <1>6 DEF InPlace, at, rest, cut

(* A derivation order gives every field its turn. *)
LEMMA OrdersCover ==
  ASSUME NEW e, NEW o \in Orders(e)
  PROVE  o \in Seq(Names) /\ Covers(o, e)
<1> DEFINE P == Present(e)
<1>1. P \subseteq Names /\ IsFiniteSet(P) /\ Cardinality(P) \in Nat
  <2>1. P \subseteq Names
    BY DEF Present
  <2>2. IsFiniteSet(P)
    BY <2>1, MergesFormed, FS_Subset
  <2> QED
    BY <2>1, <2>2, FS_CardinalityType
<1>2. /\ o \in [1 .. Cardinality(P) -> P]
      /\ \A i, j \in DOMAIN o : i < j => o[i] # o[j]
  BY DEF Orders
<1> HIDE DEF P
<1>3. o \in Injection(1 .. Cardinality(P), P)
  BY <1>1, <1>2 DEF Injection, IsInjective
<1>4. /\ IsFiniteSet(1 .. Cardinality(P))
      /\ Cardinality(1 .. Cardinality(P)) = Cardinality(P)
  BY <1>1, FS_Interval
<1>5. o \in Surjection(1 .. Cardinality(P), P)
  BY <1>1, <1>3, <1>4, FS_Injection
<1>6. \A n \in P : \E i \in DOMAIN o : o[i] = n
  BY <1>2, <1>5 DEF Surjection
<1>7. o \in [1 .. Cardinality(P) -> Names]
  BY <1>1, <1>2
<1> QED
  BY <1>1, <1>6, <1>7, SeqDef DEF Covers, P

-----------------------------------------------------------------------------
(* Fields that are current *)

LEMMA EntryTyped ==
  ASSUME NEW e \in Entries, NEW n \in Names
  PROVE  /\ Values(e) \in Valued /\ Values(e)[n] = e[n].val
         /\ e[n].val \in Vals /\ e[n].conj \in Seq(Conjs)
         /\ Len(e[n].conj) \in Nat
         /\ DeriveField(e[n].conj, Values(e)) \in Vals
<1>1. e[n].val \in Vals /\ e[n].conj \in Seq(Conjs)
  BY DEF Entries
<1>2. Values(e) \in Valued /\ Values(e)[n] = e[n].val
  BY DEF Entries, Values, Valued
<1>3. Len(e[n].conj) \in Nat
  BY <1>1
<1> QED
  BY <1>1, <1>2, <1>3, DerivedField DEF Conjs

(* A field that reads none of the names whose values differ gives the same. *)
LEMMA Unread ==
  ASSUME NEW e \in Entries, NEW f \in Entries, NEW conj \in Seq(Conjs), NEW names,
         ~ReadsAny(conj, names), \A k \in Names \ names : f[k].val = e[k].val
  PROVE  DeriveField(conj, Values(f)) = DeriveField(conj, Values(e))
<1>1. ASSUME NEW i \in DOMAIN conj, conj[i].op # "lit"
      PROVE  Values(f)[conj[i].of] = Values(e)[conj[i].of]
  <2>1. conj[i] \in Conjs
    OBVIOUS
  <2>2. conj[i].of \in Names
    BY <1>1, <2>1 DEF Conjs, Readings
  <2>3. conj[i].of \notin names
    BY <1>1 DEF ReadsAny
  <2> QED
    BY <2>2, <2>3 DEF Values
<1> QED
  BY <1>1, DeriveSame DEF Conjs

(* What gives its conjuncts' value exactly is current. *)
LEMMA ExactIsCurrent ==
  ASSUME NEW f, NEW val, f.val = DeriveField(f.conj, val)
  PROVE  IsCurrent(f, val)
  BY DEF IsCurrent, Alike

LEMMA ReadsOfMore ==
  ASSUME NEW conj, NEW A, NEW B, A \subseteq B, ReadsAny(conj, A)
  PROVE  ReadsAny(conj, B)
  BY DEF ReadsAny

LEMMA ReadsOfTwo ==
  ASSUME NEW conj, NEW A, NEW B, ReadsAny(conj, A \cup B)
  PROVE  ReadsAny(conj, A) \/ ReadsAny(conj, B)
  BY DEF ReadsAny

-----------------------------------------------------------------------------
(* One sweep *)

States == [entry : Entries, live : SUBSET Names, moved : SUBSET Names]
Begin == [entry |-> entry, live |-> moved, moved |-> {}]

LEMMA SweepFieldTyped ==
  ASSUME Typed, NEW s \in States, NEW n \in Names
  PROVE  SweepField(s, n) \in States
<1>1. s.entry \in Entries /\ s.live \in SUBSET Names /\ s.moved \in SUBSET Names
  BY DEF States
<1> DEFINE x == DeriveField(s.entry[n].conj, Values(s.entry))
<1>2. x \in Vals
  BY <1>1, EntryTyped
<1> HIDE DEF x
<1>3. [s.entry EXCEPT ![n].val = x] \in Entries
  BY <1>1, <1>2 DEF Entries
<1>4. {n} \ large \in SUBSET Names
  OBVIOUS
<1>5. SweepField(s, n) = s
        \/ SweepField(s, n) = [entry |-> [s.entry EXCEPT ![n].val = x],
                               live |-> s.live \cup ({n} \ large),
                               moved |-> s.moved \cup ({n} \ large)]
  BY DEF SweepField, x
<1> QED
  BY <1>1, <1>3, <1>4, <1>5 DEF States

LEMMA SweepSteps ==
  ASSUME Typed
  PROVE  \E f \in [0 .. Len(order) -> States] :
           /\ f[0] = Begin
           /\ \A i \in 1 .. Len(order) : f[i] = SweepField(f[i - 1], order[i])
           /\ SweepResult(moved) = f[Len(order)]
<1> DEFINE N == Len(order)
           step == [p \in States \X (1 .. N) |-> SweepField(p[1], order[p[2]])]
<1>1. N \in Nat /\ \A i \in 1 .. N : order[i] \in Names
  BY DEF Typed
<1>2. step \in [States \X (1 .. N) -> States]
  BY <1>1, SweepFieldTyped
<1>3. Begin \in States
  BY DEF Begin, States, Typed
<1>4. PICK f : Follows(f, States, Begin, N, step)
  <2> HIDE DEF step, N
  <2> QED
    BY <1>1, <1>2, <1>3, Iterates
<1>5. /\ f \in [0 .. N -> States] /\ f[0] = Begin
      /\ \A i \in 1 .. N : f[i] = SweepField(f[i - 1], order[i])
  <2>1. /\ f \in [0 .. N -> States] /\ f[0] = Begin
        /\ \A i \in 1 .. N : f[i] = step[<<f[i - 1], i>>]
    BY <1>4 DEF Follows
  <2>2. \A i \in 1 .. N : f[i - 1] \in States
    BY <1>1, <2>1
  <2> QED
    BY <2>1, <2>2
<1> DEFINE F(g) == [i \in 0 .. N |-> IF i = 0 THEN [entry |-> entry, live |-> moved, moved |-> {}]
                                      ELSE SweepField(g[i - 1], order[i])]
           u == CHOOSE g : g = F(g)
<1>6. f = F(f)
  BY <1>1, <1>5 DEF Begin
<1>7. u = F(u)
  BY <1>6
<1>8. u[0] = Begin /\ \A i \in 1 .. N : u[i] = SweepField(u[i - 1], order[i])
  <2> HIDE DEF u
  <2>1. 0 \in 0 .. N /\ \A i \in 1 .. N : i \in 0 .. N /\ i # 0
    BY <1>1
  <2>2. u[0] = F(u)[0] /\ \A i \in 1 .. N : u[i] = F(u)[i]
    <3> HIDE DEF N
    <3> QED
      BY <1>7, <2>1
  <2>3. F(u)[0] = Begin
    BY <2>1 DEF Begin
  <2>4. \A i \in 1 .. N : F(u)[i] = SweepField(u[i - 1], order[i])
    BY <2>1
  <2> HIDE DEF F
  <2> QED
    BY <2>2, <2>3, <2>4
<1>9. SweepResult(moved) = u[N]
  BY DEF SweepResult
<1>10. u \in [0 .. N -> States]
  <2> HIDE DEF u
  <2> DEFINE T == {i \in 0 .. N : u[i] \in States}
  <2>1. 0 \in T
    BY <1>1, <1>3, <1>8
  <2>2. ASSUME NEW i \in 1 .. N, i - 1 \in T PROVE i \in T
    <3>1. u[i - 1] \in States /\ order[i] \in Names /\ i \in 0 .. N
      BY <1>1, <2>2
    <3> QED
      BY <1>8, <3>1, SweepFieldTyped
  <2>3. 0 .. N \subseteq T
    <3> HIDE DEF T, N
    <3> QED
      BY <1>1, <2>1, <2>2, Upward
  <2> QED
    BY <1>7, <2>3
<1> QED
  <2> HIDE DEF u
  <2> QED
    BY <1>8, <1>9, <1>10

\* So far in a sweep: what was written moved or is too large to tell, and a field
\* that is not current reads what moved in this sweep, or what moved before while
\* its turn is still to come.
Swept(s, i) ==
  /\ s.live = moved \cup s.moved
  /\ \A n \in Names : s.entry[n].conj = entry[n].conj
  /\ \A n \in Names \ (large \cup s.moved) : s.entry[n].val = entry[n].val
  /\ \A n \in Names :
       \/ ReadsAny(entry[n].conj, large \cup s.moved)
       \/ IsCurrent(s.entry[n], Values(s.entry))
       \/ ReadsAny(entry[n].conj, moved) /\ \A j \in 1 .. i : order[j] # n

LEMMA SweptOne ==
  ASSUME Typed, NEW s \in States, NEW i \in 1 .. Len(order), Swept(s, i - 1)
  PROVE  Swept(SweepField(s, order[i]), i)
<1> DEFINE n == order[i]
           x == DeriveField(s.entry[n].conj, Values(s.entry))
           t == SweepField(s, n)
<1>1. /\ n \in Names /\ Len(order) \in Nat
      /\ \A j \in 1 .. i : j \in 1 .. i - 1 \/ j = i
  BY DEF Typed
<1>2. /\ s.live = moved \cup s.moved
      /\ \A k \in Names : s.entry[k].conj = entry[k].conj
      /\ \A k \in Names \ (large \cup s.moved) : s.entry[k].val = entry[k].val
      /\ \A k \in Names :
           \/ ReadsAny(entry[k].conj, large \cup s.moved)
           \/ IsCurrent(s.entry[k], Values(s.entry))
           \/ ReadsAny(entry[k].conj, moved) /\ \A j \in 1 .. i - 1 : order[j] # k
  BY DEF Swept
<1>3. s.entry \in Entries /\ entry \in Entries /\ t \in States
  BY <1>1, SweepFieldTyped DEF States, Typed
<1>4. CASE ~ReadsAny(s.entry[n].conj, s.live) \/ x = s.entry[n].val
  <2>1. t = s
    BY <1>4 DEF SweepField
  <2>2. \/ ~ReadsAny(entry[n].conj, moved)
        \/ IsCurrent(s.entry[n], Values(s.entry))
    <3>1. CASE ~ReadsAny(s.entry[n].conj, s.live)
      BY <1>1, <1>2, <3>1, ReadsOfMore
    <3>2. CASE x = s.entry[n].val
      BY <3>2, ExactIsCurrent
    <3> QED
      BY <1>4, <3>1, <3>2
  <2>3. ASSUME NEW k \in Names
        PROVE  \/ ReadsAny(entry[k].conj, large \cup s.moved)
               \/ IsCurrent(s.entry[k], Values(s.entry))
               \/ ReadsAny(entry[k].conj, moved) /\ \A j \in 1 .. i : order[j] # k
    <3>1. CASE k = n
      BY <1>2, <2>2, <3>1
    <3>2. CASE k # n
      BY <1>1, <1>2, <3>2
    <3> QED
      BY <3>1, <3>2
  <2> HIDE DEF t
  <2> QED
    BY <1>2, <2>1, <2>3 DEF Swept, t
<1>5. CASE ~(~ReadsAny(s.entry[n].conj, s.live) \/ x = s.entry[n].val)
  <2>1. /\ t.entry = [s.entry EXCEPT ![n].val = x]
        /\ t.live = s.live \cup ({n} \ large)
        /\ t.moved = s.moved \cup ({n} \ large)
    BY <1>5 DEF SweepField
  <2> HIDE DEF t, n
  <2>2. /\ \A k \in Names : t.entry[k].conj = s.entry[k].conj
        /\ \A k \in Names \ {n} : t.entry[k] = s.entry[k]
        /\ t.entry[n].val = x
    <3> HIDE DEF x
    <3> QED
      BY <1>1, <1>3, <2>1 DEF Entries
  <2>3. t.live = moved \cup t.moved
    BY <1>2, <2>1
  <2>4. large \cup s.moved \subseteq large \cup t.moved /\ n \in large \cup t.moved
    BY <2>1
  <2>5. \A k \in Names \ (large \cup t.moved) : t.entry[k].val = entry[k].val
    BY <1>2, <2>2, <2>4
  <2>6. ASSUME NEW k \in Names, ~ReadsAny(entry[k].conj, large \cup t.moved)
        PROVE  \/ IsCurrent(t.entry[k], Values(t.entry))
               \/ ReadsAny(entry[k].conj, moved) /\ \A j \in 1 .. i : order[j] # k
    <3>1. t.entry \in Entries /\ s.entry[k].conj \in Seq(Conjs) /\ ~ReadsAny(s.entry[k].conj, {n})
      BY <1>2, <1>3, <2>4, <2>6, EntryTyped, ReadsOfMore DEF States
    <3>2. DeriveField(s.entry[k].conj, Values(t.entry)) = DeriveField(s.entry[k].conj, Values(s.entry))
      BY <1>3, <2>2, <3>1, Unread
    <3>3. CASE k = n
      <4>1. t.entry[n].val = DeriveField(t.entry[n].conj, Values(t.entry))
        BY <1>1, <2>2, <3>2, <3>3 DEF x
      <4> QED
        BY <3>3, <4>1, ExactIsCurrent
    <3>4. CASE k # n
      <4>1. t.entry[k] = s.entry[k]
        BY <2>2, <3>4
      <4>2. ~ReadsAny(entry[k].conj, large \cup s.moved)
        BY <2>4, <2>6, ReadsOfMore
      <4>3. CASE IsCurrent(s.entry[k], Values(s.entry))
        BY <3>2, <4>1, <4>3 DEF IsCurrent
      <4>4. CASE ReadsAny(entry[k].conj, moved) /\ \A j \in 1 .. i - 1 : order[j] # k
        BY <1>1, <3>4, <4>4 DEF n
      <4> QED
        BY <1>2, <4>2, <4>3, <4>4
    <3> QED
      BY <3>3, <3>4
  <2>7. \A k \in Names : t.entry[k].conj = entry[k].conj
    BY <1>2, <2>2
  <2>8. Swept(t, i)
    BY <2>3, <2>5, <2>6, <2>7 DEF Swept
  <2> QED
    BY <2>8 DEF t, n
<1> QED
  BY <1>4, <1>5

(* After a sweep a field is current unless it reads what moved in it. *)
LEMMA SweepFollows ==
  ASSUME Typed, Covers(order, entry), CurrentBut(entry, large \cup moved)
  PROVE  LET result == SweepResult(moved)
         IN /\ result \in States
            /\ \A n \in Names : result.entry[n].conj = entry[n].conj
            /\ \A n \in Names \ (large \cup result.moved) : result.entry[n].val = entry[n].val
            /\ CurrentBut(result.entry, large \cup result.moved)
<1>1. PICK f \in [0 .. Len(order) -> States] :
        /\ f[0] = Begin
        /\ \A i \in 1 .. Len(order) : f[i] = SweepField(f[i - 1], order[i])
        /\ SweepResult(moved) = f[Len(order)]
  BY SweepSteps
<1> DEFINE N == Len(order)
           T == {i \in 0 .. N : Swept(f[i], i)}
<1>2. N \in Nat /\ DOMAIN order = 1 .. N
  BY DEF Typed
<1>3. 0 \in T
  <2>1. Swept(Begin, 0)
    <3>1. ASSUME NEW n \in Names
          PROVE  \/ ReadsAny(entry[n].conj, large)
                 \/ IsCurrent(entry[n], Values(entry))
                 \/ ReadsAny(entry[n].conj, moved)
      BY ReadsOfTwo DEF CurrentBut
    <3>2. Begin.live = moved /\ Begin.moved = {} /\ Begin.entry = entry
      BY DEF Begin
    <3>3. large \cup {} = large /\ moved \cup {} = moved /\ 1 .. 0 = {}
      OBVIOUS
    <3> QED
      BY <3>1, <3>2, <3>3 DEF Swept
  <2> QED
    BY <1>1, <1>2, <2>1
<1>4. ASSUME NEW i \in 1 .. N, i - 1 \in T PROVE i \in T
  <2>1. f[i - 1] \in States /\ i \in 0 .. N
    BY <1>1, <1>2
  <2> QED
    BY <1>1, <1>4, <2>1, SweptOne
<1>5. Swept(f[N], N)
  <2>1. 0 .. N \subseteq T
    <3> HIDE DEF T, N
    <3> QED
      BY <1>2, <1>3, <1>4, Upward
  <2> QED
    BY <1>2, <2>1
<1> DEFINE r == SweepResult(moved)
<1>6. r \in States /\ Swept(r, N)
  BY <1>1, <1>2, <1>5
<1> HIDE DEF r, N
<1>7. CurrentBut(r.entry, large \cup r.moved)
  <2> SUFFICES ASSUME NEW n \in Names, ~ReadsAny(entry[n].conj, large \cup r.moved)
               PROVE  IsCurrent(r.entry[n], Values(r.entry))
    BY <1>6 DEF CurrentBut, Swept
  <2>1. CASE IsCurrent(r.entry[n], Values(r.entry))
    BY <2>1
  <2>2. CASE ReadsAny(entry[n].conj, moved) /\ \A j \in 1 .. N : order[j] # n
    <3>1. n \in Present(entry)
      <4>1. entry[n].conj # <<>>
        BY <2>2 DEF ReadsAny
      <4> QED
        BY <4>1 DEF Present
    <3> QED
      BY <1>2, <2>2, <3>1 DEF Covers
  <2> QED
    BY <1>6, <2>1, <2>2 DEF Swept
<1> QED
  BY <1>6, <1>7 DEF Swept, r

-----------------------------------------------------------------------------
(* The steps before the loop *)

LEMMA SameMerge ==
  ASSUME merge' = merge
  PROVE  Conjs' = Conjs /\ Entries' = Entries /\ RunsMade' = RunsMade
<1>1. Conjs' = Conjs /\ Ids' = Ids
  BY DEF Conjs, Ids
<1>2. Entries' = Entries /\ Outs' = Outs
  BY <1>1 DEF Entries, Outs
<1>3. \A r : OneField(r)' <=> OneField(r)
  BY DEF OneField, Decl
<1>4. InnerRuns' = InnerRuns
  BY <1>1, <1>2, <1>3 DEF InnerRuns
<1> QED
  BY <1>1, <1>2, <1>3, <1>4 DEF RunsMade

LEMMA MergedTyped ==
  ASSUME Typed, NEW n \in Names
  PROVE  merge.base[n] \in Seq(Conjs) /\ merge.added[n] \in Seq(Conjs)
  BY MergeFormed DEF Typed, Formed, Conjs

LEMMA ConjunctsTyped ==
  ASSUME Typed, NEW val \in Valued, NEW n \in Names
  PROVE  /\ Conjuncts(merge.base, val)[n] \in Seq(Conjs)
         /\ merge.base[n] # <<>> => Conjuncts(merge.base, val)[n] # <<>>
<1> DEFINE more == Contributed(AllRuns(merge.recipes, val), n)
<1>1. more \in Seq(Conjs)
  BY AllRunsTyped, ContributedTyped
<1>2. Conjuncts(merge.base, val)[n] = merge.base[n] \o more
  BY DEF Conjuncts
<1>3. merge.base[n] \in Seq(Conjs)
  BY MergedTyped
<1> HIDE DEF more
<1>4. merge.base[n] # <<>> => Len(merge.base[n] \o more) # 0
  BY <1>1, <1>3
<1> QED
  BY <1>1, <1>2, <1>3, <1>4

LEMMA WholeTyped ==
  ASSUME NEW conj \in Seq(Conjs), NEW val \in Valued
  PROVE  Whole(conj, val) \in Vals
<1>1. DeriveField(conj, val) \in Vals
  BY DerivedField DEF Conjs
<1> QED
  BY <1>1, SettleTyped DEF Whole

LEMMA InitIInv ==
  ASSUME Init
  PROVE  IInv
<1>1. /\ merge \in Merges /\ large \in SUBSET Names
      /\ mode = "literal"
  BY MergesFormed DEF Init
<1>2. entry \in Entries
  BY TopMeets DEF Init, Entries
<1>3. Typed
  BY <1>1, <1>2 DEF Init, Typed
<1> QED
  BY <1>1, <1>3 DEF IInv, Evaluated, Ordered, Following, Descended, SettledFieldsAreDerived

LEMMA EvaluateStep ==
  ASSUME IInv, Evaluate
  PROVE  IInv'
<1> DEFINE conj == Conjuncts(merge.base, Values(entry))
<1>1. /\ mode' \in {"literal", "refused", "merge"}
      /\ mode' = "merge" => entry' = entry
      /\ entry' = [n \in Names |-> [val |-> Whole(conj[n], Values(entry)), conj |-> conj[n]]]
      /\ UNCHANGED <<merge, large, recipes, runs, order, moved, next, todo>>
  BY DEF Evaluate
<1>2. Typed
  BY DEF IInv
<1>3. Values(entry) \in Valued
  BY <1>2 DEF Typed, Entries, Values, Valued
<1>4. \A n \in Names : /\ conj[n] \in Seq(Conjs)
                       /\ merge.base[n] # <<>> => conj[n] # <<>>
  BY <1>2, <1>3, ConjunctsTyped
<1> HIDE DEF conj
<1>5. entry' \in Entries
  BY <1>1, <1>3, <1>4, WholeTyped DEF Entries
<1>6. Typed'
  BY <1>1, <1>2, <1>5, SameMerge DEF Typed
<1>7. Evaluated'
  BY <1>1, <1>4 DEF Evaluated
<1> QED
  BY <1>1, <1>6, <1>7 DEF IInv, Ordered, Following, Descended, SettledFieldsAreDerived

(* Unifying moves the fields with two recipes and no other of those the base     *)
(* declares.                                                                     *)
LEMMA Unified ==
  ASSUME IInv, Unify
  PROVE  /\ entry' \in Entries
         /\ \A n \in Names : /\ merge.added[n] \in Seq(Conjs)
                             /\ DeriveField(merge.added[n], Values(entry)) \in Vals
                             /\ entry'[n].val
                                  = Meet(entry[n].val, DeriveField(merge.added[n], Values(entry)))
                             /\ entry'[n].conj = entry[n].conj \o merge.added[n]
         /\ \A k \in Names : merge.base[k] # <<>> /\ k \notin Merged(entry') =>
              entry'[k].val = entry[k].val
<1> DEFINE more(n) == DeriveField(merge.added[n], Values(entry))
           rs == AllRuns(merge.recipes, Values(entry))
<1>1. /\ mode = "merge" /\ mode' \in {"refused", "seed"}
      /\ entry' = [n \in Names |-> [val |-> Meet(entry[n].val, more(n)),
                                    conj |-> entry[n].conj \o merge.added[n]]]
      /\ recipes' = FlattenSeq([i \in DOMAIN rs |-> Kept(rs[i])])
      /\ UNCHANGED <<merge, large, runs, order, moved, next, todo, sweeps>>
  BY DEF Unify
<1>2. Typed /\ Evaluated
  BY DEF IInv
<1>3. /\ entry \in Entries /\ Values(entry) \in Valued
      /\ \A n \in Names : merge.added[n] \in Seq(Conjs) /\ more(n) \in Vals
  <2>1. entry \in Entries /\ Values(entry) \in Valued
    BY <1>2 DEF Typed, Entries, Values, Valued
  <2> QED
    BY <1>2, <2>1, MergedTyped, DerivedField DEF Conjs
<1> HIDE DEF more, rs
<1>5. /\ entry' \in Entries
      /\ \A n \in Names : /\ entry'[n].val = Meet(entry[n].val, more(n))
                          /\ entry'[n].conj = entry[n].conj \o merge.added[n]
  <2>1. \A n \in Names : /\ Meet(entry[n].val, more(n)) \in Vals
                         /\ entry[n].conj \o merge.added[n] \in Seq(Conjs)
    BY <1>3, EntryTyped, MeetTyped
  <2> QED
    BY <1>1, <2>1 DEF Entries
<1>7. ASSUME NEW k \in Names, merge.base[k] # <<>>, k \notin Merged(entry')
      PROVE  entry'[k].val = entry[k].val
  <2>1. entry[k].conj # <<>> /\ entry[k].conj \in Seq(Conjs) /\ entry[k].val \in Vals
    BY <1>1, <1>2, <1>3, <1>7, EntryTyped DEF Evaluated
  <2>2. Len(entry'[k].conj) <= 1
    <3>1. Len(entry'[k].conj) \in Nat
      BY <1>3, <1>5, <2>1
    <3> QED
      BY <1>7, <3>1 DEF Merged
  <2>3. merge.added[k] = <<>>
    <3> DEFINE c == entry[k].conj  d == merge.added[k]
    <3>1. c \in Seq(Conjs) /\ d \in Seq(Conjs) /\ c # <<>>
      BY <1>3, <2>1
    <3>2. Len(c \o d) <= 1
      BY <1>5, <2>2
    <3> HIDE DEF c, d
    <3>3. d = <<>>
      BY <3>1, <3>2, LenConcat
    <3> QED
      BY <3>3 DEF d
  <2>4. more(k) = Top
    BY <2>3, DeriveNone DEF more
  <2> QED
    BY <1>5, <2>1, <2>4, TopMeets
<1> QED
  BY <1>3, <1>5, <1>7 DEF more

(* Those that read none of them are what they were. *)
LEMMA UnifyStep ==
  ASSUME IInv, Unify
  PROVE  IInv'
<1> DEFINE more(n) == DeriveField(merge.added[n], Values(entry))
           rs == AllRuns(merge.recipes, Values(entry))
<1>1. /\ mode = "merge" /\ mode' \in {"refused", "seed"}
      /\ entry' = [n \in Names |-> [val |-> Meet(entry[n].val, more(n)),
                                    conj |-> entry[n].conj \o merge.added[n]]]
      /\ recipes' = FlattenSeq([i \in DOMAIN rs |-> Kept(rs[i])])
      /\ UNCHANGED <<merge, large, runs, order, moved, next, todo, sweeps>>
  BY DEF Unify
<1>2. Typed /\ Evaluated
  BY DEF IInv
<1>3. /\ entry \in Entries /\ Values(entry) \in Valued
      /\ \A n \in Names : merge.added[n] \in Seq(Conjs) /\ more(n) \in Vals
  BY <1>2, Unified DEF Typed, Entries, Values, Valued
<1>4. recipes' \in Seq(RunsMade)
  <2> DEFINE g == [r \in RunsMade |-> Kept(r)]
             lists == Seq(RunsMade)
  <2>1. rs \in Seq(RunsMade)
    BY <1>2, <1>3, AllRunsTyped
  <2>2. g \in [RunsMade -> lists]
    BY KeptTyped
  <2> HIDE DEF rs
  <2>3. [i \in DOMAIN rs |-> g[rs[i]]] = [i \in DOMAIN rs |-> Kept(rs[i])]
    BY <2>1
  <2> HIDE DEF g
  <2>4. [i \in DOMAIN rs |-> g[rs[i]]] \in Seq(lists)
    <3> HIDE DEF lists
    <3> QED
      BY <2>1, <2>2, SeqMapped
  <2> QED
    BY <1>1, <2>3, <2>4, Flattened
<1>5. /\ entry' \in Entries
      /\ \A n \in Names : /\ entry'[n].val = Meet(entry[n].val, more(n))
                          /\ entry'[n].conj = entry[n].conj \o merge.added[n]
  BY Unified
<1> HIDE DEF more, rs
<1>6. Typed'
  BY <1>1, <1>2, <1>4, <1>5, SameMerge DEF Typed
<1>7. ASSUME NEW k \in Names, merge.base[k] # <<>>, k \notin Merged(entry')
      PROVE  entry'[k].val = entry[k].val
  BY <1>7, Unified
<1>8. CurrentBut(entry', large \cup Merged(entry'))
  <2> SUFFICES ASSUME NEW n \in Names, ~ReadsAny(entry'[n].conj, large \cup Merged(entry'))
               PROVE  IsCurrent(entry'[n], Values(entry'))
    BY DEF CurrentBut
  <2> DEFINE c == entry[n].conj  d == merge.added[n]
             D(conj) == DeriveField(conj, Values(entry))
  <2>1. c \in Seq(Conjs) /\ d \in Seq(Conjs) /\ entry'[n].conj = c \o d /\ entry'[n].conj \in Seq(Conjs)
    BY <1>3, <1>5, EntryTyped
  <2>2. D(c) \in Vals /\ D(d) \in Vals /\ entry[n].val \in Vals /\ D(c \o d) = Meet(D(c), D(d))
    BY <1>3, <2>1, EntryTyped, DerivedField, DeriveConcat DEF Conjs
  <2>3. DeriveField(c \o d, Values(entry')) = D(c \o d)
    <3>1. ASSUME NEW i \in DOMAIN entry'[n].conj, entry'[n].conj[i].op # "lit"
          PROVE  Values(entry')[entry'[n].conj[i].of] = Values(entry)[entry'[n].conj[i].of]
      <4> DEFINE k == entry'[n].conj[i].of
      <4>1. entry'[n].conj[i] \in Conjs
        BY <2>1, <3>1, SeqMember
      <4>2. k \in Names /\ merge.base[k] # <<>>
        BY <3>1, <4>1 DEF Conjs, Readings
      <4>3. k \notin Merged(entry')
        BY <3>1 DEF ReadsAny
      <4> HIDE DEF k
      <4>4. entry'[k].val = entry[k].val
        BY <1>7, <4>2, <4>3
      <4>5. Values(entry')[k] = Values(entry)[k]
        BY <4>2, <4>4 DEF Values
      <4> QED
        BY <4>5 DEF k
    <3>2. DeriveField(entry'[n].conj, Values(entry')) = DeriveField(entry'[n].conj, Values(entry))
      BY <2>1, <3>1, DeriveSame DEF Conjs
    <3> QED
      BY <2>1, <3>2
  <2>4. entry[n].val = Whole(c, Values(entry)) /\ entry'[n].val = Meet(entry[n].val, D(d))
    BY <1>1, <1>2, <1>5 DEF Evaluated, more
  <2>5. Len(c) \in Nat /\ Len(d) \in Nat /\ Len(c \o d) = Len(c) + Len(d)
    BY <2>1
  <2>6. CASE Len(c) > 1
    <3>1. Alike(entry[n].val, D(c))
      BY <2>2, <2>4, <2>6, SettleTyped DEF Whole
    <3>2. Alike(entry'[n].val, D(c \o d))
      BY <2>2, <2>4, <3>1, AlikeMeets
    <3>3. Len(entry'[n].conj) > 1
      <4> HIDE DEF c, d
      <4> QED
        BY <2>1, <2>5, <2>6
    <3> QED
      BY <2>1, <2>3, <3>2, <3>3 DEF IsCurrent
  <2>7. CASE ~(Len(c) > 1)
    <3>1. entry'[n].val = D(c \o d)
      BY <2>2, <2>4, <2>7 DEF Whole
    <3> QED
      BY <2>1, <2>3, <3>1, ExactIsCurrent
  <2> QED
    BY <2>6, <2>7
<1>9. Following'
  BY <1>1, <1>8 DEF Following
<1> QED
  BY <1>1, <1>6, <1>9 DEF IInv, Evaluated, Ordered, Descended, SettledFieldsAreDerived

LEMMA SeedStep ==
  ASSUME IInv, Seed
  PROVE  IInv'
<1>1. /\ mode = "seed" /\ mode' \in {"settled", "descend"}
      /\ mode' = "settled" => moved' = {}
      /\ moved' = Merged(entry) /\ order' \in Orders(entry)
      /\ UNCHANGED <<merge, large, entry, recipes, runs, next, todo, sweeps>>
  BY DEF Seed
<1>2. Typed /\ CurrentBut(entry, large \cup Merged(entry))
  BY <1>1 DEF IInv, Following
<1>3. order' \in Seq(Names) /\ Covers(order', entry)
  BY <1>1, OrdersCover
<1>4. Typed'
  BY <1>1, <1>2, <1>3, SameMerge DEF Typed, Merged
<1>5. SettledFieldsAreDerived'
  <2> SUFFICES ASSUME mode' = "settled", NEW n \in Names, ~ReadsAny(entry[n].conj, large)
               PROVE  entry[n].val = Whole(entry[n].conj, Values(entry))
    BY <1>1 DEF SettledFieldsAreDerived
  <2>1. Merged(entry) = {}
    BY <1>1
  <2>2. ~(Len(entry[n].conj) > 1)
    BY <2>1 DEF Merged
  <2>3. IsCurrent(entry[n], Values(entry))
    BY <1>2, <2>1 DEF CurrentBut
  <2> QED
    BY <2>2, <2>3 DEF IsCurrent, Whole
<1>6. Following' /\ Ordered'
  BY <1>1, <1>2, <1>3 DEF Following, Ordered
<1> QED
  BY <1>1, <1>4, <1>5, <1>6 DEF IInv, Evaluated, Descended

-----------------------------------------------------------------------------
(* Descending and sweeping *)

LEMMA DescendStep ==
  ASSUME IInv, Descend
  PROVE  IInv'
<1> DEFINE stale == {n \in Merged(entry) : Settle(entry[n].val) # entry[n].val}
<1>1. /\ mode = "descend" /\ mode' = "sweep"
      /\ entry' = [n \in Names |-> IF n \in stale THEN [entry[n] EXCEPT !.val = Settle(@)]
                                   ELSE entry[n]]
      /\ moved' = moved \cup stale
      /\ UNCHANGED <<merge, large, recipes, runs, order, next, todo, sweeps>>
  BY DEF Descend
<1>2. Typed /\ CurrentBut(entry, large \cup moved) /\ Covers(order, entry)
  BY <1>1 DEF IInv, Following, Ordered
<1>3. entry \in Entries /\ stale \subseteq Merged(entry) /\ Merged(entry) \subseteq Names
  BY <1>2 DEF Typed, Merged
<1>4. ASSUME NEW n \in Names
      PROVE  /\ entry'[n].conj = entry[n].conj /\ entry'[n].val \in Vals
             /\ n \in stale => entry'[n].val = Settle(entry[n].val)
             /\ n \notin stale => entry'[n].val = entry[n].val
  <2>1. entry[n].val \in Vals /\ Settle(entry[n].val) \in Vals
    BY <1>3, EntryTyped, SettleTyped
  <2>2. entry[n] \in [val : Vals, conj : Seq(Conjs)]
    BY <1>3 DEF Entries
  <2> HIDE DEF stale
  <2>3. CASE n \in stale
    <3>1. entry'[n] = [entry[n] EXCEPT !.val = Settle(entry[n].val)]
      BY <1>1, <2>3
    <3> QED
      BY <2>1, <2>2, <2>3, <3>1
  <2>4. CASE n \notin stale
    BY <1>1, <2>1, <2>4
  <2> QED
    BY <2>3, <2>4
<1>5. entry' \in Entries
  <2>1. \A n \in Names : /\ entry'[n].val \in Vals /\ entry'[n].conj \in Seq(Conjs)
                         /\ entry'[n] \in [val : Vals, conj : Seq(Conjs)]
    <3> SUFFICES ASSUME NEW n \in Names PROVE entry'[n] \in [val : Vals, conj : Seq(Conjs)]
      OBVIOUS
    <3>1. entry[n] \in [val : Vals, conj : Seq(Conjs)] /\ Settle(entry[n].val) \in Vals
      BY <1>3, SettleTyped DEF Entries
    <3> HIDE DEF stale
    <3>2. CASE n \in stale
      <4>1. entry'[n] = [entry[n] EXCEPT !.val = Settle(entry[n].val)]
        BY <1>1, <3>2
      <4> QED
        BY <3>1, <4>1
    <3>3. CASE n \notin stale
      BY <1>1, <3>1, <3>3
    <3> QED
      BY <3>2, <3>3
  <2> HIDE DEF stale
  <2> QED
    BY <1>1, <2>1 DEF Entries
<1>6. Typed'
  <2>1. moved' \in SUBSET Names
    BY <1>1, <1>2, <1>3 DEF Typed
  <2> QED
    BY <1>1, <1>2, <1>5, <2>1, SameMerge DEF Typed
<1>7. CurrentBut(entry', large \cup moved')
  <2> SUFFICES ASSUME NEW n \in Names, ~ReadsAny(entry[n].conj, large \cup moved')
               PROVE  IsCurrent(entry'[n], Values(entry'))
    BY <1>4 DEF CurrentBut
  <2>1. ~ReadsAny(entry[n].conj, large \cup moved) /\ ~ReadsAny(entry[n].conj, stale)
    BY <1>1, ReadsOfMore
  <2>2. IsCurrent(entry[n], Values(entry))
    BY <1>2, <2>1 DEF CurrentBut
  <2>3. entry[n].conj \in Seq(Conjs) /\ entry[n].val \in Vals
    BY <1>3, EntryTyped
  <2>4. \A k \in Names \ stale : entry'[k].val = entry[k].val
    BY <1>4
  <2> HIDE DEF stale
  <2>5. DeriveField(entry[n].conj, Values(entry')) = DeriveField(entry[n].conj, Values(entry))
    BY <1>3, <1>5, <2>1, <2>3, <2>4, Unread
  <2>6. CASE n \notin stale
    BY <1>4, <2>2, <2>5, <2>6 DEF IsCurrent
  <2>7. CASE n \in stale
    <3>1. Len(entry[n].conj) > 1
      BY <1>3, <2>7 DEF Merged
    <3>2. Alike(entry'[n].val, entry[n].val)
      BY <1>4, <2>3, <2>7, SettleTyped
    <3> QED
      BY <1>4, <2>2, <2>5, <3>1, <3>2 DEF IsCurrent, Alike
  <2> QED
    BY <2>6, <2>7
<1>8. SettledBut(entry', large)
  <2> SUFFICES ASSUME NEW n \in Merged(entry')
               PROVE  Settle(entry'[n].val) = entry'[n].val
    BY DEF SettledBut
  <2>1. n \in Names /\ n \in Merged(entry) /\ entry[n].val \in Vals
    BY <1>3, <1>4, EntryTyped DEF Merged
  <2>2. CASE n \in stale
    <3>1. Alike(Settle(entry[n].val), entry[n].val) /\ Settle(entry[n].val) \in Vals
      BY <2>1, SettleTyped
    <3>2. Settle(Settle(entry[n].val)) = Settle(entry[n].val)
      BY <2>1, <3>1, AlikeSettle
    <3> HIDE DEF stale
    <3> QED
      BY <1>4, <2>1, <2>2, <3>2
  <2>3. CASE n \notin stale
    <3>1. Settle(entry[n].val) = entry[n].val
      BY <2>1, <2>3
    <3> HIDE DEF stale
    <3> QED
      BY <1>4, <2>1, <2>3, <3>1
  <2> QED
    BY <2>2, <2>3
<1>9. Covers(order', entry')
  BY <1>1, <1>2, <1>4 DEF Covers, Present
<1>10. Following' /\ Ordered' /\ Descended'
  BY <1>1, <1>7, <1>8, <1>9 DEF Following, Ordered, Descended
<1> QED
  BY <1>1, <1>6, <1>10 DEF IInv, Evaluated, SettledFieldsAreDerived

LEMMA SweepStep ==
  ASSUME IInv, Sweep
  PROVE  IInv'
<1> DEFINE result == SweepResult(moved)
<1>1. /\ mode = "sweep" /\ mode' = "recipes"
      /\ entry' = result.entry /\ next' = result.moved /\ moved' = moved \cup result.moved
      /\ todo' = recipes
      /\ UNCHANGED <<merge, large, recipes, runs, order, sweeps>>
  BY DEF Sweep
<1>2. /\ Typed /\ CurrentBut(entry, large \cup moved) /\ Covers(order, entry)
      /\ SettledBut(entry, large)
  BY <1>1 DEF IInv, Following, Ordered, Descended
<1>3. /\ result \in States
      /\ \A n \in Names : result.entry[n].conj = entry[n].conj
      /\ \A n \in Names \ (large \cup result.moved) : result.entry[n].val = entry[n].val
      /\ CurrentBut(result.entry, large \cup result.moved)
  BY <1>2, SweepFollows
<1> HIDE DEF result
<1>4. Typed'
  <2>1. entry' \in Entries /\ next' \in SUBSET Names /\ moved' \in SUBSET Names
    BY <1>1, <1>2, <1>3 DEF States, Typed
  <2> QED
    BY <1>1, <1>2, <2>1, SameMerge DEF Typed
<1>5. SettledBut(entry', large \cup next')
  <2> SUFFICES ASSUME NEW n \in Merged(entry'), n \notin large \cup next'
               PROVE  Settle(entry'[n].val) = entry'[n].val
    BY DEF SettledBut
  <2>1. n \in Names /\ n \in Merged(entry)
    BY <1>1, <1>3 DEF Merged
  <2> QED
    BY <1>1, <1>2, <1>3, <2>1 DEF SettledBut
<1>6. Covers(order', entry')
  BY <1>1, <1>2, <1>3 DEF Covers, Present
<1>7. Following' /\ Ordered' /\ Descended'
  BY <1>1, <1>3, <1>5, <1>6 DEF Following, Ordered, Descended
<1> QED
  BY <1>1, <1>4, <1>7 DEF IInv, Evaluated, SettledFieldsAreDerived

LEMMA EndSweepStep ==
  ASSUME IInv, EndSweep
  PROVE  IInv'
<1>1. /\ mode = "recipes" /\ mode' \in {"settled", "capped", "descend"}
      /\ mode' = "settled" => next = {}
      /\ moved' = next /\ next' = {}
      /\ UNCHANGED <<merge, large, entry, recipes, runs, order, todo>>
  BY DEF EndSweep
<1>2. /\ Typed /\ CurrentBut(entry, large \cup next) /\ Covers(order, entry)
      /\ SettledBut(entry, large \cup next)
  BY <1>1 DEF IInv, Following, Ordered, Descended
<1>3. Typed'
  BY <1>1, <1>2, SameMerge DEF Typed
<1>4. SettledFieldsAreDerived'
  <2> SUFFICES ASSUME mode' = "settled", NEW n \in Names \ large, ~ReadsAny(entry[n].conj, large)
               PROVE  entry[n].val = Whole(entry[n].conj, Values(entry))
    BY <1>1 DEF SettledFieldsAreDerived
  <2> DEFINE D == DeriveField(entry[n].conj, Values(entry))
  <2>1. next = {}
    BY <1>1
  <2>2. IsCurrent(entry[n], Values(entry))
    BY <1>2, <2>1 DEF CurrentBut
  <2>3. entry[n].val \in Vals /\ D \in Vals
    BY <1>2, EntryTyped DEF Typed
  <2>4. CASE Len(entry[n].conj) > 1
    <3>1. Settle(entry[n].val) = entry[n].val
      BY <1>2, <2>1, <2>4 DEF SettledBut, Merged
    <3>2. Settle(entry[n].val) = Settle(D)
      BY <2>2, <2>3, <2>4, AlikeSettle DEF IsCurrent
    <3> QED
      BY <2>4, <3>1, <3>2 DEF Whole
  <2>5. CASE ~(Len(entry[n].conj) > 1)
    BY <2>2, <2>5 DEF IsCurrent, Whole
  <2> QED
    BY <2>4, <2>5
<1>5. Following' /\ Ordered' /\ Descended'
  BY <1>1, <1>2 DEF Following, Ordered, Descended
<1> QED
  BY <1>1, <1>3, <1>4, <1>5 DEF IInv, Evaluated

-----------------------------------------------------------------------------
(* Running a comprehension again *)

(* Where what was written anew is current on the values before, and what changed *)
(* is named, all fields stay current but for those that read what is named.      *)
LEMMA Rewritten ==
  ASSUME entry \in Entries,
         NEW A \in SUBSET Names, NEW B \in SUBSET Names, A \subseteq B,
         CurrentBut(entry, A), SettledBut(entry, A),
         NEW e \in Entries, NEW touched \in SUBSET Names,
         \A n \in Names \ touched : e[n] = entry[n],
         \A n \in Names \ B : e[n].val = entry[n].val,
         \A n \in touched : ReadsAny(e[n].conj, B) \/ IsCurrent(e[n], Values(entry)),
         \A n \in touched \ B : Len(e[n].conj) > 1 => Settle(e[n].val) = e[n].val
  PROVE  CurrentBut(e, B) /\ SettledBut(e, B)
<1>1. ASSUME NEW n \in Names, ~ReadsAny(e[n].conj, B) PROVE IsCurrent(e[n], Values(e))
  <2>1. e[n].conj \in Seq(Conjs)
    BY EntryTyped
  <2>2. DeriveField(e[n].conj, Values(e)) = DeriveField(e[n].conj, Values(entry))
    BY <1>1, <2>1, Unread
  <2>3. IsCurrent(e[n], Values(entry))
    <3>1. CASE n \in touched
      BY <1>1, <3>1
    <3>2. CASE n \notin touched
      <4>1. e[n] = entry[n] /\ ~ReadsAny(entry[n].conj, A)
        BY <1>1, <3>2, ReadsOfMore
      <4> QED
        BY <4>1 DEF CurrentBut
    <3> QED
      BY <3>1, <3>2
  <2> QED
    BY <2>2, <2>3 DEF IsCurrent
<1>2. ASSUME NEW n \in Merged(e) \ B PROVE Settle(e[n].val) = e[n].val
  <2>1. n \in Names /\ Len(e[n].conj) > 1 /\ n \notin A
    BY <1>2 DEF Merged
  <2>2. CASE n \in touched
    BY <1>2, <2>1, <2>2
  <2>3. CASE n \notin touched
    <3>1. e[n] = entry[n]
      BY <2>1, <2>3
    <3>2. n \in Merged(entry)
      BY <2>1, <3>1 DEF Merged
    <3> QED
      BY <2>1, <3>1, <3>2 DEF SettledBut
  <2> QED
    BY <2>2, <2>3
<1> QED
  BY <1>1, <1>2 DEF CurrentBut, SettledBut

LEMMA GeneratedTyped ==
  ASSUME NEW r \in RunsMade
  PROVE  Generated(r) \in SUBSET Names /\ Retracted(r) \in SUBSET Generated(r)
<1>1. r.out \in Outs
  BY DEF RunsMade
<1>2. ASSUME NEW i \in DOMAIN r.out PROVE r.out[i].name \in Names
  <2> DEFINE T == [name : Names, conj : Conjs]
  <2>1. r.out \in Seq(T)
    BY <1>1 DEF Outs
  <2> HIDE DEF T
  <2>2. r.out[i] \in T
    BY <2>1, SeqMember
  <2> QED
    BY <2>2 DEF T
<1> QED
  BY <1>2 DEF Generated, Retracted

(* What a let yields now stands where it stood. *)
LEMMA AdoptFollows ==
  ASSUME Typed, CurrentBut(entry, large \cup next), SettledBut(entry, large \cup next),
         NEW old \in RunsMade, NEW new \in RunsMade,
         \A n \in Names : Len(Given(new, n)) <= 1,
         NEW names \in SUBSET Names, next \cup Changed(Adopt(old, new)) \subseteq names
  PROVE  /\ Adopt(old, new) \in Entries
         /\ CurrentBut(Adopt(old, new), large \cup names)
         /\ SettledBut(Adopt(old, new), large \cup names)
<1> DEFINE e == Adopt(old, new)
           conj(n) == Replace(entry[n].conj, Given(old, n), Given(new, n))
           touched == Retracted(old)
<1>1. touched \in SUBSET Names /\ entry \in Entries /\ Values(entry) \in Valued
      /\ large \in SUBSET Names /\ next \in SUBSET Names
  BY GeneratedTyped DEF Typed, Entries, Values, Valued
<1>2. ASSUME NEW n \in touched
      PROVE  /\ e[n] = [val |-> DeriveField(conj(n), Values(entry)), conj |-> conj(n)]
             /\ conj(n) \in Seq(Conjs) /\ Len(conj(n)) <= Len(entry[n].conj)
             /\ DeriveField(conj(n), Values(entry)) \in Vals
  <2>1. n \in Names
    BY <1>1
  <2>2. Without(entry[n].conj, Given(old, n)) # entry[n].conj
    BY DEF Retracted
  <2>3. /\ entry[n].conj \in Seq(Conjs) /\ Given(new, n) \in Seq(Conjs)
        /\ Len(Given(new, n)) <= 1
    BY <1>1, <2>1, EntryTyped, GivenTyped
  <2>4. conj(n) \in Seq(Conjs) /\ Len(conj(n)) <= Len(entry[n].conj)
    BY <2>2, <2>3, ReplaceTyped DEF Conjs
  <2>5. DeriveField(conj(n), Values(entry)) \in Vals
    BY <1>1, <2>4, DerivedField DEF Conjs
  <2>6. e[n] = [val |-> DeriveField(conj(n), Values(entry)), conj |-> conj(n)]
    BY <2>1 DEF Adopt
  <2> QED
    BY <2>4, <2>5, <2>6
<1>3. \A n \in Names \ touched : e[n] = entry[n]
  BY DEF Adopt
<1>4. e \in Entries
  <2>1. \A n \in Names : e[n] \in [val : Vals, conj : Seq(Conjs)]
    <3> SUFFICES ASSUME NEW n \in Names PROVE e[n] \in [val : Vals, conj : Seq(Conjs)]
      OBVIOUS
    <3>1. CASE n \in touched
      <4>1. /\ e[n] = [val |-> DeriveField(conj(n), Values(entry)), conj |-> conj(n)]
            /\ conj(n) \in Seq(Conjs) /\ DeriveField(conj(n), Values(entry)) \in Vals
        BY <1>2, <3>1
      <4> HIDE DEF e, conj
      <4> QED
        BY <4>1
    <3>2. CASE n \notin touched
      BY <1>1, <1>3, <3>2 DEF Entries
    <3> QED
      BY <3>1, <3>2
  <2>2. e = [n \in Names |-> e[n]]
    BY DEF Adopt
  <2> HIDE DEF e
  <2> QED
    BY <2>1, <2>2 DEF Entries
<1>5. \A n \in Names \ (large \cup names) : e[n].val = entry[n].val
  BY DEF Changed
<1> HIDE DEF e, conj, touched
<1>6. ASSUME NEW n \in touched
      PROVE  IsCurrent(e[n], Values(entry)) /\ e[n].conj = conj(n)
  <2>1. e[n] = [val |-> DeriveField(conj(n), Values(entry)), conj |-> conj(n)]
    BY <1>2
  <2>2. e[n].val = DeriveField(e[n].conj, Values(entry)) /\ e[n].conj = conj(n)
    BY <2>1
  <2> QED
    BY <2>2, ExactIsCurrent
<1>7. ASSUME NEW n \in touched \ (large \cup names), Len(e[n].conj) > 1
      PROVE  Settle(e[n].val) = e[n].val
  <2>1. n \in Names /\ n \notin large \cup next /\ e[n].val = entry[n].val
    BY <1>1, <1>5
  <2>2. Len(entry[n].conj) > 1
    <3>1. /\ Len(conj(n)) > 1 /\ Len(conj(n)) <= Len(entry[n].conj)
          /\ Len(conj(n)) \in Nat /\ Len(entry[n].conj) \in Nat
      <4>1. conj(n) \in Seq(Conjs) /\ entry[n].conj \in Seq(Conjs)
        BY <1>1, <1>2, <2>1, EntryTyped
      <4>2. Len(conj(n)) \in Nat /\ Len(entry[n].conj) \in Nat
        BY <4>1, LenConcat
      <4> QED
        BY <1>2, <1>6, <1>7, <4>2
    <3> QED
      BY <3>1
  <2>3. n \in Merged(entry)
    BY <2>1, <2>2 DEF Merged
  <2> QED
    BY <2>1, <2>3 DEF SettledBut
<1>8. CurrentBut(e, large \cup names) /\ SettledBut(e, large \cup names)
  <2>1. large \cup next \in SUBSET Names /\ large \cup names \in SUBSET Names
        /\ large \cup next \subseteq large \cup names
    BY <1>1
  <2> QED
    BY <1>1, <1>3, <1>4, <1>5, <1>6, <1>7, <2>1, Rewritten
<1> QED
  BY <1>4, <1>8 DEF e

(* What a comprehension generated goes, and what it generates now is met. *)
LEMMA AnewFollows ==
  ASSUME Typed, CurrentBut(entry, large \cup next), SettledBut(entry, large \cup next),
         NEW old \in RunsMade, NEW new \in RunsMade,
         NEW names \in SUBSET Names, names = next \cup Retracted(old) \cup Generated(new)
  PROVE  /\ MergeGenerated(Retract(old), new) \in Entries
         /\ CurrentBut(MergeGenerated(Retract(old), new), large \cup names)
         /\ SettledBut(MergeGenerated(Retract(old), new), large \cup names)
<1> DEFINE t == Retract(old)
           e == MergeGenerated(t, new)
           gone == Retracted(old)
           came == Generated(new)
           touched == gone \cup came
           D(conj) == DeriveField(conj, Values(entry))
           rest(n) == Without(entry[n].conj, Given(old, n))
           more(n) == Given(new, n)
<1>1. /\ gone \in SUBSET Names /\ came \in SUBSET Names
      /\ entry \in Entries /\ Values(entry) \in Valued
      /\ large \in SUBSET Names /\ next \in SUBSET Names
  BY GeneratedTyped DEF Typed, Entries, Values, Valued
<1>2. ASSUME NEW n \in Names
      PROVE  /\ t[n] = IF n \in gone THEN [val |-> D(rest(n)), conj |-> rest(n)] ELSE entry[n]
             /\ e[n] = IF n \in came THEN [val |-> Meet(t[n].val, D(more(n))), conj |-> t[n].conj \o more(n)]
                       ELSE t[n]
  <2>1. t[n] = IF n \in gone THEN [val |-> D(rest(n)), conj |-> rest(n)] ELSE entry[n]
    BY DEF Retract
  <2>2. e[n] = IF n \in came THEN [val |-> Meet(t[n].val, D(more(n))), conj |-> t[n].conj \o more(n)]
               ELSE t[n]
    <3> HIDE DEF t
    <3> QED
      BY DEF MergeGenerated
  <2> QED
    BY <2>1, <2>2
<1>3. ASSUME NEW n \in Names
      PROVE  /\ rest(n) \in Seq(Conjs) /\ D(rest(n)) \in Vals
             /\ more(n) \in Seq(Conjs) /\ D(more(n)) \in Vals
             /\ entry[n].conj \in Seq(Conjs) /\ entry[n].val \in Vals
  <2>1. entry[n].conj \in Seq(Conjs) /\ entry[n].val \in Vals
    BY <1>1, EntryTyped
  <2>2. rest(n) \in Seq(Conjs)
    BY <2>1, WithoutTyped DEF Conjs
  <2>3. more(n) \in Seq(Conjs)
    BY GivenTyped
  <2> QED
    BY <1>1, <2>1, <2>2, <2>3, DerivedField DEF Conjs
<1>4. DOMAIN e = Names /\ e = [n \in Names |-> e[n]]
  BY DEF MergeGenerated
<1> HIDE DEF t, e, rest, more, gone, came
<1>5. ASSUME NEW n \in Names
      PROVE  /\ t[n].conj \in Seq(Conjs) /\ t[n].val \in Vals
             /\ t[n] \in [val : Vals, conj : Seq(Conjs)]
  <2>1. CASE n \in gone
    <3>1. t[n] = [val |-> D(rest(n)), conj |-> rest(n)]
      BY <1>2, <2>1
    <3> HIDE DEF D
    <3> QED
      BY <1>3, <3>1
  <2>2. CASE n \notin gone
    BY <1>1, <1>2, <1>3, <2>2 DEF Entries
  <2> QED
    BY <2>1, <2>2
<1>6. e \in Entries
  <2>1. ASSUME NEW n \in Names PROVE e[n] \in [val : Vals, conj : Seq(Conjs)]
    <3>1. CASE n \in came
      <4>1. /\ e[n] = [val |-> Meet(t[n].val, D(more(n))), conj |-> t[n].conj \o more(n)]
            /\ Meet(t[n].val, D(more(n))) \in Vals
        BY <1>2, <1>3, <1>5, <3>1, MeetTyped
      <4>2. t[n].conj \o more(n) \in Seq(Conjs)
        BY <1>3, <1>5, LenConcat
      <4> HIDE DEF D
      <4> QED
        BY <4>1, <4>2
    <3>2. CASE n \notin came
      BY <1>2, <1>5, <3>2
    <3> QED
      BY <3>1, <3>2
  <2> QED
    BY <1>4, <2>1 DEF Entries
<1>7. \A n \in Names \ touched : e[n] = entry[n]
  BY <1>2
<1>8. \A n \in Names \ (large \cup names) : e[n].val = entry[n].val
  BY <1>7 DEF gone, came
<1>9. ASSUME NEW n \in touched, ~ReadsAny(e[n].conj, large \cup names)
      PROVE  IsCurrent(e[n], Values(entry))
  <2>0. n \in Names
    BY <1>1
  <2>1. CASE n \notin came
    <3>1. e[n] = [val |-> D(rest(n)), conj |-> rest(n)]
      BY <1>2, <1>9, <2>0, <2>1
    <3>2. e[n].val = D(rest(n)) /\ e[n].conj = rest(n)
      BY <3>1
    <3> QED
      BY <3>2, ExactIsCurrent
  <2>2. CASE n \in came
    <3>0. e[n] = [val |-> Meet(t[n].val, D(more(n))), conj |-> t[n].conj \o more(n)]
      BY <1>2, <2>0, <2>2
    <3>1. /\ e[n].val = Meet(t[n].val, D(more(n))) /\ e[n].conj = t[n].conj \o more(n)
          /\ t[n].conj \in Seq(Conjs) /\ t[n].val \in Vals
          /\ more(n) \in Seq(Conjs) /\ D(more(n)) \in Vals
      BY <1>3, <1>5, <2>0, <3>0
    <3>2. /\ D(e[n].conj) = Meet(D(t[n].conj), D(more(n))) /\ D(t[n].conj) \in Vals
      BY <1>1, <3>1, DeriveConcat, DerivedField DEF Conjs
    <3>3. CASE t[n].val = D(t[n].conj)
      <4>1. e[n].val = D(e[n].conj)
        BY <3>1, <3>2, <3>3
      <4> QED
        BY <4>1, ExactIsCurrent
    <3>4. CASE t[n].val # D(t[n].conj)
      <4>0. n \notin gone
        <5> SUFFICES ASSUME n \in gone PROVE FALSE
          OBVIOUS
        <5>1. t[n] = [val |-> D(rest(n)), conj |-> rest(n)]
          BY <1>2, <2>0
        <5>2. t[n].val = D(rest(n)) /\ t[n].conj = rest(n)
          BY <5>1
        <5> QED
          BY <3>4, <5>2
      <4>1. t[n] = entry[n]
        BY <1>2, <2>0, <4>0
      <4>2. ~ReadsAny(entry[n].conj, large \cup next)
        <5> SUFFICES ASSUME ReadsAny(entry[n].conj, large \cup next) PROVE FALSE
          OBVIOUS
        <5> DEFINE c == t[n].conj  d == more(n)
        <5>1. PICK i \in DOMAIN c : c[i].op # "lit" /\ c[i].of \in large \cup next
          BY <4>1 DEF ReadsAny
        <5>2. c \in Seq(Conjs) /\ d \in Seq(Conjs)
          BY <3>1
        <5> HIDE DEF c, d
        <5>3. i \in DOMAIN (c \o d) /\ (c \o d)[i] = c[i]
          BY <5>1, <5>2
        <5>4. ReadsAny(c \o d, large \cup names)
          BY <5>1, <5>3 DEF ReadsAny
        <5> QED
          BY <1>9, <3>1, <5>4 DEF c, d
      <4>3. IsCurrent(t[n], Values(entry))
        BY <2>0, <4>1, <4>2 DEF CurrentBut
      <4>4. Alike(t[n].val, D(t[n].conj)) /\ Len(t[n].conj) > 1
        BY <3>4, <4>3 DEF IsCurrent
      <4>5. Alike(e[n].val, D(e[n].conj))
        BY <3>1, <3>2, <4>4, AlikeMeets
      <4>6. Len(e[n].conj) > 1
        <5> DEFINE c == t[n].conj  d == more(n)
        <5>1. c \in Seq(Conjs) /\ d \in Seq(Conjs) /\ Len(c) > 1
          BY <3>1, <4>4
        <5> HIDE DEF c, d
        <5>2. Len(c \o d) > 1
          BY <5>1, LenConcat
        <5> QED
          BY <3>1, <5>2 DEF c, d
      <4> QED
        BY <4>5, <4>6 DEF IsCurrent
    <3> QED
      BY <3>3, <3>4
  <2> QED
    BY <2>1, <2>2
<1>10. CurrentBut(e, large \cup names) /\ SettledBut(e, large \cup names)
  <2>1. /\ large \cup next \in SUBSET Names /\ large \cup names \in SUBSET Names
        /\ large \cup next \subseteq large \cup names /\ touched \in SUBSET Names
        /\ touched \subseteq large \cup names
    BY <1>1 DEF gone, came
  <2>2. \A n \in touched : ReadsAny(e[n].conj, large \cup names) \/ IsCurrent(e[n], Values(entry))
    BY <1>9
  <2>3. \A n \in touched \ (large \cup names) : Len(e[n].conj) > 1 => Settle(e[n].val) = e[n].val
    BY <2>1
  <2> HIDE DEF touched
  <2> QED
    BY <1>1, <1>6, <1>7, <1>8, <2>1, <2>2, <2>3, Rewritten
<1> QED
  BY <1>6, <1>10 DEF e, t

(* What a step that rewrites the struct leaves, with the names it counts as moved. *)
LEMMA RewroteFields ==
  ASSUME IInv, mode = "recipes", mode' = mode, todo # <<>>, todo' = Tail(todo),
         UNCHANGED <<merge, large, moved, sweeps>>,
         entry' \in Entries, recipes' \in Seq(RunsMade), runs' \in Nat,
         next' \in SUBSET Names, order' \in Orders(entry'),
         CurrentBut(entry', large \cup next'), SettledBut(entry', large \cup next')
  PROVE  IInv'
<1>1. order' \in Seq(Names) /\ Covers(order', entry')
  BY OrdersCover
<1>2. Typed
  BY DEF IInv
<1>3. Tail(todo) \in Seq(RunsMade)
  BY <1>2 DEF Typed
<1>4. Typed'
  BY <1>1, <1>2, <1>3, SameMerge DEF Typed
<1>5. Following' /\ Ordered' /\ Descended'
  BY <1>1 DEF Following, Ordered, Descended
<1> QED
  BY <1>4, <1>5 DEF IInv, Evaluated, SettledFieldsAreDerived

LEMMA RunRecipeStep ==
  ASSUME IInv, RunRecipe
  PROVE  IInv'
<1> DEFINE r == Head(todo)
           fresh == Run(merge.recipes, Decl(r.id), Values(entry), runs + 1)
           anew == MergeGenerated(Retract(r), fresh)
<1>1. /\ mode = "recipes" /\ mode' = mode /\ todo # <<>> /\ todo' = Tail(todo)
      /\ UNCHANGED <<merge, large, moved, sweeps>>
  BY DEF RunRecipe
<1>2. Typed /\ CurrentBut(entry, large \cup next) /\ SettledBut(entry, large \cup next)
  BY <1>1 DEF IInv, Following, Descended
<1>3. r \in RunsMade /\ r.id \in Ids
  <2>1. r \in RunsMade
    BY <1>1, <1>2 DEF Typed
  <2> HIDE DEF r
  <2> QED
    BY <2>1 DEF RunsMade
<1>4. Decl(r.id) \in merge.recipes /\ Decl(r.id).id = r.id
  BY <1>2, <1>3, DeclTyped
<1>5. Values(entry) \in Valued /\ runs + 1 \in Nat
  BY <1>2 DEF Typed, Entries, Values, Valued
<1>6. fresh \in RunsMade /\ fresh.id = r.id
  BY <1>2, <1>4, <1>5, RunTyped
<1>7. Retracted(r) \in SUBSET Names /\ Generated(fresh) \in SUBSET Names
      /\ next \in SUBSET Names /\ large \in SUBSET Names
  BY <1>2, <1>3, <1>6, GeneratedTyped DEF Typed
<1>8. CASE UNCHANGED <<entry, recipes, runs, order, next>>
  <2>1. Tail(todo) \in Seq(RunsMade)
    BY <1>1, <1>2 DEF Typed
  <2>2. Typed'
    BY <1>1, <1>2, <1>8, <2>1, SameMerge DEF Typed
  <2>3. Following' /\ Ordered' /\ Descended'
    BY <1>1, <1>2, <1>8 DEF IInv, Following, Ordered, Descended
  <2> QED
    BY <1>1, <2>2, <2>3 DEF IInv, Evaluated, SettledFieldsAreDerived
<1>9. CASE /\ Reruns(r) /\ Decl(r.id).kind = "let"
           /\ entry' = Adopt(r, fresh)
           /\ recipes' = InPlace(r, fresh)
           /\ runs' = runs + 1
           /\ next' = next \cup Changed(entry') \cup (Retracted(r) \cap large)
           /\ order' \in Orders(entry')
  <2>1. \A n \in Names : Len(Given(fresh, n)) <= 1
    BY <1>6, <1>9, GivenTyped
  <2>2. next' \in SUBSET Names /\ next \cup Changed(Adopt(r, fresh)) \subseteq next'
    BY <1>7, <1>9 DEF Changed
  <2>3. recipes' \in Seq(RunsMade)
    BY <1>2, <1>6, <1>9, InPlaceTyped DEF Reruns
  <2> HIDE DEF r, fresh
  <2>4. /\ entry' \in Entries
        /\ CurrentBut(entry', large \cup next') /\ SettledBut(entry', large \cup next')
    BY <1>2, <1>3, <1>6, <1>9, <2>1, <2>2, AdoptFollows
  <2> QED
    BY <1>1, <1>5, <1>9, <2>2, <2>3, <2>4, RewroteFields
<1>10. CASE /\ entry' = anew
            /\ recipes' = Drop(r) \o Kept(fresh)
            /\ runs' = runs + 1
            /\ next' = next \cup Retracted(r) \cup Generated(fresh)
            /\ order' \in Orders(entry')
  <2>1. next' \in SUBSET Names
    BY <1>7, <1>10
  <2>2. Drop(r) \in Seq(RunsMade) /\ Kept(fresh) \in Seq(RunsMade)
    BY <1>2, <1>6, DropTyped, KeptTyped
  <2> HIDE DEF r, fresh
  <2>3. recipes' \in Seq(RunsMade)
    BY <1>10, <2>2, LenConcat
  <2>4. /\ entry' \in Entries
        /\ CurrentBut(entry', large \cup next') /\ SettledBut(entry', large \cup next')
    BY <1>2, <1>3, <1>6, <1>10, <2>1, AnewFollows
  <2> QED
    BY <1>1, <1>5, <1>10, <2>1, <2>3, <2>4, RewroteFields
<1> QED
  BY <1>8, <1>9, <1>10 DEF RunRecipe

LEMMA FailStep ==
  ASSUME IInv, Fail
  PROVE  IInv'
<1>1. mode' = "refused" /\ UNCHANGED <<merge, large, entry, recipes, runs, order, moved, next, todo>>
  BY DEF Fail
<1>2. Typed'
  BY <1>1, SameMerge DEF IInv, Typed
<1> QED
  BY <1>1, <1>2 DEF IInv, Evaluated, Ordered, Following, Descended, SettledFieldsAreDerived

LEMMA AlwaysFollows == Spec => []IInv
<1>1. Init => IInv
  BY InitIInv
<1>2. ASSUME IInv, [Next]_vars PROVE IInv'
  <2>1. CASE UNCHANGED vars \/ Ended
    <3>1. /\ UNCHANGED <<merge, large, entry, recipes, runs, order>>
          /\ UNCHANGED <<moved, next, todo, sweeps, mode>>
      BY <2>1 DEF Ended, vars
    <3>2. Typed'
      BY <1>2, <3>1, SameMerge DEF IInv, Typed
    <3> QED
      BY <1>2, <3>1, <3>2 DEF IInv, Evaluated, Ordered, Following, Descended, SettledFieldsAreDerived
  <2>2. CASE Evaluate
    BY <1>2, <2>2, EvaluateStep
  <2>3. CASE Unify
    BY <1>2, <2>3, UnifyStep
  <2>4. CASE Seed
    BY <1>2, <2>4, SeedStep
  <2>5. CASE Descend
    BY <1>2, <2>5, DescendStep
  <2>6. CASE Sweep
    BY <1>2, <2>6, SweepStep
  <2>7. CASE RunRecipe
    BY <1>2, <2>7, RunRecipeStep
  <2>8. CASE Fail
    BY <1>2, <2>8, FailStep
  <2>9. CASE EndSweep
    BY <1>2, <2>9, EndSweepStep
  <2> QED
    BY <1>2, <2>1, <2>2, <2>3, <2>4, <2>5, <2>6, <2>7, <2>8, <2>9 DEF Next
<1> QED
  BY <1>1, <1>2, PTL DEF Spec

-----------------------------------------------------------------------------
(* Whatever is merged, and in whichever of the orders derived again: once the    *)
(* loop settles, each field is what its conjuncts give on the values beside it,  *)
(* merged values below it included, though only what read a moved name ran.      *)
(* What is not covered are fields whose values are too large to compare, and     *)
(* the fields that read one of those directly.                                   *)
THEOREM DerivedWhereSettled == Spec => []SettledFieldsAreDerived
<1>1. IInv => SettledFieldsAreDerived
  BY DEF IInv
<1> QED
  BY <1>1, AlwaysFollows, PTL

-----------------------------------------------------------------------------
(* What comprehensions contribute, where none holds another                *)

\* A comprehension that may generate a literal the arena interns.
MayShare(d) == IF d.kind = "let" THEN Shared # {} ELSE d.body.op = "lit" /\ d.body.v \in Shared

\* What it generates is taken for no other conjunct of the field: two literal ones
\* are told apart unless the arena interns their value.
Distinct(m, d) ==
  \A n \in Names : n = d.into /\ MayShare(d) =>
    /\ \A c \in ToSet(m.base[n]) \cup ToSet(m.added[n]) : c.op = "lit" => c.v \notin Shared
    /\ \A k \in m.recipes \ {d} : k.into = n => ~MayShare(k)

Flat(m) == \A d \in m.recipes : d.within = 0 /\ Distinct(m, d)

\* What a run generated for a field.
GivenBy(r, n) == {o.conj : o \in {o \in ToSet(r.out) : o.name = n}}

\* Each comprehension has one run among these.
WhollyListed(m, rs) ==
  /\ \A r, s \in rs : r.id = s.id => r = s
  /\ \A d \in m.recipes : \E r \in rs : r.id = d.id
  /\ \A r \in rs : /\ r.inner = <<>>
                   /\ \E d \in m.recipes, val \in Valued : r.id = d.id /\ r.out = Generates(d, val)

\* The fields hold what is declared and what these runs generated.
Composed(m, e, rs) ==
  \A n \in Names : ToSet(e[n].conj) = ToSet(m.base[n]) \cup ToSet(m.added[n])
                                        \cup UNION {GivenBy(r, n) : r \in rs}

\* A run anew would generate the same, unless it reads one of some names.
UpToDate(d, r, e) == r.out = Generates(d, Values(e))
AskedBut(m, e, rs, names) ==
  \A r \in rs, d \in m.recipes : r.id = d.id => d.reads \in names \/ UpToDate(d, r, e)

Contents ==
  /\ mode = "merge" => \A n \in Names : entry[n].conj = Conjuncts(merge.base, Values(entry))[n]
  /\ mode \in {"seed", "descend", "sweep", "recipes", "settled"} =>
       WhollyListed(merge, ToSet(recipes)) /\ Composed(merge, entry, ToSet(recipes))
Asked ==
  /\ mode = "seed" => AskedBut(merge, entry, ToSet(recipes), large \cup Merged(entry))
  /\ mode \in {"descend", "sweep"} => AskedBut(merge, entry, ToSet(recipes), large \cup moved)
  /\ mode = "recipes" =>
       /\ AskedBut(merge, entry, ToSet(recipes) \ ToSet(todo), large \cup next)
       /\ AskedBut(merge, entry, ToSet(recipes), large \cup next \cup moved)
  /\ mode = "settled" => AskedBut(merge, entry, ToSet(recipes), large)

Decides == Flat(merge) => Contents /\ Asked

-----------------------------------------------------------------------------
LEMMA NamedIs ==
  ASSUME NEW X, NEW outs \in Seq([name : Names, conj : X]), NEW n
  PROVE  ToSet(Named(outs, n)) = {o.conj : o \in {o \in ToSet(outs) : o.name = n}}
<1> DEFINE kept == {o \in ToSet(outs) : o.name = n}
           these == Only(kept, outs)
<1>1. ToSet(these) = ToSet(outs) \cap kept
  <2> HIDE DEF kept
  <2> QED
    BY OnlyIs
<1>2. Named(outs, n) = [i \in DOMAIN these |-> these[i].conj]
  BY DEF Named
<1> HIDE DEF these
<1>3. ToSet(Named(outs, n)) = {o.conj : o \in ToSet(these)}
  BY <1>2 DEF ToSet
<1> QED
  BY <1>1, <1>3

LEMMA GivenIs ==
  ASSUME NEW r \in RunsMade, NEW n
  PROVE  ToSet(Given(r, n)) = GivenBy(r, n)
  BY NamedIs DEF Given, GivenBy, RunsMade, Outs

LEMMA ContributedIs ==
  ASSUME Typed, NEW rs \in Seq(RunsMade), NEW n
  PROVE  ToSet(Contributed(rs, n)) = UNION {GivenBy(r, n) : r \in ToSet(rs)}
<1> DEFINE g == [r \in RunsMade |-> r.out]
           outs == [i \in DOMAIN rs |-> rs[i].out]
<1>1. g \in [RunsMade -> Outs]
  BY DEF RunsMade
<1>2. [i \in DOMAIN rs |-> g[rs[i]]] = outs
  OBVIOUS
<1> HIDE DEF g
<1>3. outs \in Seq(Outs)
  BY <1>1, <1>2, SeqMapped
<1>4. DOMAIN outs = DOMAIN rs /\ \A i \in DOMAIN rs : outs[i] = rs[i].out
  OBVIOUS
<1> HIDE DEF outs
<1>5. /\ FlattenSeq(outs) \in Outs
      /\ ToSet(FlattenSeq(outs)) = UNION {ToSet(outs[i]) : i \in DOMAIN outs}
  BY <1>3, Flattened DEF Outs
<1>6. ToSet(Contributed(rs, n)) = {o.conj : o \in {o \in ToSet(FlattenSeq(outs)) : o.name = n}}
  <2>1. FlattenSeq(outs) \in Seq([name : Names, conj : Conjs])
    BY <1>5 DEF Outs
  <2>2. ToSet(Named(FlattenSeq(outs), n)) = {o.conj : o \in {o \in ToSet(FlattenSeq(outs)) : o.name = n}}
    BY <2>1, NamedIs
  <2>3. Contributed(rs, n) = Named(FlattenSeq(outs), n)
    BY DEF Contributed, outs
  <2> QED
    BY <2>2, <2>3
<1>7. ASSUME NEW c PROVE c \in ToSet(Contributed(rs, n)) <=> \E r \in ToSet(rs) : c \in GivenBy(r, n)
  <2>1. c \in ToSet(Contributed(rs, n)) <=>
          \E i \in DOMAIN rs : \E o \in ToSet(rs[i].out) : o.name = n /\ c = o.conj
    BY <1>4, <1>5, <1>6
  <2> QED
    BY <2>1 DEF GivenBy, ToSet
<1> QED
  BY <1>7

\* A comprehension contributes to one field, under its own number.
LEMMA GeneratesOne ==
  ASSUME NEW m \in Merges, NEW d \in m.recipes, NEW val \in Valued, NEW o \in ToSet(Generates(d, val))
  PROVE  /\ o.name = d.into /\ o.conj.by = d.id
         /\ o.conj.op = "lit" /\ o.conj.v \in Shared => MayShare(d)
         /\ \A p \in ToSet(Generates(d, val)) : p = o
<1>1. d.body.by = d.id
  BY MergeFormed DEF Formed
<1>2. Guard(d, val) /\ d.into # "none"
  BY DEF Generates, ToSet
<1>3. CASE d.kind = "let"
  <2>1. Generates(d, val) =
          <<[name |-> d.into,
             conj |-> [by |-> d.id, op |-> "lit", v |-> val[d.reads], of |-> "none"]]>>
    BY <1>2, <1>3 DEF Generates
  <2>2. o = [name |-> d.into,
             conj |-> [by |-> d.id, op |-> "lit", v |-> val[d.reads], of |-> "none"]]
    BY <2>1 DEF ToSet
  <2>3. \A p \in ToSet(Generates(d, val)) : p = o
    BY <2>1 DEF ToSet
  <2> QED
    BY <1>3, <2>2, <2>3 DEF MayShare
<1>4. CASE d.kind # "let"
  <2>1. Generates(d, val) = <<[name |-> d.into, conj |-> d.body]>>
    BY <1>2, <1>4 DEF Generates
  <2>2. o = [name |-> d.into, conj |-> d.body]
    BY <2>1 DEF ToSet
  <2>3. \A p \in ToSet(Generates(d, val)) : p = o
    BY <2>1 DEF ToSet
  <2> QED
    BY <1>1, <1>4, <2>2, <2>3 DEF MayShare
<1> QED
  BY <1>3, <1>4

LEMMA GeneratesSame ==
  ASSUME NEW d, NEW v, NEW w, v[d.reads] = w[d.reads]
  PROVE  Generates(d, v) = Generates(d, w)
  BY DEF Generates, Guard

LEMMA FlatRun ==
  ASSUME Typed, Flat(merge), NEW d \in merge.recipes, NEW val \in Valued, NEW k \in Nat
  PROVE  /\ Run(merge.recipes, d, val, k).inner = <<>>
         /\ Run(merge.recipes, d, val, k).out = Generates(d, val)
         /\ Run(merge.recipes, d, val, k).id = d.id
         /\ Run(merge.recipes, d, val, k) \in RunsMade
<1>1. Inner(merge.recipes, d) = {}
  <2>1. d.id \in 1 .. MaxId
    BY MergeFormed DEF Typed, Formed
  <2>2. d.id # 0
    BY <2>1 DEF MaxId
  <2> QED
    BY <2>2 DEF Inner, Flat
<1>2. Generates(d, val) \o <<>> = Generates(d, val)
  <2>1. Generates(d, val) \in Seq([name : Names, conj : Readings(merge)])
    BY GeneratesTyped DEF Typed
  <2> QED
    BY <2>1
<1> QED
  BY <1>1, <1>2, RunTyped DEF Run

LEMMA KeptAlone ==
  ASSUME NEW r, r.inner = <<>>
  PROVE  Kept(r) = <<r>>
  BY DEF Kept

LEMMA InOrderIs ==
  ASSUME Typed, NEW decls \in SUBSET merge.recipes
  PROVE  ToSet(InOrder(decls)) = decls
<1> DEFINE ids == {d.id : d \in decls}
           list == Only(ids, [i \in 1 .. MaxId |-> i])
<1>1. /\ [i \in 1 .. MaxId |-> i] \in Seq(1 .. MaxId)
      /\ ToSet([i \in 1 .. MaxId |-> i]) = 1 .. MaxId
  BY SeqDef DEF MaxId, ToSet
<1>2. ids \subseteq 1 .. MaxId /\ \A d, k \in decls : d.id = k.id => d = k
  BY MergeFormed DEF Typed, Formed
<1>3. ToSet(list) = ids
  <2>1. ToSet(list) = (1 .. MaxId) \cap ids
    <3> HIDE DEF ids
    <3> QED
      BY <1>1, OnlyIs
  <2> HIDE DEF ids, list
  <2> QED
    BY <1>2, <2>1
<1>4. InOrder(decls) = [i \in DOMAIN list |-> CHOOSE d \in decls : d.id = list[i]]
  BY DEF InOrder
<1> HIDE DEF list
<1>5. ToSet(InOrder(decls)) = {CHOOSE d \in decls : d.id = j : j \in ToSet(list)}
  BY <1>4 DEF ToSet
<1>6. \A d \in decls : (CHOOSE k \in decls : k.id = d.id) = d
  BY <1>2
<1> QED
  BY <1>3, <1>5, <1>6

LEMMA AllRunsIs ==
  ASSUME Typed, Flat(merge), NEW val \in Valued
  PROVE  ToSet(AllRuns(merge.recipes, val)) = {Run(merge.recipes, d, val, 0) : d \in merge.recipes}
<1> DEFINE list == InOrder(Outer(merge.recipes))
<1>1. Outer(merge.recipes) = merge.recipes
  BY DEF Outer, Flat
<1>2. ToSet(list) = merge.recipes
  BY <1>1, InOrderIs
<1>3. AllRuns(merge.recipes, val) = [i \in DOMAIN list |-> Run(merge.recipes, list[i], val, 0)]
  BY DEF AllRuns
<1> HIDE DEF list
<1>4. ToSet(AllRuns(merge.recipes, val)) = {Run(merge.recipes, d, val, 0) : d \in ToSet(list)}
  BY <1>3 DEF ToSet
<1> QED
  BY <1>2, <1>4

-----------------------------------------------------------------------------
(* What is taken back and what stays *)

LEMMA OthersIs ==
  ASSUME NEW conj, NEW given, \A g \in ToSet(given), c \in ToSet(conj) : Same(g, c) => g = c
  PROVE  Others(conj, given) = ToSet(conj) \ ToSet(given)
  BY DEF Others, Same, ToSet

LEMMA WithoutIs ==
  ASSUME NEW m, NEW conj \in Seq(Readings(m)), NEW given
  PROVE  ToSet(Without(conj, given)) = Others(conj, given)
<1>1. Others(conj, given) \subseteq ToSet(conj)
  BY DEF Others
<1>2. ToSet(Only(Others(conj, given), conj)) = ToSet(conj) \cap Others(conj, given)
  BY OnlyIs
<1> QED
  BY <1>1, <1>2 DEF Without

\* What follows the first k of a list.
LEMMA AfterCut ==
  ASSUME NEW S, NEW s \in Seq(S), NEW k \in 0 .. Len(s)
  PROVE  /\ SubSeq(s, k + 1, Len(s)) \in Seq(S)
         /\ Len(SubSeq(s, k + 1, Len(s))) = Len(s) - k
         /\ \A i \in 1 .. Len(s) - k : SubSeq(s, k + 1, Len(s))[i] = s[k + i]
<1>1. Len(s) \in Nat /\ k \in Nat /\ k <= Len(s) /\ DOMAIN s = 1 .. Len(s)
  OBVIOUS
<1>2. SubSeq(s, k + 1, Len(s)) = [i \in 1 .. (1 + Len(s)) - (k + 1) |-> s[(i + (k + 1)) - 1]]
  OBVIOUS
<1>3. (1 + Len(s)) - (k + 1) = Len(s) - k /\ \A i \in 1 .. Len(s) - k : (i + (k + 1)) - 1 = k + i
  BY <1>1
<1>4. \A i \in 1 .. Len(s) - k : SubSeq(s, k + 1, Len(s))[i] = s[k + i]
  BY <1>2, <1>3
<1>5. SubSeq(s, k + 1, Len(s)) \in Seq(S) /\ Len(SubSeq(s, k + 1, Len(s))) = Len(s) - k
  <2> DEFINE n == Len(s) - k
             after == SubSeq(s, k + 1, Len(s))
  <2>1. n \in Nat /\ \A i \in 1 .. n : k + i \in 1 .. Len(s)
    BY <1>1
  <2>2. after = [i \in 1 .. n |-> s[(i + (k + 1)) - 1]] /\ \A i \in 1 .. n : (i + (k + 1)) - 1 = k + i
    BY <1>2, <1>3
  <2>3. \A i \in 1 .. n : s[k + i] \in S
    BY <1>1, <2>1
  <2> HIDE DEF n, after
  <2>4. after \in [1 .. n -> S]
    BY <2>2, <2>3
  <2>5. after \in Seq(S) /\ Len(after) = n
    BY <2>1, <2>4, SeqDef
  <2> QED
    BY <2>5 DEF n, after
<1> QED
  BY <1>4, <1>5

LEMMA ReplaceIs ==
  ASSUME NEW m, NEW conj \in Seq(Readings(m)), NEW old, NEW new \in Seq(Readings(m)),
         Without(conj, old) # conj
  PROVE  ToSet(Replace(conj, old, new)) = Others(conj, old) \cup ToSet(new)
<1> DEFINE others == Others(conj, old)
           first == CHOOSE i \in DOMAIN conj :
                      conj[i] \notin others /\ \A j \in DOMAIN conj : conj[j] \notin others => i <= j
           before == SubSeq(conj, 1, first - 1)
           after == SubSeq(conj, first + 1, Len(conj))
<1>1. Len(conj) \in Nat /\ DOMAIN conj = 1 .. Len(conj)
  OBVIOUS
<1>2. first \in DOMAIN conj /\ conj[first] \notin others
  BY TakenFirst
<1>3. Replace(conj, old, new) = (Only(others, before) \o new) \o Only(others, after)
  BY DEF Replace
<1>4. others \subseteq ToSet(conj)
  BY DEF Others
<1> HIDE DEF first, others
<1>5. /\ before \in Seq(Readings(m)) /\ after \in Seq(Readings(m))
      /\ \A i \in 1 .. first - 1 : i \in DOMAIN before /\ before[i] = conj[i]
      /\ \A i \in DOMAIN before : i \in DOMAIN conj /\ before[i] = conj[i]
      /\ \A i \in 1 .. Len(conj) - first : i \in DOMAIN after /\ after[i] = conj[first + i]
      /\ \A i \in DOMAIN after : first + i \in DOMAIN conj /\ after[i] = conj[first + i]
  <2>0. first \in 1 .. Len(conj)
    BY <1>1, <1>2
  <2>1. /\ before \in Seq(Readings(m)) /\ Len(before) = first - 1
        /\ \A i \in 1 .. first - 1 : before[i] = conj[i]
    BY <1>1, <2>0
  <2>5. DOMAIN before = 1 .. first - 1
    BY <2>1
  <2>2. /\ after \in Seq(Readings(m)) /\ Len(after) = Len(conj) - first
        /\ \A i \in 1 .. Len(conj) - first : after[i] = conj[first + i]
    <3>1. first \in 0 .. Len(conj)
      BY <1>1, <2>0
    <3> QED
      BY <3>1, AfterCut
  <2>3. DOMAIN after = 1 .. Len(conj) - first
    BY <2>2
  <2>4. /\ \A i \in 1 .. first - 1 : i \in 1 .. Len(conj)
        /\ \A i \in 1 .. Len(conj) - first : first + i \in 1 .. Len(conj)
    BY <1>1, <2>0
  <2> HIDE DEF before, after
  <2> QED
    BY <1>1, <2>1, <2>2, <2>3, <2>4, <2>5
<1>6. \A i \in DOMAIN conj : \/ i \in 1 .. first - 1 \/ i = first
                            \/ \E j \in 1 .. Len(conj) - first : i = first + j
  <2> SUFFICES ASSUME NEW i \in DOMAIN conj, i > first
               PROVE  \E j \in 1 .. Len(conj) - first : i = first + j
    BY <1>1, <1>2
  <2>1. i - first \in 1 .. Len(conj) - first /\ i = first + (i - first)
    BY <1>1, <1>2
  <2> QED
    BY <2>1
<1>7. ToSet(conj) = ToSet(before) \cup {conj[first]} \cup ToSet(after)
  <2> HIDE DEF before, after
  <2>1. ASSUME NEW x \in ToSet(conj) PROVE x \in ToSet(before) \cup {conj[first]} \cup ToSet(after)
    <3>1. PICK i \in DOMAIN conj : x = conj[i]
      BY <2>1 DEF ToSet
    <3>2. CASE i \in 1 .. first - 1
      BY <1>5, <3>1, <3>2 DEF ToSet
    <3>3. CASE i = first
      BY <3>1, <3>3
    <3>4. CASE \E j \in 1 .. Len(conj) - first : i = first + j
      BY <1>5, <3>1, <3>4 DEF ToSet
    <3> QED
      BY <1>6, <3>2, <3>3, <3>4
  <2>2. ASSUME NEW x \in ToSet(before) \cup {conj[first]} \cup ToSet(after) PROVE x \in ToSet(conj)
    BY <1>2, <1>5, <2>2 DEF ToSet
  <2> QED
    BY <2>1, <2>2
<1> HIDE DEF before, after
<1>8. /\ ToSet(Only(others, before)) = ToSet(before) \cap others
      /\ ToSet(Only(others, after)) = ToSet(after) \cap others
      /\ Only(others, before) \in Seq(Readings(m)) /\ Only(others, after) \in Seq(Readings(m))
  <2>1. /\ Only(others, before) \in Seq(Readings(m) \cap others)
        /\ Only(others, after) \in Seq(Readings(m) \cap others)
    BY <1>5, OnlyKept
  <2>2. /\ Only(others, before) \in Seq(Readings(m))
        /\ Only(others, after) \in Seq(Readings(m))
    BY <2>1
  <2> QED
    BY <1>5, <2>2, OnlyIs
<1>9. /\ ToSet(Only(others, before) \o new) = ToSet(Only(others, before)) \cup ToSet(new)
      /\ Only(others, before) \o new \in Seq(Readings(m))
  BY <1>8, ConcatHolds, LenConcat
<1>10. ToSet(Replace(conj, old, new))
         = (ToSet(Only(others, before)) \cup ToSet(new)) \cup ToSet(Only(others, after))
  <2> DEFINE left == Only(others, before) \o new
             right == Only(others, after)
  <2>1. left \in Seq(Readings(m)) /\ right \in Seq(Readings(m))
    BY <1>8, <1>9
  <2> HIDE DEF left, right
  <2>2. ToSet(left \o right) = ToSet(left) \cup ToSet(right)
    BY <2>1, ConcatHolds
  <2> USE DEF left, right
  <2> QED
    BY <1>3, <1>9, <2>2
<1>11. ToSet(Replace(conj, old, new)) = others \cup ToSet(new)
  BY <1>2, <1>4, <1>7, <1>8, <1>10
<1> QED
  BY <1>11 DEF others

-----------------------------------------------------------------------------
(* A comprehension's run among the others *)

Runs == ToSet(recipes)
Rest(r, n) == ToSet(merge.base[n]) \cup ToSet(merge.added[n]) \cup UNION {GivenBy(s, n) : s \in Runs \ {r}}

\* What a run contributes carries its number; nothing else does.
LEMMA GivenIsOwn ==
  ASSUME Typed, WhollyListed(merge, Runs), NEW r \in Runs, NEW n \in Names
  PROVE  /\ r \in RunsMade /\ r.id \in 1 .. MaxId
         /\ \A c \in GivenBy(r, n) : c.by = r.id
         /\ \E d \in merge.recipes :
              /\ r.id = d.id
              /\ \A c \in GivenBy(r, n) : /\ d.into = n
                                          /\ c.op = "lit" /\ c.v \in Shared => MayShare(d)
         /\ \A c, k \in GivenBy(r, n) : c = k
<1>1. r \in RunsMade
  BY SeqMember DEF Typed, Runs, ToSet
<1>2. PICK d \in merge.recipes, val \in Valued : r.id = d.id /\ r.out = Generates(d, val)
  BY DEF WhollyListed
<1>3. d.id \in 1 .. MaxId /\ merge \in Merges
  BY MergeFormed DEF Typed, Formed
<1>4. \A o \in ToSet(r.out) : /\ o.name = d.into /\ o.conj.by = d.id
                              /\ o.conj.op = "lit" /\ o.conj.v \in Shared => MayShare(d)
                              /\ \A p \in ToSet(r.out) : p = o
  BY <1>2, <1>3, GeneratesOne
<1>5. \A c \in GivenBy(r, n) : \E o \in ToSet(r.out) : o.name = n /\ c = o.conj
  BY DEF GivenBy
<1>6. \A c \in GivenBy(r, n) : /\ c.by = d.id /\ d.into = n
                               /\ c.op = "lit" /\ c.v \in Shared => MayShare(d)
  BY <1>4, <1>5
<1>7. \A c, k \in GivenBy(r, n) : c = k
  BY <1>4, <1>5
<1> QED
  BY <1>1, <1>2, <1>3, <1>6, <1>7

\* ... and it is taken for nothing else.
LEMMA ToldApart ==
  ASSUME Typed, Flat(merge), WhollyListed(merge, Runs), NEW r \in Runs, NEW n \in Names,
         NEW g \in GivenBy(r, n), NEW c \in Rest(r, n) \cup GivenBy(r, n), Same(g, c)
  PROVE  g = c
<1>1. PICK d \in merge.recipes :
        /\ r.id = d.id /\ d.into = n
        /\ g.op = "lit" /\ g.v \in Shared => MayShare(d)
  BY GivenIsOwn
<1>2. SUFFICES ASSUME g.op = "lit", g.v \in Shared, c.op = "lit", c.v \in Shared, c \in Rest(r, n)
               PROVE  FALSE
  BY GivenIsOwn DEF Same
<1>3. MayShare(d) /\ Distinct(merge, d)
  BY <1>1, <1>2 DEF Flat
<1>4. CASE c \in ToSet(merge.base[n]) \cup ToSet(merge.added[n])
  BY <1>1, <1>2, <1>3, <1>4 DEF Distinct
<1>5. ASSUME NEW s \in Runs \ {r}, c \in GivenBy(s, n) PROVE FALSE
  <2>1. PICK k \in merge.recipes :
          /\ s.id = k.id /\ k.into = n
          /\ c.op = "lit" /\ c.v \in Shared => MayShare(k)
    BY <1>5, GivenIsOwn
  <2>2. s.id # r.id
    BY DEF WhollyListed
  <2>3. k # d
    BY <1>1, <2>1, <2>2
  <2> QED
    BY <1>1, <1>2, <1>3, <2>1, <2>3 DEF Distinct
<1> QED
  BY <1>2, <1>4, <1>5 DEF Rest

LEMMA GeneratedIs ==
  ASSUME NEW r \in RunsMade, NEW n
  PROVE  n \in Generated(r) <=> GivenBy(r, n) # {}
<1>1. Generated(r) = {o.name : o \in ToSet(r.out)}
  BY DEF Generated, ToSet
<1> QED
  BY <1>1 DEF GivenBy

LEMMA TakenBack ==
  ASSUME Typed, Flat(merge), WhollyListed(merge, Runs), Composed(merge, entry, Runs),
         NEW r \in Runs, NEW n \in Names
  PROVE  /\ Others(entry[n].conj, Given(r, n)) = Rest(r, n)
         /\ ToSet(entry[n].conj) = Rest(r, n) \cup GivenBy(r, n)
         /\ n \in Retracted(r) <=> n \in Generated(r)
         /\ n \notin Generated(r) => GivenBy(r, n) = {}
<1>1. /\ r \in RunsMade /\ r.id \in 1 .. MaxId
      /\ \A c \in GivenBy(r, n) : c.by = r.id
  BY GivenIsOwn
<1>2. ToSet(Given(r, n)) = GivenBy(r, n)
  BY <1>1, GivenIs
<1>3. ToSet(entry[n].conj) = Rest(r, n) \cup GivenBy(r, n)
  BY DEF Composed, Rest
<1>4. ASSUME NEW c \in Rest(r, n) PROVE c \notin GivenBy(r, n)
  <2>1. CASE c \in ToSet(merge.base[n]) \cup ToSet(merge.added[n])
    <3>1. c.by = 0
      BY <2>1, MergeFormed DEF Typed, Formed
    <3>2. r.id # 0
      BY <1>1 DEF MaxId
    <3> QED
      BY <1>1, <3>1, <3>2
  <2>2. ASSUME NEW s \in Runs \ {r}, c \in GivenBy(s, n) PROVE c \notin GivenBy(r, n)
    <3>1. c.by = s.id
      BY <2>2, GivenIsOwn
    <3>2. s.id # r.id
      BY DEF WhollyListed
    <3> QED
      BY <1>1, <3>1, <3>2
  <2> QED
    BY <1>4, <2>1, <2>2 DEF Rest
<1>5. Others(entry[n].conj, Given(r, n)) = ToSet(entry[n].conj) \ ToSet(Given(r, n))
  <2>1. \A g \in ToSet(Given(r, n)), c \in ToSet(entry[n].conj) : Same(g, c) => g = c
    BY <1>2, <1>3, ToldApart
  <2> QED
    BY <2>1, OthersIs
<1>6. Others(entry[n].conj, Given(r, n)) = Rest(r, n)
  BY <1>2, <1>3, <1>4, <1>5
<1>7. n \in Generated(r) <=> GivenBy(r, n) # {}
  BY <1>1, GeneratedIs
<1>8. entry[n].conj \in Seq(Conjs)
  BY EntryTyped DEF Typed
<1>9. ToSet(Without(entry[n].conj, Given(r, n))) = Rest(r, n)
  BY <1>6, <1>8, WithoutIs DEF Conjs
<1>10. GivenBy(r, n) # {} => n \in Retracted(r)
  <2> SUFFICES ASSUME NEW c \in GivenBy(r, n) PROVE n \in Retracted(r)
    OBVIOUS
  <2>1. c \in ToSet(entry[n].conj) /\ c \notin ToSet(Without(entry[n].conj, Given(r, n)))
    BY <1>3, <1>4, <1>9
  <2>2. Without(entry[n].conj, Given(r, n)) # entry[n].conj
    BY <2>1
  <2>3. n \in Generated(r)
    BY <1>7
  <2> QED
    BY <2>2, <2>3 DEF Retracted
<1>11. n \in Retracted(r) => n \in Generated(r)
  BY DEF Retracted
<1> QED
  BY <1>3, <1>6, <1>7, <1>10, <1>11

-----------------------------------------------------------------------------
(* A rerun takes the place of a run *)

LEMMA AnewComposed ==
  ASSUME Typed, Flat(merge), WhollyListed(merge, Runs), Composed(merge, entry, Runs),
         NEW r \in Runs, NEW fresh \in RunsMade
  PROVE  Composed(merge, MergeGenerated(Retract(r), fresh), (Runs \ {r}) \cup {fresh})
<1> DEFINE t == Retract(r)
           e == MergeGenerated(t, fresh)
<1> SUFFICES ASSUME NEW n \in Names
             PROVE  ToSet(e[n].conj) = ToSet(merge.base[n]) \cup ToSet(merge.added[n])
                                         \cup UNION {GivenBy(s, n) : s \in (Runs \ {r}) \cup {fresh}}
  BY DEF Composed
<1>1. /\ Others(entry[n].conj, Given(r, n)) = Rest(r, n)
      /\ ToSet(entry[n].conj) = Rest(r, n) \cup GivenBy(r, n)
      /\ n \in Retracted(r) <=> n \in Generated(r)
      /\ n \notin Generated(r) => GivenBy(r, n) = {}
  BY TakenBack
<1>2. entry[n].conj \in Seq(Conjs) /\ Given(fresh, n) \in Seq(Conjs)
  BY EntryTyped, GivenTyped DEF Typed
<1>3. ToSet(t[n].conj) = Rest(r, n) /\ t[n].conj \in Seq(Conjs)
  <2>1. CASE n \in Retracted(r)
    <3>1. t[n].conj = Without(entry[n].conj, Given(r, n))
      BY <2>1 DEF Retract
    <3>2. ToSet(Without(entry[n].conj, Given(r, n))) = Rest(r, n)
      BY <1>1, <1>2, WithoutIs DEF Conjs
    <3>3. Without(entry[n].conj, Given(r, n)) \in Seq(Conjs)
      BY <1>2, WithoutTyped DEF Conjs
    <3> QED
      BY <3>1, <3>2, <3>3
  <2>2. CASE n \notin Retracted(r)
    <3>1. t[n] = entry[n]
      BY <2>2 DEF Retract
    <3> QED
      BY <1>1, <1>2, <2>2, <3>1
  <2> QED
    BY <2>1, <2>2
<1>4. e[n].conj = IF n \in Generated(fresh) THEN t[n].conj \o Given(fresh, n) ELSE t[n].conj
  <2> HIDE DEF t
  <2> QED
    BY DEF MergeGenerated
<1>5. ToSet(Given(fresh, n)) = GivenBy(fresh, n)
  BY GivenIs
<1>6. n \notin Generated(fresh) => GivenBy(fresh, n) = {}
  BY GeneratedIs
<1> HIDE DEF t, e
<1>7. ToSet(t[n].conj \o Given(fresh, n)) = ToSet(t[n].conj) \cup ToSet(Given(fresh, n))
  BY <1>2, <1>3, ConcatHolds
<1>8. ToSet(e[n].conj) = Rest(r, n) \cup GivenBy(fresh, n)
  BY <1>3, <1>4, <1>5, <1>6, <1>7
<1> QED
  BY <1>8 DEF Rest

LEMMA AdoptComposed ==
  ASSUME Typed, Flat(merge), WhollyListed(merge, Runs), Composed(merge, entry, Runs),
         NEW r \in Runs, NEW fresh \in RunsMade, Generated(fresh) = Generated(r)
  PROVE  Composed(merge, Adopt(r, fresh), (Runs \ {r}) \cup {fresh})
<1> DEFINE e == Adopt(r, fresh)
<1> SUFFICES ASSUME NEW n \in Names
             PROVE  ToSet(e[n].conj) = ToSet(merge.base[n]) \cup ToSet(merge.added[n])
                                         \cup UNION {GivenBy(s, n) : s \in (Runs \ {r}) \cup {fresh}}
  BY DEF Composed
<1>1. /\ Others(entry[n].conj, Given(r, n)) = Rest(r, n)
      /\ ToSet(entry[n].conj) = Rest(r, n) \cup GivenBy(r, n)
      /\ n \in Retracted(r) <=> n \in Generated(r)
      /\ n \notin Generated(r) => GivenBy(r, n) = {}
  BY TakenBack
<1>2. entry[n].conj \in Seq(Conjs) /\ Given(fresh, n) \in Seq(Conjs)
  BY EntryTyped, GivenTyped DEF Typed
<1>3. ToSet(Given(fresh, n)) = GivenBy(fresh, n)
  BY GivenIs
<1>4. ToSet(e[n].conj) = Rest(r, n) \cup GivenBy(fresh, n)
  <2>1. CASE n \in Retracted(r)
    <3>1. e[n].conj = Replace(entry[n].conj, Given(r, n), Given(fresh, n))
      BY <2>1 DEF Adopt
    <3>2. Without(entry[n].conj, Given(r, n)) # entry[n].conj
      BY <2>1 DEF Retracted
    <3>3. ToSet(Replace(entry[n].conj, Given(r, n), Given(fresh, n)))
            = Others(entry[n].conj, Given(r, n)) \cup ToSet(Given(fresh, n))
      BY <1>2, <3>2, ReplaceIs DEF Conjs
    <3> QED
      BY <1>1, <1>3, <3>1, <3>3
  <2>2. CASE n \notin Retracted(r)
    <3>1. e[n] = entry[n]
      BY <2>2 DEF Adopt
    <3>2. GivenBy(fresh, n) = {}
      BY <1>1, <2>2, GeneratedIs
    <3> QED
      BY <1>1, <2>2, <3>1, <3>2
  <2> QED
    BY <2>1, <2>2
<1> QED
  BY <1>4 DEF Rest

LEMMA DropIs ==
  ASSUME Typed, NEW r, r.inner = <<>>
  PROVE  ToSet(Drop(r)) = Runs \ {r}
<1> DEFINE kept == {k \in ToSet(recipes) : k # r /\ ~Among(k, r.inner)}
<1>1. kept = Runs \ {r}
  BY DEF Among, Runs
<1>2. recipes \in Seq(RunsMade)
  BY DEF Typed
<1> HIDE DEF kept
<1>3. ToSet(Only(kept, recipes)) = ToSet(recipes) \cap kept
  BY <1>2, OnlyIs
<1>4. Drop(r) = Only(kept, recipes)
  BY DEF Drop, kept
<1> QED
  BY <1>1, <1>3, <1>4 DEF Runs

\* A list, with another put somewhere between.
LEMMA Inserted ==
  ASSUME NEW S, NEW s \in Seq(S), NEW t \in Seq(S), NEW k \in 0 .. Len(s)
  PROVE  ToSet((SubSeq(s, 1, k) \o t) \o SubSeq(s, k + 1, Len(s))) = ToSet(s) \cup ToSet(t)
<1> DEFINE before == SubSeq(s, 1, k)
           after == SubSeq(s, k + 1, Len(s))
<1>1. before \in Seq(S) /\ after \in Seq(S) /\ s = before \o after
  <2>1. Len(s) \in Nat /\ k \in Nat /\ k <= Len(s) /\ DOMAIN s = 1 .. Len(s)
    OBVIOUS
  <2>2. /\ before \in Seq(S) /\ Len(before) = k
        /\ after \in Seq(S) /\ Len(after) = Len(s) - k
        /\ \A i \in 1 .. k : before[i] = s[i]
        /\ \A i \in 1 .. Len(s) - k : after[i] = s[k + i]
    <3>1. before \in Seq(S) /\ Len(before) = k /\ \A i \in 1 .. k : before[i] = s[i]
      BY <2>1
    <3>2. /\ after \in Seq(S) /\ Len(after) = Len(s) - k
          /\ \A i \in 1 .. Len(s) - k : after[i] = s[k + i]
      BY <2>1, AfterCut
    <3> QED
      BY <3>1, <3>2
  <2> HIDE DEF before, after
  <2>3. before \o after = [i \in 1 .. k + (Len(s) - k) |-> IF i <= k THEN before[i] ELSE after[i - k]]
    <3>1. before \o after
            = [i \in 1 .. Len(before) + Len(after) |->
                 IF i <= Len(before) THEN before[i] ELSE after[i - Len(before)]]
      <4>1. before \in Seq(S) /\ after \in Seq(S)
        BY <2>2
      <4> QED
        BY <4>1, ConcatAt
    <3> QED
      BY <2>2, <3>1
  <2>4. k + (Len(s) - k) = Len(s)
    BY <2>1
  <2>5. ASSUME NEW i \in 1 .. Len(s) PROVE s[i] = IF i <= k THEN before[i] ELSE after[i - k]
    <3>1. CASE i <= k
      BY <2>1, <2>2, <3>1
    <3>2. CASE ~(i <= k)
      <4>1. i - k \in 1 .. Len(s) - k /\ k + (i - k) = i
        BY <2>1, <3>2
      <4> QED
        BY <2>2, <3>2, <4>1
    <3> QED
      BY <3>1, <3>2
  <2>6. s = [i \in 1 .. Len(s) |-> s[i]]
    BY <2>1, SeqIsFunction
  <2> QED
    BY <2>2, <2>3, <2>4, <2>5, <2>6
<1> HIDE DEF before, after
<1>2. ToSet(before \o t) = ToSet(before) \cup ToSet(t) /\ before \o t \in Seq(S)
  BY <1>1, ConcatHolds
<1> DEFINE left == before \o t
<1>3. left \in Seq(S)
  BY <1>2
<1> HIDE DEF left
<1>4. ToSet(left \o after) = ToSet(left) \cup ToSet(after)
  BY <1>1, <1>3, ConcatHolds
<1>5. ToSet(s) = ToSet(before) \cup ToSet(after)
  BY <1>1, ConcatHolds
<1> QED
  BY <1>2, <1>4, <1>5 DEF left, before, after

LEMMA InPlaceIs ==
  ASSUME Typed, NEW r \in Runs, r.inner = <<>>, NEW fresh \in RunsMade, fresh.inner = <<>>
  PROVE  ToSet(InPlace(r, fresh)) = (Runs \ {r}) \cup {fresh}
<1> DEFINE at == CHOOSE i \in DOMAIN recipes : recipes[i] = r
           rest == Drop(r)
           cut == IF at - 1 <= Len(rest) THEN at - 1 ELSE Len(rest)
<1>1. at \in Nat \ {0}
  <2>1. at \in DOMAIN recipes
    <3>1. \E i \in DOMAIN recipes : recipes[i] = r
      BY DEF Runs, ToSet
    <3> QED
      BY <3>1
  <2>2. DOMAIN recipes = 1 .. Len(recipes) /\ Len(recipes) \in Nat
    BY DEF Typed
  <2> HIDE DEF at
  <2> QED
    BY <2>1, <2>2
<1> HIDE DEF at
<1>2. rest \in Seq(RunsMade) /\ ToSet(rest) = Runs \ {r}
  BY DropTyped, DropIs
<1> HIDE DEF rest
<1>3. cut \in 0 .. Len(rest)
  BY <1>1, <1>2
<1> HIDE DEF cut
<1>4. Kept(fresh) = <<fresh>> /\ <<fresh>> \in Seq(RunsMade) /\ ToSet(<<fresh>>) = {fresh}
  BY KeptAlone DEF ToSet
<1>5. ToSet((SubSeq(rest, 1, cut) \o Kept(fresh)) \o SubSeq(rest, cut + 1, Len(rest)))
        = ToSet(rest) \cup ToSet(Kept(fresh))
  <2>1. Kept(fresh) \in Seq(RunsMade)
    BY KeptTyped
  <2> QED
    BY <1>2, <1>3, <2>1, Inserted
<1>6. InPlace(r, fresh) = (SubSeq(rest, 1, cut) \o Kept(fresh)) \o SubSeq(rest, cut + 1, Len(rest))
  BY DEF InPlace, at, rest, cut
<1> QED
  BY <1>2, <1>4, <1>5, <1>6

\* A rerun in the place of a run: each comprehension has one run still.
LEMMA StillListed ==
  ASSUME NEW m, NEW rs, WhollyListed(m, rs), NEW r \in rs, NEW fresh, fresh.id = r.id,
         fresh.inner = <<>>,
         \E d \in m.recipes, val \in Valued : fresh.id = d.id /\ fresh.out = Generates(d, val)
  PROVE  WhollyListed(m, (rs \ {r}) \cup {fresh})
<1> DEFINE now == (rs \ {r}) \cup {fresh}
<1>1. \A p, q \in now : p.id = q.id => p = q
  <2>1. \A p, q \in rs : p.id = q.id => p = q
    BY DEF WhollyListed
  <2>2. \A p \in rs \ {r} : p.id # fresh.id
    BY <2>1
  <2> QED
    BY <2>1, <2>2
<1>2. ASSUME NEW d \in m.recipes PROVE \E p \in now : p.id = d.id
  <2>1. PICK p \in rs : p.id = d.id
    BY DEF WhollyListed
  <2> QED
    BY <2>1
<1>3. \A p \in now : /\ p.inner = <<>>
                     /\ \E d \in m.recipes, val \in Valued : p.id = d.id /\ p.out = Generates(d, val)
  BY DEF WhollyListed
<1> QED
  BY <1>1, <1>2, <1>3 DEF WhollyListed

-----------------------------------------------------------------------------
(* What is up to date stays so where what it reads did not move *)

LEMMA SameContents ==
  ASSUME NEW m, NEW e, NEW f, NEW rs, Composed(m, e, rs),
         \A n \in Names : f[n].conj = e[n].conj
  PROVE  Composed(m, f, rs)
  BY DEF Composed

LEMMA StillAsked ==
  ASSUME NEW m \in Merges, NEW e, NEW f, NEW rs, NEW A, NEW B, AskedBut(m, e, rs, A),
         A \subseteq B, \A k \in Names \ B : f[k].val = e[k].val
  PROVE  AskedBut(m, f, rs, B)
<1> SUFFICES ASSUME NEW r \in rs, NEW d \in m.recipes, r.id = d.id, d.reads \notin B
             PROVE  UpToDate(d, r, f)
  BY DEF AskedBut
<1>1. UpToDate(d, r, e)
  BY DEF AskedBut
<1>2. d.reads \in Names
  BY MergeFormed DEF Formed
<1>3. Values(e)[d.reads] = Values(f)[d.reads]
  BY <1>2 DEF Values
<1>4. Generates(d, Values(e)) = Generates(d, Values(f))
  BY <1>3, GeneratesSame
<1> QED
  BY <1>1, <1>4 DEF UpToDate

\* A run anew of a comprehension stands for the one before.
LEMMA Anew ==
  ASSUME Typed, Flat(merge), WhollyListed(merge, Runs), NEW r \in Runs
  PROVE  LET fresh == Run(merge.recipes, Decl(r.id), Values(entry), runs + 1)
         IN /\ Decl(r.id) \in merge.recipes /\ Decl(r.id).id = r.id
            /\ fresh \in RunsMade /\ fresh.inner = <<>> /\ fresh.id = r.id
            /\ fresh.out = Generates(Decl(r.id), Values(entry))
            /\ WhollyListed(merge, (Runs \ {r}) \cup {fresh})
<1> DEFINE d == Decl(r.id)
           fresh == Run(merge.recipes, d, Values(entry), runs + 1)
<1>1. r \in RunsMade /\ r.inner = <<>>
  BY GivenIsOwn, SeqMember DEF Typed, Runs, ToSet, WhollyListed
<1>2. r.id \in Ids
  BY <1>1 DEF RunsMade
<1>3. d \in merge.recipes /\ d.id = r.id
  BY <1>2, DeclTyped
<1>4. Values(entry) \in Valued /\ runs + 1 \in Nat
  BY DEF Typed, Entries, Values, Valued
<1>5. /\ fresh \in RunsMade /\ fresh.inner = <<>> /\ fresh.id = d.id
      /\ fresh.out = Generates(d, Values(entry))
  BY <1>3, <1>4, FlatRun
<1> HIDE DEF d, fresh
<1>6. \E k \in merge.recipes, val \in Valued : fresh.id = k.id /\ fresh.out = Generates(k, val)
  BY <1>3, <1>4, <1>5
<1>7. WhollyListed(merge, (Runs \ {r}) \cup {fresh})
  BY <1>3, <1>5, <1>6, StillListed
<1> QED
  BY <1>3, <1>5, <1>7 DEF d, fresh

LEMMA RerunAsked ==
  ASSUME Typed, NEW rs, NEW fresh, NEW d \in merge.recipes, fresh.id = d.id,
         fresh.out = Generates(d, Values(entry)),
         NEW A, NEW B, AskedBut(merge, entry, rs, A), A \subseteq B,
         NEW e, \A k \in Names \ B : e[k].val = entry[k].val
  PROVE  AskedBut(merge, e, rs \cup {fresh}, B)
<1>1. merge \in Merges
  BY DEF Typed
<1>2. \A k \in merge.recipes : k.id = d.id => k = d
  BY <1>1, MergeFormed DEF Formed
<1>3. AskedBut(merge, entry, rs \cup {fresh}, A)
  BY <1>2 DEF AskedBut, UpToDate
<1> QED
  BY <1>1, <1>3, StillAsked

-----------------------------------------------------------------------------
(* Each step leaves a run up to date, or what it reads to be looked at *)

LEMMA EvaluateDecides ==
  ASSUME IInv, Decides, Evaluate
  PROVE  Decides'
<1>1. /\ mode' \in {"literal", "refused", "merge"}
      /\ mode' = "merge" => entry' = entry
      /\ merge' = merge
      /\ entry' = [n \in Names |->
                     [val |-> Whole(Conjuncts(merge.base, Values(entry))[n], Values(entry)),
                      conj |-> Conjuncts(merge.base, Values(entry))[n]]]
  BY DEF Evaluate
<1>2. mode' = "merge" =>
        \A n \in Names : entry'[n].conj = Conjuncts(merge.base, Values(entry))[n]
  BY <1>1
<1>3. (mode = "merge" => \A n \in Names : entry[n].conj = Conjuncts(merge.base, Values(entry))[n])'
  BY <1>1, <1>2 DEF Conjuncts, Values
<1> QED
  BY <1>1, <1>3 DEF Decides, Contents, Asked

LEMMA UnifyDecides ==
  ASSUME IInv, Decides, Unify
  PROVE  Decides'
<1> DEFINE rs == AllRuns(merge.recipes, Values(entry))
           kept == [i \in DOMAIN rs |-> Kept(rs[i])]
<1>1. /\ mode = "merge" /\ mode' \in {"refused", "seed"}
      /\ recipes' = FlattenSeq(kept)
      /\ merge' = merge /\ large' = large
  BY DEF Unify
<1> SUFFICES ASSUME Flat(merge), mode' = "seed"
             PROVE  /\ WhollyListed(merge, ToSet(recipes'))
                    /\ Composed(merge, entry', ToSet(recipes'))
                    /\ AskedBut(merge, entry', ToSet(recipes'), large \cup Merged(entry'))
  BY <1>1 DEF Decides, Contents, Asked, Merged
<1>2. /\ Typed /\ merge \in Merges
      /\ \A n \in Names : entry[n].conj = Conjuncts(merge.base, Values(entry))[n]
  BY <1>1 DEF IInv, Typed, Decides, Contents
<1>3. Values(entry) \in Valued
  BY <1>2 DEF Typed, Entries, Values, Valued
<1>4. /\ rs \in Seq(RunsMade)
      /\ ToSet(rs) = {Run(merge.recipes, d, Values(entry), 0) : d \in merge.recipes}
  BY <1>2, <1>3, AllRunsTyped, AllRunsIs
<1>5. \A d \in merge.recipes : LET r == Run(merge.recipes, d, Values(entry), 0)
                               IN /\ r.inner = <<>> /\ r.id = d.id /\ r \in RunsMade
                                  /\ r.out = Generates(d, Values(entry))
  BY <1>2, <1>3, FlatRun
<1>6. \A r \in ToSet(rs) : /\ r \in RunsMade /\ r.inner = <<>>
                           /\ \E d \in merge.recipes : /\ r.id = d.id
                                                       /\ r.out = Generates(d, Values(entry))
                                                       /\ r = Run(merge.recipes, d, Values(entry), 0)
  BY <1>4, <1>5
<1> HIDE DEF rs
<1>7. ToSet(recipes') = ToSet(rs)
  <2>1. \A i \in DOMAIN rs : rs[i] \in ToSet(rs) /\ kept[i] = <<rs[i]>> /\ ToSet(kept[i]) = {rs[i]}
    BY <1>6, KeptAlone DEF ToSet
  <2>2. kept \in Seq(Seq(RunsMade))
    <3> DEFINE g == [r \in RunsMade |-> Kept(r)]
    <3>1. g \in [RunsMade -> Seq(RunsMade)]
      BY KeptTyped
    <3>2. [i \in DOMAIN rs |-> g[rs[i]]] = kept
      BY <1>4
    <3> HIDE DEF g, kept
    <3> QED
      BY <1>4, <3>1, <3>2, SeqMapped
  <2>3. ToSet(FlattenSeq(kept)) = UNION {ToSet(kept[i]) : i \in DOMAIN kept}
    <3> HIDE DEF kept
    <3> QED
      BY <2>2, Flattened
  <2>4. DOMAIN kept = DOMAIN rs
    OBVIOUS
  <2>5. UNION {ToSet(kept[i]) : i \in DOMAIN kept} = {rs[i] : i \in DOMAIN rs}
    <3> HIDE DEF kept
    <3> QED
      BY <2>1, <2>4
  <2> QED
    BY <1>1, <2>3, <2>5 DEF ToSet
<1>8. WhollyListed(merge, ToSet(rs))
  <2>1. \A d \in merge.recipes, k \in merge.recipes : d.id = k.id => d = k
    BY <1>2, MergeFormed DEF Formed
  <2>2. \A r, s \in ToSet(rs) : r.id = s.id => r = s
    BY <1>6, <2>1
  <2>3. \A d \in merge.recipes : \E r \in ToSet(rs) : r.id = d.id
    BY <1>4, <1>5
  <2> QED
    BY <1>3, <1>6, <2>2, <2>3 DEF WhollyListed
<1>9. ASSUME NEW n \in Names
      PROVE  ToSet(entry'[n].conj) = ToSet(merge.base[n]) \cup ToSet(merge.added[n])
                                       \cup UNION {GivenBy(r, n) : r \in ToSet(rs)}
  <2>1. /\ merge.base[n] \in Seq(Conjs) /\ merge.added[n] \in Seq(Conjs)
        /\ Contributed(rs, n) \in Seq(Conjs)
    BY <1>2, <1>4, MergedTyped, ContributedTyped
  <2>2. entry[n].conj = merge.base[n] \o Contributed(rs, n)
    BY <1>2 DEF Conjuncts, rs
  <2>3. entry'[n].conj = entry[n].conj \o merge.added[n]
    BY Unified
  <2>4. /\ entry[n].conj \in Seq(Conjs)
        /\ ToSet(entry[n].conj) = ToSet(merge.base[n]) \cup ToSet(Contributed(rs, n))
    BY <2>1, <2>2, ConcatHolds, LenConcat
  <2>5. ToSet(entry'[n].conj) = ToSet(entry[n].conj) \cup ToSet(merge.added[n])
    BY <2>1, <2>3, <2>4, ConcatHolds
  <2>6. ToSet(Contributed(rs, n)) = UNION {GivenBy(r, n) : r \in ToSet(rs)}
    BY <1>2, <1>4, ContributedIs
  <2> QED
    BY <2>4, <2>5, <2>6
<1>10. AskedBut(merge, entry', ToSet(rs), large \cup Merged(entry'))
  <2> SUFFICES ASSUME NEW r \in ToSet(rs), NEW d \in merge.recipes, r.id = d.id,
                      d.reads \notin Merged(entry')
               PROVE  UpToDate(d, r, entry')
    BY DEF AskedBut
  <2>1. /\ d.reads \in Names /\ merge.base[d.reads] # <<>>
        /\ \A k \in merge.recipes : k.id = d.id => k = d
    BY <1>2, MergeFormed DEF Formed
  <2>2. r.out = Generates(d, Values(entry))
    BY <1>6, <2>1
  <2>3. entry'[d.reads].val = entry[d.reads].val
    BY <2>1, Unified
  <2>4. Values(entry)[d.reads] = Values(entry')[d.reads]
    BY <2>1, <2>3 DEF Values
  <2>5. Generates(d, Values(entry)) = Generates(d, Values(entry'))
    BY <2>4, GeneratesSame
  <2> QED
    BY <2>2, <2>5 DEF UpToDate
<1> QED
  BY <1>7, <1>8, <1>9, <1>10 DEF Composed

LEMMA SeedDecides ==
  ASSUME IInv, Decides, Seed
  PROVE  Decides'
<1>1. /\ mode = "seed" /\ mode' \in {"settled", "descend"}
      /\ mode' = "settled" => moved' = {}
      /\ moved' = Merged(entry)
      /\ UNCHANGED <<merge, large, entry, recipes>>
  BY DEF Seed
<1>2. Flat(merge) => AskedBut(merge, entry, ToSet(recipes), large \cup moved')
  BY <1>1 DEF Decides, Asked
<1>3. mode' = "settled" => large \cup moved' = large
  BY <1>1
<1> QED
  BY <1>1, <1>2, <1>3 DEF Decides, Contents, Asked

LEMMA DescendDecides ==
  ASSUME IInv, Decides, Descend
  PROVE  Decides'
<1> DEFINE stale == {n \in Merged(entry) : Settle(entry[n].val) # entry[n].val}
<1>1. /\ mode = "descend" /\ mode' = "sweep"
      /\ entry' = [n \in Names |-> IF n \in stale THEN [entry[n] EXCEPT !.val = Settle(@)]
                                   ELSE entry[n]]
      /\ moved' = moved \cup stale
      /\ UNCHANGED <<merge, large, recipes>>
  BY DEF Descend
<1> SUFFICES ASSUME Flat(merge)
             PROVE  /\ WhollyListed(merge, ToSet(recipes))
                    /\ Composed(merge, entry', ToSet(recipes))
                    /\ AskedBut(merge, entry', ToSet(recipes), large \cup moved')
  BY <1>1 DEF Decides, Contents, Asked
<1>2. /\ merge \in Merges /\ entry \in Entries
      /\ WhollyListed(merge, ToSet(recipes)) /\ Composed(merge, entry, ToSet(recipes))
      /\ AskedBut(merge, entry, ToSet(recipes), large \cup moved)
  BY <1>1 DEF IInv, Typed, Decides, Contents, Asked
<1>3. \A n \in Names : /\ entry'[n].conj = entry[n].conj
                       /\ n \notin moved' => entry'[n].val = entry[n].val
  BY <1>1, <1>2 DEF Entries
<1>4. Composed(merge, entry', ToSet(recipes))
  BY <1>2, <1>3, SameContents
<1>5. AskedBut(merge, entry', ToSet(recipes), large \cup moved')
  <2>1. large \cup moved \subseteq large \cup moved'
    BY <1>1
  <2>2. \A k \in Names \ (large \cup moved') : entry'[k].val = entry[k].val
    BY <1>3
  <2> QED
    BY <1>2, <2>1, <2>2, StillAsked
<1> QED
  BY <1>2, <1>4, <1>5

LEMMA SweepDecides ==
  ASSUME IInv, Decides, Sweep
  PROVE  Decides'
<1> DEFINE result == SweepResult(moved)
<1>1. /\ mode = "sweep" /\ mode' = "recipes"
      /\ entry' = result.entry /\ next' = result.moved /\ moved' = moved \cup result.moved
      /\ todo' = recipes
      /\ UNCHANGED <<merge, large, recipes>>
  BY DEF Sweep
<1> SUFFICES ASSUME Flat(merge)
             PROVE  /\ WhollyListed(merge, ToSet(recipes))
                    /\ Composed(merge, entry', ToSet(recipes))
                    /\ AskedBut(merge, entry', ToSet(recipes), large \cup next' \cup moved')
  <2>1. ToSet(recipes) \ ToSet(recipes) = {}
    OBVIOUS
  <2>2. AskedBut(merge, entry', ToSet(recipes) \ ToSet(recipes), large \cup next')
    BY <2>1 DEF AskedBut
  <2> QED
    BY <1>1, <2>2 DEF Decides, Contents, Asked
<1>2. /\ merge \in Merges
      /\ WhollyListed(merge, ToSet(recipes)) /\ Composed(merge, entry, ToSet(recipes))
      /\ AskedBut(merge, entry, ToSet(recipes), large \cup moved)
      /\ Typed /\ CurrentBut(entry, large \cup moved) /\ Covers(order, entry)
  BY <1>1 DEF IInv, Typed, Decides, Contents, Asked, Following, Ordered
<1>3. /\ \A n \in Names : result.entry[n].conj = entry[n].conj
      /\ \A n \in Names \ (large \cup result.moved) : result.entry[n].val = entry[n].val
  BY <1>2, SweepFollows
<1> HIDE DEF result
<1>4. Composed(merge, entry', ToSet(recipes))
  BY <1>1, <1>2, <1>3, SameContents
<1>5. AskedBut(merge, entry', ToSet(recipes), large \cup next' \cup moved')
  <2>1. large \cup moved \subseteq large \cup next' \cup moved'
    BY <1>1
  <2>2. \A k \in Names \ (large \cup next' \cup moved') : entry'[k].val = entry[k].val
    BY <1>1, <1>3
  <2> QED
    BY <1>2, <2>1, <2>2, StillAsked
<1> QED
  BY <1>2, <1>4, <1>5

LEMMA EndSweepDecides ==
  ASSUME IInv, Decides, EndSweep
  PROVE  Decides'
<1>1. /\ mode = "recipes" /\ todo = <<>> /\ mode' \in {"settled", "capped", "descend"}
      /\ mode' = "settled" => next = {}
      /\ moved' = next
      /\ UNCHANGED <<merge, large, entry, recipes>>
  BY DEF EndSweep
<1> SUFFICES ASSUME Flat(merge)
             PROVE  /\ WhollyListed(merge, ToSet(recipes))
                    /\ Composed(merge, entry, ToSet(recipes))
                    /\ AskedBut(merge, entry, ToSet(recipes), large \cup next)
  <2>1. mode' = "settled" => large \cup next = large
    BY <1>1
  <2> QED
    BY <1>1, <2>1 DEF Decides, Contents, Asked
<1>2. ToSet(recipes) \ ToSet(todo) = ToSet(recipes)
  BY <1>1 DEF ToSet
<1> QED
  BY <1>1, <1>2 DEF Decides, Contents, Asked

\* A run of the sweep is looked at.
LEMMA LookedAt ==
  ASSUME Typed, Flat(merge), WhollyListed(merge, Runs), todo # <<>>,
         NEW now, NEW e, NEW B,
         WhollyListed(merge, now), Composed(merge, e, now),
         AskedBut(merge, e, now \ ToSet(Tail(todo)), large \cup B),
         AskedBut(merge, e, now, large \cup B \cup moved),
         mode = "recipes", mode' = mode, merge' = merge, large' = large, moved' = moved,
         todo' = Tail(todo), next' = B, entry' = e, ToSet(recipes') = now
  PROVE  Decides'
  BY DEF Decides, Contents, Asked

\* What is conditional generates the same where it generates for the same fields.
LEMMA SameOut ==
  ASSUME NEW d, d.kind # "let", NEW v, NEW w,
         [i \in DOMAIN Generates(d, v) |-> Generates(d, v)[i].name]
           = [i \in DOMAIN Generates(d, w) |-> Generates(d, w)[i].name]
  PROVE  Generates(d, v) = Generates(d, w)
<1> DEFINE one == <<[name |-> d.into, conj |-> d.body]>>
<1>1. /\ Generates(d, v) \in {<<>>, one}
      /\ Generates(d, w) \in {<<>>, one}
  BY DEF Generates
<1>2. DOMAIN Generates(d, v) = DOMAIN Generates(d, w)
  <2> DEFINE f(o) == [i \in DOMAIN o |-> o[i].name]
  <2>1. \A o : DOMAIN f(o) = DOMAIN o
    OBVIOUS
  <2>2. f(Generates(d, v)) = f(Generates(d, w))
    OBVIOUS
  <2> HIDE DEF f
  <2> QED
    BY <2>1, <2>2
<1>3. DOMAIN <<>> # DOMAIN one
  <2>1. 1 \in DOMAIN one /\ 1 \notin DOMAIN <<>>
    OBVIOUS
  <2> QED
    BY <2>1
<1> QED
  BY <1>1, <1>2, <1>3

\* A run is looked at and its rerun stands for it.
LEMMA Replaced ==
  ASSUME Typed, Flat(merge), WhollyListed(merge, Runs), todo # <<>>,
         NEW r, NEW fresh, NEW d \in merge.recipes, d.id = r.id, fresh.id = r.id,
         fresh.out = Generates(d, Values(entry)),
         AskedBut(merge, entry, Runs \ ({r} \cup ToSet(Tail(todo))), large \cup next),
         AskedBut(merge, entry, Runs, large \cup next \cup moved),
         WhollyListed(merge, (Runs \ {r}) \cup {fresh}),
         Composed(merge, entry', (Runs \ {r}) \cup {fresh}),
         ToSet(recipes') = (Runs \ {r}) \cup {fresh},
         next \subseteq next', \A k \in Names \ next' : entry'[k].val = entry[k].val,
         mode = "recipes", mode' = mode, todo' = Tail(todo), UNCHANGED <<merge, large, moved>>
  PROVE  Decides'
<1> DEFINE now == (Runs \ {r}) \cup {fresh}
           left == Runs \ ({r} \cup ToSet(Tail(todo)))
<1>1. AskedBut(merge, entry', left \cup {fresh}, large \cup next')
  <2>1. large \cup next \subseteq large \cup next'
    OBVIOUS
  <2>2. \A k \in Names \ (large \cup next') : entry'[k].val = entry[k].val
    OBVIOUS
  <2> QED
    BY <2>1, <2>2, RerunAsked
<1>2. AskedBut(merge, entry', now \ ToSet(Tail(todo)), large \cup next')
  <2>1. now \ ToSet(Tail(todo)) \subseteq left \cup {fresh}
    OBVIOUS
  <2> HIDE DEF now, left
  <2> QED
    BY <1>1, <2>1 DEF AskedBut
<1>3. AskedBut(merge, entry', now, large \cup next' \cup moved)
  <2>1. large \cup next \cup moved \subseteq large \cup next' \cup moved
    OBVIOUS
  <2>2. \A k \in Names \ (large \cup next' \cup moved) : entry'[k].val = entry[k].val
    OBVIOUS
  <2>3. AskedBut(merge, entry, Runs \ {r}, large \cup next \cup moved)
    BY DEF AskedBut
  <2> QED
    BY <2>1, <2>2, <2>3, RerunAsked
<1> QED
  BY <1>2, <1>3, LookedAt

LEMMA RunRecipeDecides ==
  ASSUME IInv, Decides, RunRecipe
  PROVE  Decides'
<1> DEFINE r == Head(todo)
           d == Decl(r.id)
           fresh == Run(merge.recipes, d, Values(entry), runs + 1)
           now == (Runs \ {r}) \cup {fresh}
<1>1. /\ mode = "recipes" /\ mode' = mode /\ todo # <<>> /\ todo' = Tail(todo)
      /\ UNCHANGED <<merge, large, moved>>
  BY DEF RunRecipe
<1>2. CASE ~Flat(merge)
  BY <1>1, <1>2 DEF Decides
<1>3. CASE Flat(merge)
  <2>1. /\ Typed /\ merge \in Merges /\ WhollyListed(merge, Runs) /\ Composed(merge, entry, Runs)
        /\ AskedBut(merge, entry, Runs \ ToSet(todo), large \cup next)
        /\ AskedBut(merge, entry, Runs, large \cup next \cup moved)
    BY <1>1, <1>3 DEF IInv, Typed, Decides, Contents, Asked, Runs
  <2>2. ToSet(todo) \subseteq {r} \cup ToSet(Tail(todo))
    <3>1. todo \in Seq(RunsMade) /\ todo # <<>>
      BY <1>1, <2>1 DEF Typed
    <3>2. /\ Len(todo) \in Nat /\ DOMAIN todo = 1 .. Len(todo) /\ r = todo[1]
          /\ DOMAIN Tail(todo) = 1 .. Len(todo) - 1
          /\ \A i \in 1 .. Len(todo) - 1 : Tail(todo)[i] = todo[i + 1]
      BY <3>1
    <3>3. \A i \in 1 .. Len(todo) : i = 1 \/ (i - 1 \in 1 .. Len(todo) - 1 /\ (i - 1) + 1 = i)
      BY <3>2
    <3> HIDE DEF r
    <3>4. ASSUME NEW i \in 1 .. Len(todo) PROVE todo[i] \in {r} \cup ToSet(Tail(todo))
      <4>1. CASE i = 1
        BY <3>2, <4>1
      <4>2. CASE i - 1 \in 1 .. Len(todo) - 1 /\ (i - 1) + 1 = i
        <5>1. Tail(todo)[i - 1] = todo[i]
          BY <3>2, <4>2
        <5> QED
          BY <3>2, <4>2, <5>1 DEF ToSet
      <4> QED
        BY <3>3, <4>1, <4>2
    <3> QED
      BY <3>2, <3>4 DEF ToSet
  <2>3. AskedBut(merge, entry, Runs \ ({r} \cup ToSet(Tail(todo))), large \cup next)
    BY <2>1, <2>2 DEF AskedBut
  <2>4. ASSUME r \in Runs
        PROVE  /\ d \in merge.recipes /\ d.id = r.id
               /\ fresh \in RunsMade /\ fresh.inner = <<>> /\ fresh.id = r.id
               /\ fresh.out = Generates(d, Values(entry))
               /\ WhollyListed(merge, now)
    BY <1>3, <2>1, <2>4, Anew
  <2>5. ASSUME r \in Runs PROVE r \in RunsMade /\ r.inner = <<>>
    <3>1. r \in RunsMade
      BY <1>3, <2>1, <2>5, GivenIsOwn, SeqMember DEF Typed, Runs, ToSet
    <3> QED
      BY <2>1, <2>5, <3>1 DEF WhollyListed
  <2>6. ASSUME UNCHANGED <<entry, recipes, runs, order, next>>,
               r \in Runs => d.reads \in large \cup next \/ UpToDate(d, r, entry)
        PROVE  Decides'
    <3>1. AskedBut(merge, entry, Runs \ ToSet(Tail(todo)), large \cup next)
      <4> SUFFICES ASSUME NEW s \in Runs \ ToSet(Tail(todo)), NEW k \in merge.recipes, s.id = k.id
                   PROVE  k.reads \in large \cup next \/ UpToDate(k, s, entry)
        BY DEF AskedBut
      <4>1. CASE s = r
        <5>1. k = d
          BY <2>1, <2>4, <4>1, MergeFormed DEF Formed
        <5> QED
          BY <2>6, <4>1, <5>1
      <4>2. CASE s # r
        BY <2>3, <4>2 DEF AskedBut
      <4> QED
        BY <4>1, <4>2
    <3>2. ToSet(recipes') = Runs
      BY <2>6 DEF Runs
    <3> QED
      BY <1>1, <1>3, <2>1, <2>6, <3>1, <3>2, LookedAt
  <2>7. CASE ~Reruns(r) /\ UNCHANGED <<entry, recipes, runs, order, next>>
    <3>1. r \in Runs => d.reads \notin moved
      BY <2>7 DEF Reruns, Among, Runs, ToSet
    <3>2. r \in Runs => d.reads \in large \cup next \/ UpToDate(d, r, entry)
      BY <2>1, <2>4, <3>1 DEF AskedBut
    <3> QED
      BY <2>6, <2>7, <3>2
  <2>8. CASE /\ Reruns(r) /\ SameDecision(r, fresh) /\ d.kind # "let"
             /\ UNCHANGED <<entry, recipes, runs, order, next>>
    <3>1. r \in Runs
      BY <2>8 DEF Reruns, Among, Runs, ToSet
    <3>2. PICK k \in merge.recipes, val \in Valued : r.id = k.id /\ r.out = Generates(k, val)
      BY <2>1, <3>1 DEF WhollyListed
    <3>3. k = d
      BY <2>1, <2>4, <3>1, <3>2, MergeFormed DEF Formed
    <3>4. fresh.out = Generates(d, Values(entry))
      BY <2>4, <3>1
    <3> HIDE DEF r, fresh, d
    <3>5. [i \in DOMAIN r.out |-> r.out[i].name] = [i \in DOMAIN fresh.out |-> fresh.out[i].name]
      BY <2>8 DEF SameDecision
    <3>6. Generates(d, val) = Generates(d, Values(entry))
      BY <2>8, <3>2, <3>3, <3>4, <3>5, SameOut
    <3>7. UpToDate(d, r, entry)
      BY <3>2, <3>3, <3>6 DEF UpToDate
    <3> QED
      BY <2>6, <2>8, <3>7
  <2>9. CASE /\ Reruns(r) /\ SameDecision(r, fresh)
             /\ entry' = Adopt(r, fresh) /\ recipes' = InPlace(r, fresh)
             /\ next' = next \cup Changed(entry') \cup (Retracted(r) \cap large)
    <3>1. r \in Runs
      BY <2>9 DEF Reruns, Among, Runs, ToSet
    <3>2. /\ d \in merge.recipes /\ d.id = r.id
          /\ fresh \in RunsMade /\ fresh.inner = <<>> /\ fresh.id = r.id
          /\ fresh.out = Generates(d, Values(entry))
          /\ WhollyListed(merge, now)
          /\ r \in RunsMade /\ r.inner = <<>>
      BY <2>4, <2>5, <3>1
    <3> HIDE DEF r, fresh, d
    <3>3. Generated(fresh) = Generated(r)
      <4> DEFINE names(o) == [i \in DOMAIN o |-> o[i].name]
      <4>1. names(r.out) = names(fresh.out)
        BY <2>9 DEF SameDecision
      <4>2. Generated(r) = {names(r.out)[i] : i \in DOMAIN names(r.out)}
        BY DEF Generated
      <4>3. Generated(fresh) = {names(fresh.out)[i] : i \in DOMAIN names(fresh.out)}
        BY DEF Generated
      <4> HIDE DEF names
      <4> QED
        BY <4>1, <4>2, <4>3
    <3>4. Composed(merge, entry', now)
      BY <1>3, <2>1, <2>9, <3>1, <3>2, <3>3, AdoptComposed
    <3>5. ToSet(recipes') = now
      BY <2>1, <2>9, <3>1, <3>2, InPlaceIs
    <3>6. next \subseteq next' /\ \A k \in Names \ next' : entry'[k].val = entry[k].val
      BY <2>9 DEF Changed
    <3> QED
      BY <1>1, <1>3, <2>1, <2>3, <3>2, <3>4, <3>5, <3>6, Replaced
  <2>10. CASE /\ Reruns(r)
              /\ entry' = MergeGenerated(Retract(r), fresh) /\ recipes' = Drop(r) \o Kept(fresh)
              /\ next' = next \cup Retracted(r) \cup Generated(fresh)
    <3>1. r \in Runs
      BY <2>10 DEF Reruns, Among, Runs, ToSet
    <3>2. /\ d \in merge.recipes /\ d.id = r.id
          /\ fresh \in RunsMade /\ fresh.inner = <<>> /\ fresh.id = r.id
          /\ fresh.out = Generates(d, Values(entry))
          /\ WhollyListed(merge, now)
          /\ r \in RunsMade /\ r.inner = <<>>
      BY <2>4, <2>5, <3>1
    <3> HIDE DEF r, fresh, d
    <3>4. Composed(merge, entry', now)
      BY <1>3, <2>1, <2>10, <3>1, <3>2, AnewComposed
    <3>5. ToSet(recipes') = now
      <4>1. Drop(r) \in Seq(RunsMade) /\ Kept(fresh) \in Seq(RunsMade) /\ Kept(fresh) = <<fresh>>
        BY <2>1, <3>2, DropTyped, KeptTyped, KeptAlone
      <4>2. ToSet(Drop(r) \o Kept(fresh)) = ToSet(Drop(r)) \cup ToSet(Kept(fresh))
        BY <4>1, ConcatHolds
      <4>3. ToSet(<<fresh>>) = {fresh}
        BY DEF ToSet
      <4> QED
        BY <2>1, <2>10, <3>2, <4>1, <4>2, <4>3, DropIs
    <3>6. next \subseteq next' /\ \A k \in Names \ next' : entry'[k].val = entry[k].val
      <4>1. ASSUME NEW k \in Names, k \notin next' PROVE entry'[k] = entry[k]
        <5>1. k \notin Retracted(r) /\ k \notin Generated(fresh)
          BY <2>10, <4>1
        <5>2. Retract(r)[k] = entry[k]
          BY <5>1 DEF Retract
        <5> QED
          BY <2>10, <5>1, <5>2 DEF MergeGenerated
      <4> QED
        BY <2>10, <4>1
    <3> QED
      BY <1>1, <1>3, <2>1, <2>3, <3>2, <3>4, <3>5, <3>6, Replaced
  <2> QED
    BY <2>7, <2>8, <2>9, <2>10 DEF RunRecipe
<1> QED
  BY <1>2, <1>3

LEMMA InitDecides ==
  ASSUME Init
  PROVE  Decides
  BY DEF Init, Decides, Contents, Asked

LEMMA AlwaysDecides == Spec => []Decides
<1>1. Init => Decides
  BY InitDecides
<1>2. ASSUME IInv, Decides, [Next]_vars PROVE Decides'
  <2>1. CASE UNCHANGED vars \/ Ended
    <3>1. UNCHANGED <<merge, large, entry, recipes, moved, next, todo, mode>>
      BY <2>1 DEF Ended, vars
    <3>2. /\ Merged(entry') = Merged(entry)
          /\ Conjuncts(merge.base, Values(entry))' = Conjuncts(merge.base, Values(entry))
      BY <3>1 DEF Conjuncts, Values
    <3> QED
      BY <1>2, <3>1, <3>2 DEF Decides, Contents, Asked, Merged
  <2>2. CASE Fail
    BY <2>2 DEF Fail, Decides, Contents, Asked
  <2> QED
    BY <1>2, <2>1, <2>2, EvaluateDecides, UnifyDecides, SeedDecides, DescendDecides, SweepDecides,
       RunRecipeDecides, EndSweepDecides DEF Next
<1> QED
  BY <1>1, <1>2, AlwaysFollows, PTL DEF Spec

-----------------------------------------------------------------------------
(* Where the loop settles *)

\* What a comprehension generates from a value too large to compare may be what it
\* was.
LEMMA GeneratedDownstream ==
  ASSUME Typed, NEW d \in merge.recipes, d.reads \in large
  PROVE  d.into \in Downstream
<1> DEFINE N == Cardinality(Names)
           S == SUBSET (Names \cup {"none"})
           sees(T) == {n \in Names : ReadsAny(entry[n].conj, T)} \cup
                      {k.into : k \in {k \in merge.recipes : k.reads \in T}} \cup
                      {k.into : k \in {k \in merge.recipes :
                                         \E i \in merge.recipes : k.within = i.id /\ i.reads \in T}}
           step == [p \in S \X (1 .. N) |-> p[1] \cup sees(p[1])]
<1>1. \A k \in merge.recipes : k.into \in Names \cup {"none"} /\ k.reads \in Names
  BY MergeFormed DEF Typed, Formed
<1>2. N \in Nat /\ N >= 1
  <2>1. IsFiniteSet(Names) /\ Names # {}
    BY <1>1, MergesFormed
  <2>2. N \in Nat /\ N # 0
    BY <2>1, FS_CardinalityType, FS_EmptySet
  <2> HIDE DEF N
  <2> QED
    BY <2>2
<1>3. \A T \in S : sees(T) \in S
  BY <1>1
<1>4. large \in S
  BY DEF Typed
<1>5. d.into \in sees(large)
  OBVIOUS
<1>6. step \in [S \X (1 .. N) -> S] /\ \A T \in S, i \in 1 .. N : step[<<T, i>>] = T \cup sees(T)
  <2> HIDE DEF S, sees
  <2>1. \A T \in S : T \cup sees(T) \in S
    BY <1>3 DEF S
  <2> QED
    BY <2>1
<1> HIDE DEF N, step, S
<1>7. PICK f : Follows(f, S, large, N, step)
  BY <1>2, <1>4, <1>6, Iterates
<1>8. /\ f \in [0 .. N -> S] /\ f[0] = large
      /\ \A i \in 1 .. N : f[i] = f[i - 1] \cup sees(f[i - 1])
  <2> HIDE DEF sees
  <2>1. /\ f \in [0 .. N -> S] /\ f[0] = large
        /\ \A i \in 1 .. N : f[i] = step[<<f[i - 1], i>>]
    BY <1>7 DEF Follows
  <2>2. \A i \in 1 .. N : f[i - 1] \in S
    BY <1>2, <2>1
  <2> QED
    BY <1>6, <2>1, <2>2
<1> DEFINE F(g) == [k \in 0 .. N |-> IF k = 0 THEN large
                                      ELSE LET e == g[k - 1] IN e \cup sees(e)]
           u == CHOOSE g : g = F(g)
<1>9. Downstream = u[N]
  BY DEF Downstream, N
<1> HIDE DEF sees
<1>10. f = F(f)
  BY <1>2, <1>8
<1>11. u = F(u)
  BY <1>10
<1>12. u[0] = large /\ \A k \in 1 .. N : u[k] = u[k - 1] \cup sees(u[k - 1])
  <2>1. 0 \in 0 .. N /\ \A k \in 1 .. N : k \in 0 .. N /\ k # 0
    BY <1>2
  <2> HIDE DEF u
  <2>2. u[0] = F(u)[0] /\ \A k \in 1 .. N : u[k] = F(u)[k]
    <3> HIDE DEF F
    <3> QED
      BY <1>11, <2>1
  <2> QED
    BY <2>1, <2>2
<1> HIDE DEF u
<1> DEFINE T == {k \in 0 .. N : k = 0 \/ d.into \in u[k]}
<1>13. 0 \in T
  BY <1>2
<1>14. ASSUME NEW k \in 1 .. N, k - 1 \in T PROVE k \in T
  <2>1. k \in 0 .. N
    BY <1>2
  <2>2. CASE k - 1 = 0
    <3>1. u[k] = large \cup sees(large)
      BY <1>12, <2>2
    <3> QED
      BY <1>5, <2>1, <3>1
  <2>3. CASE d.into \in u[k - 1]
    BY <1>12, <2>1, <2>3
  <2> QED
    BY <1>14, <2>2, <2>3
<1>15. 0 .. N \subseteq T
  <2> HIDE DEF T
  <2> QED
    BY <1>2, <1>13, <1>14, Upward
<1>16. N \in 0 .. N /\ N # 0
  BY <1>2
<1> QED
  BY <1>9, <1>15, <1>16

LEMMA SettledAsDecided ==
  ASSUME IInv, Decides, Flat(merge)
  PROVE  GeneratedAsDecided
<1> SUFFICES ASSUME mode = "settled", NEW n \in Names \ Downstream
             PROVE  ToSet(entry[n].conj) = ToSet(Conjuncts(Literals, Values(entry))[n])
  BY DEF GeneratedAsDecided
<1> DEFINE rs == AllRuns(merge.recipes, Values(entry))
<1>1. /\ Typed /\ merge \in Merges /\ WhollyListed(merge, Runs) /\ Composed(merge, entry, Runs)
      /\ AskedBut(merge, entry, Runs, large)
  BY DEF IInv, Typed, Decides, Contents, Asked, Runs
<1>2. Values(entry) \in Valued
  BY <1>1 DEF Typed, Entries, Values, Valued
<1>3. /\ rs \in Seq(RunsMade)
      /\ ToSet(rs) = {Run(merge.recipes, d, Values(entry), 0) : d \in merge.recipes}
  BY <1>1, <1>2, AllRunsTyped, AllRunsIs
<1> HIDE DEF rs
<1>4. ToSet(Conjuncts(Literals, Values(entry))[n])
        = ToSet(merge.base[n]) \cup ToSet(merge.added[n]) \cup UNION {GivenBy(r, n) : r \in ToSet(rs)}
  <2>1. /\ merge.base[n] \in Seq(Conjs) /\ merge.added[n] \in Seq(Conjs)
        /\ Contributed(rs, n) \in Seq(Conjs)
    BY <1>1, <1>3, MergedTyped, ContributedTyped
  <2>2. Conjuncts(Literals, Values(entry))[n] = (merge.base[n] \o merge.added[n]) \o Contributed(rs, n)
    BY DEF Conjuncts, Literals, rs
  <2>3. /\ merge.base[n] \o merge.added[n] \in Seq(Conjs)
        /\ ToSet(merge.base[n] \o merge.added[n]) = ToSet(merge.base[n]) \cup ToSet(merge.added[n])
    BY <2>1, ConcatHolds, LenConcat
  <2> DEFINE left == merge.base[n] \o merge.added[n]
  <2>4. left \in Seq(Conjs)
    BY <2>3
  <2> HIDE DEF left
  <2>5. ToSet(left \o Contributed(rs, n)) = ToSet(left) \cup ToSet(Contributed(rs, n))
    BY <2>1, <2>4, ConcatHolds
  <2>6. ToSet(Contributed(rs, n)) = UNION {GivenBy(r, n) : r \in ToSet(rs)}
    BY <1>1, <1>3, ContributedIs
  <2> QED
    BY <2>2, <2>3, <2>5, <2>6 DEF left
<1>5. ASSUME NEW r \in Runs, NEW d \in merge.recipes, r.id = d.id
      PROVE  GivenBy(r, n) = GivenBy(Run(merge.recipes, d, Values(entry), 0), n)
  <2> DEFINE s == Run(merge.recipes, d, Values(entry), 0)
  <2>1. s.out = Generates(d, Values(entry))
    BY <1>1, <1>2, FlatRun
  <2> HIDE DEF s
  <2>2. CASE d.reads \notin large
    <3>1. r.out = s.out
      BY <1>1, <1>5, <2>1, <2>2 DEF AskedBut, UpToDate
    <3> QED
      BY <3>1 DEF GivenBy, s
  <2>3. CASE d.reads \in large
    <3>1. d.into # n
      BY <1>1, <2>3, GeneratedDownstream
    <3>2. PICK k \in merge.recipes, val \in Valued : r.id = k.id /\ r.out = Generates(k, val)
      BY <1>1 DEF WhollyListed
    <3>3. k = d
      BY <1>1, <1>5, <3>2, MergeFormed DEF Formed
    <3>4. \A o \in ToSet(r.out) \cup ToSet(s.out) : o.name # n
      BY <1>1, <1>2, <2>1, <3>1, <3>2, <3>3, GeneratesOne
    <3> QED
      BY <3>4 DEF GivenBy, s
  <2> QED
    BY <2>2, <2>3
<1>6. UNION {GivenBy(r, n) : r \in ToSet(rs)} = UNION {GivenBy(r, n) : r \in Runs}
  <2>1. ASSUME NEW s \in ToSet(rs) PROVE \E r \in Runs : GivenBy(s, n) = GivenBy(r, n)
    <3>1. PICK d \in merge.recipes : s = Run(merge.recipes, d, Values(entry), 0)
      BY <1>3
    <3>2. PICK r \in Runs : r.id = d.id
      BY <1>1 DEF WhollyListed
    <3> QED
      BY <1>5, <3>1, <3>2
  <2>2. ASSUME NEW r \in Runs PROVE \E s \in ToSet(rs) : GivenBy(s, n) = GivenBy(r, n)
    <3>1. PICK d \in merge.recipes : r.id = d.id
      BY <1>1 DEF WhollyListed
    <3> QED
      BY <1>3, <1>5, <3>1
  <2> QED
    BY <2>1, <2>2
<1> QED
  BY <1>1, <1>4, <1>6 DEF Composed

-----------------------------------------------------------------------------
(* Whatever is merged: once the loop settles, a field holds what its literals    *)
(* declare and what the comprehensions generate from the values that stand, and  *)
(* nothing that one generated before, though only those that read a moved name   *)
(* ran again.  This is where no comprehension stands in the body of another and  *)
(* no value one generates is shared with an equal one of another conjunct; what  *)
(* a value too large to compare reaches is not covered.                          *)
THEOREM GeneratedWhereFlat == Spec => [](Flat(merge) => GeneratedAsDecided)
<1>1. IInv /\ Decides => (Flat(merge) => GeneratedAsDecided)
  BY SettledAsDecided
<1> QED
  BY <1>1, AlwaysFollows, AlwaysDecides, PTL
=============================================================================
