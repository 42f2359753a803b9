-------------------------- MODULE DisjunctionProofs --------------------------
(***************************************************************************)
(* Disjunctions admit and prefer what they mean, for any constraints on a  *)
(* field, met in any order and grouping.  A value not decided yet stands   *)
(* for all it may come to: it admits some points surely and may admit      *)
(* others.  What the constraints admit together always lies between what   *)
(* is left admits surely and what it may admit; a value written is decided.*)
(***************************************************************************)
EXTENDS Disjunction, SequenceTheorems, FiniteSetTheorems, TLAPS

-----------------------------------------------------------------------------
(* Counting up, and functions defined step by step *)

(* Any set of naturals that is not empty has a least member. *)
LEMMA Least ==
  ASSUME NEW T \in SUBSET Nat, T # {}
  PROVE  \E m \in T : \A k \in T : m <= k
<1>1. PICK m \in T : \A k \in T : <<k, m>> \notin OpToRel(<, Nat)
  BY NatLessThanWellFounded, WFMin
<1>2. \A k \in T : ~(k < m)
  BY <1>1 DEF OpToRel
<1> QED
  BY <1>2

(* A set of indices that holds the first and with each the next holds all. *)
LEMMA Upward ==
  ASSUME NEW N \in Nat, NEW T, 0 \in T, \A i \in 1 .. N : i - 1 \in T => i \in T
  PROVE  0 .. N \subseteq T
<1> DEFINE Bad == (0 .. N) \ T
<1>1. SUFFICES ASSUME Bad # {} PROVE FALSE
  OBVIOUS
<1>2. PICK m \in Bad : \A k \in Bad : m <= k
  <2>1. Bad \in SUBSET Nat
    OBVIOUS
  <2> HIDE DEF Bad
  <2> QED
    BY <1>1, <2>1, Least
<1>3. m \in 1 .. N /\ m - 1 \in 0 .. N /\ m - 1 < m
  BY <1>2
<1>4. m - 1 \notin Bad
  BY <1>2, <1>3
<1> QED
  BY <1>2, <1>3, <1>4

\* The states that steps lead to one after the other.
Follows(f, S, init, N, step) ==
  /\ f \in [0 .. N -> S]
  /\ f[0] = init
  /\ \A i \in 1 .. N : f[i] = step[<<f[i - 1], i>>]

(* Steps from a state to a state, begun in one, can be followed to the end. *)
LEMMA Iterates ==
  ASSUME NEW S, NEW init \in S, NEW N \in Nat, NEW step \in [S \X (1 .. N) -> S]
  PROVE  \E f : Follows(f, S, init, N, step)
<1> DEFINE Goes(k) ==
             \E f \in [0 .. k -> S] :
               f[0] = init /\ \A i \in 1 .. k : f[i] = step[<<f[i - 1], i>>]
           T == {k \in 0 .. N : Goes(k)}
<1>1. 0 \in T
  <2> DEFINE f == [i \in 0 .. 0 |-> init]
  <2>1. f \in [0 .. 0 -> S] /\ f[0] = init
    OBVIOUS
  <2>2. \A i \in 1 .. 0 : f[i] = step[<<f[i - 1], i>>]
    OBVIOUS
  <2>3. Goes(0)
    BY <2>1, <2>2
  <2> QED
    BY <2>3
<1>2. ASSUME NEW i \in 1 .. N, i - 1 \in T PROVE i \in T
  <2>1. PICK f \in [0 .. i - 1 -> S] :
          f[0] = init /\ \A j \in 1 .. i - 1 : f[j] = step[<<f[j - 1], j>>]
    BY <1>2
  <2> DEFINE g == [j \in 0 .. i |-> IF j = i THEN step[<<f[i - 1], i>>] ELSE f[j]]
  <2>2. f[i - 1] \in S /\ step[<<f[i - 1], i>>] \in S
    BY <2>1
  <2>3. g \in [0 .. i -> S]
    BY <2>1, <2>2
  <2>4. \A j \in 1 .. i : g[j] = step[<<g[j - 1], j>>]
    <3>1. ASSUME NEW j \in 1 .. i - 1 PROVE g[j] = f[j] /\ g[j - 1] = f[j - 1]
      OBVIOUS
    <3>2. g[i] = step[<<f[i - 1], i>>] /\ g[i - 1] = f[i - 1]
      OBVIOUS
    <3>3. \A j \in 1 .. i : j = i \/ j \in 1 .. i - 1
      OBVIOUS
    <3> HIDE DEF g
    <3>4. \A j \in 1 .. i - 1 : g[j] = step[<<g[j - 1], j>>]
      BY <2>1, <3>1
    <3> QED
      BY <3>2, <3>3, <3>4
  <2>5. g[0] = init
    BY <2>1
  <2>6. Goes(i)
    BY <2>3, <2>4, <2>5
  <2> QED
    BY <2>6
<1>3. N \in T
  <2> HIDE DEF T
  <2>1. 0 .. N \subseteq T
    BY <1>1, <1>2, Upward
  <2> QED
    BY <2>1
<1> QED
  BY <1>3 DEF Follows

-----------------------------------------------------------------------------
(* Members of lists *)

Within(x, s) == \E i \in DOMAIN s : s[i] = x

LEMMA ConcatMembers ==
  ASSUME NEW S, NEW s \in Seq(S), NEW t \in Seq(S)
  PROVE  /\ s \o t \in Seq(S)
         /\ \A x : Within(x, s \o t) <=> Within(x, s) \/ Within(x, t)
<1>1. /\ Len(s) \in Nat /\ Len(t) \in Nat
      /\ s \o t \in Seq(S) /\ Len(s \o t) = Len(s) + Len(t)
      /\ \A i \in 1 .. Len(s) + Len(t) : (s \o t)[i] = IF i <= Len(s) THEN s[i] ELSE t[i - Len(s)]
      /\ DOMAIN s = 1 .. Len(s) /\ DOMAIN t = 1 .. Len(t) /\ DOMAIN (s \o t) = 1 .. Len(s) + Len(t)
  OBVIOUS
<1> DEFINE u == s \o t
<1>2. ASSUME NEW x, Within(x, u) PROVE Within(x, s) \/ Within(x, t)
  <2>1. PICK i \in 1 .. Len(s) + Len(t) : u[i] = x
    BY <1>1, <1>2 DEF Within
  <2>2. CASE i <= Len(s)
    BY <1>1, <2>1, <2>2 DEF Within
  <2>3. CASE ~(i <= Len(s))
    <3>1. i - Len(s) \in 1 .. Len(t) /\ t[i - Len(s)] = x
      BY <1>1, <2>1, <2>3
    <3> QED
      BY <1>1, <3>1 DEF Within
  <2> QED
    BY <2>2, <2>3
<1>3. ASSUME NEW x, Within(x, s) PROVE Within(x, u)
  <2>1. PICK i \in 1 .. Len(s) : s[i] = x
    BY <1>1, <1>3 DEF Within
  <2>2. i \in 1 .. Len(s) + Len(t) /\ u[i] = x
    BY <1>1, <2>1
  <2> HIDE DEF u
  <2> QED
    BY <1>1, <2>2 DEF Within, u
<1>4. ASSUME NEW x, Within(x, t) PROVE Within(x, u)
  <2>1. PICK i \in 1 .. Len(t) : t[i] = x
    BY <1>1, <1>4 DEF Within
  <2>2. i + Len(s) \in 1 .. Len(s) + Len(t) /\ u[i + Len(s)] = x
    BY <1>1, <2>1
  <2> QED
    BY <1>1, <2>2 DEF Within
<1> QED
  BY <1>1, <1>2, <1>3, <1>4

LEMMA Flattened ==
  ASSUME NEW X, NEW ss \in Seq(Seq(X))
  PROVE  /\ FlattenSeq(ss) \in Seq(X)
         /\ \A x : Within(x, FlattenSeq(ss)) <=> \E r \in DOMAIN ss : Within(x, ss[r])
<1> DEFINE N == Len(ss)
           S == Seq(X)
           next1(s, i) == IF i = 1 THEN ss[i] ELSE s \o ss[i]
           step == [p \in S \X (1 .. N) |-> next1(p[1], p[2])]
<1>1. N \in Nat /\ DOMAIN ss = 1 .. N /\ \A i \in 1 .. N : ss[i] \in S
  OBVIOUS
<1>2. \A s \in S, i \in 1 .. N : next1(s, i) \in S
  BY <1>1
<1>3. step \in [S \X (1 .. N) -> S]
  <2> HIDE DEF next1, S
  <2> QED
    BY <1>2
<1>4. PICK f : Follows(f, S, <<>>, N, step)
  <2>1. <<>> \in S
    OBVIOUS
  <2> HIDE DEF step, N, S, next1
  <2> QED
    BY <1>1, <1>3, <2>1, Iterates
<1>5. /\ f \in [0 .. N -> S]
      /\ \A i \in 1 .. N : f[i] = next1(f[i - 1], i)
  <2>1. /\ f \in [0 .. N -> S]
        /\ \A i \in 1 .. N : f[i] = step[<<f[i - 1], i>>]
    BY <1>4 DEF Follows
  <2>2. \A i \in 1 .. N : f[i - 1] \in S
    <3>1. \A i \in 1 .. N : i - 1 \in 0 .. N
      BY <1>1
    <3> HIDE DEF S, next1, N, step
    <3> QED
      BY <2>1, <3>1
  <2> HIDE DEF next1, S
  <2> QED
    BY <2>1, <2>2
<1> DEFINE F(g) == [i \in 1 .. N |-> IF i = 1 THEN ss[i] ELSE g[i - 1] \o ss[i]]
           u == CHOOSE g : g = F(g)
           h == [i \in 1 .. N |-> f[i]]
<1>6. h = F(h)
  <2>1. ASSUME NEW i \in 1 .. N PROVE h[i] = F(h)[i]
    <3>1. CASE i = 1
      BY <1>5, <3>1
    <3>2. CASE i # 1
      <4>1. i - 1 \in 1 .. N
        BY <1>1, <3>2
      <4> QED
        BY <1>5, <3>2, <4>1
    <3> QED
      BY <3>1, <3>2
  <2> QED
    BY <2>1
<1>7. u = F(u)
  BY <1>6
<1>8. \A i \in 1 .. N : u[i] = next1(u[i - 1], i)
  <2> HIDE DEF u
  <2> QED
    BY <1>1, <1>7
<1>9. N # 0 => FlattenSeq(ss) = u[N]
  BY DEF FlattenSeq
<1> DEFINE Holds(i) == \A x : Within(x, u[i]) <=> \E r \in 1 .. i : Within(x, ss[r])
<1>10. \A i \in 1 .. N : u[i] \in S /\ Holds(i)
  <2> HIDE DEF u, F, step, h
  <2> DEFINE T == {0} \cup {i \in 1 .. N : u[i] \in S /\ Holds(i)}
  <2>1. 0 \in T
    OBVIOUS
  <2>2. ASSUME NEW i \in 1 .. N, i - 1 \in T PROVE i \in T
    <3>1. CASE i = 1
      <4>1. u[i] = ss[i] /\ ss[i] \in S
        BY <1>1, <1>8, <3>1
      <4>2. Holds(i)
        BY <3>1, <4>1
      <4> QED
        BY <4>1, <4>2
    <3>2. CASE i # 1
      <4>1. u[i - 1] \in S /\ Holds(i - 1) /\ ss[i] \in S /\ i - 1 \in 1 .. N
        BY <1>1, <2>2, <3>2
      <4>2. u[i] = u[i - 1] \o ss[i]
        BY <1>8, <3>2
      <4>3. u[i] \in S /\ \A x : Within(x, u[i]) <=> Within(x, u[i - 1]) \/ Within(x, ss[i])
        BY <4>1, <4>2, ConcatMembers
      <4>4. 1 .. i = (1 .. i - 1) \cup {i}
        BY <1>1
      <4>5. Holds(i)
        BY <4>1, <4>3, <4>4
      <4> QED
        BY <4>3, <4>5
    <3> QED
      BY <3>1, <3>2
  <2>3. 0 .. N \subseteq T
    <3> HIDE DEF T, N
    <3> QED
      BY <1>1, <2>1, <2>2, Upward
  <2>4. ASSUME NEW i \in 1 .. N PROVE i \in T /\ i # 0
    <3>1. i \in 0 .. N /\ i # 0
      BY <1>1
    <3> HIDE DEF T
    <3> QED
      BY <2>3, <3>1
  <2> HIDE DEF Holds, N, S
  <2> QED
    BY <2>4
<1>11. CASE N = 0
  <2>1. ss = <<>>
    BY <1>11
  <2>2. DOMAIN ss = {} /\ FlattenSeq(ss) = <<>>
    BY <1>11, <2>1 DEF FlattenSeq
  <2> QED
    BY <2>2 DEF Within
<1>12. CASE N # 0
  <2> HIDE DEF u, F, step, h
  <2>1. N \in 1 .. N
    BY <1>1, <1>12
  <2>2. u[N] \in S /\ Holds(N)
    <3> HIDE DEF Holds
    <3> QED
      BY <1>10, <2>1
  <2> QED
    BY <1>1, <1>9, <1>12, <2>2
<1> QED
  BY <1>11, <1>12

LEMMA Removed ==
  ASSUME NEW S, NEW s \in Seq(S), NEW j \in DOMAIN s
  PROVE  /\ RemoveAt(s, j) \in Seq(S) /\ Len(RemoveAt(s, j)) = Len(s) - 1
         /\ \A x : Within(x, RemoveAt(s, j)) <=> \E k \in DOMAIN s \ {j} : s[k] = x
<1> DEFINE a == SubSeq(s, 1, j - 1)
           b == SubSeq(s, j + 1, Len(s))
<1>1. Len(s) \in Nat /\ DOMAIN s = 1 .. Len(s) /\ j \in 1 .. Len(s)
  OBVIOUS
<1>2. /\ a \in Seq(S) /\ Len(a) = j - 1 /\ DOMAIN a = 1 .. j - 1
      /\ \A i \in 1 .. j - 1 : a[i] = s[i]
  BY <1>1
<1>3. /\ b \in Seq(S) /\ Len(b) = Len(s) - j /\ DOMAIN b = 1 .. Len(s) - j
      /\ \A i \in 1 .. Len(s) - j : b[i] = s[i + j]
  BY <1>1
<1> HIDE DEF a, b
<1>4. /\ a \o b \in Seq(S) /\ Len(a \o b) = Len(s) - 1
      /\ \A x : Within(x, a \o b) <=> Within(x, a) \/ Within(x, b)
  <2>1. a \in Seq(S) /\ b \in Seq(S)
    BY <1>2, <1>3
  <2>2. /\ a \o b \in Seq(S)
        /\ \A x : Within(x, a \o b) <=> Within(x, a) \/ Within(x, b)
    BY <2>1, ConcatMembers
  <2>3. Len(a \o b) = Len(a) + Len(b)
    BY <2>1
  <2>4. Len(a) + Len(b) = Len(s) - 1
    BY <1>1, <1>2, <1>3
  <2> QED
    BY <2>2, <2>3, <2>4
<1>5. ASSUME NEW k \in DOMAIN s \ {j}, NEW x, s[k] = x PROVE Within(x, a) \/ Within(x, b)
  <2>1. CASE k < j
    BY <1>1, <1>2, <1>5, <2>1 DEF Within
  <2>2. CASE ~(k < j)
    <3>1. k - j \in 1 .. Len(s) - j /\ b[k - j] = s[k]
      BY <1>1, <1>3, <2>2
    <3> QED
      BY <1>3, <1>5, <3>1 DEF Within
  <2> QED
    BY <2>1, <2>2
<1>6. ASSUME NEW x, Within(x, a) PROVE \E k \in DOMAIN s \ {j} : s[k] = x
  BY <1>1, <1>2, <1>6 DEF Within
<1>7. ASSUME NEW x, Within(x, b) PROVE \E k \in DOMAIN s \ {j} : s[k] = x
  <2>1. PICK i \in 1 .. Len(s) - j : b[i] = x
    BY <1>3, <1>7 DEF Within
  <2>2. i + j \in DOMAIN s \ {j} /\ s[i + j] = x
    BY <1>1, <1>3, <2>1
  <2> QED
    BY <2>2
<1> QED
  BY <1>4, <1>5, <1>6, <1>7 DEF RemoveAt, a, b

-----------------------------------------------------------------------------
(* Branches that are kept *)

Branches(D, V) == [default : D, val : V]

\* Marks that are joined stay in here.
Marks == {{FALSE}, BOOLEAN}

LEMMA MarksBoolean == \A D \in Marks : D \subseteq BOOLEAN
<1>1. {FALSE} \subseteq BOOLEAN
  OBVIOUS
<1> QED
  BY <1>1, Zenon DEF Marks

Copyless(bs) == \A i, j \in DOMAIN bs : SameContent(bs[i].val, bs[j].val) => i = j

Stands(ks, x, d) == \E k \in DOMAIN ks : ks[k].val = x /\ (d => ks[k].default)

\* ps is what ks becomes when b joins it.
Joined(ps, ks, b, D, V) ==
  /\ ps \in Seq(Branches(D, V)) /\ Copyless(ps)
  /\ \A k \in DOMAIN ks : Stands(ps, ks[k].val, ks[k].default)
  /\ Stands(ps, b.val, b.default)
  /\ \A k \in DOMAIN ps :
       \/ Stands(ks, ps[k].val, ps[k].default)
       \/ b.val = ps[k].val /\ (ps[k].default => b.default)

LEMMA Pushed ==
  ASSUME NEW D \in Marks, NEW V, NEW ks \in Seq(Branches(D, V)), NEW b \in Branches(D, V),
         Copyless(ks)
  PROVE  Joined(PushBranch(ks, b), ks, b, D, V)
<1> DEFINE same == {i \in DOMAIN ks : SameContent(ks[i].val, b.val)}
           ps == PushBranch(ks, b)
<1>1. Len(ks) \in Nat /\ DOMAIN ks = 1 .. Len(ks) /\ \A k \in DOMAIN ks : ks[k] \in Branches(D, V)
  OBVIOUS
<1>2. CASE same = {}
  <2>1. ps = Append(ks, b)
    BY <1>2 DEF PushBranch
  <2>2. /\ ps \in Seq(Branches(D, V)) /\ DOMAIN ps = 1 .. Len(ks) + 1
        /\ \A k \in 1 .. Len(ks) : ps[k] = ks[k]
        /\ ps[Len(ks) + 1] = b
    BY <1>1, <2>1
  <2> HIDE DEF ps
  <2>3. \A k \in DOMAIN ps : k \in DOMAIN ks \/ k = Len(ks) + 1
    BY <1>1, <2>2
  <2>4. Copyless(ps)
    <3> SUFFICES ASSUME NEW i \in DOMAIN ps, NEW j \in DOMAIN ps, SameContent(ps[i].val, ps[j].val)
                 PROVE  i = j
      BY DEF Copyless
    <3>1. SameContent(ps[j].val, ps[i].val)
      BY DEF SameContent
    <3>2. \A k \in DOMAIN ks : ~SameContent(ks[k].val, b.val)
      BY <1>2
    <3> QED
      BY <1>1, <2>2, <2>3, <3>1, <3>2 DEF Copyless
  <2>5. \A k \in DOMAIN ks : Stands(ps, ks[k].val, ks[k].default)
    BY <1>1, <2>2 DEF Stands
  <2>6. Stands(ps, b.val, b.default)
    BY <1>1, <2>2 DEF Stands
  <2>7. \A k \in DOMAIN ps :
          Stands(ks, ps[k].val, ps[k].default) \/ (b.val = ps[k].val /\ (ps[k].default => b.default))
    BY <1>1, <2>2, <2>3 DEF Stands
  <2> QED
    BY <2>2, <2>4, <2>5, <2>6, <2>7 DEF ps, Joined
<1>3. CASE same # {}
  <2> DEFINE m == CHOOSE i \in same : \A j \in same : i <= j
  <2>1. m \in same
    <3>1. \E i \in same : \A j \in same : i <= j
      <4>1. same \in SUBSET Nat
        BY <1>1
      <4> HIDE DEF same
      <4> QED
        BY <1>3, <4>1, Least
    <3> HIDE DEF same
    <3> QED
      BY <3>1
  <2>2. ps = [ks EXCEPT ![m].default = @ \/ b.default]
    BY <1>3 DEF PushBranch
  <2> HIDE DEF m, ps
  <2>3. m \in DOMAIN ks /\ ks[m].val = b.val
    BY <2>1 DEF SameContent
  <2>4. DOMAIN ps = DOMAIN ks /\ \A k \in DOMAIN ks \ {m} : ps[k] = ks[k]
    BY <1>1, <2>2
  <2>5. ps[m] = [ks[m] EXCEPT !.default = ks[m].default \/ b.default]
    BY <1>1, <2>2, <2>3
  <2>6. /\ ps[m].val = b.val /\ (ps[m].default <=> ks[m].default \/ b.default)
        /\ ps[m] \in Branches(D, V)
    <3>1. ks[m] \in Branches(D, V) /\ ks[m].default \in BOOLEAN /\ b.default \in BOOLEAN
      BY <1>1, <2>3 DEF Branches, Marks
    <3>2. ps[m].val = b.val /\ ps[m].default = (ks[m].default \/ b.default)
      BY <2>3, <2>5, <3>1 DEF Branches
    <3>3. (ks[m].default \/ b.default) \in D
      BY <3>1 DEF Branches, Marks
    <3> QED
      BY <2>5, <3>1, <3>2, <3>3 DEF Branches
  <2>7. ps \in Seq(Branches(D, V))
    <3>1. ps \in [1 .. Len(ks) -> Branches(D, V)]
      <4>1. ps = [k \in 1 .. Len(ks) |-> ps[k]]
        BY <1>1, <2>2
      <4>2. \A k \in 1 .. Len(ks) : ps[k] \in Branches(D, V)
        BY <1>1, <2>4, <2>6
      <4> HIDE DEF Branches
      <4> QED
        BY <4>1, <4>2
    <3> QED
      BY <1>1, <3>1
  <2>8. \A k \in DOMAIN ks : ps[k].val = ks[k].val /\ (ks[k].default => ps[k].default)
    BY <2>3, <2>4, <2>6
  <2>9. Copyless(ps)
    BY <2>4, <2>8 DEF Copyless
  <2>10. \A k \in DOMAIN ks : Stands(ps, ks[k].val, ks[k].default)
    BY <2>4, <2>8 DEF Stands
  <2>11. Stands(ps, b.val, b.default)
    BY <2>3, <2>4, <2>6 DEF Stands
  <2>12. ASSUME NEW k \in DOMAIN ps
         PROVE  \/ Stands(ks, ps[k].val, ps[k].default)
                \/ b.val = ps[k].val /\ (ps[k].default => b.default)
    <3>1. CASE k # m
      BY <2>4, <3>1 DEF Stands
    <3>2. CASE k = m
      <4>1. CASE b.default
        BY <2>3, <3>2, <4>1, <2>6
      <4>2. CASE ~b.default
        BY <2>3, <2>6, <3>2, <4>2 DEF Stands
      <4> QED
        BY <4>1, <4>2
    <3> QED
      BY <3>1, <3>2
  <2> QED
    BY <2>7, <2>9, <2>10, <2>11, <2>12 DEF ps, Joined
<1> QED
  BY <1>2, <1>3

\* The branches that are not left out.
Left(bs, F) == {i \in DOMAIN bs : bs[i].val \notin F}

Comes(k, bs, I) ==
  /\ \E i \in I : bs[i].val = k.val
  /\ k.default => \E i \in I : bs[i].val = k.val /\ bs[i].default

(* What is kept of branches pushed one after the other holds no copies; it *)
(* holds each branch that is not left out, with its mark, and nothing else.*)
LEMMA Kept ==
  ASSUME NEW D \in Marks, NEW V, NEW bs \in Seq(Branches(D, V)), NEW F
  PROVE  /\ Keep(bs, F) \in Seq(Branches(D, V)) /\ Copyless(Keep(bs, F))
         /\ \A i \in Left(bs, F) : Stands(Keep(bs, F), bs[i].val, bs[i].default)
         /\ \A k \in DOMAIN Keep(bs, F) : Comes(Keep(bs, F)[k], bs, Left(bs, F))
<1> DEFINE N == Len(bs)
           S == {ks \in Seq(Branches(D, V)) : Copyless(ks)}
           next1(s, i) == IF bs[i].val \in F THEN s ELSE PushBranch(s, bs[i])
           step == [p \in S \X (1 .. N) |-> next1(p[1], p[2])]
<1>1. N \in Nat /\ DOMAIN bs = 1 .. N /\ \A i \in 1 .. N : bs[i] \in Branches(D, V)
  OBVIOUS
<1>2. \A s \in S, i \in 1 .. N : next1(s, i) \in S
  BY <1>1, Pushed DEF Joined
<1>3. step \in [S \X (1 .. N) -> S]
  <2> HIDE DEF next1, S
  <2> QED
    BY <1>2
<1>4. PICK f : Follows(f, S, <<>>, N, step)
  <2>1. <<>> \in S
    BY DEF Copyless
  <2> HIDE DEF step, N, S, next1
  <2> QED
    BY <1>1, <1>3, <2>1, Iterates
<1>5. /\ f \in [0 .. N -> S] /\ f[0] = <<>>
      /\ \A i \in 1 .. N : f[i] = next1(f[i - 1], i)
  <2>1. /\ f \in [0 .. N -> S] /\ f[0] = <<>>
        /\ \A i \in 1 .. N : f[i] = step[<<f[i - 1], i>>]
    BY <1>4 DEF Follows
  <2>2. \A i \in 1 .. N : f[i - 1] \in S
    <3>1. \A i \in 1 .. N : i - 1 \in 0 .. N
      BY <1>1
    <3> HIDE DEF S, next1, N, step
    <3> QED
      BY <2>1, <3>1
  <2> HIDE DEF next1, S
  <2> QED
    BY <2>1, <2>2
<1> DEFINE G(g) == [i \in 0 .. N |-> IF i = 0 THEN <<>>
                                     ELSE IF bs[i].val \in F THEN g[i - 1]
                                     ELSE PushBranch(g[i - 1], bs[i])]
           u == CHOOSE g : g = G(g)
<1>6. f = G(f)
  <2>1. \A i \in 0 .. N : f[i] = G(f)[i]
    <3>1. \A i \in 0 .. N : i = 0 \/ i \in 1 .. N
      BY <1>1
    <3>2. \A i \in 1 .. N : i # 0
      BY <1>1
    <3> QED
      BY <1>5, <3>1, <3>2
  <2>2. f = [i \in 0 .. N |-> f[i]]
    BY <1>5
  <2> QED
    BY <2>1, <2>2
<1>7. u = G(u)
  BY <1>6
<1>8. u[0] = <<>> /\ \A i \in 1 .. N : u[i] = next1(u[i - 1], i)
  <2>1. 0 \in 0 .. N /\ \A i \in 1 .. N : i \in 0 .. N /\ i # 0
    BY <1>1
  <2> HIDE DEF u, N
  <2> QED
    BY <1>7, <2>1
<1>9. Keep(bs, F) = u[N]
  BY DEF Keep
<1> DEFINE Upto(i) == {j \in Left(bs, F) : j <= i}
           Holds(i) == /\ u[i] \in S
                       /\ \A j \in Upto(i) : Stands(u[i], bs[j].val, bs[j].default)
                       /\ \A k \in DOMAIN u[i] : Comes(u[i][k], bs, Upto(i))
           T == {i \in 0 .. N : Holds(i)}
<1> HIDE DEF u, step
<1>10. 0 \in T
  <2>1. Upto(0) = {}
    BY <1>1 DEF Left
  <2>2. u[0] \in S /\ DOMAIN u[0] = {}
    BY <1>8 DEF Copyless
  <2> QED
    BY <1>1, <2>1, <2>2
<1>11. ASSUME NEW i \in 1 .. N, i - 1 \in T PROVE i \in T
  <2>1. Holds(i - 1)
    BY <1>11
  <2>2. \A j \in Left(bs, F) : j \in 1 .. N
    BY <1>1 DEF Left
  <2>3. CASE bs[i].val \in F
    <3>1. u[i] = u[i - 1]
      BY <1>8, <2>3
    <3>2. Upto(i) = Upto(i - 1)
      <4>1. i \notin Left(bs, F)
        BY <2>3 DEF Left
      <4> QED
        BY <1>1, <2>2, <4>1
    <3>3. i \in 0 .. N
      BY <1>1
    <3> HIDE DEF Upto, S, N
    <3> QED
      BY <2>1, <3>1, <3>2, <3>3
  <2>4. CASE bs[i].val \notin F
    <3>1. u[i] = PushBranch(u[i - 1], bs[i])
      BY <1>8, <2>4
    <3>2. u[i - 1] \in S /\ bs[i] \in Branches(D, V)
      BY <1>1, <2>1
    <3>3. /\ u[i] \in S
          /\ \A k \in DOMAIN u[i - 1] : Stands(u[i], u[i - 1][k].val, u[i - 1][k].default)
          /\ Stands(u[i], bs[i].val, bs[i].default)
          /\ \A k \in DOMAIN u[i] :
               \/ Stands(u[i - 1], u[i][k].val, u[i][k].default)
               \/ bs[i].val = u[i][k].val /\ (u[i][k].default => bs[i].default)
      <4> DEFINE ps == PushBranch(u[i - 1], bs[i])
                 ks == u[i - 1]
                 b == bs[i]
      <4>1. ks \in Seq(Branches(D, V)) /\ b \in Branches(D, V) /\ Copyless(ks) /\ u[i] = ps
        BY <3>1, <3>2
      <4>2. ps = PushBranch(ks, b)
        OBVIOUS
      <4> HIDE DEF ps, ks, b
      <4>3. Joined(ps, ks, b, D, V)
        BY <4>1, <4>2, Pushed
      <4> QED
        BY <4>1, <4>3 DEF ks, b, Joined
    <3>4. Upto(i) = Upto(i - 1) \cup {i}
      <4>1. i \in Left(bs, F)
        BY <1>1, <2>4 DEF Left
      <4>2. \A j \in 1 .. N : j <= i <=> j <= i - 1 \/ j = i
        BY <1>1
      <4> HIDE DEF N
      <4> QED
        BY <2>2, <4>1, <4>2
    <3>5. \A j \in Upto(i) : Stands(u[i], bs[j].val, bs[j].default)
      <4>1. \A x, d : Stands(u[i - 1], x, d) => Stands(u[i], x, d)
        BY <3>3 DEF Stands
      <4> HIDE DEF Upto
      <4> QED
        BY <2>1, <3>3, <3>4, <4>1
    <3>6. ASSUME NEW k \in DOMAIN u[i] PROVE Comes(u[i][k], bs, Upto(i))
      <4> HIDE DEF Upto
      <4>1. ASSUME Stands(u[i - 1], u[i][k].val, u[i][k].default) PROVE Comes(u[i][k], bs, Upto(i))
        <5>1. PICK l \in DOMAIN u[i - 1] :
                u[i - 1][l].val = u[i][k].val /\ (u[i][k].default => u[i - 1][l].default)
          BY <4>1 DEF Stands
        <5>2. Comes(u[i - 1][l], bs, Upto(i - 1))
          BY <2>1
        <5> QED
          BY <3>4, <5>1, <5>2 DEF Comes
      <4>2. ASSUME bs[i].val = u[i][k].val, u[i][k].default => bs[i].default
            PROVE  Comes(u[i][k], bs, Upto(i))
        BY <3>4, <4>2 DEF Comes
      <4> QED
        BY <3>3, <4>1, <4>2
    <3> HIDE DEF Upto, S
    <3> QED
      BY <1>1, <3>3, <3>5, <3>6
  <2> QED
    BY <2>3, <2>4
<1>12. Holds(N)
  <2>1. 0 .. N \subseteq T
    <3> HIDE DEF T, N
    <3> QED
      BY <1>1, <1>10, <1>11, Upward
  <2>2. N \in 0 .. N
    BY <1>1
  <2> HIDE DEF Holds, N
  <2> QED
    BY <2>1, <2>2
<1>13. Upto(N) = Left(bs, F)
  BY <1>1 DEF Left
<1> HIDE DEF Upto, N
<1> QED
  BY <1>9, <1>12, <1>13

-----------------------------------------------------------------------------
(* What values say *)

Plains == Bottoms \cup Leaves
ChoicesOver(D, V) == {Choice(bs) : bs \in {b \in Seq(Branches(D, V)) : Copyless(b)}}

\* Values that are no choice or one of plain values with marks in M, and
\* choices of those.
Inners(M) == Plains \cup ChoicesOver(M, Plains)
Outers(M) == Inners(M) \cup ChoicesOver(BOOLEAN, Inners(M))

\* The points a value surely admits, or those it may come to admit.
SaysPlain(v, sure) ==
  IF IsBottom(v) THEN IF ~sure /\ IsPending(v) THEN Points ELSE {}
  ELSE IF sure /\ v.waits THEN {} ELSE v.set
SaysFlat(v, sure) ==
  IF IsChoice(v) THEN UNION {SaysPlain(v.branches[i].val, sure) : i \in DOMAIN v.branches}
  ELSE SaysPlain(v, sure)

\* The branches of I that speak: all, or those preferred.
Counted(bs, I, prefer) ==
  {i \in I : prefer => ((\E j \in I : bs[j].default) => bs[i].default)}
SaysOver(bs, I, prefer, sure) == UNION {SaysFlat(bs[i].val, sure) : i \in Counted(bs, I, prefer)}
Says(v, prefer, sure) ==
  IF IsChoice(v) THEN SaysOver(v.branches, DOMAIN v.branches, prefer, sure) ELSE SaysPlain(v, sure)

\* Where preference counts, choices inside have no marks.
Fit(M, prefer) == M \in Marks /\ prefer \in BOOLEAN /\ (prefer => M = {FALSE})

LEMMA PlainShapes ==
  /\ \A v \in Plains : ~IsChoice(v)
  /\ \A v \in Bottoms : /\ IsBottom(v) /\ [v EXCEPT !.custom = TRUE] \in Bottoms
                        /\ v.kind \in {"conflict", "incomplete", "unresolved", "custom"}
  /\ \A v \in Leaves : ~IsBottom(v) /\ v.set \in SUBSET Points /\ v.waits \in BOOLEAN
BY DEF Plains, Bottoms, Leaves, IsChoice, IsBottom

LEMMA ChoiceShapes ==
  ASSUME NEW D, NEW V, NEW v \in ChoicesOver(D, V)
  PROVE  /\ IsChoice(v) /\ ~IsBottom(v)
         /\ v.branches \in Seq(Branches(D, V)) /\ Copyless(v.branches)
BY DEF ChoicesOver, Choice, IsChoice, IsBottom

LEMMA Branched ==
  ASSUME NEW D, NEW V, NEW bs \in Seq(Branches(D, V))
  PROVE  /\ Len(bs) \in Nat /\ DOMAIN bs = 1 .. Len(bs)
         /\ \A i \in DOMAIN bs : bs[i] \in Branches(D, V) /\ bs[i].default \in D /\ bs[i].val \in V
<1>1. /\ Len(bs) \in Nat /\ DOMAIN bs = 1 .. Len(bs)
      /\ \A i \in DOMAIN bs : bs[i] \in Branches(D, V)
  OBVIOUS
<1> QED
  BY <1>1 DEF Branches

(* A value inside says the same whether only preferences count or not. *)
LEMMA InnerSays ==
  ASSUME NEW M, NEW prefer, Fit(M, prefer), NEW v \in Inners(M), NEW sure \in BOOLEAN
  PROVE  Says(v, prefer, sure) = SaysFlat(v, sure) /\ SaysFlat(v, sure) \subseteq Points
<1>1. ASSUME NEW w \in Plains PROVE SaysPlain(w, sure) \subseteq Points /\ ~IsChoice(w)
  BY <1>1, PlainShapes DEF Plains, SaysPlain
<1>2. CASE v \in Plains
  BY <1>1, <1>2 DEF Says, SaysFlat
<1>3. CASE v \in ChoicesOver(M, Plains)
  <2>1. /\ IsChoice(v)
        /\ \A i \in DOMAIN v.branches : v.branches[i].default \in M /\ v.branches[i].val \in Plains
    BY <1>3, ChoiceShapes, Branched
  <2> DEFINE bs == v.branches
  <2>2. Counted(bs, DOMAIN bs, prefer) = DOMAIN bs
    <3>1. CASE prefer
      <4>1. \A j \in DOMAIN bs : bs[j].default = FALSE
        BY <2>1, <3>1 DEF Fit
      <4> QED
        BY <4>1 DEF Counted
    <3>2. CASE ~prefer
      BY <3>2 DEF Counted
    <3> QED
      BY <3>1, <3>2
  <2>3. \A i \in DOMAIN bs : SaysFlat(bs[i].val, sure) = SaysPlain(bs[i].val, sure)
    BY <1>1, <2>1 DEF SaysFlat
  <2> HIDE DEF bs
  <2>4. SaysOver(bs, DOMAIN bs, prefer, sure) = UNION {SaysPlain(bs[i].val, sure) : i \in DOMAIN bs}
    BY <2>2, <2>3 DEF SaysOver
  <2>5. \A i \in DOMAIN bs : SaysPlain(bs[i].val, sure) \subseteq Points
    BY <1>1, <2>1 DEF bs
  <2> QED
    BY <2>1, <2>4, <2>5 DEF Says, SaysFlat, bs
<1> QED
  BY <1>2, <1>3 DEF Inners

(* What is kept says what the branches say that are not left out. *)
LEMMA KeptSays ==
  ASSUME NEW D \in Marks, NEW V, NEW bs \in Seq(Branches(D, V)), NEW F, NEW prefer, NEW sure
  PROVE  SaysOver(Keep(bs, F), DOMAIN Keep(bs, F), prefer, sure)
           = SaysOver(bs, Left(bs, F), prefer, sure)
<1> DEFINE ks == Keep(bs, F)
           I == Left(bs, F)
<1>1. /\ \A i \in I : Stands(ks, bs[i].val, bs[i].default)
      /\ \A k \in DOMAIN ks : Comes(ks[k], bs, I)
  BY Kept
<1> HIDE DEF ks, I
<1>2. (\E k \in DOMAIN ks : ks[k].default) <=> (\E i \in I : bs[i].default)
  BY <1>1 DEF Stands, Comes
<1>3. ASSUME NEW k \in Counted(ks, DOMAIN ks, prefer)
      PROVE  \E i \in Counted(bs, I, prefer) : bs[i].val = ks[k].val
  BY <1>1, <1>2, <1>3 DEF Counted, Comes
<1>4. ASSUME NEW i \in Counted(bs, I, prefer)
      PROVE  \E k \in Counted(ks, DOMAIN ks, prefer) : ks[k].val = bs[i].val
  BY <1>1, <1>2, <1>4 DEF Counted, Stands
<1> QED
  BY <1>3, <1>4 DEF SaysOver, ks, I

LEMMA BottomShapes ==
  ASSUME NEW M, NEW v \in Inners(M), IsBottom(v)
  PROVE  v \in Bottoms /\ ~IsChoice(v)
BY PlainShapes, ChoiceShapes DEF Inners, Plains

LEMMA SettledTyped ==
  ASSUME NEW M, NEW D, NEW V \in SUBSET Inners(M), NEW ks \in Seq(Branches(D, V)), Copyless(ks),
         NEW errors
  PROVE  SettleChoice(ks, errors) \in V \cup Bottoms \cup ChoicesOver(D, V)
<1>1. Len(ks) = 1 => ks[1].val \in V
  BY Branched
<1>2. Choice(ks) \in ChoicesOver(D, V)
  BY DEF ChoicesOver
<1>3. /\ Bottom("unresolved") \in Bottoms
      /\ \A c \in BOOLEAN : [Bottom("conflict") EXCEPT !.custom = c] \in Bottoms
  BY DEF Bottom, Bottoms
<1>4. Len(ks) = 1 /\ IsBottom(ks[1].val) => [ks[1].val EXCEPT !.custom = TRUE] \in Bottoms
  BY <1>1, BottomShapes, PlainShapes
<1> DEFINE custom == \E e \in errors : e.kind = "custom"
           waiting == \E e \in errors : IsPending(e)
           W == V \cup Bottoms \cup ChoicesOver(D, V)
<1>5. CASE Len(ks) = 0 /\ waiting
  <2>1. SettleChoice(ks, errors) = Bottom("unresolved")
    BY <1>5 DEF SettleChoice
  <2> QED
    BY <1>3, <2>1
<1>6. CASE Len(ks) = 0 /\ ~waiting
  <2>1. SettleChoice(ks, errors) = [Bottom("conflict") EXCEPT !.custom = custom]
    BY <1>6 DEF SettleChoice
  <2> QED
    BY <1>3, <2>1
<1>7. CASE Len(ks) = 1
  <2>1. SettleChoice(ks, errors) = IF IsBottom(ks[1].val) /\ custom
                                   THEN [ks[1].val EXCEPT !.custom = TRUE] ELSE ks[1].val
    BY <1>7 DEF SettleChoice
  <2> QED
    BY <1>1, <1>4, <1>7, <2>1
<1>8. CASE Len(ks) # 0 /\ Len(ks) # 1
  <2>1. SettleChoice(ks, errors) = Choice(ks)
    BY <1>8 DEF SettleChoice
  <2> QED
    BY <1>2, <2>1
<1> QED
  BY <1>5, <1>6, <1>7, <1>8

(* Settling what is kept changes nothing it says; where nothing is kept *)
(* the failures decide whether the whole still waits.                   *)
LEMMA SettledSays ==
  ASSUME NEW M, NEW prefer, Fit(M, prefer), NEW sure \in BOOLEAN, NEW D \in Marks,
         NEW V \in SUBSET Inners(M), NEW ks \in Seq(Branches(D, V)), NEW errors
  PROVE  /\ ks # <<>> => Says(SettleChoice(ks, errors), prefer, sure)
                           = SaysOver(ks, DOMAIN ks, prefer, sure)
         /\ ks = <<>> => /\ SettleChoice(ks, errors) \in Bottoms
                         /\ IsPending(SettleChoice(ks, errors)) <=> \E e \in errors : IsPending(e)
<1> DEFINE custom == \E e \in errors : e.kind = "custom"
           waiting == \E e \in errors : IsPending(e)
           r == SettleChoice(ks, errors)
<1>1. Len(ks) \in Nat /\ DOMAIN ks = 1 .. Len(ks) /\ (ks = <<>> <=> Len(ks) = 0)
  OBVIOUS
<1>2. CASE Len(ks) = 0 /\ waiting
  <2>1. r = Bottom("unresolved")
    BY <1>2 DEF SettleChoice
  <2> QED
    BY <1>1, <1>2, <2>1 DEF Bottom, Bottoms, IsPending, IsBottom
<1>3. CASE Len(ks) = 0 /\ ~waiting
  <2>1. r = [Bottom("conflict") EXCEPT !.custom = custom]
    BY <1>3 DEF SettleChoice
  <2> QED
    BY <1>1, <1>3, <2>1 DEF Bottom, Bottoms, IsPending, IsBottom
<1>4. CASE Len(ks) = 1
  <2>1. ks[1].val \in V /\ ks[1].default \in BOOLEAN /\ DOMAIN ks = {1}
    <3>1. DOMAIN ks = {1}
      BY <1>1, <1>4
    <3>2. ks[1].val \in V /\ ks[1].default \in D
      BY <3>1, Branched
    <3>3. D \subseteq BOOLEAN
      BY MarksBoolean
    <3> QED
      BY <3>1, <3>2, <3>3
  <2>2. Counted(ks, DOMAIN ks, prefer) = {1}
    BY <2>1 DEF Counted
  <2>3. SaysOver(ks, DOMAIN ks, prefer, sure) = SaysFlat(ks[1].val, sure)
    BY <2>2 DEF SaysOver
  <2>4. r = IF IsBottom(ks[1].val) /\ custom THEN [ks[1].val EXCEPT !.custom = TRUE] ELSE ks[1].val
    BY <1>4 DEF SettleChoice
  <2>5. CASE IsBottom(ks[1].val) /\ custom
    <3>1. ks[1].val \in Bottoms /\ ~IsChoice(ks[1].val)
      BY <2>1, <2>5, BottomShapes
    <3>2. r = [ks[1].val EXCEPT !.custom = TRUE]
      BY <2>4, <2>5
    <3>3. r.t = ks[1].val.t /\ r.kind = ks[1].val.kind
      BY <3>1, <3>2 DEF Bottoms
    <3> DEFINE v == ks[1].val
    <3>4. ~IsChoice(v) /\ r.t = v.t /\ r.kind = v.kind /\ IsBottom(v)
      BY <2>5, <3>1, <3>3
    <3>5. SaysOver(ks, DOMAIN ks, prefer, sure) = SaysFlat(v, sure)
      BY <2>3
    <3> HIDE DEF v, r
    <3>6. SaysFlat(v, sure) = Says(r, prefer, sure)
      BY <3>4 DEF Says, SaysFlat, SaysPlain, IsChoice, IsBottom, IsPending
    <3> QED
      BY <1>1, <1>4, <3>5, <3>6 DEF r
  <2>6. CASE ~(IsBottom(ks[1].val) /\ custom)
    BY <1>1, <1>4, <2>1, <2>3, <2>4, <2>6, InnerSays
  <2> QED
    BY <2>5, <2>6
<1>5. CASE Len(ks) # 0 /\ Len(ks) # 1
  <2>1. r = Choice(ks)
    BY <1>5 DEF SettleChoice
  <2> QED
    BY <1>1, <1>5, <2>1 DEF Says, Choice, IsChoice
<1> QED
  BY <1>2, <1>3, <1>4, <1>5

(* What is settled is resolved where all it is settled from is. *)
LEMMA InnerResolved ==
  ASSUME NEW M, NEW v \in Inners(M)
  PROVE  Unresolved(v) <=> UnresolvedFlat(v)
<1>1. CASE v \in Plains
  BY <1>1, PlainShapes DEF Unresolved, UnresolvedFlat
<1>2. CASE v \in ChoicesOver(M, Plains)
  <2>1. IsChoice(v) /\ \A i \in DOMAIN v.branches : ~IsChoice(v.branches[i].val)
    BY <1>2, ChoiceShapes, Branched, PlainShapes
  <2>2. \A i \in DOMAIN v.branches :
          UnresolvedFlat(v.branches[i].val) <=> UnresolvedPlain(v.branches[i].val)
    BY <2>1 DEF UnresolvedFlat
  <2>3. UnresolvedFlat(v) <=> \E i \in DOMAIN v.branches : UnresolvedPlain(v.branches[i].val)
    BY <2>1 DEF UnresolvedFlat
  <2>4. Unresolved(v) <=> \E i \in DOMAIN v.branches : UnresolvedFlat(v.branches[i].val)
    BY <2>1 DEF Unresolved
  <2> QED
    BY <2>2, <2>3, <2>4
<1> QED
  BY <1>1, <1>2 DEF Inners

LEMMA SettledResolved ==
  ASSUME NEW M, NEW D \in Marks, NEW V \in SUBSET Inners(M), NEW ks \in Seq(Branches(D, V)),
         NEW errors, \A k \in DOMAIN ks : ~UnresolvedFlat(ks[k].val), \A e \in errors : ~IsPending(e)
  PROVE  ~Unresolved(SettleChoice(ks, errors))
<1> DEFINE custom == \E e \in errors : e.kind = "custom"
           r == SettleChoice(ks, errors)
<1>1. CASE Len(ks) = 0
  <2>1. ks = <<>>
    BY <1>1
  <2>2. {FALSE} \in Marks /\ FALSE \in BOOLEAN
    BY DEF Marks
  <2>3. r = [Bottom("conflict") EXCEPT !.custom = custom]
    BY <1>1 DEF SettleChoice
  <2>4. r.t = "bottom" /\ r.kind = "conflict"
    BY <2>3 DEF Bottom
  <2> HIDE DEF r
  <2>5. ~Unresolved(r)
    BY <2>4 DEF Unresolved, UnresolvedPlain, IsChoice, IsBottom, IsPending
  <2> QED
    BY <2>5 DEF r
<1>2. CASE Len(ks) = 1
  <2>1. DOMAIN ks = {1} /\ ks[1].val \in V
    <3>1. DOMAIN ks = {1}
      BY <1>2
    <3> QED
      BY <3>1, Branched
  <2>2. r = IF IsBottom(ks[1].val) /\ custom THEN [ks[1].val EXCEPT !.custom = TRUE] ELSE ks[1].val
    BY <1>2 DEF SettleChoice
  <2>3. CASE IsBottom(ks[1].val) /\ custom
    <3> DEFINE v == ks[1].val
    <3>1. v \in Bottoms /\ ~IsChoice(v) /\ ~UnresolvedFlat(v)
      BY <2>1, <2>3, BottomShapes
    <3>2. r = [v EXCEPT !.custom = TRUE]
      BY <2>2, <2>3
    <3> HIDE DEF v, r
    <3>3. r.t = v.t /\ r.kind = v.kind
      BY <3>1, <3>2 DEF Bottoms
    <3>4. v.t = "bottom"
      BY <3>1 DEF Bottoms
    <3> QED
      BY <3>1, <3>3, <3>4 DEF Unresolved, UnresolvedFlat, UnresolvedPlain, IsChoice, IsBottom, IsPending, r
  <2>4. CASE ~(IsBottom(ks[1].val) /\ custom)
    <3>1. ~UnresolvedFlat(ks[1].val) /\ ks[1].val \in Inners(M)
      BY <2>1
    <3> QED
      BY <2>2, <2>4, <3>1, InnerResolved
  <2> QED
    BY <2>3, <2>4
<1>3. CASE Len(ks) # 0 /\ Len(ks) # 1
  <2>1. r = Choice(ks)
    BY <1>3 DEF SettleChoice
  <2> QED
    BY <2>1 DEF Choice, IsChoice, Unresolved
<1> QED
  BY <1>1, <1>2, <1>3

-----------------------------------------------------------------------------
(* Trials *)

\* r says what the trials that count say: it may come to all of it, and is
\* sure of no more - of preferences only where a trial that counts is left.
Sums(r, ts, prefer) ==
  /\ \A i \in Counted(ts, DOMAIN ts, prefer) :
       SaysFlat(ts[i].val, FALSE) \subseteq Says(r, prefer, FALSE)
  /\ (~prefer \/ \E i \in Counted(ts, DOMAIN ts, prefer) : SaysFlat(ts[i].val, FALSE) # {}) =>
       \A a \in Says(r, prefer, TRUE) :
         \E i \in Counted(ts, DOMAIN ts, prefer) : a \in SaysFlat(ts[i].val, TRUE)

LEMMA TriedSays ==
  ASSUME NEW M, NEW prefer, Fit(M, prefer), NEW D \in Marks, NEW V \in SUBSET Inners(M),
         NEW ts \in Seq(Branches(D, V)), ~LosesPending(ts)
  PROVE  Sums(Tried(ts), ts, prefer)
<1> DEFINE errors == Failed(ts)
           I == Left(ts, errors)
           ks == Keep(ts, errors)
           r == Tried(ts)
           C == Counted(ts, DOMAIN ts, prefer)
<1>1. \A i \in DOMAIN ts : ts[i].val \in Inners(M)
  BY Branched
<1>2. I = {i \in DOMAIN ts : ~IsBottom(ts[i].val)}
  BY DEF Left, Failed
<1>3. \A i \in DOMAIN ts : IsBottom(ts[i].val) =>
        \A sure : SaysFlat(ts[i].val, sure) = IF ~sure /\ IsPending(ts[i].val) THEN Points ELSE {}
  BY <1>1, BottomShapes DEF SaysFlat, SaysPlain
<1>4. C \subseteq DOMAIN ts
  BY DEF Counted
<1>5. /\ ks \in Seq(Branches(D, V)) /\ Copyless(ks)
      /\ \A i \in I : Stands(ks, ts[i].val, ts[i].default)
      /\ \A k \in DOMAIN ks : Comes(ks[k], ts, I)
      /\ \A sure : SaysOver(ks, DOMAIN ks, prefer, sure) = SaysOver(ts, I, prefer, sure)
  BY Kept, KeptSays
<1>6. r = SettleChoice(ks, errors)
  BY DEF Tried
<1> HIDE DEF I, ks, r, errors, C
<1>7. /\ ks # <<>> => \A sure \in BOOLEAN : Says(r, prefer, sure) = SaysOver(ks, DOMAIN ks, prefer, sure)
      /\ ks = <<>> => /\ r \in Bottoms
                      /\ IsPending(r) <=> \E e \in errors : IsPending(e)
  <2>1. ASSUME NEW sure \in BOOLEAN
        PROVE  /\ ks # <<>> => Says(r, prefer, sure) = SaysOver(ks, DOMAIN ks, prefer, sure)
               /\ ks = <<>> => /\ r \in Bottoms
                               /\ IsPending(r) <=> \E e \in errors : IsPending(e)
    BY <1>5, <1>6, SettledSays
  <2> QED
    BY <2>1
<1>8. CASE I = {}
  <2>1. ks = <<>>
    <3>1. DOMAIN ks = {}
      BY <1>5, <1>8 DEF Comes
    <3>2. Len(ks) = 0
      BY <1>5, <3>1
    <3> QED
      BY <1>5, <3>2
  <2>2. r \in Bottoms /\ ~IsChoice(r) /\ IsBottom(r)
    BY <1>7, <2>1, PlainShapes DEF Plains
  <2>3. Says(r, prefer, TRUE) = {} /\ (IsPending(r) => Says(r, prefer, FALSE) = Points)
    BY <2>2 DEF Says, SaysPlain
  <2>4. \A i \in DOMAIN ts : IsPending(ts[i].val) => IsPending(r)
    BY <1>7, <2>1 DEF errors, Failed, IsPending
  <2>5. \A i \in C : SaysFlat(ts[i].val, FALSE) \subseteq Says(r, prefer, FALSE)
    BY <1>2, <1>3, <1>4, <1>8, <2>3, <2>4
  <2> QED
    BY <2>3, <2>5 DEF Sums, C, r
<1>9. CASE I # {}
  <2>1. ks # <<>>
    <3>1. DOMAIN ks # {}
      BY <1>5, <1>9 DEF Stands
    <3> QED
      BY <3>1
  <2>2. \A i \in DOMAIN ts : ~IsPending(ts[i].val)
    BY <1>2, <1>9 DEF LosesPending
  <2>3. \A sure \in BOOLEAN : Says(r, prefer, sure) = SaysOver(ts, I, prefer, sure)
    BY <1>5, <1>7, <2>1
  <2>4. I \subseteq DOMAIN ts
    BY <1>2
  <2>5. \A i \in DOMAIN ts : SaysFlat(ts[i].val, FALSE) # {} => i \in I
    BY <1>2, <1>3, <2>2
  <2>6. ASSUME NEW i \in C PROVE SaysFlat(ts[i].val, FALSE) \subseteq Says(r, prefer, FALSE)
    <3>1. CASE i \in I
      <4>1. i \in Counted(ts, I, prefer)
        BY <2>4, <3>1, <2>6 DEF C, Counted
      <4> QED
        BY <2>3, <4>1 DEF SaysOver
    <3>2. CASE i \notin I
      BY <1>4, <2>5, <3>2
    <3> QED
      BY <3>1, <3>2
  <2>7. ASSUME ~prefer \/ \E i \in C : SaysFlat(ts[i].val, FALSE) # {}, NEW a \in Says(r, prefer, TRUE)
        PROVE  \E i \in C : a \in SaysFlat(ts[i].val, TRUE)
    <3>1. PICK i \in Counted(ts, I, prefer) : a \in SaysFlat(ts[i].val, TRUE)
      <4>1. a \in SaysOver(ts, I, prefer, TRUE)
        BY <2>3, <2>7
      <4> QED
        BY <4>1 DEF SaysOver
    <3>2. i \in C
      <4>1. CASE ~prefer
        BY <2>4, <3>1, <4>1 DEF C, Counted
      <4>2. CASE prefer
        <5>1. PICK j \in C : SaysFlat(ts[j].val, FALSE) # {}
          BY <2>7, <4>2
        <5>2. j \in I
          BY <1>4, <2>5, <5>1
        <5> QED
          BY <2>4, <3>1, <4>2, <5>1, <5>2 DEF C, Counted
      <4> QED
        BY <4>1, <4>2
    <3> QED
      BY <3>1, <3>2
  <2> QED
    BY <2>6, <2>7 DEF Sums, C, r
<1> QED
  BY <1>8, <1>9

LEMMA TriedTyped ==
  ASSUME NEW M, NEW D \in Marks, NEW V \in SUBSET Inners(M), NEW ts \in Seq(Branches(D, V))
  PROVE  /\ Tried(ts) \in V \cup Bottoms \cup ChoicesOver(D, V)
         /\ (\A i \in DOMAIN ts : ~UnresolvedFlat(ts[i].val)) => ~Unresolved(Tried(ts))
<1> DEFINE errors == Failed(ts)
           ks == Keep(ts, errors)
<1>1. /\ ks \in Seq(Branches(D, V)) /\ Copyless(ks)
      /\ \A k \in DOMAIN ks : Comes(ks[k], ts, Left(ts, errors))
  BY Kept
<1>2. Tried(ts) = SettleChoice(ks, errors)
  BY DEF Tried
<1>3. \A k \in DOMAIN ks : \E i \in DOMAIN ts : ts[i].val = ks[k].val
  BY <1>1 DEF Comes, Left
<1>4. ASSUME \A i \in DOMAIN ts : ~UnresolvedFlat(ts[i].val) PROVE \A e \in errors : ~IsPending(e)
  <2>1. \A i \in DOMAIN ts : IsPending(ts[i].val) => UnresolvedFlat(ts[i].val)
    BY DEF UnresolvedFlat, UnresolvedPlain, IsPending, IsBottom, IsChoice
  <2> QED
    BY <1>4, <2>1 DEF Failed
<1> HIDE DEF errors, ks
<1>5. SettleChoice(ks, errors) \in V \cup Bottoms \cup ChoicesOver(D, V)
  BY <1>1, SettledTyped
<1>6. ASSUME \A i \in DOMAIN ts : ~UnresolvedFlat(ts[i].val) PROVE ~Unresolved(SettleChoice(ks, errors))
  <2>1. \A k \in DOMAIN ks : ~UnresolvedFlat(ks[k].val)
    BY <1>3, <1>6
  <2> QED
    BY <1>1, <1>4, <1>6, <2>1, SettledResolved
<1> QED
  BY <1>2, <1>5, <1>6

\* The trials of two lists of branches, row by row; f has what each pair comes to.
Cell(xs, ys, f, i, j) ==
  Branch(Mark(HasDefault(xs), HasDefault(ys), xs[i].default, ys[j].default), f[<<i, j>>])
Table(xs, ys, f) == FlattenSeq([i \in DOMAIN xs |-> [j \in DOMAIN ys |-> Cell(xs, ys, f, i, j)]])

Tabled(ts, xs, ys, f) ==
  /\ \A i \in DOMAIN xs, j \in DOMAIN ys : \E k \in DOMAIN ts : ts[k] = Cell(xs, ys, f, i, j)
  /\ \A k \in DOMAIN ts : \E i \in DOMAIN xs, j \in DOMAIN ys : ts[k] = Cell(xs, ys, f, i, j)

LEMMA MarkTyped ==
  ASSUME NEW D \in Marks, NEW d1, NEW d2, NEW one \in D, NEW other \in D,
         d1 \/ d2 => D = BOOLEAN
  PROVE  Mark(d1, d2, one, other) \in D
<1>1. CASE D = BOOLEAN
  BY <1>1 DEF Mark
<1>2. CASE D # BOOLEAN
  <2>1. D = {FALSE} /\ ~d1 /\ ~d2
    BY <1>2 DEF Marks
  <2> QED
    BY <2>1 DEF Mark
<1> QED
  BY <1>1, <1>2

LEMMA TableTyped ==
  ASSUME NEW D \in Marks, NEW X, NEW Y, NEW W, NEW xs \in Seq(Branches(D, X)),
         NEW ys \in Seq(Branches(D, Y)), NEW f \in [(DOMAIN xs) \X (DOMAIN ys) -> W]
  PROVE  /\ Table(xs, ys, f) \in Seq(Branches(D, W))
         /\ Tabled(Table(xs, ys, f), xs, ys, f)
<1> DEFINE row(i) == [j \in DOMAIN ys |-> Cell(xs, ys, f, i, j)]
           ss == [i \in DOMAIN xs |-> row(i)]
           B == Branches(D, W)
<1>1. /\ Len(xs) \in Nat /\ DOMAIN xs = 1 .. Len(xs) /\ \A i \in DOMAIN xs : xs[i].default \in D
      /\ Len(ys) \in Nat /\ DOMAIN ys = 1 .. Len(ys) /\ \A j \in DOMAIN ys : ys[j].default \in D
  BY Branched
<1>2. HasDefault(xs) \/ HasDefault(ys) => D = BOOLEAN
  <2>1. CASE D = {FALSE}
    BY <1>1, <2>1 DEF HasDefault
  <2> QED
    BY <2>1 DEF Marks
<1>3. \A i \in DOMAIN xs, j \in DOMAIN ys : Cell(xs, ys, f, i, j) \in B
  <2> SUFFICES ASSUME NEW i \in DOMAIN xs, NEW j \in DOMAIN ys
               PROVE  Cell(xs, ys, f, i, j) \in B
    OBVIOUS
  <2> DEFINE mark == Mark(HasDefault(xs), HasDefault(ys), xs[i].default, ys[j].default)
             v == f[<<i, j>>]
  <2>1. mark \in D
    BY <1>1, <1>2, MarkTyped
  <2>2. v \in W
    OBVIOUS
  <2>3. Cell(xs, ys, f, i, j) = [default |-> mark, val |-> v]
    BY DEF Cell, Branch
  <2> HIDE DEF mark, v
  <2> QED
    BY <2>1, <2>2, <2>3 DEF Branches
<1>4. \A i \in DOMAIN xs : row(i) \in Seq(B) /\ DOMAIN row(i) = DOMAIN ys
  <2> SUFFICES ASSUME NEW i \in DOMAIN xs PROVE row(i) \in Seq(B) /\ DOMAIN row(i) = DOMAIN ys
    OBVIOUS
  <2>1. row(i) \in [1 .. Len(ys) -> B]
    BY <1>1, <1>3
  <2> HIDE DEF B
  <2> QED
    BY <1>1, <2>1
<1>5. ss \in Seq(Seq(B)) /\ DOMAIN ss = DOMAIN xs /\ \A i \in DOMAIN xs : ss[i] = row(i)
  <2> HIDE DEF row, B
  <2>1. ss \in [1 .. Len(xs) -> Seq(B)]
    BY <1>1, <1>4
  <2> QED
    BY <1>1, <2>1
<1>6. Table(xs, ys, f) = FlattenSeq(ss)
  BY DEF Table
<1>7. \A i \in DOMAIN xs, j \in DOMAIN ys : row(i)[j] = Cell(xs, ys, f, i, j)
  OBVIOUS
<1> HIDE DEF ss, B, row
<1>8. /\ FlattenSeq(ss) \in Seq(B)
      /\ \A x : Within(x, FlattenSeq(ss)) <=> \E i \in DOMAIN ss : Within(x, ss[i])
  BY <1>5, Flattened
<1> DEFINE ts == Table(xs, ys, f)
<1> HIDE DEF ts
<1>9. \A x : Within(x, ts) <=> \E i \in DOMAIN xs, j \in DOMAIN ys : x = Cell(xs, ys, f, i, j)
  <2>1. \A x : \A i \in DOMAIN xs : Within(x, row(i)) <=> \E j \in DOMAIN ys : x = Cell(xs, ys, f, i, j)
    BY <1>4, <1>7 DEF Within
  <2> QED
    BY <1>5, <1>6, <1>8, <2>1 DEF ts
<1>10. Tabled(ts, xs, ys, f)
  <2>1. \A k \in DOMAIN ts : Within(ts[k], ts)
    BY DEF Within
  <2>2. \A i \in DOMAIN xs, j \in DOMAIN ys : Within(Cell(xs, ys, f, i, j), ts)
    BY <1>9
  <2> QED
    BY <1>9, <2>1, <2>2 DEF Within, Tabled
<1> QED
  BY <1>6, <1>8, <1>10 DEF ts, B

(* The trials that count are those of two branches that do. *)
LEMMA TableCounted ==
  ASSUME NEW D \in Marks, NEW X, NEW Y, NEW xs \in Seq(Branches(D, X)),
         NEW ys \in Seq(Branches(D, Y)), NEW f, NEW ts, Tabled(ts, xs, ys, f), NEW prefer,
         NEW i \in DOMAIN xs, NEW j \in DOMAIN ys, NEW k \in DOMAIN ts,
         ts[k] = Cell(xs, ys, f, i, j)
  PROVE  k \in Counted(ts, DOMAIN ts, prefer)
           <=> i \in Counted(xs, DOMAIN xs, prefer) /\ j \in Counted(ys, DOMAIN ys, prefer)
<1> DEFINE mark(a, b) == Mark(HasDefault(xs), HasDefault(ys), xs[a].default, ys[b].default)
<1>1. /\ \A a \in DOMAIN xs : xs[a].default \in BOOLEAN
      /\ \A b \in DOMAIN ys : ys[b].default \in BOOLEAN
  BY Branched, MarksBoolean
<1>2. ts[k].default = mark(i, j)
  BY DEF Cell, Branch
<1>3. (\E l \in DOMAIN ts : ts[l].default) <=> \E a \in DOMAIN xs, b \in DOMAIN ys : mark(a, b)
  <2>1. \A a, b : Cell(xs, ys, f, a, b).default = mark(a, b)
    BY DEF Cell, Branch
  <2> HIDE DEF mark
  <2> QED
    BY <2>1 DEF Tabled
<1>4. \A a \in DOMAIN xs, b \in DOMAIN ys :
        mark(a, b) <=> /\ HasDefault(xs) \/ HasDefault(ys)
                       /\ HasDefault(xs) => xs[a].default
                       /\ HasDefault(ys) => ys[b].default
  BY <1>1 DEF Mark, HasDefault
<1>5. (\E a \in DOMAIN xs, b \in DOMAIN ys : mark(a, b)) <=> HasDefault(xs) \/ HasDefault(ys)
  <2> HIDE DEF mark
  <2>1. ASSUME HasDefault(xs) PROVE \E a \in DOMAIN xs : xs[a].default
    BY <2>1 DEF HasDefault
  <2>2. ASSUME HasDefault(ys) PROVE \E b \in DOMAIN ys : ys[b].default
    BY <2>2 DEF HasDefault
  <2> QED
    BY <1>4, <2>1, <2>2
<1> HIDE DEF mark
<1> QED
  BY <1>2, <1>3, <1>4, <1>5 DEF Counted, HasDefault

-----------------------------------------------------------------------------
(* What two values come to *)

\* m may come to what both may, and is sure of nothing that one is not sure of
\* - of preferences only where there is something both prefer.
MeetsFlat(v, w, m) ==
  /\ SaysFlat(v, FALSE) \cap SaysFlat(w, FALSE) \subseteq SaysFlat(m, FALSE)
  /\ SaysFlat(m, TRUE) \subseteq SaysFlat(v, TRUE) \cap SaysFlat(w, TRUE)

Joins(m, prefer, may1, may2, sure1, sure2) ==
  /\ may1 \cap may2 \subseteq Says(m, prefer, FALSE)
  /\ ~prefer \/ may1 \cap may2 # {} => Says(m, prefer, TRUE) \subseteq sure1 \cap sure2
Meets(v, w, m, prefer) ==
  Joins(m, prefer, Says(v, prefer, FALSE), Says(w, prefer, FALSE),
        Says(v, prefer, TRUE), Says(w, prefer, TRUE))
MeetsOver(xs, ys, m, prefer) ==
  Joins(m, prefer, SaysOver(xs, DOMAIN xs, prefer, FALSE), SaysOver(ys, DOMAIN ys, prefer, FALSE),
        SaysOver(xs, DOMAIN xs, prefer, TRUE), SaysOver(ys, DOMAIN ys, prefer, TRUE))

LEMMA TableSays ==
  ASSUME NEW M, NEW prefer, Fit(M, prefer), NEW D \in Marks, NEW X, NEW Y, NEW W \in SUBSET Inners(M),
         NEW xs \in Seq(Branches(D, X)), NEW ys \in Seq(Branches(D, Y)),
         NEW f \in [(DOMAIN xs) \X (DOMAIN ys) -> W],
         \A i \in DOMAIN xs, j \in DOMAIN ys : MeetsFlat(xs[i].val, ys[j].val, f[<<i, j>>]),
         ~LosesPending(Table(xs, ys, f))
  PROVE  MeetsOver(xs, ys, Tried(Table(xs, ys, f)), prefer)
<1> DEFINE ts == Table(xs, ys, f)
           r == Tried(ts)
           CX == Counted(xs, DOMAIN xs, prefer)
           CY == Counted(ys, DOMAIN ys, prefer)
           C == Counted(ts, DOMAIN ts, prefer)
           May == SaysOver(xs, DOMAIN xs, prefer, FALSE) \cap SaysOver(ys, DOMAIN ys, prefer, FALSE)
<1>1. ts \in Seq(Branches(D, W)) /\ Tabled(ts, xs, ys, f)
  BY TableTyped
<1> HIDE DEF ts
<1>2. Sums(r, ts, prefer)
  <2>1. ~LosesPending(ts)
    BY DEF ts
  <2> QED
    BY <1>1, <2>1, TriedSays
<1>3. CX \subseteq DOMAIN xs /\ CY \subseteq DOMAIN ys /\ C \subseteq DOMAIN ts
  BY DEF Counted
<1>4. \A i \in DOMAIN xs, j \in DOMAIN ys, k \in DOMAIN ts :
        ts[k] = Cell(xs, ys, f, i, j) => (k \in C <=> i \in CX /\ j \in CY)
  BY <1>1, TableCounted
<1>5. \A i, j : Cell(xs, ys, f, i, j).val = f[<<i, j>>]
  BY DEF Cell, Branch
<1>6. ASSUME NEW i \in CX, NEW j \in CY
      PROVE  \E k \in C : ts[k].val = f[<<i, j>>]
  <2> HIDE DEF CX, CY, C
  <2>1. PICK k \in DOMAIN ts : ts[k] = Cell(xs, ys, f, i, j)
    BY <1>1, <1>3 DEF Tabled
  <2> QED
    BY <1>3, <1>4, <1>5, <2>1
<1>7. ASSUME NEW k \in C
      PROVE  \E i \in CX, j \in CY : ts[k].val = f[<<i, j>>]
  <2> HIDE DEF CX, CY, C
  <2>1. PICK i \in DOMAIN xs, j \in DOMAIN ys : ts[k] = Cell(xs, ys, f, i, j)
    BY <1>1, <1>3 DEF Tabled
  <2> QED
    BY <1>3, <1>4, <1>5, <2>1
<1>8. /\ SaysOver(xs, DOMAIN xs, prefer, FALSE) = UNION {SaysFlat(xs[i].val, FALSE) : i \in CX}
      /\ SaysOver(ys, DOMAIN ys, prefer, FALSE) = UNION {SaysFlat(ys[j].val, FALSE) : j \in CY}
      /\ SaysOver(xs, DOMAIN xs, prefer, TRUE) = UNION {SaysFlat(xs[i].val, TRUE) : i \in CX}
      /\ SaysOver(ys, DOMAIN ys, prefer, TRUE) = UNION {SaysFlat(ys[j].val, TRUE) : j \in CY}
  BY DEF SaysOver
<1>9. /\ \A k \in C : SaysFlat(ts[k].val, FALSE) \subseteq Says(r, prefer, FALSE)
      /\ (~prefer \/ \E k \in C : SaysFlat(ts[k].val, FALSE) # {}) =>
           \A a \in Says(r, prefer, TRUE) : \E k \in C : a \in SaysFlat(ts[k].val, TRUE)
  BY <1>2 DEF Sums
<1> HIDE DEF CX, CY, C, r
<1>10. ASSUME NEW a \in May
       PROVE  a \in Says(r, prefer, FALSE) /\ \E k \in C : SaysFlat(ts[k].val, FALSE) # {}
  <2>1. PICK i \in CX : a \in SaysFlat(xs[i].val, FALSE)
    BY <1>8
  <2>2. PICK j \in CY : a \in SaysFlat(ys[j].val, FALSE)
    BY <1>8
  <2>3. PICK k \in C : ts[k].val = f[<<i, j>>]
    BY <1>6
  <2>4. a \in SaysFlat(ts[k].val, FALSE)
    BY <1>3, <2>1, <2>2, <2>3 DEF MeetsFlat
  <2> QED
    BY <1>9, <2>4
<1>11. ASSUME ~prefer \/ May # {}, NEW a \in Says(r, prefer, TRUE)
       PROVE  /\ a \in SaysOver(xs, DOMAIN xs, prefer, TRUE)
              /\ a \in SaysOver(ys, DOMAIN ys, prefer, TRUE)
  <2> HIDE DEF May
  <2>1. PICK k \in C : a \in SaysFlat(ts[k].val, TRUE)
    BY <1>9, <1>10, <1>11
  <2>2. PICK i \in CX, j \in CY : ts[k].val = f[<<i, j>>]
    BY <1>7
  <2>3. a \in SaysFlat(xs[i].val, TRUE) /\ a \in SaysFlat(ys[j].val, TRUE)
    BY <1>3, <2>1, <2>2 DEF MeetsFlat
  <2> QED
    BY <1>8, <2>3
<1>12. MeetsOver(xs, ys, r, prefer)
  BY <1>10, <1>11 DEF MeetsOver, Joins
<1> QED
  BY <1>12 DEF r, ts

LEMMA PlainMeets ==
  ASSUME NEW v \in Plains, NEW w \in Plains
  PROVE  /\ MeetPlain(v, w) \in Plains /\ MeetsFlat(v, w, MeetPlain(v, w))
         /\ ~UnresolvedPlain(v) /\ ~UnresolvedPlain(w) => ~UnresolvedPlain(MeetPlain(v, w))
<1> DEFINE m == MeetPlain(v, w)
           both == v.set \cap w.set
<1>1. \A x \in Plains : /\ ~IsChoice(x)
                        /\ \A sure : SaysFlat(x, sure) = SaysPlain(x, sure)
                        /\ \A sure \in BOOLEAN : SaysPlain(x, sure) \subseteq Points
                        /\ IsBottom(x) => SaysPlain(x, TRUE) = {}
                        /\ ~IsBottom(x) => x \in Leaves
  BY PlainShapes DEF SaysFlat, SaysPlain, Plains
<1>2. CASE IsBottom(v)
  <2>1. m = v
    BY <1>2 DEF MeetPlain
  <2> QED
    BY <1>1, <1>2, <2>1 DEF MeetsFlat
<1>3. CASE ~IsBottom(v) /\ IsBottom(w)
  <2>1. m = w
    BY <1>3 DEF MeetPlain
  <2> QED
    BY <1>1, <1>3, <2>1 DEF MeetsFlat
<1>4. CASE ~IsBottom(v) /\ ~IsBottom(w)
  <2>1. v \in Leaves /\ w \in Leaves
    BY <1>1, <1>4
  <2>2. both \in SUBSET Points
    BY <2>1, PlainShapes
  <2>3. \A sure : SaysFlat(v, sure) = (IF sure /\ v.waits THEN {} ELSE v.set)
               /\ SaysFlat(w, sure) = (IF sure /\ w.waits THEN {} ELSE w.set)
    BY <1>1, <1>4 DEF SaysPlain
  <2> HIDE DEF m
  <2>4. CASE both = {}
    <3>1. m = Bottom("conflict")
      BY <1>4, <2>4 DEF m, MeetPlain
    <3>2. m \in Plains /\ IsBottom(m) /\ ~IsPending(m)
      BY <3>1 DEF Bottom, Bottoms, Plains, IsBottom, IsPending
    <3> QED
      BY <1>1, <2>3, <2>4, <3>2 DEF m, MeetsFlat, UnresolvedPlain, IsBottom
  <2>5. CASE both # {} /\ (v.waits \/ w.waits) /\ \A a \in both : a[1] = "list"
    <3>1. m = Bottom("unresolved")
      BY <1>4, <2>5 DEF m, MeetPlain
    <3>2. m \in Plains /\ IsBottom(m) /\ IsPending(m)
      BY <3>1 DEF Bottom, Bottoms, Plains, IsBottom, IsPending
    <3>3. SaysFlat(m, FALSE) = Points
      BY <1>1, <3>2 DEF SaysPlain
    <3>4. UnresolvedPlain(v) \/ UnresolvedPlain(w)
      BY <2>1, <2>5 DEF Leaves, UnresolvedPlain
    <3> QED
      BY <1>1, <2>2, <2>3, <3>2, <3>3, <3>4 DEF m, MeetsFlat
  <2>6. CASE both # {} /\ (v.waits \/ w.waits) /\ ~\A a \in both : a[1] = "list"
    <3>1. m = Holding(both)
      BY <1>4, <2>6 DEF m, MeetPlain
    <3>2. m \in Leaves /\ m.waits /\ m.set = both
      BY <2>2, <3>1 DEF Holding, Leaves
    <3>3. SaysFlat(m, FALSE) = both /\ SaysFlat(m, TRUE) = {}
      BY <1>1, <3>2, PlainShapes DEF SaysPlain, Plains
    <3>4. UnresolvedPlain(v) \/ UnresolvedPlain(w)
      BY <2>1, <2>6 DEF Leaves, UnresolvedPlain
    <3> QED
      BY <2>3, <3>2, <3>3, <3>4 DEF m, MeetsFlat, Plains
  <2>7. CASE both # {} /\ ~(v.waits \/ w.waits)
    <3>1. m = Leaf(both)
      BY <1>4, <2>7 DEF m, MeetPlain
    <3>2. m \in Leaves /\ ~m.waits /\ m.set = both
      BY <2>2, <3>1 DEF Leaf, Leaves
    <3>3. SaysFlat(m, FALSE) = both /\ SaysFlat(m, TRUE) = both
      BY <1>1, <3>2, PlainShapes DEF SaysPlain, Plains
    <3>4. ~UnresolvedPlain(m)
      BY <3>2, PlainShapes DEF UnresolvedPlain, IsPending
    <3> QED
      BY <2>3, <2>7, <3>2, <3>3, <3>4 DEF m, MeetsFlat, Plains
  <2> QED
    BY <2>4, <2>5, <2>6, <2>7
<1> QED
  BY <1>2, <1>3, <1>4

\* The branches of a choice; a plain value stands for one.
Others(y) == IF IsChoice(y) THEN y.branches ELSE <<Branch(FALSE, y)>>

LEMMA OthersSay ==
  ASSUME NEW D \in Marks, NEW V, Plains \subseteq V, NEW y \in Plains \cup ChoicesOver(D, V)
  PROVE  /\ Others(y) \in Seq(Branches(D, V))
         /\ \A prefer, sure : SaysOver(Others(y), DOMAIN Others(y), prefer, sure) = Says(y, prefer, sure)
         /\ Unresolved(y) <=> \E i \in DOMAIN Others(y) : UnresolvedFlat(Others(y)[i].val)
<1>1. CASE y \in Plains
  <2> DEFINE os == <<Branch(FALSE, y)>>
  <2>1. ~IsChoice(y) /\ Others(y) = os
    BY <1>1, PlainShapes DEF Others
  <2>2. Branch(FALSE, y) \in Branches(D, V)
    <3>1. FALSE \in D /\ y \in V
      BY <1>1 DEF Marks
    <3> QED
      BY <3>1 DEF Branch, Branches
  <2>3. os \in Seq(Branches(D, V))
    <3> DEFINE b == Branch(FALSE, y)
               B == Branches(D, V)
    <3>1. b \in B
      BY <2>2
    <3> HIDE DEF b, B
    <3>2. <<b>> \in Seq(B)
      BY <3>1
    <3> QED
      BY <3>2 DEF b, B
  <2>4. DOMAIN os = {1} /\ os[1].val = y
    BY DEF Branch
  <2> HIDE DEF os
  <2>5. ASSUME NEW prefer, NEW sure PROVE SaysOver(os, DOMAIN os, prefer, sure) = Says(y, prefer, sure)
    <3>1. Counted(os, DOMAIN os, prefer) = {1}
      BY <2>4 DEF Counted
    <3> QED
      BY <2>1, <2>4, <3>1 DEF SaysOver, Says, SaysFlat
  <2>6. Unresolved(y) <=> UnresolvedFlat(y)
    BY <2>1 DEF Unresolved, UnresolvedFlat
  <2> QED
    BY <2>1, <2>3, <2>4, <2>5, <2>6
<1>2. CASE y \in ChoicesOver(D, V)
  <2>1. IsChoice(y) /\ Others(y) = y.branches /\ y.branches \in Seq(Branches(D, V))
    BY <1>2, ChoiceShapes DEF Others
  <2> QED
    BY <2>1 DEF Says, Unresolved
<1> QED
  BY <1>1, <1>2

\* The trials of x's branches against y, where g has what two values come to.
Trial(g, x, y) ==
  Table(x.branches, Others(y),
        [p \in (DOMAIN x.branches) \X (DOMAIN Others(y)) |->
           g[<<x.branches[p[1]].val, Others(y)[p[2]].val>>]])

LEMMA ChoiceMeets ==
  ASSUME NEW M, NEW prefer, Fit(M, prefer), NEW D \in Marks, NEW V \in SUBSET Inners(M),
         Plains \subseteq V, NEW g \in [V \X V -> V],
         NEW x \in ChoicesOver(D, V), NEW y \in Plains \cup ChoicesOver(D, V),
         \A i \in DOMAIN x.branches, j \in DOMAIN Others(y) :
           LET v == x.branches[i].val
               w == Others(y)[j].val
           IN MeetsFlat(v, w, g[<<v, w>>]),
         ~LosesPending(Trial(g, x, y))
  PROVE  Meets(x, y, Tried(Trial(g, x, y)), prefer)
<1> DEFINE xs == x.branches
           ys == Others(y)
           f == [p \in (DOMAIN xs) \X (DOMAIN ys) |-> g[<<xs[p[1]].val, ys[p[2]].val>>]]
<1>1. /\ xs \in Seq(Branches(D, V)) /\ ys \in Seq(Branches(D, V))
      /\ \A i \in DOMAIN xs : xs[i].val \in V
      /\ \A j \in DOMAIN ys : ys[j].val \in V
  BY OthersSay, ChoiceShapes, Branched
<1>2. /\ \A sure : SaysOver(ys, DOMAIN ys, prefer, sure) = Says(y, prefer, sure)
      /\ \A sure : SaysOver(xs, DOMAIN xs, prefer, sure) = Says(x, prefer, sure)
  BY OthersSay, ChoiceShapes DEF Says
<1>3. Trial(g, x, y) = Table(xs, ys, f)
  BY DEF Trial
<1>4. \A i \in DOMAIN xs, j \in DOMAIN ys : MeetsFlat(xs[i].val, ys[j].val, g[<<xs[i].val, ys[j].val>>])
  OBVIOUS
<1> HIDE DEF xs, ys
<1>5. f \in [(DOMAIN xs) \X (DOMAIN ys) -> V]
  BY <1>1
<1>6. \A i \in DOMAIN xs, j \in DOMAIN ys : f[<<i, j>>] = g[<<xs[i].val, ys[j].val>>]
  OBVIOUS
<1> HIDE DEF f
<1>7. ~LosesPending(Table(xs, ys, f))
  BY <1>3
<1>8. MeetsOver(xs, ys, Tried(Table(xs, ys, f)), prefer)
  <2>1. \A i \in DOMAIN xs, j \in DOMAIN ys : MeetsFlat(xs[i].val, ys[j].val, f[<<i, j>>])
    BY <1>4, <1>6
  <2> QED
    BY <1>1, <1>5, <1>7, <2>1, TableSays
<1> QED
  BY <1>2, <1>3, <1>8 DEF MeetsOver, Meets

Resolves(g, V) ==
  \A v, w \in V : ~UnresolvedFlat(v) /\ ~UnresolvedFlat(w) => ~UnresolvedFlat(g[<<v, w>>])

LEMMA ChoiceMeetTyped ==
  ASSUME NEW M, NEW D \in Marks, NEW V \in SUBSET Inners(M),
         Plains \subseteq V, NEW g \in [V \X V -> V],
         NEW x \in ChoicesOver(D, V), NEW y \in Plains \cup ChoicesOver(D, V)
  PROVE  /\ Tried(Trial(g, x, y)) \in V \cup ChoicesOver(D, V)
         /\ Resolves(g, V) /\ ~Unresolved(x) /\ ~Unresolved(y) => ~Unresolved(Tried(Trial(g, x, y)))
<1> DEFINE xs == x.branches
           ys == Others(y)
           f == [p \in (DOMAIN xs) \X (DOMAIN ys) |-> g[<<xs[p[1]].val, ys[p[2]].val>>]]
           ts == Trial(g, x, y)
<1>1. /\ xs \in Seq(Branches(D, V)) /\ ys \in Seq(Branches(D, V))
      /\ \A i \in DOMAIN xs : xs[i].val \in V
      /\ \A j \in DOMAIN ys : ys[j].val \in V
  BY OthersSay, ChoiceShapes, Branched
<1>2. ts = Table(xs, ys, f)
  BY DEF Trial
<1>3. /\ ~Unresolved(y) => \A j \in DOMAIN ys : ~UnresolvedFlat(ys[j].val)
      /\ ~Unresolved(x) => \A i \in DOMAIN xs : ~UnresolvedFlat(xs[i].val)
  BY OthersSay, ChoiceShapes DEF Unresolved
<1> HIDE DEF xs, ys
<1>4. f \in [(DOMAIN xs) \X (DOMAIN ys) -> V]
  BY <1>1
<1>5. \A i \in DOMAIN xs, j \in DOMAIN ys : f[<<i, j>>] = g[<<xs[i].val, ys[j].val>>]
  OBVIOUS
<1> HIDE DEF f, ts
<1>6. ts \in Seq(Branches(D, V)) /\ Tabled(ts, xs, ys, f)
  BY <1>1, <1>2, <1>4, TableTyped
<1>7. /\ Tried(ts) \in V \cup Bottoms \cup ChoicesOver(D, V)
      /\ (\A k \in DOMAIN ts : ~UnresolvedFlat(ts[k].val)) => ~Unresolved(Tried(ts))
  BY <1>6, TriedTyped
<1>8. ASSUME Resolves(g, V), ~Unresolved(x), ~Unresolved(y), NEW k \in DOMAIN ts
      PROVE  ~UnresolvedFlat(ts[k].val)
  <2>1. PICK i \in DOMAIN xs, j \in DOMAIN ys : ts[k] = Cell(xs, ys, f, i, j)
    BY <1>6 DEF Tabled
  <2>2. ts[k].val = g[<<xs[i].val, ys[j].val>>]
    BY <1>5, <2>1 DEF Cell, Branch
  <2> QED
    BY <1>1, <1>3, <1>8, <2>2 DEF Resolves
<1>9. Bottoms \subseteq V
  BY DEF Plains
<1> QED
  BY <1>7, <1>8, <1>9 DEF ts

\* Meeting values of one level, as a function.
PlainMeet == [p \in Plains \X Plains |-> MeetPlain(p[1], p[2])]
FlatMeet(M) == [p \in Inners(M) \X Inners(M) |-> MeetFlat(p[1], p[2])]

LEMMA FlatTrials ==
  ASSUME NEW M \in Marks, NEW x \in ChoicesOver(M, Plains), NEW y \in Inners(M)
  PROVE  Trials(MeetPlain, x, y) = Trial(PlainMeet, x, y)
<1> DEFINE xs == x.branches
           ys == Others(y)
           f == [p \in (DOMAIN xs) \X (DOMAIN ys) |-> PlainMeet[<<xs[p[1]].val, ys[p[2]].val>>]]
           cell(i, j) == Branch(Mark(HasDefault(xs), HasDefault(ys), xs[i].default, ys[j].default),
                                MeetPlain(xs[i].val, ys[j].val))
<1>1. /\ \A i \in DOMAIN xs : xs[i].val \in Plains
      /\ \A j \in DOMAIN ys : ys[j].val \in Plains
  BY OthersSay, ChoiceShapes, Branched DEF Inners
<1>2. Trials(MeetPlain, x, y) = FlattenSeq([i \in DOMAIN xs |-> [j \in DOMAIN ys |-> cell(i, j)]])
  BY DEF Trials, Others
<1>3. Trial(PlainMeet, x, y)
        = FlattenSeq([i \in DOMAIN xs |-> [j \in DOMAIN ys |-> Cell(xs, ys, f, i, j)]])
  BY DEF Trial, Table
<1> HIDE DEF xs, ys
<1>4. \A i \in DOMAIN xs, j \in DOMAIN ys : f[<<i, j>>] = MeetPlain(xs[i].val, ys[j].val)
  BY <1>1 DEF PlainMeet
<1>5. \A i \in DOMAIN xs, j \in DOMAIN ys : Cell(xs, ys, f, i, j) = cell(i, j)
  BY <1>4 DEF Cell
<1> HIDE DEF f, cell
<1>6. [i \in DOMAIN xs |-> [j \in DOMAIN ys |-> Cell(xs, ys, f, i, j)]]
        = [i \in DOMAIN xs |-> [j \in DOMAIN ys |-> cell(i, j)]]
  BY <1>5
<1> QED
  BY <1>2, <1>3, <1>6

LEMMA PlainMeetTyped == PlainMeet \in [Plains \X Plains -> Plains] /\ Resolves(PlainMeet, Plains)
<1>1. \A v, w \in Plains : /\ PlainMeet[<<v, w>>] = MeetPlain(v, w)
                           /\ MeetPlain(v, w) \in Plains
                           /\ ~UnresolvedPlain(v) /\ ~UnresolvedPlain(w) => ~UnresolvedPlain(MeetPlain(v, w))
  BY PlainMeets DEF PlainMeet
<1>2. \A v \in Plains : UnresolvedFlat(v) <=> UnresolvedPlain(v)
  BY PlainShapes DEF UnresolvedFlat
<1>3. Resolves(PlainMeet, Plains)
  BY <1>1, <1>2 DEF Resolves
<1>4. PlainMeet \in [Plains \X Plains -> Plains]
  BY <1>1 DEF PlainMeet
<1> QED
  BY <1>3, <1>4

(* What the branches of a choice come to with a value. *)
LEMMA FlatChoiceMeets ==
  ASSUME NEW M \in Marks, NEW x \in ChoicesOver(M, Plains), NEW y \in Inners(M)
  PROVE  LET m == Tried(Trials(MeetPlain, x, y)) IN
         /\ m \in Inners(M)
         /\ ~LosesPending(Trials(MeetPlain, x, y)) => MeetsFlat(x, y, m)
         /\ ~UnresolvedFlat(x) /\ ~UnresolvedFlat(y) => ~UnresolvedFlat(m)
<1> DEFINE ts == Trial(PlainMeet, x, y)
           m == Tried(ts)
<1>1. Trials(MeetPlain, x, y) = ts
  BY FlatTrials
<1>2. /\ y \in Plains \cup ChoicesOver(M, Plains) /\ x \in Inners(M)
      /\ Plains \in SUBSET Inners(M) /\ Plains \subseteq Plains
  BY DEF Inners
<1>3. /\ \A i \in DOMAIN x.branches : x.branches[i].val \in Plains
      /\ \A j \in DOMAIN Others(y) : Others(y)[j].val \in Plains
  BY <1>2, OthersSay, ChoiceShapes, Branched
<1>4. m \in Inners(M)
  BY <1>2, PlainMeetTyped, ChoiceMeetTyped DEF Inners
<1>5. ASSUME ~LosesPending(ts) PROVE MeetsFlat(x, y, m)
  <2>1. \A i \in DOMAIN x.branches, j \in DOMAIN Others(y) :
          LET v == x.branches[i].val
              w == Others(y)[j].val
          IN MeetsFlat(v, w, PlainMeet[<<v, w>>])
    BY <1>3, PlainMeets DEF PlainMeet
  <2>2. Fit(M, FALSE)
    BY DEF Fit
  <2>3. Meets(x, y, m, FALSE)
    BY <1>2, <1>5, <2>1, <2>2, PlainMeetTyped, ChoiceMeets
  <2>4. \A v \in Inners(M) : /\ Says(v, FALSE, FALSE) = SaysFlat(v, FALSE)
                             /\ Says(v, FALSE, TRUE) = SaysFlat(v, TRUE)
    BY <2>2, InnerSays
  <2> QED
    BY <1>2, <1>4, <2>3, <2>4 DEF Meets, Joins, MeetsFlat
<1>6. ASSUME ~UnresolvedFlat(x), ~UnresolvedFlat(y) PROVE ~UnresolvedFlat(m)
  <2>1. ~Unresolved(x) /\ ~Unresolved(y)
    BY <1>2, <1>6, InnerResolved
  <2>2. ~Unresolved(m)
    BY <1>2, <2>1, PlainMeetTyped, ChoiceMeetTyped
  <2> QED
    BY <1>4, <2>2, InnerResolved
<1> QED
  BY <1>1, <1>4, <1>5, <1>6

LEMMA FlatMeets ==
  ASSUME NEW M \in Marks, NEW v \in Inners(M), NEW w \in Inners(M)
  PROVE  /\ MeetFlat(v, w) \in Inners(M)
         /\ ~LosesFlat(v, w) => MeetsFlat(v, w, MeetFlat(v, w))
         /\ ~UnresolvedFlat(v) /\ ~UnresolvedFlat(w) => ~UnresolvedFlat(MeetFlat(v, w))
<1> DEFINE m == MeetFlat(v, w)
<1>1. \A x \in Inners(M) : /\ IsChoice(x) => x \in ChoicesOver(M, Plains) /\ ~IsBottom(x)
                           /\ ~IsChoice(x) => x \in Plains
                           /\ IsBottom(x) => SaysFlat(x, TRUE) = {}
  <2>1. \A x \in Inners(M) : /\ IsChoice(x) => x \in ChoicesOver(M, Plains) /\ ~IsBottom(x)
                             /\ ~IsChoice(x) => x \in Plains
    BY PlainShapes, ChoiceShapes DEF Inners
  <2> QED
    BY <2>1 DEF SaysFlat, SaysPlain
<1>2. CASE IsBottom(v)
  <2>1. m = v
    BY <1>2 DEF MeetFlat, MeetWith
  <2> QED
    BY <1>1, <1>2, <2>1 DEF MeetsFlat
<1>3. CASE ~IsBottom(v) /\ IsBottom(w)
  <2>1. m = w
    BY <1>3 DEF MeetFlat, MeetWith
  <2> QED
    BY <1>1, <1>3, <2>1 DEF MeetsFlat
<1>4. CASE ~IsBottom(v) /\ ~IsBottom(w) /\ IsChoice(v)
  <2>1. m = Tried(Trials(MeetPlain, v, w))
    BY <1>4 DEF MeetFlat, MeetWith
  <2>2. LosesPending(Trials(MeetPlain, v, w)) => LosesFlat(v, w)
    BY <1>4 DEF LosesFlat, LosesWith
  <2> QED
    BY <1>1, <1>4, <2>1, <2>2, FlatChoiceMeets
<1>5. CASE ~IsBottom(v) /\ ~IsBottom(w) /\ ~IsChoice(v) /\ IsChoice(w)
  <2>1. m = Tried(Trials(MeetPlain, w, v))
    BY <1>5 DEF MeetFlat, MeetWith
  <2>2. LosesPending(Trials(MeetPlain, w, v)) => LosesFlat(v, w)
    BY <1>5 DEF LosesFlat, LosesWith
  <2>3. /\ m \in Inners(M)
        /\ ~LosesPending(Trials(MeetPlain, w, v)) => MeetsFlat(w, v, m)
        /\ ~UnresolvedFlat(w) /\ ~UnresolvedFlat(v) => ~UnresolvedFlat(m)
    BY <1>1, <1>5, <2>1, FlatChoiceMeets
  <2> QED
    BY <2>2, <2>3 DEF MeetsFlat
<1>6. CASE ~IsBottom(v) /\ ~IsBottom(w) /\ ~IsChoice(v) /\ ~IsChoice(w)
  <2>1. m = MeetPlain(v, w)
    BY <1>6 DEF MeetFlat, MeetWith
  <2>2. v \in Plains /\ w \in Plains
    BY <1>1, <1>6
  <2>3. \A x \in Plains : (UnresolvedFlat(x) <=> UnresolvedPlain(x)) /\ x \in Inners(M)
    BY PlainShapes DEF UnresolvedFlat, Inners
  <2> QED
    BY <2>1, <2>2, <2>3, PlainMeets
<1> QED
  BY <1>2, <1>3, <1>4, <1>5, <1>6

LEMMA OutersAre ==
  ASSUME NEW M \in Marks
  PROVE  Outers(M) = Plains \cup ChoicesOver(BOOLEAN, Inners(M))
<1>1. ASSUME NEW v \in ChoicesOver(M, Plains) PROVE v \in ChoicesOver(BOOLEAN, Inners(M))
  <2>1. PICK bs \in Seq(Branches(M, Plains)) : v = Choice(bs) /\ Copyless(bs)
    BY DEF ChoicesOver
  <2>2. Branches(M, Plains) \subseteq Branches(BOOLEAN, Inners(M))
    BY MarksBoolean DEF Branches, Inners
  <2>3. bs \in Seq(Branches(BOOLEAN, Inners(M)))
    <3> DEFINE S == Branches(M, Plains)
               T == Branches(BOOLEAN, Inners(M))
    <3>1. bs \in Seq(S) /\ S \subseteq T
      BY <2>2
    <3> HIDE DEF S, T
    <3>2. bs \in Seq(T)
      BY <3>1
    <3> QED
      BY <3>2 DEF T
  <2> QED
    BY <2>1, <2>3 DEF ChoicesOver
<1> QED
  BY <1>1 DEF Outers, Inners

LEMMA OuterTrials ==
  ASSUME NEW M \in Marks, NEW x \in ChoicesOver(BOOLEAN, Inners(M)), NEW y \in Outers(M)
  PROVE  Trials(MeetFlat, x, y) = Trial(FlatMeet(M), x, y)
<1> DEFINE xs == x.branches
           ys == Others(y)
           g == FlatMeet(M)
           f == [p \in (DOMAIN xs) \X (DOMAIN ys) |-> g[<<xs[p[1]].val, ys[p[2]].val>>]]
           cell(i, j) == Branch(Mark(HasDefault(xs), HasDefault(ys), xs[i].default, ys[j].default),
                                MeetFlat(xs[i].val, ys[j].val))
<1>1. /\ \A i \in DOMAIN xs : xs[i].val \in Inners(M)
      /\ \A j \in DOMAIN ys : ys[j].val \in Inners(M)
  <2>1. Plains \subseteq Inners(M) /\ BOOLEAN \in Marks
    BY DEF Inners, Marks
  <2> QED
    BY <2>1, OutersAre, OthersSay, ChoiceShapes, Branched
<1>2. Trials(MeetFlat, x, y) = FlattenSeq([i \in DOMAIN xs |-> [j \in DOMAIN ys |-> cell(i, j)]])
  BY DEF Trials, Others
<1>3. Trial(g, x, y)
        = FlattenSeq([i \in DOMAIN xs |-> [j \in DOMAIN ys |-> Cell(xs, ys, f, i, j)]])
  BY DEF Trial, Table
<1> HIDE DEF xs, ys
<1>4. \A i \in DOMAIN xs, j \in DOMAIN ys : f[<<i, j>>] = MeetFlat(xs[i].val, ys[j].val)
  BY <1>1 DEF FlatMeet
<1>5. \A i \in DOMAIN xs, j \in DOMAIN ys : Cell(xs, ys, f, i, j) = cell(i, j)
  BY <1>4 DEF Cell
<1> HIDE DEF f, cell
<1>6. [i \in DOMAIN xs |-> [j \in DOMAIN ys |-> Cell(xs, ys, f, i, j)]]
        = [i \in DOMAIN xs |-> [j \in DOMAIN ys |-> cell(i, j)]]
  BY <1>5
<1> QED
  BY <1>2, <1>3, <1>6

LEMMA FlatMeetTyped ==
  ASSUME NEW M \in Marks
  PROVE  /\ FlatMeet(M) \in [Inners(M) \X Inners(M) -> Inners(M)] /\ Resolves(FlatMeet(M), Inners(M))
         /\ \A v, w \in Inners(M) : FlatMeet(M)[<<v, w>>] = MeetFlat(v, w)
<1>1. \A v, w \in Inners(M) : FlatMeet(M)[<<v, w>>] = MeetFlat(v, w)
  BY DEF FlatMeet
<1>2. \A v, w \in Inners(M) :
        /\ MeetFlat(v, w) \in Inners(M)
        /\ ~UnresolvedFlat(v) /\ ~UnresolvedFlat(w) => ~UnresolvedFlat(MeetFlat(v, w))
  BY FlatMeets
<1>3. Resolves(FlatMeet(M), Inners(M))
  BY <1>1, <1>2 DEF Resolves
<1>4. FlatMeet(M) \in [Inners(M) \X Inners(M) -> Inners(M)]
  BY <1>2 DEF FlatMeet
<1> QED
  BY <1>1, <1>3, <1>4

LEMMA OuterChoiceMeets ==
  ASSUME NEW M, NEW prefer, Fit(M, prefer),
         NEW x \in ChoicesOver(BOOLEAN, Inners(M)), NEW y \in Outers(M)
  PROVE  LET m == Tried(Trials(MeetFlat, x, y)) IN
         /\ m \in Outers(M)
         /\ /\ ~LosesPending(Trials(MeetFlat, x, y))
            /\ \A i \in DOMAIN x.branches, j \in DOMAIN Others(y) :
                 ~LosesFlat(x.branches[i].val, Others(y)[j].val)
            => Meets(x, y, m, prefer)
         /\ ~Unresolved(x) /\ ~Unresolved(y) => ~Unresolved(m)
<1> DEFINE V == Inners(M)
           g == FlatMeet(M)
           ts == Trial(g, x, y)
           m == Tried(ts)
<1>1. /\ M \in Marks /\ BOOLEAN \in Marks /\ Plains \subseteq V /\ V \in SUBSET Inners(M)
      /\ y \in Plains \cup ChoicesOver(BOOLEAN, V)
      /\ V \cup ChoicesOver(BOOLEAN, V) = Outers(M)
  BY OutersAre DEF Fit, Marks, Inners, Outers
<1>2. Trials(MeetFlat, x, y) = ts
  BY <1>1, OuterTrials
<1>3. /\ \A i \in DOMAIN x.branches : x.branches[i].val \in V
      /\ \A j \in DOMAIN Others(y) : Others(y)[j].val \in V
  BY <1>1, OthersSay, ChoiceShapes, Branched
<1>4. /\ g \in [V \X V -> V] /\ Resolves(g, V)
      /\ \A v, w \in V : g[<<v, w>>] = MeetFlat(v, w)
  BY <1>1, FlatMeetTyped
<1>5. \A v, w \in V : ~LosesFlat(v, w) => MeetsFlat(v, w, g[<<v, w>>])
  BY <1>1, <1>4, FlatMeets
<1>6. x \in ChoicesOver(BOOLEAN, V)
  OBVIOUS
<1> HIDE DEF V, g
<1>7. /\ m \in V \cup ChoicesOver(BOOLEAN, V)
      /\ ~Unresolved(x) /\ ~Unresolved(y) => ~Unresolved(m)
  BY <1>1, <1>4, <1>6, ChoiceMeetTyped
<1>8. ASSUME ~LosesPending(ts),
             \A i \in DOMAIN x.branches, j \in DOMAIN Others(y) :
               ~LosesFlat(x.branches[i].val, Others(y)[j].val)
      PROVE  Meets(x, y, m, prefer)
  <2>1. \A i \in DOMAIN x.branches, j \in DOMAIN Others(y) :
          LET v == x.branches[i].val
              w == Others(y)[j].val
          IN MeetsFlat(v, w, g[<<v, w>>])
    BY <1>3, <1>5, <1>8
  <2> QED
    BY <1>1, <1>4, <1>6, <1>8, <2>1, ChoiceMeets
<1> QED
  BY <1>1, <1>2, <1>7, <1>8 DEF V, g

(* Unifying two values keeps what both may come to be, and is sure of *)
(* nothing that one is not sure of.                                   *)
LEMMA ValuesMeet ==
  ASSUME NEW M, NEW prefer, Fit(M, prefer), NEW v \in Outers(M), NEW w \in Outers(M)
  PROVE  /\ MeetValues(v, w) \in Outers(M)
         /\ ~Loses(v, w) => Meets(v, w, MeetValues(v, w), prefer)
         /\ ~Unresolved(v) /\ ~Unresolved(w) => ~Unresolved(MeetValues(v, w))
<1> DEFINE m == MeetValues(v, w)
           V == Inners(M)
<1>1. \A x \in Outers(M) : /\ IsChoice(x) => x \in ChoicesOver(BOOLEAN, V) /\ ~IsBottom(x)
                           /\ ~IsChoice(x) => x \in Plains
                           /\ IsBottom(x) => Says(x, prefer, TRUE) = {}
  <2>1. \A x \in Outers(M) : /\ IsChoice(x) => x \in ChoicesOver(BOOLEAN, V) /\ ~IsBottom(x)
                             /\ ~IsChoice(x) => x \in Plains
    BY OutersAre, PlainShapes, ChoiceShapes DEF Fit
  <2> QED
    BY <2>1 DEF Says, SaysPlain
<1>2. CASE IsBottom(v)
  <2>1. m = v
    BY <1>2 DEF MeetValues, MeetWith
  <2> QED
    BY <1>1, <1>2, <2>1 DEF Meets, Joins
<1>3. CASE ~IsBottom(v) /\ IsBottom(w)
  <2>1. m = w
    BY <1>3 DEF MeetValues, MeetWith
  <2> QED
    BY <1>1, <1>3, <2>1 DEF Meets, Joins
<1>4. CASE ~IsBottom(v) /\ ~IsBottom(w) /\ IsChoice(v)
  <2>1. m = Tried(Trials(MeetFlat, v, w))
    BY <1>4 DEF MeetValues, MeetWith
  <2>2. ASSUME ~Loses(v, w)
        PROVE  /\ ~LosesPending(Trials(MeetFlat, v, w))
               /\ \A i \in DOMAIN v.branches, j \in DOMAIN Others(w) :
                    ~LosesFlat(v.branches[i].val, Others(w)[j].val)
    BY <1>4, <2>2 DEF Loses, LosesWith, Others
  <2> QED
    BY <1>1, <1>4, <2>1, <2>2, OuterChoiceMeets
<1>5. CASE ~IsBottom(v) /\ ~IsBottom(w) /\ ~IsChoice(v) /\ IsChoice(w)
  <2>1. m = Tried(Trials(MeetFlat, w, v))
    BY <1>5 DEF MeetValues, MeetWith
  <2>2. ASSUME ~Loses(v, w)
        PROVE  /\ ~LosesPending(Trials(MeetFlat, w, v))
               /\ \A i \in DOMAIN w.branches, j \in DOMAIN Others(v) :
                    ~LosesFlat(w.branches[i].val, Others(v)[j].val)
    BY <1>5, <2>2 DEF Loses, LosesWith, Others
  <2>3. /\ m \in Outers(M)
        /\ ~Loses(v, w) => Meets(w, v, m, prefer)
        /\ ~Unresolved(w) /\ ~Unresolved(v) => ~Unresolved(m)
    BY <1>1, <1>5, <2>1, <2>2, OuterChoiceMeets
  <2>4. Meets(w, v, m, prefer) => Meets(v, w, m, prefer)
    BY DEF Meets, Joins
  <2> QED
    BY <2>3, <2>4
<1>6. CASE ~IsBottom(v) /\ ~IsBottom(w) /\ ~IsChoice(v) /\ ~IsChoice(w)
  <2>1. m = MeetPlain(v, w)
    BY <1>6 DEF MeetValues, MeetWith
  <2>2. v \in Plains /\ w \in Plains
    BY <1>1, <1>6
  <2>3. \A x \in Plains : /\ UnresolvedPlain(x) <=> Unresolved(x)
                          /\ Says(x, prefer, FALSE) = SaysFlat(x, FALSE)
                          /\ Says(x, prefer, TRUE) = SaysFlat(x, TRUE)
                          /\ x \in Outers(M)
    BY PlainShapes DEF Unresolved, Says, SaysFlat, Inners, Outers
  <2>4. /\ m \in Plains /\ MeetsFlat(v, w, m)
        /\ ~UnresolvedPlain(v) /\ ~UnresolvedPlain(w) => ~UnresolvedPlain(m)
    BY <2>1, <2>2, PlainMeets
  <2> HIDE DEF m
  <2>5. Meets(v, w, m, prefer)
    BY <2>2, <2>3, <2>4 DEF Meets, Joins, MeetsFlat
  <2> QED
    BY <2>2, <2>3, <2>4, <2>5 DEF m
<1> QED
  BY <1>2, <1>3, <1>4, <1>5, <1>6

-----------------------------------------------------------------------------
(* What a choice evaluates to *)

HasCustom(bs) == \E i \in DOMAIN bs : bs[i].val = Custom
Undecided(bs) == {i \in DOMAIN bs : ~Definite(bs[i].val)}

LEMMA FinalKept ==
  ASSUME NEW D \in Marks, NEW V, NEW bs \in Seq(Branches(D, V))
  PROVE  /\ Keep(bs, Final(bs)) \in Seq(Branches(D, V)) /\ Copyless(Keep(bs, Final(bs)))
         /\ \A i \in Undecided(bs) : Stands(Keep(bs, Final(bs)), bs[i].val, bs[i].default)
         /\ \A k \in DOMAIN Keep(bs, Final(bs)) : Comes(Keep(bs, Final(bs))[k], bs, Undecided(bs))
         /\ \A prefer, sure :
              SaysOver(Keep(bs, Final(bs)), DOMAIN Keep(bs, Final(bs)), prefer, sure)
                = SaysOver(bs, Undecided(bs), prefer, sure)
<1>1. Undecided(bs) = Left(bs, Final(bs))
  BY DEF Undecided, Left, Final, Failed, Definite
<1> QED
  BY <1>1, Kept, KeptSays

\* v is what branches come to of which one is an error("...").
DecidedAs(v, bs, prefer) ==
  /\ Undecided(bs) = {} => v \in Bottoms /\ v.kind = "conflict"
  /\ (\E i \in Undecided(bs) : ~IsBottom(bs[i].val)) =>
       /\ ~IsBottom(v)
       /\ \A sure \in BOOLEAN : Says(v, prefer, sure) = SaysOver(bs, Undecided(bs), prefer, sure)
  /\ Undecided(bs) # {} /\ (\A i \in Undecided(bs) : IsBottom(bs[i].val)) =>
       v \in Bottoms /\ \E i \in Undecided(bs) : v.kind = bs[i].val.kind

LEMMA Decides ==
  ASSUME NEW M, NEW prefer, Fit(M, prefer), NEW D \in Marks, NEW V \in SUBSET Inners(M),
         NEW bs \in Seq(Branches(D, V)), HasCustom(bs)
  PROVE  /\ EvalChoice(bs) \in V \cup Bottoms \cup ChoicesOver(D, V)
         /\ DecidedAs(EvalChoice(bs), bs, prefer)
         /\ (\A i \in DOMAIN bs : ~UnresolvedFlat(bs[i].val)) => ~Unresolved(EvalChoice(bs))
<1> DEFINE ks == Keep(bs, Final(bs))
           errors == Final(bs)
           I == Undecided(bs)
           os == OneFailure(ks)
           v == EvalChoice(bs)
           allBottoms == \A k \in DOMAIN ks : IsBottom(ks[k].val)
<1>1. /\ ks \in Seq(Branches(D, V)) /\ Copyless(ks)
      /\ \A i \in I : Stands(ks, bs[i].val, bs[i].default)
      /\ \A k \in DOMAIN ks : Comes(ks[k], bs, I)
      /\ \A sure : SaysOver(ks, DOMAIN ks, prefer, sure) = SaysOver(bs, I, prefer, sure)
  BY FinalKept
<1>2. v = SettleChoice(os, errors)
  BY DEF EvalChoice, HasCustom
<1>3. \E e \in errors : e.kind = "custom"
  <2>1. PICK i \in DOMAIN bs : bs[i].val = Custom
    BY DEF HasCustom
  <2>2. IsBottom(Custom) /\ Definite(Custom) /\ Custom.kind = "custom"
    BY DEF Custom, IsBottom, Definite
  <2> QED
    BY <2>1, <2>2 DEF Final, Failed
<1>4. \A e \in errors : ~IsPending(e)
  BY DEF Final, Definite, IsPending
<1>5. \A i \in DOMAIN bs : bs[i].val \in V /\ bs[i].val \in Inners(M)
  BY Branched
<1>6. I \subseteq DOMAIN bs
  BY DEF Undecided
<1>7. os = IF ks # <<>> /\ allBottoms
           THEN <<ks[CHOOSE i \in {i \in DOMAIN ks : \A j \in DOMAIN ks : Rank(ks[i].val) <= Rank(ks[j].val)} :
                       \A j \in {i2 \in DOMAIN ks : \A j2 \in DOMAIN ks : Rank(ks[i2].val) <= Rank(ks[j2].val)} : i <= j]>>
           ELSE ks
  BY DEF OneFailure
<1> HIDE DEF ks, errors, I, os, v
<1>8. /\ (\E i \in I : ~IsBottom(bs[i].val)) <=> ~allBottoms
      /\ ks = <<>> <=> I = {}
  <2>1. (\E i \in I : ~IsBottom(bs[i].val)) <=> ~allBottoms
    BY <1>1 DEF Stands, Comes
  <2>2. DOMAIN ks = {} <=> I = {}
    BY <1>1 DEF Stands, Comes
  <2>3. DOMAIN ks = {} <=> ks = <<>>
    BY <1>1
  <2> QED
    BY <2>1, <2>2, <2>3
<1>9. \A k \in DOMAIN ks : ks[k] \in Branches(D, V) /\ ks[k].val \in V
  BY <1>1, Branched
<1>10. CASE I # {} /\ ~allBottoms
  <2>1. os = ks /\ ks # <<>>
    BY <1>7, <1>8, <1>10
  <2>2. v \in V \cup Bottoms \cup ChoicesOver(D, V)
    BY <1>1, <1>2, <2>1, SettledTyped
  <2>3. \A sure \in BOOLEAN : Says(v, prefer, sure) = SaysOver(bs, I, prefer, sure)
    <3>1. ASSUME NEW sure \in BOOLEAN PROVE Says(v, prefer, sure) = SaysOver(ks, DOMAIN ks, prefer, sure)
      BY <1>1, <1>2, <2>1, SettledSays
    <3> QED
      BY <1>1, <3>1
  <2>4. ~IsBottom(v)
    <3>1. CASE Len(ks) = 1
      <4>1. DOMAIN ks = {1}
        BY <1>1, <3>1
      <4>2. ~IsBottom(ks[1].val)
        BY <1>10, <4>1
      <4>3. v = ks[1].val
        BY <1>2, <2>1, <3>1, <4>2 DEF SettleChoice
      <4> QED
        BY <4>2, <4>3
    <3>2. CASE Len(ks) # 1
      <4>1. Len(ks) # 0
        BY <1>1, <2>1
      <4>2. v = Choice(ks)
        BY <1>2, <2>1, <3>2, <4>1 DEF SettleChoice
      <4> QED
        BY <4>2 DEF Choice, IsBottom
    <3> QED
      BY <3>1, <3>2
  <2>5. ASSUME \A i \in DOMAIN bs : ~UnresolvedFlat(bs[i].val) PROVE ~Unresolved(v)
    <3>1. \A k \in DOMAIN ks : ~UnresolvedFlat(ks[k].val)
      BY <1>1, <1>6, <2>5 DEF Comes
    <3> QED
      BY <1>1, <1>2, <1>4, <2>1, <3>1, SettledResolved
  <2>6. DecidedAs(v, bs, prefer)
    BY <1>8, <1>10, <2>3, <2>4 DEF DecidedAs, I
  <2> QED
    BY <2>2, <2>5, <2>6 DEF v
<1>11. CASE I = {}
  <2>1. os = <<>>
    BY <1>7, <1>8, <1>11
  <2>2. v = [Bottom("conflict") EXCEPT !.custom = \E e \in errors : e.kind = "custom"]
    <3>1. Len(os) = 0 /\ ~\E e \in errors : IsPending(e)
      BY <1>4, <2>1
    <3> QED
      BY <1>2, <3>1 DEF SettleChoice
  <2>3. v \in Bottoms /\ v.kind = "conflict"
    BY <2>2 DEF Bottom, Bottoms
  <2>4. ~Unresolved(v)
    <3> HIDE DEF v
    <3> QED
      BY <2>3, PlainShapes DEF Unresolved, UnresolvedPlain, IsPending, IsChoice, Bottoms
  <2>5. DecidedAs(v, bs, prefer)
    BY <1>11, <2>3 DEF DecidedAs, I
  <2> QED
    BY <2>3, <2>4, <2>5 DEF v
<1>12. CASE I # {} /\ allBottoms
  <2> DEFINE T == {i \in DOMAIN ks : \A j \in DOMAIN ks : Rank(ks[i].val) <= Rank(ks[j].val)}
             m == CHOOSE i \in T : \A j \in T : i <= j
  <2>1. os = <<ks[m]>>
    BY <1>7, <1>8, <1>12
  <2>2. m \in DOMAIN ks
    <3>1. T # {}
      <4>1. PICK k \in DOMAIN ks : TRUE
        BY <1>1, <1>8, <1>12 DEF Stands
      <4>2. \A i \in DOMAIN ks : Rank(ks[i].val) \in {1, 3}
        BY DEF Rank
      <4>3. CASE \E i \in DOMAIN ks : Rank(ks[i].val) = 1
        BY <4>2, <4>3
      <4>4. CASE \A i \in DOMAIN ks : Rank(ks[i].val) = 3
        BY <4>1, <4>4
      <4> QED
        BY <4>2, <4>3, <4>4
    <3>2. T \in SUBSET Nat
      BY <1>1
    <3>3. T \subseteq DOMAIN ks
      OBVIOUS
    <3> HIDE DEF T
    <3>4. \E i \in T : \A j \in T : i <= j
      BY <3>1, <3>2, Least
    <3> QED
      BY <3>3, <3>4
  <2> HIDE DEF T, m
  <2> DEFINE x == ks[m].val
  <2>3. x \in Bottoms /\ IsBottom(x) /\ x \in V
    BY <1>9, <1>12, <2>2, BottomShapes
  <2>4. v = [x EXCEPT !.custom = TRUE]
    <3>1. Len(os) = 1 /\ os[1] = ks[m]
      BY <2>1
    <3> HIDE DEF os
    <3> QED
      BY <1>2, <1>3, <2>3, <3>1 DEF SettleChoice
  <2>5. PICK i \in I : bs[i].val = x
    BY <1>1, <2>2 DEF Comes
  <2> HIDE DEF x
  <2>6. v \in Bottoms /\ v.kind = x.kind
    BY <2>3, <2>4 DEF Bottoms
  <2>7. ASSUME \A l \in DOMAIN bs : ~UnresolvedFlat(bs[l].val) PROVE ~Unresolved(v)
    <3>1. ~UnresolvedFlat(x)
      BY <1>6, <2>5, <2>7
    <3>2. ~IsPending(x)
      BY <2>3, <3>1, PlainShapes DEF UnresolvedFlat, UnresolvedPlain, Plains
    <3> QED
      BY <2>3, <2>6, <3>2, PlainShapes DEF Unresolved, UnresolvedPlain, IsPending, Plains, Bottoms
  <2>8. DecidedAs(v, bs, prefer)
    BY <1>8, <1>12, <2>5, <2>6 DEF DecidedAs, I
  <2> QED
    BY <2>6, <2>7, <2>8 DEF v
<1> QED
  BY <1>10, <1>11, <1>12

LEMMA Undecides ==
  ASSUME NEW M, NEW prefer, Fit(M, prefer), NEW D \in Marks, NEW V \in SUBSET Inners(M),
         NEW bs \in Seq(Branches(D, V)), ~HasCustom(bs)
  PROVE  /\ EvalChoice(bs) \in ChoicesOver(D, V)
         /\ \A sure : Says(EvalChoice(bs), prefer, sure) = SaysOver(bs, DOMAIN bs, prefer, sure)
         /\ (\A i \in DOMAIN bs : ~UnresolvedFlat(bs[i].val)) => ~Unresolved(EvalChoice(bs))
<1> DEFINE ks == Keep(bs, {})
<1>1. EvalChoice(bs) = Choice(ks)
  BY DEF EvalChoice, HasCustom
<1>2. Left(bs, {}) = DOMAIN bs
  BY DEF Left
<1>3. /\ ks \in Seq(Branches(D, V)) /\ Copyless(ks)
      /\ \A k \in DOMAIN ks : Comes(ks[k], bs, DOMAIN bs)
      /\ \A sure : SaysOver(ks, DOMAIN ks, prefer, sure) = SaysOver(bs, DOMAIN bs, prefer, sure)
  BY <1>2, Kept, KeptSays
<1> HIDE DEF ks
<1>4. IsChoice(Choice(ks)) /\ Choice(ks).branches = ks
  BY DEF Choice, IsChoice
<1>5. Choice(ks) \in ChoicesOver(D, V)
  BY <1>3 DEF ChoicesOver
<1>6. (\A i \in DOMAIN bs : ~UnresolvedFlat(bs[i].val)) => ~Unresolved(Choice(ks))
  BY <1>3, <1>4 DEF Unresolved, Comes
<1> QED
  BY <1>1, <1>3, <1>4, <1>5, <1>6 DEF Says

-----------------------------------------------------------------------------
(* A value read before the name is bound, and the one it comes to *)

Traced(v, parts) ==
  /\ IsPending(v) => Refs(parts) # {}
  /\ IsBottom(v) /\ v.kind = "incomplete" => Incompletes(parts) # {}
  /\ v = Custom => Errors(parts) # {}

\* Failures that are final stay; only what is pending may still succeed.
Advances(v, w, parts) ==
  /\ Definite(v) <=> Definite(w)
  /\ v = Custom <=> w = Custom
  /\ IsBottom(v) /\ ~IsPending(v) => IsBottom(w)
  /\ ~IsBottom(v) => ~IsBottom(w)
  /\ Traced(v, parts) /\ Traced(w, parts)

\* w is resolved; v may come to it, and is sure of nothing more.
SettlesFlat(v, w, parts) ==
  /\ Advances(v, w, parts) /\ ~UnresolvedFlat(w)
  /\ SaysFlat(w, FALSE) \subseteq SaysFlat(v, FALSE)
  /\ SaysFlat(v, TRUE) \subseteq SaysFlat(w, TRUE)
Settles(v, w, parts, prefer) ==
  /\ Advances(v, w, parts) /\ ~Unresolved(w)
  /\ Says(w, prefer, FALSE) \subseteq Says(v, prefer, FALSE)
  /\ Says(v, prefer, TRUE) \subseteq Says(w, prefer, TRUE)

\* The same branches, of values that settle to the others.
Parallel(bs, cs, parts) ==
  /\ DOMAIN bs = DOMAIN cs
  /\ \A i \in DOMAIN bs : bs[i].default = cs[i].default /\ SettlesFlat(bs[i].val, cs[i].val, parts)

LEMMA OverSettles ==
  ASSUME NEW bs, NEW cs, NEW parts, Parallel(bs, cs, parts), NEW I \in SUBSET DOMAIN bs, NEW prefer
  PROVE  /\ SaysOver(cs, I, prefer, FALSE) \subseteq SaysOver(bs, I, prefer, FALSE)
         /\ SaysOver(bs, I, prefer, TRUE) \subseteq SaysOver(cs, I, prefer, TRUE)
<1>1. Counted(bs, I, prefer) = Counted(cs, I, prefer)
  BY DEF Counted, Parallel
<1>2. Counted(bs, I, prefer) \subseteq DOMAIN bs
  BY DEF Counted
<1>3. \A i \in DOMAIN bs : /\ SaysFlat(cs[i].val, FALSE) \subseteq SaysFlat(bs[i].val, FALSE)
                           /\ SaysFlat(bs[i].val, TRUE) \subseteq SaysFlat(cs[i].val, TRUE)
  BY DEF Parallel, SettlesFlat
<1> QED
  BY <1>1, <1>2, <1>3 DEF SaysOver

LEMMA ChoiceSettles ==
  ASSUME NEW M, NEW prefer, Fit(M, prefer), NEW D \in Marks, NEW V \in SUBSET Inners(M),
         NEW bs \in Seq(Branches(D, V)), NEW cs \in Seq(Branches(D, V)),
         NEW parts, Unmixed(parts), Parallel(bs, cs, parts)
  PROVE  /\ EvalChoice(bs) \in V \cup Bottoms \cup ChoicesOver(D, V)
         /\ EvalChoice(cs) \in V \cup Bottoms \cup ChoicesOver(D, V)
         /\ Settles(EvalChoice(bs), EvalChoice(cs), parts, prefer)
<1> DEFINE v == EvalChoice(bs)
           w == EvalChoice(cs)
           I == Undecided(bs)
<1>1. DOMAIN cs = DOMAIN bs /\ \A i \in DOMAIN bs : SettlesFlat(bs[i].val, cs[i].val, parts)
  BY DEF Parallel
<1>2. \A i \in DOMAIN cs : ~UnresolvedFlat(cs[i].val)
  BY <1>1 DEF SettlesFlat
<1>3. HasCustom(bs) <=> HasCustom(cs)
  BY <1>1 DEF HasCustom, SettlesFlat, Advances
<1>4. Undecided(cs) = I
  BY <1>1 DEF Undecided, SettlesFlat, Advances
<1>5. I \subseteq DOMAIN bs
  BY DEF Undecided
<1>6. \A x : IsBottom(x) /\ ~IsPending(x) => Says(x, prefer, TRUE) = {} /\ Says(x, prefer, FALSE) = {}
  BY DEF Says, SaysPlain, IsBottom, IsChoice
<1>7. CASE ~HasCustom(bs)
  <2>1. /\ v \in ChoicesOver(D, V) /\ w \in ChoicesOver(D, V)
        /\ \A sure : Says(v, prefer, sure) = SaysOver(bs, DOMAIN bs, prefer, sure)
        /\ \A sure : Says(w, prefer, sure) = SaysOver(cs, DOMAIN cs, prefer, sure)
        /\ ~Unresolved(w)
    BY <1>2, <1>3, <1>7, Undecides
  <2> HIDE DEF v, w
  <2>2. ~IsBottom(v) /\ ~IsBottom(w)
    BY <2>1, ChoiceShapes
  <2>3. Advances(v, w, parts)
    BY <2>2 DEF Advances, Definite, Traced, IsPending, Custom, IsBottom
  <2>4. /\ SaysOver(cs, DOMAIN bs, prefer, FALSE) \subseteq SaysOver(bs, DOMAIN bs, prefer, FALSE)
        /\ SaysOver(bs, DOMAIN bs, prefer, TRUE) \subseteq SaysOver(cs, DOMAIN bs, prefer, TRUE)
    BY OverSettles
  <2> QED
    BY <1>1, <2>1, <2>3, <2>4 DEF Settles, v, w
<1>8. CASE HasCustom(bs)
  <2>1. /\ v \in V \cup Bottoms \cup ChoicesOver(D, V)
        /\ w \in V \cup Bottoms \cup ChoicesOver(D, V)
        /\ DecidedAs(v, bs, prefer) /\ DecidedAs(w, cs, prefer)
        /\ ~Unresolved(w)
    BY <1>2, <1>3, <1>8, Decides
  <2> HIDE DEF v, w
  <2>2. Errors(parts) # {}
    <3>1. PICK i \in DOMAIN bs : bs[i].val = Custom
      BY <1>8 DEF HasCustom
    <3> QED
      BY <1>1, <3>1 DEF SettlesFlat, Advances, Traced
  <2>3. Refs(parts) = {} \/ Incompletes(parts) = {}
    BY <2>2 DEF Unmixed
  <2>4. \A x \in Bottoms : /\ IsBottom(x) /\ (IsPending(x) <=> x.kind = "unresolved")
                           /\ Definite(x) <=> x.kind \in {"conflict", "custom"}
    BY PlainShapes DEF IsPending, Definite
  <2>5. Custom.kind = "custom"
    BY DEF Custom
  <2>6. CASE I = {}
    <3>1. v \in Bottoms /\ v.kind = "conflict" /\ w \in Bottoms /\ w.kind = "conflict"
      BY <1>4, <2>1, <2>6 DEF DecidedAs
    <3>2. Advances(v, w, parts)
      BY <2>4, <2>5, <3>1 DEF Advances, Traced
    <3> QED
      BY <1>6, <2>1, <2>4, <3>1, <3>2 DEF Settles, v, w
  <2>7. CASE \E i \in I : ~IsBottom(bs[i].val)
    <3>1. \E i \in I : ~IsBottom(cs[i].val)
      BY <1>1, <1>5, <2>7 DEF SettlesFlat, Advances
    <3>2. /\ ~IsBottom(v) /\ ~IsBottom(w)
          /\ \A sure \in BOOLEAN : Says(v, prefer, sure) = SaysOver(bs, I, prefer, sure)
          /\ \A sure \in BOOLEAN : Says(w, prefer, sure) = SaysOver(cs, I, prefer, sure)
      BY <1>4, <2>1, <2>7, <3>1 DEF DecidedAs
    <3>3. Advances(v, w, parts)
      BY <3>2 DEF Advances, Definite, Traced, IsPending, Custom, IsBottom
    <3>4. /\ SaysOver(cs, I, prefer, FALSE) \subseteq SaysOver(bs, I, prefer, FALSE)
          /\ SaysOver(bs, I, prefer, TRUE) \subseteq SaysOver(cs, I, prefer, TRUE)
      BY <1>5, OverSettles
    <3> QED
      BY <2>1, <3>2, <3>3, <3>4 DEF Settles, v, w
  <2>8. CASE I # {} /\ \A i \in I : IsBottom(bs[i].val)
    <3>1. PICK i \in I : v \in Bottoms /\ v.kind = bs[i].val.kind
      BY <2>1, <2>8 DEF DecidedAs
    <3>2. \A j \in I : /\ bs[j].val \in Bottoms /\ bs[j].val.kind \in {"incomplete", "unresolved"}
                       /\ Traced(bs[j].val, parts) /\ Traced(cs[j].val, parts)
                       /\ IsBottom(cs[j].val) =>
                            cs[j].val \in Bottoms /\ cs[j].val.kind = "incomplete"
      <4> SUFFICES ASSUME NEW j \in I
                   PROVE  /\ bs[j].val \in Bottoms /\ bs[j].val.kind \in {"incomplete", "unresolved"}
                          /\ Traced(bs[j].val, parts) /\ Traced(cs[j].val, parts)
                          /\ IsBottom(cs[j].val) =>
                               cs[j].val \in Bottoms /\ cs[j].val.kind = "incomplete"
        OBVIOUS
      <4>1. j \in DOMAIN bs /\ j \in DOMAIN cs /\ IsBottom(bs[j].val)
        BY <1>1, <1>5, <2>8
      <4>2. bs[j].val \in Inners(M) /\ cs[j].val \in Inners(M)
        BY <4>1, Branched
      <4>3. ~Definite(bs[j].val) /\ ~Definite(cs[j].val)
        BY <1>4 DEF Undecided
      <4>4. /\ Traced(bs[j].val, parts) /\ Traced(cs[j].val, parts) /\ ~UnresolvedFlat(cs[j].val)
        BY <1>1, <4>1 DEF SettlesFlat, Advances
      <4>5. bs[j].val \in Bottoms
        BY <4>1, <4>2, BottomShapes
      <4>6. bs[j].val.kind \in {"incomplete", "unresolved"}
        BY <4>3, <4>5 DEF Definite, Bottoms, IsBottom
      <4>7. ASSUME IsBottom(cs[j].val) PROVE cs[j].val \in Bottoms /\ cs[j].val.kind = "incomplete"
        <5>1. cs[j].val \in Bottoms /\ ~IsChoice(cs[j].val)
          BY <4>2, <4>7, BottomShapes
        <5>2. cs[j].val.kind # "unresolved"
          BY <4>4, <4>7, <5>1 DEF UnresolvedFlat, UnresolvedPlain, IsPending
        <5> QED
          BY <4>3, <4>7, <5>1, <5>2 DEF Definite
      <4> QED
        BY <4>4, <4>5, <4>6, <4>7
    <3>3. IsBottom(v) /\ ~Definite(v) /\ v # Custom
      BY <2>4, <2>5, <3>1, <3>2
    <3>4. CASE Refs(parts) = {}
      <4>1. \A j \in I : ~IsPending(bs[j].val)
        BY <3>2, <3>4 DEF Traced
      <4>2. \A j \in I : IsBottom(cs[j].val) /\ bs[j].val.kind = "incomplete"
        BY <1>1, <1>5, <2>4, <2>8, <3>2, <4>1 DEF SettlesFlat, Advances
      <4>3. w \in Bottoms /\ w.kind = "incomplete"
        BY <1>4, <2>1, <2>8, <3>2, <4>2 DEF DecidedAs
      <4>4. v.kind = "incomplete" /\ Incompletes(parts) # {}
        BY <3>1, <3>2, <4>2, <2>8 DEF Traced
      <4>5. Advances(v, w, parts)
        BY <2>4, <2>5, <3>1, <4>3, <4>4 DEF Advances, Traced
      <4> QED
        BY <1>6, <2>1, <2>4, <3>1, <4>3, <4>4, <4>5 DEF Settles, v, w
    <3>5. CASE Incompletes(parts) = {}
      <4>1. \A j \in I : bs[j].val.kind = "unresolved" /\ ~IsBottom(cs[j].val)
        BY <2>8, <3>2, <3>5 DEF Traced
      <4>2. /\ ~IsBottom(w)
            /\ \A sure \in BOOLEAN : Says(w, prefer, sure) = SaysOver(cs, I, prefer, sure)
        BY <1>4, <2>1, <2>8, <4>1 DEF DecidedAs
      <4>3. v.kind = "unresolved" /\ Refs(parts) # {}
        BY <2>4, <3>1, <3>2, <4>1 DEF Traced
      <4>4. Advances(v, w, parts)
        BY <2>4, <2>5, <3>1, <3>3, <4>2, <4>3 DEF Advances, Traced, Definite, IsPending, Custom, IsBottom
      <4>5. Says(v, prefer, FALSE) = Points /\ Says(v, prefer, TRUE) = {}
        BY <2>4, <3>1, <4>3, PlainShapes DEF Says, SaysPlain, Plains
      <4>6. Says(w, prefer, FALSE) \subseteq Points
        <5>1. \A j \in I : SaysFlat(cs[j].val, FALSE) \subseteq Points
          BY <1>1, <1>5, Branched, InnerSays
        <5>2. Says(w, prefer, FALSE) = SaysOver(cs, I, prefer, FALSE)
          BY <4>2
        <5> QED
          BY <5>1, <5>2 DEF SaysOver, Counted
      <4> QED
        BY <2>1, <4>4, <4>5, <4>6 DEF Settles, v, w
    <3> QED
      BY <2>3, <3>4, <3>5
  <2> QED
    BY <2>6, <2>7, <2>8
<1> QED
  BY <1>7, <1>8

LEMMA PlainEvaluates ==
  ASSUME NEW e, FormedPlain(e), program.target \in SUBSET Points, NEW parts, e \in parts,
         NEW r \in {"pending", "bound"}
  PROVE  /\ e.op # "choice"
         /\ EvalPlain(e, r) \in Plains
         /\ SettlesFlat(EvalPlain(e, r), EvalPlain(e, "bound"), parts)
<1> DEFINE v == EvalPlain(e, r)
           w == EvalPlain(e, "bound")
<1>1. \A x \in Plains : /\ UnresolvedFlat(x) <=> UnresolvedPlain(x)
                        /\ \A sure : SaysFlat(x, sure) = SaysPlain(x, sure)
  BY PlainShapes DEF UnresolvedFlat, SaysFlat
<1>2. CASE e.op = "value"
  <2>1. v = e.v /\ w = e.v /\ e.v \in Plains /\ ~UnresolvedPlain(e.v)
    BY <1>2 DEF FormedPlain, EvalPlain, Plains
  <2>2. Traced(e.v, parts)
    <3>1. ~IsPending(e.v)
      BY <2>1 DEF UnresolvedPlain
    <3>2. IsBottom(e.v) /\ e.v.kind = "incomplete" => e \in Incompletes(parts)
      BY <1>2 DEF Incompletes
    <3>3. e.v = Custom => e \in Errors(parts)
      BY <1>2 DEF Errors
    <3> QED
      BY <3>1, <3>2, <3>3 DEF Traced
  <2>3. Advances(e.v, e.v, parts)
    BY <2>2 DEF Advances
  <2> QED
    BY <1>1, <1>2, <2>1, <2>3 DEF SettlesFlat
<1>3. ASSUME NEW x \in Leaves
      PROVE  /\ ~IsBottom(x) /\ x \in Plains /\ Traced(x, parts) /\ ~Definite(x) /\ x # Custom
             /\ ~IsPending(x)
  BY PlainShapes DEF Plains, Traced, Definite, IsPending, Custom, IsBottom
<1>4. ASSUME NEW S \in SUBSET Points
      PROVE  /\ Leaf(S) \in Leaves /\ Holding(S) \in Leaves
             /\ ~UnresolvedPlain(Leaf(S))
             /\ SaysPlain(Leaf(S), FALSE) = S /\ SaysPlain(Leaf(S), TRUE) = S
             /\ SaysPlain(Holding(S), FALSE) = S /\ SaysPlain(Holding(S), TRUE) = {}
  BY DEF Leaf, Holding, Leaves, UnresolvedPlain, IsPending, IsBottom, SaysPlain
<1>5. CASE e.op = "ref"
  <2>1. w = Leaf(program.target) /\ v = IF r = "pending" THEN Bottom("unresolved") ELSE w
    BY <1>5 DEF EvalPlain
  <2>2. w \in Leaves /\ SaysPlain(w, FALSE) = program.target /\ ~UnresolvedPlain(w)
        /\ SaysPlain(w, TRUE) = program.target
    BY <1>4, <2>1
  <2>3. CASE r = "pending"
    <3> DEFINE b == Bottom("unresolved")
    <3>1. /\ b \in Bottoms /\ IsBottom(b) /\ IsPending(b) /\ ~Definite(b) /\ b # Custom
          /\ b.kind = "unresolved"
      BY DEF Bottom, Bottoms, IsBottom, IsPending, Definite, Custom
    <3> HIDE DEF b, w
    <3>2. SaysPlain(b, FALSE) = Points /\ SaysPlain(b, TRUE) = {}
      BY <3>1 DEF SaysPlain
    <3>3. e \in Refs(parts)
      BY <1>5 DEF Refs
    <3>4. Traced(b, parts)
      BY <3>1, <3>3 DEF Traced
    <3>5. Advances(b, w, parts)
      BY <1>3, <2>2, <3>1, <3>4 DEF Advances
    <3>6. SettlesFlat(b, w, parts) /\ b \in Plains
      BY <1>1, <1>3, <2>2, <3>1, <3>2, <3>5 DEF SettlesFlat, Plains
    <3> QED
      BY <1>5, <2>1, <2>3, <3>6 DEF w, b
  <2>4. CASE r # "pending"
    <3>1. Advances(w, w, parts)
      BY <1>3, <2>2 DEF Advances
    <3> QED
      BY <1>1, <1>3, <1>5, <2>1, <2>2, <2>4, <3>1 DEF SettlesFlat
  <2> QED
    BY <2>3, <2>4
<1>6. CASE e.op = "held" /\ e.kind \in Kinds
  <2> DEFINE S == In(e.kind, program.target)
             E == Every(e.kind)
  <2>1. w = Leaf(S) /\ v = IF r = "pending" THEN Holding(E) ELSE Leaf(S)
    BY <1>6 DEF EvalPlain
  <2>2. S \subseteq E /\ E \in SUBSET Points
    <3>1. \A a \in program.target : a[2] \in Contents
      BY DEF Points
    <3> QED
      BY <1>6, <3>1 DEF In, Every, Points
  <2> HIDE DEF S, E
  <2>3. S \in SUBSET Points
    BY <2>2
  <2>4. Advances(Holding(E), Leaf(S), parts) /\ Advances(Leaf(S), Leaf(S), parts)
    BY <1>3, <1>4, <2>2, <2>3 DEF Advances
  <2>5. SettlesFlat(Holding(E), Leaf(S), parts) /\ SettlesFlat(Leaf(S), Leaf(S), parts)
    <3> DEFINE h == Holding(E)
               l == Leaf(S)
    <3>1. /\ h \in Plains /\ l \in Plains /\ ~UnresolvedPlain(l)
          /\ SaysPlain(l, FALSE) = S /\ SaysPlain(l, TRUE) = S
          /\ SaysPlain(h, FALSE) = E /\ SaysPlain(h, TRUE) = {}
          /\ Advances(h, l, parts) /\ Advances(l, l, parts)
      BY <1>3, <1>4, <2>2, <2>3, <2>4
    <3> HIDE DEF h, l
    <3>2. SettlesFlat(h, l, parts) /\ SettlesFlat(l, l, parts)
      BY <1>1, <2>2, <3>1 DEF SettlesFlat
    <3> QED
      BY <3>2 DEF h, l
  <2> QED
    BY <1>3, <1>4, <1>6, <2>1, <2>2, <2>3, <2>5
<1> QED
  BY <1>2, <1>5, <1>6 DEF FormedPlain

\* A choice that is to be unmarked where marks inside are none.
Bare(e, M) ==
  M = {FALSE} => (e.op = "choice" => \A j \in DOMAIN e.branches : ~e.branches[j].default)

\* The branches of s with values b.
Spread(s, b) == [i \in DOMAIN s |-> Branch(s[i].default, b[i])]

LEMMA Branching ==
  ASSUME NEW D, NEW V, NEW s, s \in Seq(ToSet(s)), NEW b,
         \A i \in DOMAIN s : s[i].default \in D /\ b[i] \in V
  PROVE  /\ Spread(s, b) \in Seq(Branches(D, V)) /\ DOMAIN Spread(s, b) = DOMAIN s
         /\ \A i \in DOMAIN s : Spread(s, b)[i].default = s[i].default /\ Spread(s, b)[i].val = b[i]
<1> DEFINE bs == [i \in DOMAIN s |-> Branch(s[i].default, b[i])]
           B == Branches(D, V)
<1>1. Len(s) \in Nat /\ DOMAIN s = 1 .. Len(s)
  <2> DEFINE T == ToSet(s)
  <2>1. s \in Seq(T)
    OBVIOUS
  <2> HIDE DEF T
  <2> QED
    BY <2>1
<1>2. \A i \in DOMAIN s : Branch(s[i].default, b[i]) \in B
  BY DEF Branch, Branches
<1>3. \A i \in DOMAIN s : bs[i].default = s[i].default /\ bs[i].val = b[i]
  BY DEF Branch
<1>4. bs \in [1 .. Len(s) -> B]
  <2> HIDE DEF B
  <2> QED
    BY <1>1, <1>2
<1>5. bs \in Seq(B)
  <2> HIDE DEF B, bs
  <2> QED
    BY <1>1, <1>4
<1> QED
  BY <1>3, <1>5 DEF Spread

LEMMA FlatEvaluates ==
  ASSUME NEW M \in Marks, NEW e, FormedFlat(e), Bare(e, M), program.target \in SUBSET Points,
         NEW parts, PartsFlat(e) \subseteq parts, Unmixed(parts), NEW r \in {"pending", "bound"}
  PROVE  /\ EvalFlat(e, r) \in Inners(M)
         /\ SettlesFlat(EvalFlat(e, r), EvalFlat(e, "bound"), parts)
<1>1. CASE FormedPlain(e)
  <2>1. e.op # "choice"
    BY <1>1 DEF FormedPlain
  <2>2. e \in parts
    BY <2>1 DEF PartsFlat
  <2>3. EvalFlat(e, r) = EvalPlain(e, r) /\ EvalFlat(e, "bound") = EvalPlain(e, "bound")
    BY <2>1 DEF EvalFlat, EvalWith
  <2> QED
    BY <1>1, <2>2, <2>3, PlainEvaluates DEF Inners
<1>2. CASE ~FormedPlain(e)
  <2> DEFINE s == e.branches
             bs == [i \in DOMAIN s |-> Branch(s[i].default, EvalPlain(s[i].expr, r))]
             cs == [i \in DOMAIN s |-> Branch(s[i].default, EvalPlain(s[i].expr, "bound"))]
  <2>1. /\ e.op = "choice" /\ s \in Seq(ToSet(s))
        /\ \A i \in DOMAIN s : s[i].default \in BOOLEAN /\ FormedPlain(s[i].expr)
    BY <1>2 DEF FormedFlat, FormedOver
  <2>2. \A i \in DOMAIN s : s[i].default \in M
    <3>1. CASE M = {FALSE}
      BY <2>1, <3>1 DEF Bare
    <3> QED
      BY <2>1, <3>1 DEF Marks
  <2>3. \A i \in DOMAIN s : s[i].expr \in parts
    BY <2>1 DEF PartsFlat
  <2>4. EvalFlat(e, r) = EvalChoice(bs) /\ EvalFlat(e, "bound") = EvalChoice(cs)
    BY <2>1 DEF EvalFlat, EvalWith
  <2> DEFINE ev == [i \in DOMAIN s |-> EvalPlain(s[i].expr, r)]
             ew == [i \in DOMAIN s |-> EvalPlain(s[i].expr, "bound")]
  <2>5. \A i \in DOMAIN s : /\ ev[i] \in Plains /\ ew[i] \in Plains
                            /\ SettlesFlat(ev[i], ew[i], parts)
    BY <2>1, <2>3, PlainEvaluates
  <2>6. bs = Spread(s, ev) /\ cs = Spread(s, ew)
    BY DEF Spread
  <2> HIDE DEF s, ev, ew, bs, cs
  <2>7. /\ bs \in Seq(Branches(M, Plains)) /\ DOMAIN bs = DOMAIN s
        /\ \A i \in DOMAIN s : bs[i].default = s[i].default /\ bs[i].val = ev[i]
    BY <2>1, <2>2, <2>5, <2>6, Branching
  <2>8. /\ cs \in Seq(Branches(M, Plains)) /\ DOMAIN cs = DOMAIN s
        /\ \A i \in DOMAIN s : cs[i].default = s[i].default /\ cs[i].val = ew[i]
    BY <2>1, <2>2, <2>5, <2>6, Branching
  <2>9. Parallel(bs, cs, parts)
    BY <2>5, <2>7, <2>8 DEF Parallel
  <2>10. Fit(M, FALSE) /\ Plains \in SUBSET Inners(M)
    BY DEF Fit, Inners
  <2>11. /\ EvalChoice(bs) \in Plains \cup Bottoms \cup ChoicesOver(M, Plains)
         /\ EvalChoice(cs) \in Plains \cup Bottoms \cup ChoicesOver(M, Plains)
         /\ Settles(EvalChoice(bs), EvalChoice(cs), parts, FALSE)
    BY <2>7, <2>8, <2>9, <2>10, ChoiceSettles
  <2>12. EvalChoice(bs) \in Inners(M) /\ EvalChoice(cs) \in Inners(M)
    BY <2>11 DEF Inners, Plains
  <2>13. \A v \in Inners(M) : /\ Says(v, FALSE, FALSE) = SaysFlat(v, FALSE)
                              /\ Says(v, FALSE, TRUE) = SaysFlat(v, TRUE)
                              /\ Unresolved(v) <=> UnresolvedFlat(v)
    BY <2>10, InnerSays, InnerResolved
  <2>14. SettlesFlat(EvalChoice(bs), EvalChoice(cs), parts)
    BY <2>11, <2>12, <2>13 DEF Settles, SettlesFlat
  <2> QED
    BY <2>4, <2>12, <2>14
<1> QED
  BY <1>1, <1>2

(* A constraint evaluated while the name is pending may still come to what *)
(* it is once the name is bound, and is sure of nothing more.              *)
LEMMA Evaluates ==
  ASSUME NEW M, NEW prefer, Fit(M, prefer), NEW e, FormedOver(FormedFlat, e),
         M = {FALSE} => UnmarkedWithin(e), program.target \in SUBSET Points,
         Unmixed(Parts(e)), NEW r \in {"pending", "bound"}
  PROVE  /\ EvalExpr(e, r) \in Outers(M)
         /\ Settles(EvalExpr(e, r), EvalExpr(e, "bound"), Parts(e), prefer)
<1> DEFINE parts == Parts(e)
<1>1. M \in Marks
  BY DEF Fit
<1>2. CASE e.op # "choice"
  <2>1. FormedPlain(e) /\ e \in parts
    BY <1>2 DEF FormedOver, FormedFlat, Parts
  <2>2. EvalExpr(e, r) = EvalPlain(e, r) /\ EvalExpr(e, "bound") = EvalPlain(e, "bound")
    BY <1>2 DEF EvalExpr, EvalWith
  <2>3. /\ EvalPlain(e, r) \in Plains /\ EvalPlain(e, "bound") \in Plains
        /\ SettlesFlat(EvalPlain(e, r), EvalPlain(e, "bound"), parts)
    BY <2>1, PlainEvaluates
  <2>4. \A v \in Plains : /\ Says(v, prefer, FALSE) = SaysFlat(v, FALSE)
                          /\ Says(v, prefer, TRUE) = SaysFlat(v, TRUE)
                          /\ Unresolved(v) <=> UnresolvedFlat(v)
                          /\ v \in Outers(M)
    BY PlainShapes DEF Says, SaysFlat, Unresolved, UnresolvedFlat, Inners, Outers
  <2> QED
    BY <2>2, <2>3, <2>4 DEF Settles, SettlesFlat
<1>3. CASE e.op = "choice"
  <2> DEFINE s == e.branches
             bs == [i \in DOMAIN s |-> Branch(s[i].default, EvalFlat(s[i].expr, r))]
             cs == [i \in DOMAIN s |-> Branch(s[i].default, EvalFlat(s[i].expr, "bound"))]
             ev == [i \in DOMAIN s |-> EvalFlat(s[i].expr, r)]
             ew == [i \in DOMAIN s |-> EvalFlat(s[i].expr, "bound")]
             V == Inners(M)
  <2>1. /\ s \in Seq(ToSet(s))
        /\ \A i \in DOMAIN s : s[i].default \in BOOLEAN /\ FormedFlat(s[i].expr)
    BY <1>3 DEF FormedOver, FormedFlat, FormedPlain
  <2>2. \A i \in DOMAIN s : Bare(s[i].expr, M)
    BY <1>3 DEF UnmarkedWithin, Bare
  <2>3. \A i \in DOMAIN s : PartsFlat(s[i].expr) \subseteq parts
    BY <1>3 DEF Parts
  <2>4. EvalExpr(e, r) = EvalChoice(bs) /\ EvalExpr(e, "bound") = EvalChoice(cs)
    BY <1>3 DEF EvalExpr, EvalWith
  <2>5. \A i \in DOMAIN s : ev[i] \in V /\ ew[i] \in V /\ SettlesFlat(ev[i], ew[i], parts)
    BY <1>1, <2>1, <2>2, <2>3, FlatEvaluates
  <2>6. bs = Spread(s, ev) /\ cs = Spread(s, ew)
    BY DEF Spread
  <2> HIDE DEF s, ev, ew, bs, cs, V
  <2>7. /\ bs \in Seq(Branches(BOOLEAN, V)) /\ DOMAIN bs = DOMAIN s
        /\ \A i \in DOMAIN s : bs[i].default = s[i].default /\ bs[i].val = ev[i]
    BY <2>1, <2>5, <2>6, Branching
  <2>8. /\ cs \in Seq(Branches(BOOLEAN, V)) /\ DOMAIN cs = DOMAIN s
        /\ \A i \in DOMAIN s : cs[i].default = s[i].default /\ cs[i].val = ew[i]
    BY <2>1, <2>5, <2>6, Branching
  <2>9. Parallel(bs, cs, parts)
    BY <2>5, <2>7, <2>8 DEF Parallel
  <2>10. BOOLEAN \in Marks /\ V \in SUBSET Inners(M)
    BY DEF Marks, V
  <2>11. /\ EvalChoice(bs) \in V \cup Bottoms \cup ChoicesOver(BOOLEAN, V)
         /\ Settles(EvalChoice(bs), EvalChoice(cs), parts, prefer)
    BY <2>7, <2>8, <2>9, <2>10, ChoiceSettles
  <2>12. V \cup Bottoms \cup ChoicesOver(BOOLEAN, V) \subseteq Outers(M)
    BY DEF V, Outers, Inners, Plains
  <2> QED
    BY <2>4, <2>11, <2>12
<1> QED
  BY <1>2, <1>3

-----------------------------------------------------------------------------
(* What decided values admit and prefer *)

LEMMA DecidedSays ==
  ASSUME NEW M, NEW prefer, Fit(M, prefer), NEW v \in Outers(M), ~Unresolved(v), NEW sure \in BOOLEAN
  PROVE  Says(v, prefer, sure) = IF prefer THEN Prefers(v) ELSE Admits(v)
<1>1. ASSUME NEW x \in Plains, ~UnresolvedPlain(x)
      PROVE  ~IsChoice(x) /\ SaysPlain(x, sure) = AdmitPlain(x)
  <2>1. ~IsChoice(x) /\ (~IsBottom(x) => x \in Leaves)
    BY PlainShapes DEF Plains
  <2>2. ~IsPending(x) /\ (~IsBottom(x) => ~x.waits)
    BY <1>1, <2>1 DEF UnresolvedPlain, Leaves
  <2> QED
    BY <2>1, <2>2 DEF SaysPlain, AdmitPlain
<1>2. ASSUME NEW x \in Inners(M), ~UnresolvedFlat(x)
      PROVE  SaysFlat(x, sure) = IF prefer THEN PreferFlat(x) ELSE AdmitFlat(x)
  <2>1. CASE x \in Plains
    <3>1. ~IsChoice(x) /\ ~UnresolvedPlain(x)
      BY <1>2, <2>1, PlainShapes DEF UnresolvedFlat
    <3> QED
      BY <1>1, <2>1, <3>1 DEF SaysFlat, PreferFlat, AdmitFlat
  <2>2. CASE x \in ChoicesOver(M, Plains)
    <3> DEFINE bs == x.branches
    <3>1. /\ IsChoice(x)
          /\ \A i \in DOMAIN bs : bs[i].default \in M /\ bs[i].val \in Plains
      BY <2>2, ChoiceShapes, Branched
    <3>2. \A i \in DOMAIN bs : ~UnresolvedPlain(bs[i].val)
      BY <1>2, <3>1 DEF UnresolvedFlat
    <3>3. \A i \in DOMAIN bs : SaysPlain(bs[i].val, sure) = AdmitPlain(bs[i].val)
      BY <1>1, <3>1, <3>2
    <3>4. prefer => Marked(bs) = DOMAIN bs
      <4>1. ASSUME prefer PROVE \A i \in DOMAIN bs : bs[i].default = FALSE
        BY <3>1, <4>1 DEF Fit
      <4> QED
        BY <4>1 DEF Marked, HasDefault
    <3>5. SaysFlat(x, sure) = UNION {AdmitPlain(bs[i].val) : i \in DOMAIN bs}
      BY <3>1, <3>3 DEF SaysFlat
    <3>6. prefer => PreferFlat(x) = UNION {AdmitPlain(bs[i].val) : i \in DOMAIN bs}
      BY <3>1, <3>4 DEF PreferFlat, Over
    <3>7. AdmitFlat(x) = UNION {AdmitPlain(bs[i].val) : i \in DOMAIN bs}
      BY <3>1 DEF AdmitFlat, Over
    <3> HIDE DEF bs
    <3> QED
      BY <3>5, <3>6, <3>7
  <2> QED
    BY <2>1, <2>2 DEF Inners
<1>3. M \in Marks
  BY DEF Fit
<1>4. CASE v \in Plains
  <2>1. ~IsChoice(v) /\ ~UnresolvedPlain(v)
    BY <1>4, PlainShapes DEF Unresolved
  <2> QED
    BY <1>1, <1>4, <2>1 DEF Says, Prefers, Admits
<1>5. CASE v \in ChoicesOver(BOOLEAN, Inners(M))
  <2> DEFINE bs == v.branches
  <2>1. IsChoice(v) /\ \A i \in DOMAIN bs : bs[i].val \in Inners(M)
    BY <1>5, ChoiceShapes, Branched
  <2>2. \A i \in DOMAIN bs : ~UnresolvedFlat(bs[i].val)
    BY <2>1 DEF Unresolved
  <2>3. \A i \in DOMAIN bs : SaysFlat(bs[i].val, sure) = IF prefer THEN PreferFlat(bs[i].val) ELSE AdmitFlat(bs[i].val)
    BY <1>2, <2>1, <2>2
  <2>4. Counted(bs, DOMAIN bs, prefer) = IF prefer THEN Marked(bs) ELSE DOMAIN bs
    BY DEF Counted, Marked, HasDefault
  <2>5. Marked(bs) \subseteq DOMAIN bs
    BY DEF Marked
  <2>6. Says(v, prefer, sure) = SaysOver(bs, DOMAIN bs, prefer, sure)
    BY <2>1 DEF Says
  <2>7. Prefers(v) = UNION {PreferFlat(bs[i].val) : i \in Marked(bs)}
    BY <2>1 DEF Prefers, Over
  <2>8. Admits(v) = UNION {AdmitFlat(bs[i].val) : i \in DOMAIN bs}
    BY <2>1 DEF Admits, Over
  <2> HIDE DEF bs
  <2>9. CASE prefer
    <3>1. Says(v, prefer, sure) = UNION {SaysFlat(bs[i].val, sure) : i \in Marked(bs)}
      BY <2>4, <2>6, <2>9 DEF SaysOver
    <3>2. \A i \in Marked(bs) : SaysFlat(bs[i].val, sure) = PreferFlat(bs[i].val)
      BY <2>3, <2>5, <2>9
    <3>3. Says(v, prefer, sure) = Prefers(v)
      BY <2>7, <3>1, <3>2
    <3> QED
      BY <2>9, <3>3
  <2>10. CASE ~prefer
    BY <2>3, <2>4, <2>6, <2>8, <2>10 DEF SaysOver
  <2> QED
    BY <2>9, <2>10
<1> QED
  BY <1>3, <1>4, <1>5, OutersAre

-----------------------------------------------------------------------------
(* The invariant *)

\* What the constraints say together once the name is bound.
Bound(k) == EvalExpr(program.operands[k], "bound")
Together(prefer) ==
  {a \in UNION {Says(Bound(k), prefer, TRUE) : k \in DOMAIN program.operands} :
     \A k \in DOMAIN program.operands : a \in Says(Bound(k), prefer, TRUE)}

Typed(M) ==
  /\ program \in Programs
  /\ ref \in {"pending", "bound"}
  /\ operands \in Seq(Outers(M))
  /\ lost \in BOOLEAN
  /\ mode \in {"evaluate", "meet", "done"}
  /\ mode # "evaluate" => Len(operands) > 0
  /\ mode = "done" => Len(operands) = 1 /\ ~(Unresolved(operands[1]) /\ ref = "pending")
  /\ mode # "evaluate" /\ ref = "bound" => \A x : Within(x, operands) => ~Unresolved(x)

\* What the constraints say together lies between what all values left are
\* sure of and what each may come to.
Between(os, all, prefer) ==
  /\ \A x : Within(x, os) => all \subseteq Says(x, prefer, FALSE)
  /\ ~prefer \/ all # {} =>
       \A a : (\A x : Within(x, os) => a \in Says(x, prefer, TRUE)) => a \in all

IInv(M, prefer) ==
  /\ Typed(M)
  /\ mode # "evaluate" /\ ~lost => Between(operands, Together(prefer), prefer)

\* Where preference counts, no choice inside an alternative has marks.
Bared(M) ==
  M = {FALSE} => \A p \in Programs : \A k \in DOMAIN p.operands : UnmarkedWithin(p.operands[k])

LEMMA MeetsBetween ==
  ASSUME NEW M, NEW prefer, Fit(M, prefer), NEW os \in Seq(Outers(M)), NEW i \in DOMAIN os,
         NEW j \in DOMAIN os, i # j, NEW all, Between(os, all, prefer), ~Loses(os[i], os[j])
  PROVE  Between(RemoveAt([os EXCEPT ![i] = MeetValues(@, os[j])], j), all, prefer)
<1> DEFINE m == MeetValues(os[i], os[j])
           S == Outers(M)
           s == [os EXCEPT ![i] = m]
           ns == RemoveAt(s, j)
<1>1. os \in Seq(S) /\ os[i] \in S /\ os[j] \in S /\ Len(os) \in Nat /\ DOMAIN os = 1 .. Len(os)
  OBVIOUS
<1>2. m \in S /\ Meets(os[i], os[j], m, prefer)
  BY <1>1, ValuesMeet
<1> HIDE DEF m, S
<1>3. /\ s \in Seq(S) /\ DOMAIN s = DOMAIN os
      /\ s[i] = m /\ \A k \in DOMAIN os \ {i} : s[k] = os[k]
  BY <1>1, <1>2
<1> HIDE DEF s
<1>4. \A x : Within(x, ns) <=> \E k \in DOMAIN os \ {j} : s[k] = x
  BY <1>3, Removed
<1> HIDE DEF ns
<1>5. \A k \in DOMAIN os : Within(os[k], os)
  BY DEF Within
<1>6. ASSUME NEW x, Within(x, ns) PROVE all \subseteq Says(x, prefer, FALSE)
  <2>1. PICK k \in DOMAIN os \ {j} : s[k] = x
    BY <1>4, <1>6
  <2>2. CASE k = i
    <3>1. all \subseteq Says(os[i], prefer, FALSE) /\ all \subseteq Says(os[j], prefer, FALSE)
      BY <1>5 DEF Between
    <3> QED
      BY <1>2, <1>3, <2>1, <2>2, <3>1 DEF Meets, Joins
  <2>3. CASE k # i
    BY <1>3, <1>5, <2>1, <2>3 DEF Between
  <2> QED
    BY <2>2, <2>3
<1>7. ASSUME ~prefer \/ all # {}, NEW a, \A x : Within(x, ns) => a \in Says(x, prefer, TRUE)
      PROVE  a \in all
  <2>1. a \in Says(m, prefer, TRUE)
    BY <1>3, <1>4, <1>7
  <2>2. all \subseteq Says(os[i], prefer, FALSE) /\ all \subseteq Says(os[j], prefer, FALSE)
    BY <1>5 DEF Between
  <2>3. a \in Says(os[i], prefer, TRUE) /\ a \in Says(os[j], prefer, TRUE)
    BY <1>2, <1>7, <2>1, <2>2 DEF Meets, Joins
  <2>4. \A k \in DOMAIN os : a \in Says(os[k], prefer, TRUE)
    BY <1>3, <1>4, <1>7, <2>3
  <2> QED
    BY <1>7, <2>4 DEF Between, Within
<1>8. Between(ns, all, prefer)
  BY <1>6, <1>7 DEF Between
<1> QED
  BY <1>8 DEF ns, s, m

LEMMA FormedProgram ==
  ASSUME program \in Programs
  PROVE  /\ program.target \in SUBSET Points
         /\ program.operands \in Seq(ToSet(program.operands))
         /\ Len(program.operands) \in Nat /\ Len(program.operands) > 0
         /\ DOMAIN program.operands = 1 .. Len(program.operands)
         /\ \A k \in DOMAIN program.operands : /\ FormedOver(FormedFlat, program.operands[k])
                                               /\ Unmixed(Parts(program.operands[k]))
<1>1. /\ program.target \in SUBSET Points
      /\ program.operands # <<>> /\ program.operands \in Seq(ToSet(program.operands))
      /\ \A k \in DOMAIN program.operands : /\ FormedOver(FormedFlat, program.operands[k])
                                            /\ Unmixed(Parts(program.operands[k]))
  BY ProgramsFormed
<1> DEFINE s == program.operands
           T == ToSet(s)
<1>2. s \in Seq(T) /\ s # <<>>
  BY <1>1
<1> HIDE DEF s, T
<1>3. Len(s) \in Nat /\ Len(s) > 0 /\ DOMAIN s = 1 .. Len(s)
  BY <1>2
<1> QED
  BY <1>1, <1>3 DEF s

(* Every constraint, evaluated whenever, is typed and settles to what it is bound. *)
LEMMA ProgramEvaluates ==
  ASSUME NEW M, NEW prefer, Fit(M, prefer), Bared(M), program \in Programs,
         NEW r \in {"pending", "bound"}, NEW k \in DOMAIN program.operands
  PROVE  /\ EvalExpr(program.operands[k], r) \in Outers(M)
         /\ Settles(EvalExpr(program.operands[k], r), Bound(k), Parts(program.operands[k]), prefer)
<1>1. M = {FALSE} => UnmarkedWithin(program.operands[k])
  BY DEF Bared
<1> QED
  BY <1>1, FormedProgram, Evaluates DEF Bound

LEMMA BoundDecided ==
  ASSUME NEW M, NEW prefer, Fit(M, prefer), Bared(M), program \in Programs,
         NEW k \in DOMAIN program.operands
  PROVE  /\ Bound(k) \in Outers(M) /\ ~Unresolved(Bound(k))
         /\ Says(Bound(k), prefer, FALSE) = Says(Bound(k), prefer, TRUE)
         /\ Says(Bound(k), prefer, TRUE) = IF prefer THEN Prefers(Bound(k)) ELSE Admits(Bound(k))
<1>1. Bound(k) \in Outers(M) /\ ~Unresolved(Bound(k))
  BY ProgramEvaluates DEF Bound, Settles
<1> QED
  BY <1>1, DecidedSays

LEMMA InvInit ==
  ASSUME NEW M, NEW prefer, Init
  PROVE  IInv(M, prefer)
<1>1. /\ program \in Programs /\ ref \in {"pending", "bound"} /\ operands = <<>>
      /\ lost = FALSE /\ mode = "evaluate"
  BY DEF Init
<1>2. <<>> \in Seq(Outers(M))
  OBVIOUS
<1>3. Typed(M)
  BY <1>1, <1>2 DEF Typed
<1> QED
  BY <1>1, <1>3 DEF IInv

LEMMA TogetherKept ==
  ASSUME NEW prefer, UNCHANGED program
  PROVE  Together(prefer)' = Together(prefer)
BY DEF Together, Bound, EvalExpr, EvalWith, EvalFlat, EvalPlain

LEMMA EvaluateKeeps ==
  ASSUME NEW M, NEW prefer, Fit(M, prefer), Bared(M), IInv(M, prefer), Evaluate
  PROVE  IInv(M, prefer)'
<1> DEFINE P == program.operands
           os == [i \in DOMAIN P |-> EvalExpr(P[i], ref)]
           S == Outers(M)
<1>1. /\ program \in Programs /\ ref \in {"pending", "bound"}
      /\ operands' = os /\ lost' = FALSE /\ mode' = "meet" /\ program' = program /\ ref' = ref
  BY DEF Evaluate, IInv, Typed
<1>2. Len(P) \in Nat /\ Len(P) > 0 /\ DOMAIN P = 1 .. Len(P)
  BY <1>1, FormedProgram
<1>3. \A k \in DOMAIN P : /\ os[k] \in S
                          /\ Settles(os[k], Bound(k), Parts(P[k]), prefer)
                          /\ ref = "bound" => os[k] = Bound(k)
  BY <1>1, ProgramEvaluates DEF Bound
<1>4. \A k \in DOMAIN P : /\ ~Unresolved(Bound(k))
                          /\ Says(Bound(k), prefer, FALSE) = Says(Bound(k), prefer, TRUE)
  BY <1>1, BoundDecided
<1>5. os \in Seq(S) /\ Len(os) > 0 /\ DOMAIN os = DOMAIN P
  <2>1. os \in [1 .. Len(P) -> S]
    BY <1>2, <1>3
  <2> HIDE DEF os, S
  <2> QED
    BY <1>2, <2>1
<1> HIDE DEF os, S
<1>6. ref = "bound" => \A x : Within(x, os) => ~Unresolved(x)
  BY <1>3, <1>4, <1>5 DEF Within
<1>7. Between(os, Together(prefer), prefer)
  <2>1. ASSUME NEW x, Within(x, os) PROVE Together(prefer) \subseteq Says(x, prefer, FALSE)
    <3>1. PICK k \in DOMAIN P : os[k] = x
      BY <1>5, <2>1 DEF Within
    <3>2. Together(prefer) \subseteq Says(Bound(k), prefer, TRUE)
      BY DEF Together
    <3> QED
      BY <1>3, <1>4, <3>1, <3>2 DEF Settles
  <2>2. ASSUME NEW a, \A x : Within(x, os) => a \in Says(x, prefer, TRUE)
        PROVE  a \in Together(prefer)
    <3>1. \A k \in DOMAIN P : a \in Says(os[k], prefer, TRUE)
      BY <1>5, <2>2 DEF Within
    <3>2. \A k \in DOMAIN P : a \in Says(Bound(k), prefer, TRUE)
      BY <1>3, <3>1 DEF Settles
    <3>3. 1 \in DOMAIN P
      BY <1>2
    <3> QED
      BY <3>2, <3>3 DEF Together
  <2> QED
    BY <2>1, <2>2 DEF Between
<1>8. Together(prefer)' = Together(prefer)
  BY <1>1, TogetherKept
<1>9. Typed(M)'
  BY <1>1, <1>5, <1>6 DEF Typed, S
<1> QED
  BY <1>1, <1>7, <1>8, <1>9 DEF IInv

LEMMA UnifyKeeps ==
  ASSUME NEW M, NEW prefer, Fit(M, prefer), IInv(M, prefer), Unify
  PROVE  IInv(M, prefer)'
<1>1. PICK i \in DOMAIN operands, j \in DOMAIN operands :
        /\ i # j
        /\ operands' = RemoveAt([operands EXCEPT ![i] = MeetValues(@, operands[j])], j)
        /\ lost' = (lost \/ Loses(operands[i], operands[j]))
  BY DEF Unify
<1>2. /\ mode = "meet" /\ mode' = "meet" /\ program' = program /\ ref' = ref
      /\ operands \in Seq(Outers(M)) /\ program \in Programs /\ ref \in {"pending", "bound"}
      /\ lost \in BOOLEAN
  BY DEF Unify, IInv, Typed
<1> DEFINE m == MeetValues(operands[i], operands[j])
           S == Outers(M)
           s == [operands EXCEPT ![i] = m]
<1>3. /\ operands \in Seq(S) /\ operands[i] \in S /\ operands[j] \in S
      /\ Len(operands) \in Nat /\ DOMAIN operands = 1 .. Len(operands)
  BY <1>2
<1>4. m \in S /\ (~Unresolved(operands[i]) /\ ~Unresolved(operands[j]) => ~Unresolved(m))
  BY <1>3, ValuesMeet
<1>5. operands' = RemoveAt(s, j)
  BY <1>1
<1> HIDE DEF m, S
<1>6. /\ s \in Seq(S) /\ DOMAIN s = DOMAIN operands /\ Len(s) = Len(operands)
      /\ s[i] = m /\ \A k \in DOMAIN operands \ {i} : s[k] = operands[k]
  BY <1>3, <1>4
<1> HIDE DEF s
<1>7. /\ operands' \in Seq(S) /\ Len(operands') = Len(operands) - 1
      /\ \A x : Within(x, operands') <=> \E k \in DOMAIN operands \ {j} : s[k] = x
  <2>1. s \in Seq(S) /\ j \in DOMAIN s
    BY <1>6
  <2>2. /\ RemoveAt(s, j) \in Seq(S) /\ Len(RemoveAt(s, j)) = Len(s) - 1
        /\ \A x : Within(x, RemoveAt(s, j)) <=> \E k \in DOMAIN s \ {j} : s[k] = x
    BY <2>1, Removed
  <2> QED
    BY <1>5, <1>6, <2>2
<1>8. Len(operands') > 0
  <2>1. i \in 1 .. Len(operands) /\ j \in 1 .. Len(operands) /\ i # j
    BY <1>1, <1>3
  <2> QED
    BY <1>3, <1>7, <2>1
<1>9. ASSUME ref = "bound", NEW x, Within(x, operands') PROVE ~Unresolved(x)
  <2>1. \A k \in DOMAIN operands : ~Unresolved(operands[k])
    BY <1>2, <1>9 DEF IInv, Typed, Within
  <2>2. PICK k \in DOMAIN operands \ {j} : s[k] = x
    BY <1>7, <1>9
  <2> QED
    BY <1>4, <1>6, <2>1, <2>2
<1>10. lost' \in BOOLEAN
  BY <1>1
<1>11. Typed(M)'
  BY <1>2, <1>7, <1>8, <1>9, <1>10 DEF Typed, S
<1>12. ASSUME ~lost' PROVE Between(operands', Together(prefer), prefer)
  <2>1. ~lost /\ ~Loses(operands[i], operands[j])
    BY <1>1, <1>12
  <2>2. Between(operands, Together(prefer), prefer)
    BY <1>2, <2>1 DEF IInv
  <2> DEFINE all == Together(prefer)
  <2> HIDE DEF all
  <2>3. Between(operands, all, prefer)
    BY <2>2 DEF all
  <2>4. Between(RemoveAt([operands EXCEPT ![i] = MeetValues(@, operands[j])], j), all, prefer)
    BY <1>1, <1>2, <2>1, <2>3, MeetsBetween
  <2> QED
    BY <1>1, <2>4 DEF all
<1>13. Together(prefer)' = Together(prefer)
  BY <1>2, TogetherKept
<1> QED
  BY <1>11, <1>12, <1>13 DEF IInv

LEMMA SameKeeps ==
  ASSUME NEW M, NEW prefer, IInv(M, prefer), UNCHANGED <<program, operands, lost>>,
         mode' # "evaluate" => mode # "evaluate" /\ ref' = ref,
         Typed(M)'
  PROVE  IInv(M, prefer)'
BY TogetherKept DEF IInv

LEMMA InvNext ==
  ASSUME NEW M, NEW prefer, Fit(M, prefer), Bared(M), IInv(M, prefer), [Next]_vars
  PROVE  IInv(M, prefer)'
<1>1. CASE Evaluate
  BY <1>1, EvaluateKeeps
<1>2. CASE Unify
  BY <1>2, UnifyKeeps
<1>3. CASE Retry
  <2>1. Typed(M)'
    BY <1>3 DEF IInv, Typed, Retry
  <2> QED
    BY <1>3, <2>1, SameKeeps DEF Retry
<1>4. CASE Write
  <2>1. Typed(M)'
    BY <1>4 DEF IInv, Typed, Write, Whole
  <2> QED
    BY <1>4, <2>1, SameKeeps DEF Write, Whole
<1>5. CASE Ended \/ UNCHANGED vars
  <2>1. UNCHANGED vars
    BY <1>5 DEF Ended
  <2>2. Typed(M)'
    BY <2>1 DEF IInv, Typed, vars
  <2> QED
    BY <2>1, <2>2, SameKeeps DEF vars
<1> QED
  BY <1>1, <1>2, <1>3, <1>4, <1>5 DEF Next

(* What is written is decided, and says what the constraints say together. *)
LEMMA Written ==
  ASSUME NEW M, NEW prefer, Fit(M, prefer), Bared(M), IInv(M, prefer), mode = "done", ~lost,
         ~prefer \/ Together(prefer) # {}
  PROVE  (IF prefer THEN Prefers(operands[1]) ELSE Admits(operands[1])) = Together(prefer)
<1> DEFINE v == operands[1]
<1>1. /\ operands \in Seq(Outers(M)) /\ Len(operands) = 1
      /\ ~(Unresolved(v) /\ ref = "pending") /\ ref \in {"pending", "bound"}
      /\ ref = "bound" => \A x : Within(x, operands) => ~Unresolved(x)
      /\ Between(operands, Together(prefer), prefer)
  BY DEF IInv, Typed
<1>2. DOMAIN operands = {1} /\ v \in Outers(M)
  BY <1>1
<1>3. \A x : Within(x, operands) <=> x = v
  BY <1>2 DEF Within
<1>4. ~Unresolved(v)
  BY <1>1, <1>3
<1> HIDE DEF v
<1>5. /\ Says(v, prefer, TRUE) = IF prefer THEN Prefers(v) ELSE Admits(v)
      /\ Says(v, prefer, FALSE) = IF prefer THEN Prefers(v) ELSE Admits(v)
  BY <1>2, <1>4, DecidedSays
<1>6. Together(prefer) \subseteq Says(v, prefer, FALSE)
  BY <1>1, <1>3 DEF Between
<1>7. Says(v, prefer, TRUE) \subseteq Together(prefer)
  BY <1>1, <1>3 DEF Between
<1> QED
  BY <1>5, <1>6, <1>7 DEF v

-----------------------------------------------------------------------------
(* The results *)

(***************************************************************************)
(* No disjunction a field's constraints leave holds two copies of the same *)
(* content, for any constraints, in any order and grouping.                *)
(***************************************************************************)
THEOREM CopiesAbsorbed == Spec => []NoCopies
<1>1. Fit(BOOLEAN, FALSE) /\ Bared(BOOLEAN)
  <2>1. BOOLEAN # {FALSE}
    OBVIOUS
  <2> QED
    BY <2>1 DEF Fit, Marks, Bared
<1>2. Init => IInv(BOOLEAN, FALSE)
  BY InvInit
<1>3. IInv(BOOLEAN, FALSE) /\ [Next]_vars => IInv(BOOLEAN, FALSE)'
  BY <1>1, InvNext
<1>4. IInv(BOOLEAN, FALSE) => NoCopies
  <2> SUFFICES ASSUME IInv(BOOLEAN, FALSE), NEW k \in DOMAIN operands, IsChoice(operands[k])
               PROVE  Copyless(operands[k].branches)
    BY DEF NoCopies, Copyless
  <2>1. operands[k] \in Outers(BOOLEAN)
    BY DEF IInv, Typed
  <2>2. operands[k] \in ChoicesOver(BOOLEAN, Inners(BOOLEAN))
    BY <1>1, <2>1, OutersAre, PlainShapes DEF Fit
  <2> QED
    BY <2>2, ChoiceShapes
<1> QED
  BY <1>2, <1>3, <1>4, PTL DEF Spec

(***************************************************************************)
(* What is written for a field admits exactly the values all its           *)
(* constraints admit, unless an alternative was dropped for a pending name *)
(* beside one that was kept.                                               *)
(***************************************************************************)
THEOREM AlternativesStay == Spec => []AlternativesKept
<1>1. Fit(BOOLEAN, FALSE) /\ Bared(BOOLEAN)
  <2>1. BOOLEAN # {FALSE}
    OBVIOUS
  <2> QED
    BY <2>1 DEF Fit, Marks, Bared
<1>2. Init => IInv(BOOLEAN, FALSE)
  BY InvInit
<1>3. IInv(BOOLEAN, FALSE) /\ [Next]_vars => IInv(BOOLEAN, FALSE)'
  BY <1>1, InvNext
<1>4. IInv(BOOLEAN, FALSE) => AlternativesKept
  <2> SUFFICES ASSUME IInv(BOOLEAN, FALSE), mode = "done", ~lost
               PROVE  Admits(operands[1]) = Meant(Admits)
    BY DEF AlternativesKept
  <2>1. Admits(operands[1]) = Together(FALSE)
    BY <1>1, Written
  <2>2. program \in Programs
    BY DEF IInv, Typed
  <2>3. \A k \in DOMAIN program.operands : Says(Bound(k), FALSE, TRUE) = Admits(Bound(k))
    BY <1>1, <2>2, BoundDecided
  <2>4. Meant(Admits) = {a \in UNION {Admits(Bound(k)) : k \in DOMAIN program.operands} :
                           \A k \in DOMAIN program.operands : a \in Admits(Bound(k))}
    BY DEF Meant, Bound
  <2>5. Together(FALSE) = Meant(Admits)
    BY <2>3, <2>4 DEF Together
  <2> QED
    BY <2>1, <2>5
<1> QED
  BY <1>2, <1>3, <1>4, PTL DEF Spec

(***************************************************************************)
(* Where no choice inside an alternative has marks of its own and some     *)
(* value is preferred by all constraints that prefer any, what is written  *)
(* prefers exactly those values, unless an alternative was dropped for a   *)
(* pending name beside one that was kept.                                  *)
(***************************************************************************)
THEOREM PreferenceStays ==
  ASSUME \A p \in Programs : \A k \in DOMAIN p.operands : UnmarkedWithin(p.operands[k])
  PROVE  Spec => []PreferenceKept
<1>1. Fit({FALSE}, TRUE) /\ Bared({FALSE})
  BY DEF Fit, Marks, Bared
<1>2. Init => IInv({FALSE}, TRUE)
  BY InvInit
<1>3. IInv({FALSE}, TRUE) /\ [Next]_vars => IInv({FALSE}, TRUE)'
  BY <1>1, InvNext
<1>4. IInv({FALSE}, TRUE) => PreferenceKept
  <2> SUFFICES ASSUME IInv({FALSE}, TRUE), mode = "done", ~lost, Meant(Prefers) # {}
               PROVE  Prefers(operands[1]) = Meant(Prefers)
    BY DEF PreferenceKept
  <2>1. program \in Programs
    BY DEF IInv, Typed
  <2>2. \A k \in DOMAIN program.operands : Says(Bound(k), TRUE, TRUE) = Prefers(Bound(k))
    BY <1>1, <2>1, BoundDecided
  <2>3. Meant(Prefers) = {a \in UNION {Prefers(Bound(k)) : k \in DOMAIN program.operands} :
                            \A k \in DOMAIN program.operands : a \in Prefers(Bound(k))}
    BY DEF Meant, Bound
  <2>4. Together(TRUE) = Meant(Prefers)
    BY <2>2, <2>3 DEF Together
  <2>5. Prefers(operands[1]) = Together(TRUE)
    BY <1>1, <2>4, Written
  <2> QED
    BY <2>4, <2>5
<1> QED
  BY <1>2, <1>3, <1>4, PTL DEF Spec
=============================================================================
