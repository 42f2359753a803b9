-------------------------- MODULE ScalarMeetProofs --------------------------
(***************************************************************************)
(* For any constraints on a field: the check that bounds leave a number    *)
(* between them is exact, and what the constraints meet in, in whatever    *)
(* order, admits what they all admit and is one value.  Numbers have an    *)
(* f64 of their own, and a field mixes what Mixable (ScalarMeet) lets it.  *)
(***************************************************************************)
EXTENDS ScalarMeet, FiniteSetTheorems, WellFoundedInduction, TLAPS

Ordering == {"<", "<=", ">", ">=", "=="}

\* Bounds by order and equality, on numbers halfway between integers or on
\* them, so that a number counted in quarters lies between any two.
OrderBounds ==
  [op : Ordering, kind : {"int", "float"}, v : {v \in -Exact .. Exact : v % 2 = 0}]

EndRecords == [v : -Exact .. Exact, inclusive : BOOLEAN]

\* The number x lies on the inner side of an end.
Above(x, e) == x > e.v \/ (x = e.v /\ e.inclusive)
Below(x, e) == x < e.v \/ (x = e.v /\ e.inclusive)

LEMMA SmallIsExact ==
  ASSUME NEW v \in -Exact .. Exact
  PROVE  F64(v) = v
<1>1. ~(v > Exact \/ v < -Exact)
  BY Precision
<1>2. 1 * (v \div 1) = v
  BY Precision
<1>3. 2 * (v - v) < 1
  BY Precision
<1> QED
  BY <1>1, <1>2, <1>3 DEF F64

(* Any set of naturals that is not empty has a least member. *)
LEMMA Least ==
  ASSUME NEW T, T \subseteq Nat, T # {}
  PROVE  \E m \in T : \A k \in T : m <= k
<1>1. PICK m \in T : \A k \in T : <<k, m>> \notin OpToRel(<, Nat)
  BY NatLessThanWellFounded, WFMin
<1>2. \A k \in T : ~(k < m)
  BY <1>1 DEF OpToRel
<1> QED
  BY <1>2

LEMMA StrongestLower ==
  ASSUME NEW S, S \subseteq EndRecords, S # {}
  PROVE  LET e == Strongest(S, "lower")
         IN e \in S /\ \A f \in S : e.v > f.v \/ (e.v = f.v /\ (e.inclusive => f.inclusive))
<1> DEFINE Rank(e) == 2 * (Exact - e.v) + (IF e.inclusive THEN 1 ELSE 0)
<1>1. \A e \in S : Rank(e) \in Nat
  BY Precision DEF EndRecords
<1>2. PICK e \in S : \A f \in S : Rank(e) <= Rank(f)
  <2>1. {Rank(e) : e \in S} \subseteq Nat /\ {Rank(e) : e \in S} # {}
    BY <1>1
  <2>2. PICK m \in {Rank(e) : e \in S} : \A k \in {Rank(e) : e \in S} : m <= k
    BY <2>1, Least
  <2> HIDE DEF Rank
  <2> QED
    BY <2>2
<1>3. \A f \in S : e.v > f.v \/ (e.v = f.v /\ (e.inclusive => f.inclusive))
  BY <1>2, Precision DEF EndRecords
<1> QED
  BY <1>3 DEF Strongest

LEMMA StrongestUpper ==
  ASSUME NEW S, S \subseteq EndRecords, S # {}
  PROVE  LET e == Strongest(S, "upper")
         IN e \in S /\ \A f \in S : e.v < f.v \/ (e.v = f.v /\ (e.inclusive => f.inclusive))
<1> DEFINE Rank(e) == 2 * (Exact + e.v) + (IF e.inclusive THEN 1 ELSE 0)
<1>1. \A e \in S : Rank(e) \in Nat
  BY Precision DEF EndRecords
<1>2. PICK e \in S : \A f \in S : Rank(e) <= Rank(f)
  <2>1. {Rank(e) : e \in S} \subseteq Nat /\ {Rank(e) : e \in S} # {}
    BY <1>1
  <2>2. PICK m \in {Rank(e) : e \in S} : \A k \in {Rank(e) : e \in S} : m <= k
    BY <2>1, Least
  <2> HIDE DEF Rank
  <2> QED
    BY <2>2
<1>3. \A f \in S : e.v < f.v \/ (e.v = f.v /\ (e.inclusive => f.inclusive))
  BY <1>2, Precision DEF EndRecords
<1> QED
  BY <1>3 DEF Strongest

-----------------------------------------------------------------------------
(* Bounds and their ends *)

Lowers(cs) == Ends(cs, {">", ">=", "=="})
Uppers(cs) == Ends(cs, {"<", "<=", "=="})

LEMMA EndsOfBounds ==
  ASSUME NEW cs \in SUBSET OrderBounds, NEW ops
  PROVE  /\ Ends(cs, ops) =
              {[v |-> c.v, inclusive |-> c.op \in {"<=", ">=", "=="}] : c \in {c \in cs : c.op \in ops}}
         /\ Ends(cs, ops) \subseteq EndRecords
         /\ \A e \in Ends(cs, ops) : e.v % 2 = 0
<1>1. \A c \in cs : /\ c.v \in -Exact .. Exact /\ c.v % 2 = 0
                    /\ IsNumber(c.kind) /\ F64(c.v) = c.v
  BY SmallIsExact DEF OrderBounds, IsNumber
<1>2. Ends(cs, ops) =
        {[v |-> c.v, inclusive |-> c.op \in {"<=", ">=", "=="}] : c \in {c \in cs : c.op \in ops}}
  BY <1>1 DEF Ends
<1> DEFINE End(c) == [v |-> c.v, inclusive |-> c.op \in {"<=", ">=", "=="}]
<1>3. \A c \in cs : End(c) \in EndRecords /\ End(c).v % 2 = 0
  BY <1>1 DEF EndRecords
<1>4. Ends(cs, ops) = {End(c) : c \in {c \in cs : c.op \in ops}}
  BY <1>2
<1> HIDE DEF End
<1>5. Ends(cs, ops) \subseteq EndRecords /\ \A e \in Ends(cs, ops) : e.v % 2 = 0
  BY <1>3, <1>4
<1> QED
  BY <1>2, <1>5

(* A number meets all bounds if and only if it lies inside all ends. *)
LEMMA BoundsAsEnds ==
  ASSUME NEW cs \in SUBSET OrderBounds, NEW x \in Int
  PROVE  (\A c \in cs : Compare(c.op, x, c.v)) <=>
           /\ \A e \in Lowers(cs) : Above(x, e)
           /\ \A e \in Uppers(cs) : Below(x, e)
<1> DEFINE End(c) == [v |-> c.v, inclusive |-> c.op \in {"<=", ">=", "=="}]
<1>1. ASSUME NEW c \in cs
      PROVE  Compare(c.op, x, c.v) <=>
               /\ c.op \in {">", ">=", "=="} => Above(x, End(c))
               /\ c.op \in {"<", "<=", "=="} => Below(x, End(c))
  <2>1. c.op \in Ordering /\ c.v \in Int
    BY <1>1 DEF OrderBounds
  <2>2. /\ Above(x, End(c)) <=> x > c.v \/ (x = c.v /\ c.op \in {"<=", ">=", "=="})
        /\ Below(x, End(c)) <=> x < c.v \/ (x = c.v /\ c.op \in {"<=", ">=", "=="})
    BY DEF Above, Below
  <2> HIDE DEF End
  <2>3. CASE c.op = "<"
    BY <2>1, <2>2, <2>3 DEF Compare
  <2>4. CASE c.op = "<="
    BY <2>1, <2>2, <2>4 DEF Compare
  <2>5. CASE c.op = ">"
    BY <2>1, <2>2, <2>5 DEF Compare
  <2>6. CASE c.op = ">="
    BY <2>1, <2>2, <2>6 DEF Compare
  <2>7. CASE c.op = "=="
    BY <2>1, <2>2, <2>7 DEF Compare
  <2> QED
    BY <2>1, <2>3, <2>4, <2>5, <2>6, <2>7 DEF Ordering
<1>2. /\ Lowers(cs) = {End(c) : c \in {c \in cs : c.op \in {">", ">=", "=="}}}
      /\ Uppers(cs) = {End(c) : c \in {c \in cs : c.op \in {"<", "<=", "=="}}}
  BY EndsOfBounds DEF Lowers, Uppers
<1> HIDE DEF End
<1> QED
  BY <1>1, <1>2

-----------------------------------------------------------------------------
(* Two ends with room between them *)

(* Where a multiple of four, an integer, lies relative to a number. *)
LEMMA SnappedDown ==
  ASSUME NEW v \in Int
  PROVE  /\ Floor(v) \in Int /\ Floor(v) % 4 = 0 /\ (Floor(v) + 4) % 4 = 0
         /\ \A x \in Int : x % 4 = 0 =>
              (x <= v <=> x <= Floor(v)) /\ (x > v <=> Floor(v) + 4 <= x)
BY DEF Floor

LEMMA SnappedUp ==
  ASSUME NEW v \in Int
  PROVE  /\ Ceil(v) \in Int /\ Ceil(v) % 4 = 0 /\ (Ceil(v) - 4) % 4 = 0
         /\ \A x \in Int : x % 4 = 0 =>
              (x >= v <=> Ceil(v) <= x) /\ (x < v <=> x <= Ceil(v) - 4)
<1>1. Floor(-v) \in Int /\ Floor(-v) % 4 = 0 /\ (Floor(-v) + 4) % 4 = 0
  BY SnappedDown
<1>2. ASSUME NEW x \in Int, x % 4 = 0
      PROVE  (x >= v <=> Ceil(v) <= x) /\ (x < v <=> x <= Ceil(v) - 4)
  <2>1. -x \in Int /\ (-x) % 4 = 0
    BY <1>2
  <2>2. (-x <= -v <=> -x <= Floor(-v)) /\ (-x > -v <=> Floor(-v) + 4 <= -x)
    BY <2>1, SnappedDown
  <2> QED
    BY <1>1, <2>2 DEF Ceil
<1> QED
  BY <1>1, <1>2 DEF Ceil

LEMMA RoomForAnInteger ==
  ASSUME NEW l \in EndRecords, NEW u \in EndRecords
  PROVE  Admissible(l, u, TRUE) <=> \E x \in Int : x % 4 = 0 /\ Above(x, l) /\ Below(x, u)
<1> DEFINE Low == IF l.inclusive THEN Ceil(l.v) ELSE Floor(l.v) + 4
           High == IF u.inclusive THEN Floor(u.v) ELSE Ceil(u.v) - 4
<1>1. l.v \in Int /\ u.v \in Int /\ l.inclusive \in BOOLEAN /\ u.inclusive \in BOOLEAN
  BY Precision DEF EndRecords
<1>2. Low \in Int /\ Low % 4 = 0 /\ High \in Int /\ High % 4 = 0
  <2>1. \A v \in {l.v, u.v} :
          /\ Floor(v) \in Int /\ Floor(v) % 4 = 0 /\ (Floor(v) + 4) % 4 = 0
          /\ Ceil(v) \in Int /\ Ceil(v) % 4 = 0 /\ (Ceil(v) - 4) % 4 = 0
    BY <1>1, SnappedDown, SnappedUp
  <2>2. \A v \in {l.v, u.v} : Floor(v) + 4 \in Int /\ Ceil(v) - 4 \in Int
    BY <2>1
  <2>3. Low \in {Ceil(l.v), Floor(l.v) + 4} /\ High \in {Floor(u.v), Ceil(u.v) - 4}
    OBVIOUS
  <2> QED
    BY <2>1, <2>2, <2>3
<1>3. ASSUME NEW x \in Int, x % 4 = 0
      PROVE  (Above(x, l) <=> Low <= x) /\ (Below(x, u) <=> x <= High)
  <2>1. Above(x, l) <=> Low <= x
    <3>1. CASE l.inclusive
      <4>1. Above(x, l) <=> x >= l.v
        BY <1>1, <3>1 DEF Above
      <4> QED
        BY <1>1, <1>3, <3>1, <4>1, SnappedUp
    <3>2. CASE ~l.inclusive
      <4>1. Above(x, l) <=> x > l.v
        BY <1>1, <3>2 DEF Above
      <4> QED
        BY <1>1, <1>3, <3>2, <4>1, SnappedDown
    <3> QED
      BY <3>1, <3>2
  <2>2. Below(x, u) <=> x <= High
    <3>1. CASE u.inclusive
      <4>1. Below(x, u) <=> x <= u.v
        BY <1>1, <3>1 DEF Below
      <4> QED
        BY <1>1, <1>3, <3>1, <4>1, SnappedDown
    <3>2. CASE ~u.inclusive
      <4>1. Below(x, u) <=> x < u.v
        BY <1>1, <3>2 DEF Below
      <4> QED
        BY <1>1, <1>3, <3>2, <4>1, SnappedUp
    <3> QED
      BY <3>1, <3>2
  <2> QED
    BY <2>1, <2>2
<1>4. Admissible(l, u, TRUE) <=> Low <= High
  BY DEF Admissible
<1> HIDE DEF Low, High
<1>5. ASSUME Low <= High
      PROVE  \E x \in Int : x % 4 = 0 /\ Above(x, l) /\ Below(x, u)
  BY <1>2, <1>3, <1>5
<1>6. ASSUME NEW x \in Int, x % 4 = 0, Above(x, l), Below(x, u)
      PROVE  Low <= High
  BY <1>2, <1>3, <1>6
<1> QED
  BY <1>4, <1>5, <1>6

LEMMA RoomForANumber ==
  ASSUME NEW l \in EndRecords, NEW u \in EndRecords, l.v % 2 = 0, u.v % 2 = 0
  PROVE  Admissible(l, u, FALSE) <=> \E x \in Int : Above(x, l) /\ Below(x, u)
<1>1. l.v \in Int /\ u.v \in Int /\ l.inclusive \in BOOLEAN /\ u.inclusive \in BOOLEAN
  BY Precision DEF EndRecords
<1>2. CASE l.v < u.v
  <2>1. Above(l.v + 1, l) /\ Below(l.v + 1, u)
    BY <1>1, <1>2 DEF Above, Below
  <2> QED
    BY <1>1, <1>2, <2>1 DEF Admissible
<1>3. CASE l.v = u.v
  <2>1. Admissible(l, u, FALSE) <=> l.inclusive /\ u.inclusive
    BY <1>1, <1>3 DEF Admissible
  <2>2. l.inclusive /\ u.inclusive => Above(l.v, l) /\ Below(l.v, u)
    BY <1>1, <1>3 DEF Above, Below
  <2>3. \A x \in Int : Above(x, l) /\ Below(x, u) => l.inclusive /\ u.inclusive
    BY <1>1, <1>3 DEF Above, Below
  <2> QED
    BY <1>1, <2>1, <2>2, <2>3
<1>4. CASE l.v > u.v
  <2>1. ~Admissible(l, u, FALSE)
    BY <1>1, <1>4 DEF Admissible
  <2>2. \A x \in Int : ~(Above(x, l) /\ Below(x, u))
    BY <1>1, <1>4 DEF Above, Below
  <2> QED
    BY <2>1, <2>2
<1>5. l.v < u.v \/ l.v = u.v \/ l.v > u.v
  BY <1>1
<1> QED
  BY <1>2, <1>3, <1>4, <1>5

-----------------------------------------------------------------------------
(* The check of a group of bounds *)

(* Only the strongest ends count. *)
LEMMA StrongestSuffice ==
  ASSUME NEW S, S \subseteq EndRecords, S # {}, NEW x \in Int
  PROVE  /\ (\A e \in S : Above(x, e)) <=> Above(x, Strongest(S, "lower"))
         /\ (\A e \in S : Below(x, e)) <=> Below(x, Strongest(S, "upper"))
<1>1. \A e \in S : e.v \in Int /\ e.inclusive \in BOOLEAN
  BY Precision DEF EndRecords
<1>2. (\A e \in S : Above(x, e)) <=> Above(x, Strongest(S, "lower"))
  <2>1. PICK l \in S : /\ l = Strongest(S, "lower")
                       /\ \A f \in S : l.v > f.v \/ (l.v = f.v /\ (l.inclusive => f.inclusive))
    BY StrongestLower
  <2> QED
    BY <1>1, <2>1 DEF Above
<1>3. (\A e \in S : Below(x, e)) <=> Below(x, Strongest(S, "upper"))
  <2>1. PICK u \in S : /\ u = Strongest(S, "upper")
                       /\ \A f \in S : u.v < f.v \/ (u.v = f.v /\ (u.inclusive => f.inclusive))
    BY StrongestUpper
  <2> QED
    BY <1>1, <2>1 DEF Below
<1> QED
  BY <1>2, <1>3

\* A number that a base admits and that meets the bounds.
Between(cs, integer) ==
  \E x \in Int : /\ integer => x % 4 = 0
                 /\ \A c \in cs : Compare(c.op, x, c.v)

(* incompatible_range reports a conflict exactly where no number meets the  *)
(* bounds, and no integer where the base is `int`: for any set of bounds by *)
(* order or equality, however many and in whatever order they were added,   *)
(* whose ends an f64 holds exactly (unify.rs 452).  Both directions matter: *)
(* a conflict too many refuses a field that has values, and one too few     *)
(* keeps bounds that every value then fails.                                *)
THEOREM ConflictIffNothingBetween ==
  ASSUME NEW cs \in SUBSET OrderBounds, NEW integer \in BOOLEAN
  PROVE  IncompatibleGroup(cs, integer) <=> ~Between(cs, integer)
<1> DEFINE L == Lowers(cs)
           U == Uppers(cs)
           Room(x) == (\A e \in L : Above(x, e)) /\ (\A e \in U : Below(x, e))
<1>1. L \subseteq EndRecords /\ U \subseteq EndRecords /\ \A e \in L \cup U : e.v % 2 = 0
  BY EndsOfBounds DEF Lowers, Uppers
<1>2. Between(cs, integer) <=> \E x \in Int : (integer => x % 4 = 0) /\ Room(x)
  BY BoundsAsEnds DEF Between
<1>3. IncompatibleGroup(cs, integer) <=>
        /\ L # {} /\ U # {}
        /\ ~Admissible(Strongest(L, "lower"), Strongest(U, "upper"), integer)
  BY DEF IncompatibleGroup, Lowers, Uppers
<1> HIDE DEF L, U
<1>4. CASE L = {}
  <2> DEFINE x == -4 * (Exact + 1)
  <2>1. x \in Int /\ x % 4 = 0
    BY Precision
  <2>2. \A e \in U : Below(x, e)
    BY <1>1, Precision DEF Below, EndRecords
  <2> HIDE DEF x
  <2> QED
    BY <1>2, <1>3, <1>4, <2>1, <2>2
<1>5. CASE U = {}
  <2> DEFINE x == 4 * (Exact + 1)
  <2>1. x \in Int /\ x % 4 = 0
    BY Precision
  <2>2. \A e \in L : Above(x, e)
    BY <1>1, Precision DEF Above, EndRecords
  <2> HIDE DEF x
  <2> QED
    BY <1>2, <1>3, <1>5, <2>1, <2>2
<1>6. CASE L # {} /\ U # {}
  <2> DEFINE l == Strongest(L, "lower")
             u == Strongest(U, "upper")
  <2>1. l \in L /\ u \in U
    BY <1>1, <1>6, StrongestLower, StrongestUpper
  <2>2. \A x \in Int : Room(x) <=> Above(x, l) /\ Below(x, u)
    BY <1>1, <1>6, StrongestSuffice
  <2> HIDE DEF l, u, Room
  <2>3. Admissible(l, u, integer) <=>
          \E x \in Int : (integer => x % 4 = 0) /\ Above(x, l) /\ Below(x, u)
    BY <1>1, <2>1, RoomForAnInteger, RoomForANumber
  <2>4. IncompatibleGroup(cs, integer) <=> ~Admissible(l, u, integer)
    BY <1>3, <1>6 DEF l, u
  <2> QED
    BY <1>2, <2>2, <2>3, <2>4
<1> QED
  BY <1>4, <1>5, <1>6

-----------------------------------------------------------------------------
(* What values admit *)

\* A base is a kind, or none.
Fits(b, a) == b = "none" \/ Accepts(b, a)

Bounding(K) == K \subseteq {"number", "int", "float", "string", "bytes", "bool"}

LEMMA AdmitsEach ==
  ASSUME NEW a
  PROVE  /\ ~Admits(Bottom, a) /\ Admits(Top, a)
         /\ \A k, w : Admits(Atom(k, w), a) <=> Atom(k, w) = a
         /\ \A k : Admits(Type(k), a) <=> Accepts(k, a)
         /\ \A b, cs : Admits(Bounds(b, cs), a) <=> Fits(b, a) /\ \A c \in cs : Meant(c, a)
<1>1. ~Admits(Bottom, a) /\ Admits(Top, a)
  BY DEF Admits, Bottom, Top
<1>2. ASSUME NEW k, NEW w PROVE Admits(Atom(k, w), a) <=> Atom(k, w) = a
  BY DEF Admits, Atom
<1>3. ASSUME NEW k PROVE Admits(Type(k), a) <=> Accepts(k, a)
  BY DEF Admits, Type
<1>4. ASSUME NEW b, NEW cs
      PROVE  Admits(Bounds(b, cs), a) <=> Fits(b, a) /\ \A c \in cs : Meant(c, a)
  BY DEF Admits, Bounds, Fits
<1> QED
  BY <1>1, <1>2, <1>3, <1>4

LEMMA AtomsFormed ==
  ASSUME NEW a \in Atoms
  PROVE  /\ a = Atom(a.kind, a.v) /\ FormedAtom(a)
         /\ a.kind \in {"int", "float", "string", "bytes", "bool", "null"}
         /\ a.v \in -Exact .. Exact /\ a.v \in Int
         /\ a.kind = "int" => a.v % 4 = 0
BY GivenFormed, Precision DEF FormedAtom

(* A kind accepts what a kind it subsumes accepts. *)
LEMMA SubsumedAccepted ==
  ASSUME NEW k, NEW l, Subsumes(k, l), NEW a \in Atoms, Accepts(l, a)
  PROVE  Accepts(k, a)
<1>1. a.v \in Int
  BY AtomsFormed
<1>2. CASE a.kind = "int"
  <2>1. ContainsInt(l, a.v)
    BY <1>2 DEF Accepts
  <2>2. ContainsInt(k, a.v)
    <3>1. CASE k = l
      BY <2>1, <3>1
    <3>2. CASE k \in {"number", "int"}
      BY <3>2 DEF ContainsInt
    <3>3. CASE k = "uint" /\ l \in Unsigned
      BY <1>1, <2>1, <3>3 DEF ContainsInt, Unsigned
    <3>4. CASE k = "float" /\ l \in Floating
      BY <2>1, <3>4 DEF ContainsInt, Floating
    <3> QED
      BY <3>1, <3>2, <3>3, <3>4 DEF Subsumes
  <2> QED
    BY <1>2, <2>2 DEF Accepts
<1>3. CASE a.kind = "float"
  BY <1>3 DEF Accepts, Subsumes, Numeric, Integer, Unsigned, Floating
<1>4. CASE a.kind \notin {"int", "float"}
  <2>1. l = a.kind /\ a.kind \in {"string", "bytes", "bool", "null"}
    BY <1>4, AtomsFormed DEF Accepts
  <2>2. k = l
    BY <2>1 DEF Subsumes, Numeric, Integer, Unsigned, Floating
  <2> QED
    BY <2>2
<1> QED
  BY <1>2, <1>3, <1>4

LEMMA FormedEach ==
  ASSUME NEW K, NEW C
  PROVE  /\ Formed(Bottom, K, C) /\ Formed(Top, K, C)
         /\ \A k \in K : Formed(Type(k), K, C)
         /\ \A b \in K \cup {"none"}, cs \in (SUBSET C) \ {{}} :
              (cs = {NotNull} => b = "none") => Formed(Bounds(b, cs), K, C)
<1>1. Formed(Bottom, K, C) /\ Formed(Top, K, C)
  BY DEF Formed
<1>2. \A k \in K : Formed(Type(k), K, C)
  BY DEF Formed, Type
<1>3. \A b \in K \cup {"none"}, cs \in (SUBSET C) \ {{}} :
        (cs = {NotNull} => b = "none") => Formed(Bounds(b, cs), K, C)
  BY DEF Formed, Bounds
<1> QED
  BY <1>1, <1>2, <1>3

-----------------------------------------------------------------------------
(* Types and concrete values *)

Plain(v, K) ==
  \/ v = Type(v.kind) /\ v.kind \in K
  \/ v = Atom(v.kind, v.v) /\ FormedAtom(Atom(v.kind, v.v))

LEMMA PlainMeans ==
  ASSUME NEW K, NEW C, Mixable(K, C), NEW x, NEW y, Plain(x, K), Plain(y, K)
  PROVE  /\ Plain(MeetPlain(x, y), K) \/ MeetPlain(x, y) = Bottom
         /\ \A a \in Atoms : Admits(MeetPlain(x, y), a) <=> Admits(x, a) /\ Admits(y, a)
<1> DEFINE Right(z) ==
      /\ Plain(z, K) \/ z = Bottom
      /\ \A a \in Atoms : Admits(z, a) <=> Admits(x, a) /\ Admits(y, a)
<1>1. CASE x = Type(x.kind) /\ x.kind \in K /\ y = Type(y.kind) /\ y.kind \in K
  <2>1. MeetPlain(x, y) = IF Subsumes(x.kind, y.kind) THEN y
                          ELSE IF Subsumes(y.kind, x.kind) THEN x ELSE Bottom
    <3>1. x.t = "type" /\ y.t = "type"
      BY <1>1 DEF Type
    <3> QED
      BY <3>1 DEF MeetPlain
  <2>2. \A a \in Atoms : /\ Admits(x, a) <=> Accepts(x.kind, a)
                         /\ Admits(y, a) <=> Accepts(y.kind, a)
    BY <1>1, AdmitsEach
  <2>3. Subsumes(x.kind, y.kind) => Right(y)
    BY <2>2, SubsumedAccepted
  <2>4. Subsumes(y.kind, x.kind) => Right(x)
    BY <2>2, SubsumedAccepted
  <2>5. ~Subsumes(x.kind, y.kind) /\ ~Subsumes(y.kind, x.kind) => Right(Bottom)
    BY <1>1, <2>2, AdmitsEach DEF Mixable
  <2> QED
    BY <2>1, <2>3, <2>4, <2>5
<1>2. ASSUME NEW k \in K, NEW c, NEW w, FormedAtom(Atom(c, w)),
             {x, y} = {Type(k), Atom(c, w)}, Plain(Atom(c, w), K)
      PROVE  /\ Right(IF Accepts(k, Atom(c, w)) THEN Atom(c, w) ELSE Bottom)
  <2>1. \A a \in Atoms : Admits(x, a) /\ Admits(y, a) <=> Accepts(k, a) /\ Atom(c, w) = a
    <3>1. \A a \in Atoms : /\ Admits(Type(k), a) <=> Accepts(k, a)
                           /\ Admits(Atom(c, w), a) <=> Atom(c, w) = a
      BY AdmitsEach
    <3> QED
      BY <1>2, <3>1
  <2>2. CASE Accepts(k, Atom(c, w))
    BY <1>2, <2>1, <2>2, AdmitsEach
  <2>3. CASE ~Accepts(k, Atom(c, w))
    BY <2>1, <2>3, AdmitsEach
  <2> QED
    BY <2>2, <2>3
<1>3. CASE x = Type(x.kind) /\ x.kind \in K /\ y = Atom(y.kind, y.v) /\ FormedAtom(Atom(y.kind, y.v))
  <2>1. x.t = "type" /\ y.t = "atom"
    BY <1>3 DEF Type, Atom
  <2>2. MeetPlain(x, y) = IF Accepts(x.kind, y) THEN y ELSE Bottom
    BY <2>1 DEF MeetPlain
  <2> QED
    BY <1>2, <1>3, <2>2
<1>4. CASE y = Type(y.kind) /\ y.kind \in K /\ x = Atom(x.kind, x.v) /\ FormedAtom(Atom(x.kind, x.v))
  <2>1. y.t = "type" /\ x.t = "atom"
    BY <1>4 DEF Type, Atom
  <2>2. MeetPlain(x, y) = IF Accepts(y.kind, x) THEN x ELSE Bottom
    BY <2>1 DEF MeetPlain
  <2> QED
    BY <1>2, <1>4, <2>2
<1>5. CASE x = Atom(x.kind, x.v) /\ y = Atom(y.kind, y.v)
  <2>1. x.t = "atom" /\ y.t = "atom"
    BY <1>5 DEF Atom
  <2>2. MeetPlain(x, y) = IF x = y THEN x ELSE Bottom
    BY <2>1 DEF MeetPlain
  <2>3. \A a \in Atoms : (Admits(x, a) <=> x = a) /\ (Admits(y, a) <=> y = a)
    BY <1>5, AdmitsEach
  <2> QED
    BY <2>2, <2>3, AdmitsEach
<1> QED
  BY <1>1, <1>3, <1>4, <1>5 DEF Plain

-----------------------------------------------------------------------------
(* A concrete value against bounds *)

LEMMA FormedBoundKinds ==
  ASSUME NEW c, FormedBound(c)
  PROVE  /\ c.v \in Int /\ (IsNumber(c.kind) => c.v \in -Exact .. Exact)
         /\ c.kind \in {"int", "float", "string", "bool", "null"}
         /\ c.kind = "null" <=> c = NotNull
         /\ IsNumber(c.kind) => c.op \in {"<", "<=", ">", ">=", "==", "!="}
         /\ c.kind = "bool" => c.op \in {"==", "!="}
         /\ \A a : c = NotNull => (Meant(c, a) <=> a.kind # "null")
         /\ \A a : c # NotNull /\ IsNumber(c.kind) =>
                     (Meant(c, a) <=> IsNumber(a.kind) /\ Compare(c.op, a.v, c.v))
         /\ \A a : c # NotNull /\ ~IsNumber(c.kind) =>
                     (Meant(c, a) <=> a.kind = c.kind /\ Compare(c.op, a.v, c.v))
<1>1. c.v \in Int /\ c.v \in -Exact .. Exact
  BY Precision DEF FormedBound
<1>2. NotNull.kind = "null" /\ NotNull.op = "!="
  BY DEF NotNull, Bound
<1>3. /\ c.kind \in {"int", "float", "string", "bool", "null"}
      /\ c.kind = "null" <=> c = NotNull
      /\ IsNumber(c.kind) => c.op \in {"<", "<=", ">", ">=", "==", "!="}
      /\ c.kind = "bool" => c.op \in {"==", "!="}
  BY <1>2 DEF FormedBound, IsNumber
<1>4. \A a : c = NotNull => (Meant(c, a) <=> a.kind # "null")
  BY <1>2 DEF Meant, IsNumber
<1>5. \A a : c # NotNull /\ IsNumber(c.kind) =>
               (Meant(c, a) <=> IsNumber(a.kind) /\ Compare(c.op, a.v, c.v))
  BY DEF Meant
<1>6. \A a : c # NotNull /\ ~IsNumber(c.kind) =>
               (Meant(c, a) <=> a.kind = c.kind /\ Compare(c.op, a.v, c.v))
  BY DEF Meant
<1> QED
  BY <1>1, <1>3, <1>4, <1>5, <1>6

(* Satisfies is what a bound means, once `!= null` has been discharged. *)
LEMMA SatisfiesMeans ==
  ASSUME NEW a, a = Atom(a.kind, a.v), FormedAtom(a), NEW c, FormedBound(c),
         c # NotNull \/ a.kind = "null"
  PROVE  Satisfies(a, c) <=> Meant(c, a)
<1>1. /\ a.kind \in {"int", "float", "string", "bytes", "bool", "null"}
      /\ a.v \in -Exact .. Exact /\ a.v \in Int
  BY Precision DEF FormedAtom
<1>2. IsNumber(a.kind) <=> a.kind \in {"int", "float"}
  BY DEF IsNumber
<1>3. CASE IsNumber(a.kind)
  <2>1. c # NotNull
    BY <1>2, <1>3
  <2>2. CASE IsNumber(c.kind)
    <3>1. F64(a.v) = a.v /\ F64(c.v) = c.v
      BY <1>1, <2>2, FormedBoundKinds, SmallIsExact
    <3>2. Satisfies(a, c) <=> Compare(c.op, a.v, c.v)
      BY <1>2, <1>3, <2>2, <3>1, FormedBoundKinds DEF Satisfies
    <3> QED
      BY <1>3, <2>1, <2>2, <3>2, FormedBoundKinds
  <2>3. CASE ~IsNumber(c.kind)
    <3>1. ~Satisfies(a, c)
      BY <1>2, <1>3, <2>3 DEF Satisfies
    <3>2. a.kind # c.kind
      BY <1>3, <2>3
    <3> QED
      BY <2>1, <2>3, <3>1, <3>2, FormedBoundKinds
  <2> QED
    BY <2>2, <2>3
<1>4. CASE a.kind = "string"
  <2>1. c # NotNull
    BY <1>4
  <2>2. Satisfies(a, c) <=> /\ ~IsNumber(c.kind) /\ c.kind # "bool"
                            /\ c.kind = "string" => Compare(c.op, a.v, c.v)
    BY <1>2, <1>4 DEF Satisfies
  <2>3. CASE c.kind = "string"
    BY <1>4, <2>1, <2>2, <2>3, FormedBoundKinds DEF IsNumber
  <2>4. CASE c.kind = "bool" \/ IsNumber(c.kind)
    BY <1>4, <2>1, <2>2, <2>4, FormedBoundKinds DEF IsNumber
  <2> QED
    BY <2>1, <2>3, <2>4, FormedBoundKinds DEF IsNumber
<1>5. CASE a.kind = "bool"
  <2>1. c # NotNull
    BY <1>5
  <2>2. Satisfies(a, c) <=> c.kind = "bool" /\ c.op \in {"==", "!="} /\ Compare(c.op, a.v, c.v)
    BY <1>2, <1>5 DEF Satisfies
  <2> QED
    BY <1>5, <2>1, <2>2, FormedBoundKinds DEF IsNumber
<1>6. CASE a.kind \in {"bytes", "null"}
  <2>1. ~Satisfies(a, c)
    BY <1>2, <1>6 DEF Satisfies
  <2>2. ~Meant(c, a)
    BY <1>6, FormedBoundKinds DEF IsNumber
  <2> QED
    BY <2>1, <2>2
<1> QED
  BY <1>1, <1>2, <1>3, <1>4, <1>5, <1>6

LEMMA PlainAccepts ==
  ASSUME NEW k \in {"number", "int", "float", "string", "bytes", "bool"},
         NEW a, FormedAtom(a)
  PROVE  Accepts(k, a) <=> a.kind = k \/ (k = "number" /\ IsNumber(a.kind))
<1>1. a.kind \in {"int", "float", "string", "bytes", "bool", "null"}
  BY DEF FormedAtom
<1>2. CASE a.kind = "int"
  <2>1. ContainsInt(k, a.v) <=> k \in {"number", "int"}
    BY DEF ContainsInt
  <2> QED
    BY <1>2, <2>1 DEF Accepts, IsNumber
<1>3. CASE a.kind = "float"
  BY <1>3 DEF Accepts, IsNumber, Floating
<1>4. CASE a.kind \notin {"int", "float"}
  BY <1>1, <1>4 DEF Accepts, IsNumber
<1> QED
  BY <1>2, <1>3, <1>4

(* A value passes the base and every bound if and only if it is meant: what *)
(* the base does not ask, the bounds do.                                    *)
LEMMA AtomPasses ==
  ASSUME NEW K, NEW C, Mixable(K, C), NEW b \in K \cup {"none"},
         NEW cs \in SUBSET C, cs # {},
         NEW a, a = Atom(a.kind, a.v), FormedAtom(a), NotNull \notin cs \/ a.kind = "null"
  PROVE  PassesBase(b, a) /\ (\A c \in cs : Satisfies(a, c)) <=>
           Fits(b, a) /\ \A c \in cs : Meant(c, a)
<1>1. \A c \in cs : FormedBound(c)
  BY DEF Mixable
<1>2. \A c \in cs : Satisfies(a, c) <=> Meant(c, a)
  BY <1>1, SatisfiesMeans
<1>3. PICK c \in cs : TRUE
  OBVIOUS
<1>4. a.kind \in {"int", "float", "string", "bytes", "bool", "null"}
  BY DEF FormedAtom
<1>5. CASE a.kind \in {"int", "float", "string"}
  <2>1. Bounding(K)
    BY <1>3, <1>5 DEF Mixable, Bounding
  <2>2. b = "none" \/ (Accepts(b, a) <=> a.kind = b \/ (b = "number" /\ IsNumber(a.kind)))
    BY <2>1, PlainAccepts DEF Bounding
  <2>3. PassesBase(b, a) <=> Fits(b, a)
    BY <1>5, <2>1, <2>2 DEF PassesBase, Fits, IsNumber, Numeric, Integer, Unsigned, Floating, Bounding
  <2> QED
    BY <1>2, <2>3
<1>6. CASE a.kind = "bool"
  <2>1. PassesBase(b, a)
    BY <1>6 DEF PassesBase
  <2>2. ASSUME Meant(c, a) PROVE Fits(b, a)
    <3>1. c # NotNull
      BY <1>3, <1>6
    <3>2. c.kind = "bool"
      BY <1>1, <1>3, <1>6, <2>2, <3>1, FormedBoundKinds DEF IsNumber
    <3>3. K \subseteq {"bool"}
      BY <1>3, <3>2 DEF Mixable
    <3> QED
      BY <1>6, <3>3, PlainAccepts DEF Fits
  <2> QED
    BY <1>2, <1>3, <2>1, <2>2
<1>7. CASE a.kind \in {"bytes", "null"}
  <2>1. ~Meant(c, a)
    BY <1>1, <1>3, <1>7, FormedBoundKinds DEF IsNumber
  <2> QED
    BY <1>2, <1>3, <2>1
<1> QED
  BY <1>4, <1>5, <1>6, <1>7

-----------------------------------------------------------------------------
(* Bounds against bounds *)

LEMMA BasesMerge ==
  ASSUME NEW K, NEW C, Mixable(K, C), NEW b \in K \cup {"none"}, NEW c \in K \cup {"none"},
         b = "none" \/ c = "none" \/ Bounding(K)
  PROVE  \/ /\ MergedBases(b, c) = {}
            /\ \A a \in Atoms : ~(Fits(b, a) /\ Fits(c, a))
         \/ \E d \in K \cup {"none"} :
              /\ MergedBases(b, c) = {d} /\ d \in {b, c} /\ (d = "none" => b = "none" /\ c = "none")
              /\ \A a \in Atoms : Fits(d, a) <=> Fits(b, a) /\ Fits(c, a)
<1>1. CASE b = "none"
  BY <1>1 DEF MergedBases, Fits
<1>2. CASE b # "none" /\ (c = "none" \/ b = c)
  BY <1>2 DEF MergedBases, Fits
<1>3. CASE b # "none" /\ c # "none" /\ b # c
  <2>1. /\ b \in {"number", "int", "float", "string", "bytes", "bool"}
        /\ c \in {"number", "int", "float", "string", "bytes", "bool"}
    BY <1>3 DEF Bounding
  <2>2. \A a \in Atoms : /\ Fits(b, a) <=> a.kind = b \/ (b = "number" /\ IsNumber(a.kind))
                         /\ Fits(c, a) <=> a.kind = c \/ (c = "number" /\ IsNumber(a.kind))
    BY <1>3, <2>1, PlainAccepts, AtomsFormed DEF Fits
  <2>3. CASE Narrows(b, c)
    <3>1. MergedBases(b, c) = {c}
      BY <1>3, <2>3 DEF MergedBases, Narrows
    <3>2. \A a \in Atoms : Fits(c, a) => Fits(b, a)
      BY <2>2, <2>3 DEF Narrows, IsNumber
    <3> QED
      BY <1>3, <3>1, <3>2
  <2>4. CASE Narrows(c, b)
    <3>1. MergedBases(b, c) = {b}
      BY <1>3, <2>4 DEF MergedBases, Narrows
    <3>2. \A a \in Atoms : Fits(b, a) => Fits(c, a)
      BY <2>2, <2>4 DEF Narrows, IsNumber
    <3> QED
      BY <1>3, <3>1, <3>2
  <2>5. CASE ~Narrows(b, c) /\ ~Narrows(c, b)
    <3>1. MergedBases(b, c) = {}
      BY <1>3, <2>5 DEF MergedBases
    <3>2. \A a \in Atoms : ~(Fits(b, a) /\ Fits(c, a))
      BY <1>3, <2>1, <2>2, <2>5 DEF Narrows, IsNumber
    <3> QED
      BY <3>1, <3>2
  <2> QED
    BY <2>3, <2>4, <2>5
<1> QED
  BY <1>1, <1>2, <1>3

(* No conflict is reported of bounds a value meets. *)
LEMMA NoConflictAround ==
  ASSUME NEW G, \A c \in G : c.v \in -Exact .. Exact,
         NEW x \in Int, \A c \in G : Compare(c.op, x, c.v),
         NEW integer \in BOOLEAN, integer => x % 4 = 0
  PROVE  ~IncompatibleGroup(G, integer)
<1> DEFINE End(c) == [v |-> IF IsNumber(c.kind) THEN F64(c.v) ELSE c.v,
                      inclusive |-> c.op \in {"<=", ">=", "=="}]
           L == Ends(G, {">", ">=", "=="})
           U == Ends(G, {"<", "<=", "=="})
<1>1. \A c \in G : End(c) \in EndRecords /\ End(c).v = c.v
                   /\ End(c).inclusive = (c.op \in {"<=", ">=", "=="})
  BY SmallIsExact DEF EndRecords
<1>2. /\ L = {End(c) : c \in {c \in G : c.op \in {">", ">=", "=="}}}
      /\ U = {End(c) : c \in {c \in G : c.op \in {"<", "<=", "=="}}}
  BY DEF Ends
<1>3. \A c \in G : c.v \in Int
  BY Precision
<1> HIDE DEF End
<1>4. \A c \in G : c.op \in {">", ">=", "=="} => Above(x, End(c))
  <2> SUFFICES ASSUME NEW c \in G, c.op \in {">", ">=", "=="} PROVE Above(x, End(c))
    OBVIOUS
  <2>1. CASE c.op = ">"
    BY <1>1, <1>3, <2>1 DEF Compare, Above
  <2>2. CASE c.op = ">="
    <3>1. x >= c.v
      BY <2>2 DEF Compare
    <3>2. x >= End(c).v /\ End(c).inclusive /\ End(c).v \in Int
      BY <1>1, <1>3, <2>2, <3>1
    <3> QED
      BY <3>2 DEF Above
  <2>3. CASE c.op = "=="
    <3>1. x = c.v
      BY <2>3 DEF Compare
    <3>2. x = End(c).v /\ End(c).inclusive
      BY <1>1, <2>3, <3>1
    <3> QED
      BY <3>2 DEF Above
  <2> QED
    BY <2>1, <2>2, <2>3
<1>5. \A c \in G : c.op \in {"<", "<=", "=="} => Below(x, End(c))
  <2> SUFFICES ASSUME NEW c \in G, c.op \in {"<", "<=", "=="} PROVE Below(x, End(c))
    OBVIOUS
  <2>1. CASE c.op = "<"
    BY <1>1, <1>3, <2>1 DEF Compare, Below
  <2>2. CASE c.op = "<="
    <3>1. x <= c.v
      BY <2>2 DEF Compare
    <3>2. x <= End(c).v /\ End(c).inclusive /\ End(c).v \in Int
      BY <1>1, <1>3, <2>2, <3>1
    <3> QED
      BY <3>2 DEF Below
  <2>3. CASE c.op = "=="
    <3>1. x = c.v
      BY <2>3 DEF Compare
    <3>2. x = End(c).v /\ End(c).inclusive
      BY <1>1, <2>3, <3>1
    <3> QED
      BY <3>2 DEF Below
  <2> QED
    BY <2>1, <2>2, <2>3
<1>6. /\ L \subseteq EndRecords /\ U \subseteq EndRecords
      /\ \A e \in L : Above(x, e) /\ \A f \in U : Below(x, f)
  BY <1>1, <1>2, <1>4, <1>5
<1>7. SUFFICES ASSUME L # {}, U # {}
               PROVE  Admissible(Strongest(L, "lower"), Strongest(U, "upper"), integer)
  BY DEF IncompatibleGroup
<1> HIDE DEF L, U
<1> DEFINE l == Strongest(L, "lower")
           u == Strongest(U, "upper")
<1>8. l \in L /\ u \in U
  BY <1>6, <1>7, StrongestLower, StrongestUpper
<1>9. l \in EndRecords /\ u \in EndRecords /\ Above(x, l) /\ Below(x, u)
  BY <1>6, <1>8
<1> HIDE DEF l, u
<1>10. CASE integer
  BY <1>9, <1>10, RoomForAnInteger DEF l, u
<1>11. CASE ~integer
  <2>1. l.v \in Int /\ u.v \in Int
    BY <1>9, Precision DEF EndRecords
  <2>2. Admissible(l, u, FALSE)
    BY <1>9, <2>1 DEF Admissible, Above, Below
  <2> QED
    BY <1>11, <2>2 DEF l, u
<1> QED
  BY <1>10, <1>11

(* What a base and its bounds admit together refutes every conflict. *)
LEMMA NoConflictAdmitted ==
  ASSUME NEW K, NEW C, Mixable(K, C), NEW b \in K \cup {"none"}, b = "none" \/ Bounding(K),
         NEW cs \in SUBSET C, NEW a \in Atoms, Fits(b, a), \A c \in cs : Meant(c, a)
  PROVE  /\ ~ConflictingDemand(b, cs) /\ ~IncompatibleRange(b, cs)
         /\ ~MixedDemands(cs)
<1>1. \A c \in cs : FormedBound(c)
  BY DEF Mixable
<1>2. /\ a.v \in Int /\ FormedAtom(a)
      /\ a.kind = "int" => a.v % 4 = 0
  BY AtomsFormed
<1>3. \A c \in cs : IsNumber(c.kind) => /\ IsNumber(a.kind) /\ Compare(c.op, a.v, c.v)
                                        /\ c.v \in -Exact .. Exact
  <2> SUFFICES ASSUME NEW c \in cs, IsNumber(c.kind)
               PROVE  IsNumber(a.kind) /\ Compare(c.op, a.v, c.v) /\ c.v \in -Exact .. Exact
    OBVIOUS
  <2>1. c # NotNull
    BY DEF NotNull, Bound, IsNumber
  <2> QED
    BY <1>1, <2>1, FormedBoundKinds
<1>4. \A c \in cs : IsText(c.kind) => /\ a.kind = c.kind /\ Compare(c.op, a.v, c.v)
                                      /\ c.v \in -Exact .. Exact
  <2> SUFFICES ASSUME NEW c \in cs, IsText(c.kind)
               PROVE  a.kind = c.kind /\ Compare(c.op, a.v, c.v) /\ c.v \in -Exact .. Exact
    OBVIOUS
  <2>1. c # NotNull /\ ~IsNumber(c.kind)
    BY DEF NotNull, Bound, IsNumber, IsText
  <2> QED
    BY <1>1, <2>1, FormedBoundKinds DEF FormedBound
<1>5. ASSUME b # "none"
      PROVE  /\ b \in {"number", "int", "float", "string", "bytes", "bool"}
             /\ a.kind = b \/ (b = "number" /\ IsNumber(a.kind))
  BY <1>2, <1>5, PlainAccepts DEF Fits, Bounding
<1>6. ~ConflictingDemand(b, cs)
  <2>1. \A c \in cs : IsNumber(c.kind) => b # "string"
    BY <1>3, <1>5 DEF IsNumber
  <2>2. \A c \in cs : c.kind = "string" => b \notin Numeric
    BY <1>4, <1>5 DEF IsNumber, IsText, Numeric, Integer, Unsigned, Floating
  <2> QED
    BY <2>1, <2>2 DEF ConflictingDemand
<1>7. ~MixedDemands(cs)
  BY <1>3, <1>4 DEF MixedDemands, IsNumber, IsText
<1>8. ~IncompatibleGroup({c \in cs : IsNumber(c.kind)}, b = "int")
  <2>1. b = "int" => a.v % 4 = 0
    BY <1>2, <1>5
  <2>2. (b = "int") \in BOOLEAN
    OBVIOUS
  <2> QED
    BY <1>2, <1>3, <2>1, <2>2, NoConflictAround
<1>9. ~IncompatibleGroup({c \in cs : IsText(c.kind)}, FALSE)
  BY <1>2, <1>4, NoConflictAround
<1> QED
  BY <1>6, <1>7, <1>8, <1>9 DEF IncompatibleRange

LEMMA CheckedMeans ==
  ASSUME NEW K, NEW C, Mixable(K, C), NEW b \in K \cup {"none"}, b = "none" \/ Bounding(K),
         NEW cs \in (SUBSET C) \ {{}}, cs = {NotNull} => b = "none"
  PROVE  /\ Formed(Checked({b}, cs), K, C)
         /\ \A a \in Atoms : Admits(Checked({b}, cs), a) <=> Fits(b, a) /\ \A c \in cs : Meant(c, a)
<1>1. Checked({b}, cs) = IF ~ConflictingDemand(b, cs) /\ ~IncompatibleRange(b, cs)
                         THEN Bounds(b, cs) ELSE Bottom
  BY DEF Checked
<1>2. CASE ~ConflictingDemand(b, cs) /\ ~IncompatibleRange(b, cs)
  <2>1. Checked({b}, cs) = Bounds(b, cs)
    BY <1>1, <1>2
  <2>2. Formed(Bounds(b, cs), K, C)
    BY FormedEach
  <2>3. \A a \in Atoms : Admits(Bounds(b, cs), a) <=> Fits(b, a) /\ \A c \in cs : Meant(c, a)
    BY AdmitsEach
  <2> QED
    BY <2>1, <2>2, <2>3
<1>3. CASE ~(~ConflictingDemand(b, cs) /\ ~IncompatibleRange(b, cs))
  <2>1. \A a \in Atoms : ~(Fits(b, a) /\ \A c \in cs : Meant(c, a))
    BY <1>3, NoConflictAdmitted
  <2>2. Checked({b}, cs) = Bottom
    BY <1>1, <1>3
  <2>3. Formed(Bottom, K, C) /\ \A a \in Atoms : ~Admits(Bottom, a)
    BY AdmitsEach, FormedEach
  <2> QED
    BY <2>1, <2>2, <2>3
<1> QED
  BY <1>2, <1>3

-----------------------------------------------------------------------------
(* Any two values *)

\* A value of the class that admits what two values both admit.
MeetOf(z, x, y, K, C) ==
  /\ Formed(z, K, C)
  /\ \A a \in Atoms : Admits(z, a) <=> Admits(x, a) /\ Admits(y, a)

BoundsFormed(x, K, C) ==
  /\ x.t = "bounds" /\ x = Bounds(x.base, x.cs)
  /\ x.base \in K \cup {"none"} /\ x.cs \in (SUBSET C) \ {{}}
  /\ x.cs = {NotNull} => x.base = "none"

LEMMA MergedMeans ==
  ASSUME NEW K, NEW C, Mixable(K, C), NEW b \in K \cup {"none"}, NEW c \in K \cup {"none"},
         b # "none" \/ c # "none" => Bounding(K),
         NEW cs \in (SUBSET C) \ {{}}, cs = {NotNull} => b = "none" /\ c = "none"
  PROVE  /\ Formed(Checked(MergedBases(b, c), cs), K, C)
         /\ \A a \in Atoms : Admits(Checked(MergedBases(b, c), cs), a) <=>
                               Fits(b, a) /\ Fits(c, a) /\ \A d \in cs : Meant(d, a)
<1>1. CASE MergedBases(b, c) = {} /\ \A a \in Atoms : ~(Fits(b, a) /\ Fits(c, a))
  <2>1. Checked({}, cs) = Bottom
    BY DEF Checked
  <2>2. Formed(Bottom, K, C) /\ \A a \in Atoms : ~Admits(Bottom, a)
    BY AdmitsEach, FormedEach
  <2> QED
    BY <1>1, <2>1, <2>2
<1>2. ASSUME NEW d \in K \cup {"none"},
             MergedBases(b, c) = {d}, d \in {b, c},
             \A a \in Atoms : Fits(d, a) <=> Fits(b, a) /\ Fits(c, a)
      PROVE  /\ Formed(Checked(MergedBases(b, c), cs), K, C)
             /\ \A a \in Atoms : Admits(Checked(MergedBases(b, c), cs), a) <=>
                                   Fits(b, a) /\ Fits(c, a) /\ \A e \in cs : Meant(e, a)
  <2>1. (d = "none" \/ Bounding(K)) /\ (cs = {NotNull} => d = "none")
    BY <1>2
  <2>2. /\ Formed(Checked({d}, cs), K, C)
        /\ \A a \in Atoms : Admits(Checked({d}, cs), a) <=> Fits(d, a) /\ \A e \in cs : Meant(e, a)
    BY <2>1, CheckedMeans
  <2> QED
    BY <1>2, <2>2
<1> QED
  BY <1>1, <1>2, BasesMerge

LEMMA BoundsMeetBounds ==
  ASSUME NEW K, NEW C, Mixable(K, C),
         NEW x, BoundsFormed(x, K, C), NEW y, BoundsFormed(y, K, C)
  PROVE  MeetOf(MeetBounds(x, y), x, y, K, C)
<1> DEFINE cs == x.cs \cup y.cs
<1>1. MeetBounds(x, y) = IF MixedDemands(cs) THEN Bottom
                         ELSE Checked(MergedBases(x.base, y.base), cs)
  <2>1. ~ExcludesNull(y) /\ x.cs # {} /\ y.t = "bounds"
    BY DEF BoundsFormed, ExcludesNull
  <2> QED
    BY <2>1 DEF MeetBounds
<1>2. \A a \in Atoms : Admits(x, a) /\ Admits(y, a) <=>
                         Fits(x.base, a) /\ Fits(y.base, a) /\ \A c \in cs : Meant(c, a)
  <2>1. \A a \in Atoms : /\ Admits(x, a) <=> Fits(x.base, a) /\ \A c \in x.cs : Meant(c, a)
                         /\ Admits(y, a) <=> Fits(y.base, a) /\ \A c \in y.cs : Meant(c, a)
    BY AdmitsEach DEF BoundsFormed
  <2> QED
    BY <2>1
<1>3. CASE MixedDemands(cs)
  <2>1. \A a \in Atoms : Fits("none", a)
    BY DEF Fits
  <2>2. \A a \in Atoms : ~\A c \in cs : Meant(c, a)
    BY <1>3, <2>1, NoConflictAdmitted DEF BoundsFormed
  <2>3. Formed(Bottom, K, C) /\ \A a \in Atoms : ~Admits(Bottom, a)
    BY AdmitsEach, FormedEach
  <2> QED
    BY <1>1, <1>2, <1>3, <2>2, <2>3 DEF MeetOf
<1>4. CASE ~MixedDemands(cs)
  <2>1. x.base # "none" \/ y.base # "none" => Bounding(K)
    BY DEF BoundsFormed, Mixable, Bounding
  <2>2. /\ cs \in (SUBSET C) \ {{}}
        /\ cs = {NotNull} => x.base = "none" /\ y.base = "none"
    BY DEF BoundsFormed
  <2>3. x.base \in K \cup {"none"} /\ y.base \in K \cup {"none"}
    BY DEF BoundsFormed
  <2> HIDE DEF cs
  <2> QED
    BY <1>1, <1>2, <1>4, <2>1, <2>2, <2>3, MergedMeans DEF MeetOf
<1> QED
  BY <1>3, <1>4

LEMMA BoundsMeetPlain ==
  ASSUME NEW K, NEW C, Mixable(K, C),
         NEW x, BoundsFormed(x, K, C), NEW y, Plain(y, K)
  PROVE  MeetOf(MeetBounds(x, y), x, y, K, C)
<1> DEFINE cs == IF ExcludesNull(y) THEN x.cs \ {NotNull} ELSE x.cs
<1>1. \A a \in Atoms : Admits(x, a) <=> Fits(x.base, a) /\ \A c \in x.cs : Meant(c, a)
  BY AdmitsEach DEF BoundsFormed
<1>2. \A a \in Atoms : Admits(y, a) /\ ExcludesNull(y) => Meant(NotNull, a)
  <2> SUFFICES ASSUME NEW a \in Atoms, Admits(y, a), ExcludesNull(y) PROVE Meant(NotNull, a)
    OBVIOUS
  <2>1. FormedBound(NotNull) /\ (Meant(NotNull, a) <=> a.kind # "null")
    BY Precision DEF FormedBound, NotNull, Bound, Meant, IsNumber
  <2>2. CASE y = Type(y.kind) /\ y.kind \in K
    <3>1. Accepts(y.kind, a) /\ y.kind # "null"
      BY <2>2, AdmitsEach DEF ExcludesNull
    <3>2. a.kind # "null"
      BY <3>1 DEF Accepts
    <3> QED
      BY <2>1, <3>2
  <2>3. CASE y = Atom(y.kind, y.v)
    <3>1. y = a
      BY <2>3, AdmitsEach
    <3> QED
      BY <2>1, <3>1 DEF ExcludesNull
  <2> QED
    BY <2>2, <2>3 DEF Plain
<1>3. \A a \in Atoms : Admits(x, a) /\ Admits(y, a) <=>
                         Admits(y, a) /\ Fits(x.base, a) /\ \A c \in cs : Meant(c, a)
  BY <1>1, <1>2
<1>4. (cs \subseteq C /\ cs # {NotNull}) \/ (y.t = "atom" /\ y.kind = "null")
  <2>1. y.t \in {"atom", "type"} /\ (y.t = "type" => y.kind # "null")
    BY DEF Plain, Type, Atom, Mixable, Numeric, Integer, Unsigned, Floating
  <2> QED
    BY <2>1 DEF ExcludesNull, BoundsFormed
<1>5. y.t # "bounds" /\ Formed(y, K, C)
  BY DEF Plain, Formed, Type, Atom
<1>6. CASE cs = {}
  <2>1. x.base = "none"
    <3>1. x.cs = {NotNull}
      BY <1>6 DEF BoundsFormed
    <3> QED
      BY <3>1 DEF BoundsFormed
  <2>2. MeetBounds(x, y) = y
    BY <1>6, <2>1 DEF MeetBounds, Discharged
  <2>3. \A a \in Atoms : Fits(x.base, a)
    BY <2>1 DEF Fits
  <2>4. \A a \in Atoms : \A c \in cs : Meant(c, a)
    BY <1>6
  <2> HIDE DEF cs
  <2> QED
    BY <1>3, <1>5, <2>2, <2>3, <2>4 DEF MeetOf
<1>7. CASE cs # {} /\ y = Type(y.kind) /\ y.kind \in K
  <2>1. y.t = "type" /\ MeetBounds(x, y) = Checked(MergedBases(x.base, y.kind), cs)
    <3>1. y.t = "type"
      BY <1>7 DEF Type
    <3> QED
      BY <1>7, <3>1 DEF MeetBounds
  <2>2. cs \in (SUBSET C) \ {{}} /\ cs # {NotNull} /\ Bounding(K)
    <3>1. cs \in (SUBSET C) \ {{}}
      BY <1>7 DEF BoundsFormed
    <3>2. cs # {NotNull}
      BY <1>4, <2>1
    <3> QED
      BY <3>1, <3>2 DEF Mixable, Bounding
  <2>3. \A a \in Atoms : Admits(y, a) <=> Fits(y.kind, a)
    <3>1. y.kind # "none"
      BY <1>7 DEF Mixable, Numeric, Integer, Unsigned, Floating
    <3> QED
      BY <1>7, <3>1, AdmitsEach DEF Fits
  <2>4. x.base \in K \cup {"none"} /\ y.kind \in K \cup {"none"}
    BY <1>7 DEF BoundsFormed
  <2> HIDE DEF cs
  <2>5. /\ Formed(Checked(MergedBases(x.base, y.kind), cs), K, C)
        /\ \A a \in Atoms : Admits(Checked(MergedBases(x.base, y.kind), cs), a) <=>
                              Fits(x.base, a) /\ Fits(y.kind, a) /\ \A d \in cs : Meant(d, a)
    BY <2>2, <2>4, MergedMeans
  <2> QED
    BY <1>3, <2>1, <2>3, <2>5 DEF MeetOf
<1>8. CASE cs # {} /\ y = Atom(y.kind, y.v) /\ FormedAtom(Atom(y.kind, y.v))
  <2>1. y.t = "atom" /\ FormedAtom(y)
    BY <1>8 DEF Atom
  <2>2. MeetBounds(x, y) = IF PassesBase(x.base, y) /\ \A c \in cs : Satisfies(y, c)
                           THEN y ELSE Bottom
    BY <1>8, <2>1 DEF MeetBounds
  <2>3. cs \in SUBSET C /\ (NotNull \notin cs \/ y.kind = "null") /\ x.base \in K \cup {"none"}
    BY <2>1 DEF BoundsFormed, ExcludesNull
  <2> HIDE DEF cs
  <2>4. PassesBase(x.base, y) /\ (\A c \in cs : Satisfies(y, c)) <=>
          Fits(x.base, y) /\ \A c \in cs : Meant(c, y)
    BY <1>8, <2>1, <2>3, AtomPasses
  <2>5. \A a \in Atoms : Admits(y, a) <=> y = a
    BY <1>8, AdmitsEach
  <2>6. \A a \in Atoms : Admits(x, a) /\ Admits(y, a) <=>
                           y = a /\ PassesBase(x.base, y) /\ \A c \in cs : Satisfies(y, c)
    BY <1>3, <2>4, <2>5
  <2>7. Formed(Bottom, K, C) /\ \A a \in Atoms : ~Admits(Bottom, a)
    BY AdmitsEach, FormedEach
  <2> QED
    BY <1>5, <2>2, <2>5, <2>6, <2>7 DEF MeetOf
<1> QED
  BY <1>6, <1>7, <1>8 DEF Plain

(* The value two values meet in admits exactly what both admit.             *)
LEMMA MeetMeans ==
  ASSUME NEW K, NEW C, Mixable(K, C), NEW x, NEW y, Formed(x, K, C), Formed(y, K, C)
  PROVE  MeetOf(Meet(x, y), x, y, K, C)
<1>1. \A a \in Atoms : ~Admits(Bottom, a) /\ Admits(Top, a)
  BY AdmitsEach
<1>2. CASE Bottom \in {x, y}
  BY <1>1, <1>2, FormedEach DEF Meet, MeetOf
<1>3. CASE Bottom \notin {x, y} /\ Top \in {x, y}
  BY <1>1, <1>3 DEF Meet, MeetOf
<1>4. CASE Bottom \notin {x, y} /\ Top \notin {x, y}
  <2>1. \A v \in {x, y} : Plain(v, K) \/ BoundsFormed(v, K, C)
    BY <1>4 DEF Formed, Plain, BoundsFormed
  <2>2. \A v : Plain(v, K) => v.t # "bounds"
    BY DEF Plain, Type, Atom
  <2>3. Meet(x, y) = IF x.t = "bounds" THEN MeetBounds(x, y)
                     ELSE IF y.t = "bounds" THEN MeetBounds(y, x) ELSE MeetPlain(x, y)
    BY <1>4 DEF Meet
  <2>4. CASE BoundsFormed(x, K, C)
    <3>1. Meet(x, y) = MeetBounds(x, y)
      BY <2>3, <2>4 DEF BoundsFormed
    <3> QED
      BY <2>1, <2>4, <3>1, BoundsMeetBounds, BoundsMeetPlain
  <2>5. CASE Plain(x, K) /\ BoundsFormed(y, K, C)
    <3>1. Meet(x, y) = MeetBounds(y, x)
      BY <2>2, <2>3, <2>5 DEF BoundsFormed
    <3>2. MeetOf(MeetBounds(y, x), y, x, K, C)
      BY <2>5, BoundsMeetPlain
    <3> QED
      BY <3>1, <3>2 DEF MeetOf
  <2>6. CASE Plain(x, K) /\ Plain(y, K)
    <3>1. Meet(x, y) = MeetPlain(x, y)
      BY <2>2, <2>3, <2>6
    <3>2. \A v : Plain(v, K) \/ v = Bottom => Formed(v, K, C)
      BY DEF Plain, Formed, Type, Atom
    <3> QED
      BY <2>6, <3>1, <3>2, PlainMeans DEF MeetOf
  <2> QED
    BY <2>1, <2>4, <2>5, <2>6
<1> QED
  BY <1>2, <1>3, <1>4

-----------------------------------------------------------------------------
(* What is left of a field's constraints *)

Typed ==
  /\ given \in Given
  /\ \A v \in operands : Formed(v, KindsIn(given), BoundsIn(given))

IInv == Typed /\ MeaningKept

(* Whatever constraints a field is given (GivenFormed: kinds, concrete      *)
(* values, any number of bounds on any values), in whatever order and       *)
(* grouping unify meets them, what is left admits exactly what each of them *)
(* admits: no step refuses a value all of them admit or lets one through.   *)
THEOREM Meaning == Spec => []MeaningKept
<1>1. Init => IInv
  BY GivenFormed DEF Init, IInv, Typed, MeaningKept
<1>2. ASSUME IInv, [Next]_vars
      PROVE  IInv'
  <2> DEFINE K == KindsIn(given)
             C == BoundsIn(given)
  <2>1. CASE Unify
    <3>1. PICK x \in operands, y \in operands :
            operands' = (operands \ {x, y}) \cup {Meet(x, y)}
      BY <2>1 DEF Unify
    <3>2. given' = given
      BY <2>1 DEF Unify
    <3>3. Mixable(K, C) /\ \A v \in operands : Formed(v, K, C)
      BY <1>2, GivenFormed DEF IInv, Typed
    <3> HIDE DEF K, C
    <3>4. MeetOf(Meet(x, y), x, y, K, C)
      BY <3>3, MeetMeans
    <3>5. Typed'
      <4>1. \A v \in operands' : Formed(v, K, C)
        BY <3>1, <3>3, <3>4 DEF MeetOf
      <4> QED
        BY <1>2, <3>2, <4>1 DEF IInv, Typed, K, C
    <3>6. Admitted(operands') = Admitted(operands)
      <4>1. \A a \in Atoms : (\A v \in operands' : Admits(v, a)) <=> \A v \in operands : Admits(v, a)
        BY <3>1, <3>4 DEF MeetOf
      <4> QED
        BY <4>1 DEF Admitted
    <3>7. MeaningKept'
      BY <1>2, <3>2, <3>6 DEF IInv, MeaningKept
    <3> QED
      BY <3>5, <3>7 DEF IInv
  <2>2. CASE UNCHANGED vars
    BY <1>2, <2>2 DEF vars, IInv, Typed, MeaningKept
  <2> QED
    BY <1>2, <2>1, <2>2 DEF Next
<1>3. IInv => MeaningKept
  BY DEF IInv
<1> QED
  BY <1>1, <1>2, <1>3, PTL DEF Spec

-----------------------------------------------------------------------------
(* What constraints come to, whatever the order *)

Ks(S) == {v.kind : v \in {v \in S : v.t = "type"}}
Cs(S) == BoundsIn(S) \ {NotNull}

\* The kind that narrows all others, if any is given.
Narrowest(b, K) == \/ K = {} /\ b = "none"
                   \/ b \in K /\ \A k \in K : Subsumes(k, b)

Clash(K, C) ==
  \/ \E k, l \in K : ~Subsumes(k, l) /\ ~Subsumes(l, k)
  \/ MixedDemands(C)
  \/ \E k \in K : ConflictingDemand(k, C)
  \/ IncompatibleRange(IF "int" \in K THEN "int" ELSE "none", C)

\* The bounds C on a base, with `!= null` or without.
BoundsOf(v, b, C) == v.t = "bounds" /\ v = Bounds(b, v.cs) /\ v.cs \ {NotNull} = C

\* What kinds and bounds come to, and `!= null` where it is given.
Comes(v, K, C, nulls) ==
  IF Clash(K, C) THEN v = Bottom
  ELSE \E b \in K \cup {"none"} :
         /\ Narrowest(b, K)
         /\ IF C # {} THEN BoundsOf(v, b, C)
            ELSE IF b # "none" THEN v = Type(b)
            ELSE v = IF nulls = {} THEN Top ELSE Bounds("none", nulls)

AllKinds == Numeric \cup {"string", "bytes", "bool"}

(* Kinds form a tree: those that hold a common one hold one another. *)
LEMMA KindsTree ==
  /\ \A k \in AllKinds : Subsumes(k, k)
  /\ \A k, l, m : Subsumes(k, l) /\ Subsumes(l, m) => Subsumes(k, m)
  /\ \A k, l : Subsumes(k, l) /\ Subsumes(l, k) => k = l
  /\ \A k, l, m : Subsumes(k, m) /\ Subsumes(l, m) => Subsumes(k, l) \/ Subsumes(l, k)
<1>1. \A k \in AllKinds : Subsumes(k, k)
  BY DEF Subsumes
<1>2. \A k, l, m : Subsumes(k, l) /\ Subsumes(l, m) => Subsumes(k, m)
  BY DEF Subsumes, Numeric, Integer, Unsigned, Floating
<1>3. \A k, l : Subsumes(k, l) /\ Subsumes(l, k) => k = l
  BY DEF Subsumes, Numeric, Integer, Unsigned, Floating
<1>4. \A k, l, m : Subsumes(k, m) /\ Subsumes(l, m) => Subsumes(k, l) \/ Subsumes(l, k)
  BY DEF Subsumes, Numeric, Integer, Unsigned, Floating
<1> QED
  BY <1>1, <1>2, <1>3, <1>4

LEMMA NarrowestOne ==
  ASSUME NEW K \in SUBSET AllKinds, NEW b, NEW c, Narrowest(b, K), Narrowest(c, K)
  PROVE  b = c
BY KindsTree DEF Narrowest

KindsClash(K) == \E k, l \in K : ~Subsumes(k, l) /\ ~Subsumes(l, k)

LEMMA NarrowestNoClash ==
  ASSUME NEW K \in SUBSET AllKinds, NEW b, Narrowest(b, K)
  PROVE  ~KindsClash(K) /\ (b = "none" <=> K = {}) /\ (b # "none" => b \in K)
<1>1. "none" \notin AllKinds
  BY DEF AllKinds, Numeric, Integer, Unsigned, Floating
<1> QED
  BY <1>1, KindsTree DEF Narrowest, KindsClash

(* Of two kinds that narrow all others of their sets one narrows both sets, *)
(* or they clash.                                                           *)
LEMMA NarrowestJoin ==
  ASSUME NEW K \in SUBSET AllKinds, NEW L \in SUBSET AllKinds, NEW b, NEW c,
         Narrowest(b, K), Narrowest(c, L)
  PROVE  /\ b = "none" => Narrowest(c, K \cup L)
         /\ c = "none" => Narrowest(b, K \cup L)
         /\ b # "none" /\ c # "none" =>
              /\ Subsumes(b, c) => Narrowest(c, K \cup L)
              /\ Subsumes(c, b) => Narrowest(b, K \cup L)
              /\ ~Subsumes(b, c) /\ ~Subsumes(c, b) => KindsClash(K \cup L)
<1>1. /\ b = "none" <=> K = {}
      /\ c = "none" <=> L = {}
      /\ b # "none" => b \in K
      /\ c # "none" => c \in L
  BY NarrowestNoClash
<1>2. /\ \A k \in K : Subsumes(k, b)
      /\ \A k \in L : Subsumes(k, c)
  BY DEF Narrowest
<1>3. b = "none" => Narrowest(c, K \cup L)
  BY <1>1, <1>2 DEF Narrowest
<1>4. c = "none" => Narrowest(b, K \cup L)
  BY <1>1, <1>2 DEF Narrowest
<1>5. ASSUME b # "none", c # "none"
      PROVE  /\ Subsumes(b, c) => Narrowest(c, K \cup L)
             /\ Subsumes(c, b) => Narrowest(b, K \cup L)
             /\ ~Subsumes(b, c) /\ ~Subsumes(c, b) => KindsClash(K \cup L)
  BY <1>1, <1>2, <1>5, KindsTree DEF Narrowest, KindsClash
<1> QED
  BY <1>3, <1>4, <1>5

LEMMA PlainKindsSubsume ==
  ASSUME NEW k \in {"number", "int", "float", "string", "bytes", "bool"},
         NEW l \in {"number", "int", "float", "string", "bytes", "bool"}
  PROVE  Subsumes(k, l) <=> k = l \/ Narrows(k, l)
BY DEF Subsumes, Narrows, Numeric, Integer, Unsigned, Floating

-----------------------------------------------------------------------------
(* A conflict stays one among more constraints *)

LEMMA NarrowerRoom ==
  ASSUME NEW l \in EndRecords, NEW u \in EndRecords, NEW m \in EndRecords, NEW w \in EndRecords,
         m.v > l.v \/ (m.v = l.v /\ (m.inclusive => l.inclusive)),
         w.v < u.v \/ (w.v = u.v /\ (w.inclusive => u.inclusive)),
         NEW i \in BOOLEAN, NEW j \in BOOLEAN, i => j,
         Admissible(m, w, j)
  PROVE  Admissible(l, u, i)
<1>1. /\ l.v \in Int /\ u.v \in Int /\ m.v \in Int /\ w.v \in Int
      /\ l.inclusive \in BOOLEAN /\ u.inclusive \in BOOLEAN
      /\ m.inclusive \in BOOLEAN /\ w.inclusive \in BOOLEAN
  BY Precision DEF EndRecords
<1>2. \A x \in Int : (Above(x, m) => Above(x, l)) /\ (Below(x, w) => Below(x, u))
  BY <1>1 DEF Above, Below
<1>3. CASE j = TRUE
  <2>1. PICK x \in Int : x % 4 = 0 /\ Above(x, m) /\ Below(x, w)
    BY <1>3, RoomForAnInteger
  <2>2. Above(x, l) /\ Below(x, u)
    BY <1>2, <2>1
  <2>3. CASE i = TRUE
    BY <2>1, <2>2, <2>3, RoomForAnInteger
  <2>4. CASE i = FALSE
    <3>1. l.v < u.v \/ (l.v = u.v /\ l.inclusive /\ u.inclusive)
      BY <1>1, <2>2 DEF Above, Below
    <3> QED
      BY <2>4, <3>1 DEF Admissible
  <2> QED
    BY <2>3, <2>4
<1>4. CASE j = FALSE
  <2>1. m.v < w.v \/ (m.v = w.v /\ m.inclusive /\ w.inclusive)
    BY <1>4 DEF Admissible
  <2>2. l.v < u.v \/ (l.v = u.v /\ l.inclusive /\ u.inclusive)
    BY <1>1, <2>1
  <2>3. i = FALSE
    BY <1>4
  <2> QED
    BY <2>2, <2>3 DEF Admissible
<1> QED
  BY <1>3, <1>4

EndsFit(cs) == \A c \in cs : c.v \in -Exact .. Exact

LEMMA GroupMonotone ==
  ASSUME NEW ds, EndsFit(ds), NEW cs \in SUBSET ds, NEW i \in BOOLEAN, NEW j \in BOOLEAN, i => j,
         IncompatibleGroup(cs, i)
  PROVE  IncompatibleGroup(ds, j)
<1> DEFINE l == Strongest(Lowers(cs), "lower")
           u == Strongest(Uppers(cs), "upper")
           m == Strongest(Lowers(ds), "lower")
           w == Strongest(Uppers(ds), "upper")
<1>1. Lowers(cs) \subseteq Lowers(ds) /\ Uppers(cs) \subseteq Uppers(ds)
  BY DEF Lowers, Uppers, Ends
<1>2. Lowers(ds) \subseteq EndRecords /\ Uppers(ds) \subseteq EndRecords
  <2>1. \A c \in ds : (IF IsNumber(c.kind) THEN F64(c.v) ELSE c.v) \in -Exact .. Exact
    BY SmallIsExact DEF EndsFit
  <2> DEFINE End(c) == [v |-> IF IsNumber(c.kind) THEN F64(c.v) ELSE c.v,
                        inclusive |-> c.op \in {"<=", ">=", "=="}]
  <2>2. \A c \in ds : End(c) \in EndRecords
    BY <2>1 DEF EndRecords
  <2>3. /\ Lowers(ds) = {End(c) : c \in {c \in ds : c.op \in {">", ">=", "=="}}}
        /\ Uppers(ds) = {End(c) : c \in {c \in ds : c.op \in {"<", "<=", "=="}}}
    BY DEF Lowers, Uppers, Ends
  <2> HIDE DEF End
  <2> QED
    BY <2>2, <2>3
<1>3. Lowers(cs) # {} /\ Uppers(cs) # {} /\ ~Admissible(l, u, i)
  BY DEF IncompatibleGroup, Lowers, Uppers
<1>4. /\ l \in Lowers(cs) /\ u \in Uppers(cs)
      /\ m \in Lowers(ds) /\ w \in Uppers(ds)
      /\ \A f \in Lowers(ds) : m.v > f.v \/ (m.v = f.v /\ (m.inclusive => f.inclusive))
      /\ \A f \in Uppers(ds) : w.v < f.v \/ (w.v = f.v /\ (w.inclusive => f.inclusive))
  <2>1. /\ Lowers(cs) \subseteq EndRecords /\ Uppers(cs) \subseteq EndRecords
        /\ Lowers(ds) # {} /\ Uppers(ds) # {}
    BY <1>1, <1>2, <1>3
  <2>2. l \in Lowers(cs) /\ u \in Uppers(cs)
    BY <1>3, <2>1, StrongestLower, StrongestUpper
  <2>3. m \in Lowers(ds) /\ \A f \in Lowers(ds) : m.v > f.v \/ (m.v = f.v /\ (m.inclusive => f.inclusive))
    BY <1>2, <2>1, StrongestLower
  <2>4. w \in Uppers(ds) /\ \A f \in Uppers(ds) : w.v < f.v \/ (w.v = f.v /\ (w.inclusive => f.inclusive))
    BY <1>2, <2>1, StrongestUpper
  <2> QED
    BY <2>2, <2>3, <2>4
<1> HIDE DEF l, u, m, w
<1>5. ~Admissible(m, w, j)
  BY <1>1, <1>2, <1>3, <1>4, NarrowerRoom
<1>6. Lowers(ds) # {} /\ Uppers(ds) # {}
  BY <1>1, <1>3
<1> QED
  BY <1>5, <1>6 DEF IncompatibleGroup, Lowers, Uppers, m, w

LEMMA RangeMonotone ==
  ASSUME NEW ds, EndsFit(ds), NEW cs \in SUBSET ds, NEW b, NEW d, b = "int" => d = "int",
         IncompatibleRange(b, cs)
  PROVE  IncompatibleRange(d, ds)
<1>1. ASSUME IncompatibleGroup({c \in cs : IsNumber(c.kind)}, b = "int")
      PROVE  IncompatibleGroup({c \in ds : IsNumber(c.kind)}, d = "int")
  <2>1. /\ {c \in cs : IsNumber(c.kind)} \in SUBSET {c \in ds : IsNumber(c.kind)}
        /\ EndsFit({c \in ds : IsNumber(c.kind)})
        /\ (b = "int") \in BOOLEAN /\ (d = "int") \in BOOLEAN
    BY DEF EndsFit
  <2> QED
    BY <1>1, <2>1, GroupMonotone
<1>2. ASSUME IncompatibleGroup({c \in cs : IsText(c.kind)}, FALSE)
      PROVE  IncompatibleGroup({c \in ds : IsText(c.kind)}, FALSE)
  <2>1. /\ {c \in cs : IsText(c.kind)} \in SUBSET {c \in ds : IsText(c.kind)}
        /\ EndsFit({c \in ds : IsText(c.kind)})
    BY DEF EndsFit
  <2> QED
    BY <1>2, <2>1, GroupMonotone
<1> QED
  BY <1>1, <1>2 DEF IncompatibleRange

LEMMA ClashMonotone ==
  ASSUME NEW L, NEW D, EndsFit(D), NEW K \in SUBSET L, NEW C \in SUBSET D, Clash(K, C)
  PROVE  Clash(L, D)
<1>1. KindsClash(K) => KindsClash(L)
  BY DEF KindsClash
<1>2. MixedDemands(C) => MixedDemands(D)
  BY DEF MixedDemands
<1>3. (\E k \in K : ConflictingDemand(k, C)) => \E k \in L : ConflictingDemand(k, D)
  BY DEF ConflictingDemand
<1>4. ASSUME IncompatibleRange(IF "int" \in K THEN "int" ELSE "none", C)
      PROVE  IncompatibleRange(IF "int" \in L THEN "int" ELSE "none", D)
  BY <1>4, RangeMonotone
<1> QED
  BY <1>1, <1>2, <1>3, <1>4 DEF Clash, KindsClash

-----------------------------------------------------------------------------
(* Two values come to what their constraints come to together *)

BoundSet(C) == \A c \in C : FormedBound(c) /\ c # NotNull

\* Kinds and bounds that may stand together.
Beside(K, C) == K \in SUBSET AllKinds /\ BoundSet(C) /\ (C = {} \/ Bounding(K))

LEMMA Shapes ==
  /\ Bottom.t = "bottom" /\ Top.t = "top"
  /\ \A k : Type(k).t = "type" /\ Type(k).kind = k
  /\ \A b, cs : Bounds(b, cs).t = "bounds" /\ Bounds(b, cs).base = b /\ Bounds(b, cs).cs = cs
  /\ \A k, w : Atom(k, w).t = "atom" /\ Atom(k, w).kind = k /\ Atom(k, w).v = w
BY DEF Bottom, Top, Type, Bounds, Atom

LEMMA NullsAside ==
  ASSUME NEW b, NEW E
  PROVE  /\ MixedDemands(E \ {NotNull}) <=> MixedDemands(E)
         /\ ConflictingDemand(b, E \ {NotNull}) <=> ConflictingDemand(b, E)
         /\ IncompatibleRange(b, E \ {NotNull}) <=> IncompatibleRange(b, E)
<1>1. ~IsNumber(NotNull.kind) /\ ~IsText(NotNull.kind) /\ NotNull.kind # "string"
  BY DEF NotNull, Bound, IsNumber, IsText
<1>2. /\ {c \in E \ {NotNull} : IsNumber(c.kind)} = {c \in E : IsNumber(c.kind)}
      /\ {c \in E \ {NotNull} : IsText(c.kind)} = {c \in E : IsText(c.kind)}
  BY <1>1
<1>3. IncompatibleRange(b, E \ {NotNull}) <=> IncompatibleRange(b, E)
  BY <1>2 DEF IncompatibleRange
<1> QED
  BY <1>1, <1>3 DEF MixedDemands, ConflictingDemand

LEMMA BoundSetFits ==
  ASSUME NEW C, BoundSet(C)
  PROVE  EndsFit(C)
BY DEF BoundSet, EndsFit, FormedBound

(* What the code checks of the merged base is what all kinds given demand. *)
LEMMA CheckedComes ==
  ASSUME NEW K, NEW C, Beside(K, C), C # {}, NEW b, Narrowest(b, K), ~MixedDemands(C),
         NEW E, E \ {NotNull} = C, NEW nulls
  PROVE  Comes(Checked({b}, E), K, C, nulls)
<1>1. /\ K \in SUBSET AllKinds /\ Bounding(K)
      /\ b \in K \cup {"none"}
  BY DEF Beside, Narrowest
<1>2. ~KindsClash(K) /\ (b = "none" <=> K = {}) /\ (b # "none" => b \in K)
  BY <1>1, NarrowestNoClash
<1>3. Checked({b}, E) = IF ~ConflictingDemand(b, C) /\ ~IncompatibleRange(b, C)
                        THEN Bounds(b, E) ELSE Bottom
  <2>1. (CHOOSE d \in {b} : TRUE) = b
    OBVIOUS
  <2> QED
    BY <2>1, NullsAside DEF Checked
<1>4. ConflictingDemand(b, C) <=> \E k \in K : ConflictingDemand(k, C)
  <2>1. CASE K = {}
    <3>1. ~ConflictingDemand("none", C)
      BY DEF ConflictingDemand, Numeric, Integer, Unsigned, Floating
    <3> QED
      BY <1>2, <2>1, <3>1
  <2>2. CASE K # {}
    <3>1. \A k \in K : Subsumes(k, b)
      BY <1>2, <2>2 DEF Narrowest
    <3>2. \A k \in K : (k = "string" => b = "string") /\ (k \in Numeric => b \in Numeric)
      BY <3>1 DEF Subsumes, Numeric, Integer, Unsigned, Floating
    <3> QED
      BY <1>2, <2>2, <3>2 DEF ConflictingDemand
  <2> QED
    BY <2>1, <2>2
<1>5. b = "int" <=> "int" \in K
  <2>1. ASSUME "int" \in K PROVE b = "int"
    <3>1. Subsumes("int", b) /\ b \in K
      BY <1>2, <2>1 DEF Narrowest
    <3>2. b \in {"number", "int", "float", "string", "bytes", "bool"}
      BY <1>1, <3>1 DEF Bounding
    <3> QED
      BY <3>1, <3>2, PlainKindsSubsume DEF Narrows
  <2> QED
    BY <1>2, <2>1
<1>6. IncompatibleRange(b, C) <=> IncompatibleRange(IF "int" \in K THEN "int" ELSE "none", C)
  BY <1>5 DEF IncompatibleRange
<1>7. Clash(K, C) <=> ConflictingDemand(b, C) \/ IncompatibleRange(b, C)
  BY <1>2, <1>4, <1>6 DEF Clash, KindsClash
<1>8. BoundsOf(Bounds(b, E), b, C)
  BY Shapes DEF BoundsOf
<1> QED
  BY <1>1, <1>3, <1>7, <1>8 DEF Comes

LEMMA MergedComes ==
  ASSUME NEW K, NEW L, NEW C, Beside(K \cup L, C), C # {},
         NEW b, Narrowest(b, K), NEW c, Narrowest(c, L), ~MixedDemands(C),
         NEW E, E \ {NotNull} = C, NEW nulls
  PROVE  Comes(Checked(MergedBases(b, c), E), K \cup L, C, nulls)
<1>1. K \in SUBSET AllKinds /\ L \in SUBSET AllKinds /\ Bounding(K \cup L)
  BY DEF Beside
<1>2. /\ b = "none" => Narrowest(c, K \cup L)
      /\ c = "none" => Narrowest(b, K \cup L)
      /\ b # "none" /\ c # "none" =>
           /\ Subsumes(b, c) => Narrowest(c, K \cup L)
           /\ Subsumes(c, b) => Narrowest(b, K \cup L)
           /\ ~Subsumes(b, c) /\ ~Subsumes(c, b) => KindsClash(K \cup L)
  BY <1>1, NarrowestJoin
<1>3. CASE b = "none"
  <2>1. MergedBases(b, c) = {c}
    BY <1>3 DEF MergedBases
  <2> QED
    BY <1>2, <1>3, <2>1, CheckedComes
<1>4. CASE b # "none" /\ c = "none"
  <2>1. MergedBases(b, c) = {b}
    BY <1>4 DEF MergedBases
  <2> QED
    BY <1>2, <1>4, <2>1, CheckedComes
<1>5. CASE b # "none" /\ c # "none"
  <2>1. b \in K /\ c \in L
    BY <1>5 DEF Narrowest
  <2>2. /\ b \in {"number", "int", "float", "string", "bytes", "bool"}
        /\ c \in {"number", "int", "float", "string", "bytes", "bool"}
    BY <1>1, <2>1 DEF Bounding
  <2>3. /\ Subsumes(b, c) <=> b = c \/ Narrows(b, c)
        /\ Subsumes(c, b) <=> c = b \/ Narrows(c, b)
    BY <2>2, PlainKindsSubsume
  <2>4. CASE Subsumes(b, c)
    <3>1. MergedBases(b, c) = {c}
      BY <1>5, <2>3, <2>4 DEF MergedBases, Narrows
    <3> QED
      BY <1>2, <1>5, <2>4, <3>1, CheckedComes
  <2>5. CASE Subsumes(c, b)
    <3>1. MergedBases(b, c) = {b}
      BY <1>5, <2>3, <2>5 DEF MergedBases, Narrows
    <3> QED
      BY <1>2, <1>5, <2>5, <3>1, CheckedComes
  <2>6. CASE ~Subsumes(b, c) /\ ~Subsumes(c, b)
    <3>1. MergedBases(b, c) = {}
      BY <1>5, <2>3, <2>6 DEF MergedBases
    <3>2. Checked(MergedBases(b, c), E) = Bottom
      BY <3>1 DEF Checked
    <3>3. Clash(K \cup L, C)
      BY <1>2, <1>5, <2>6 DEF Clash, KindsClash
    <3> QED
      BY <3>2, <3>3 DEF Comes
  <2> QED
    BY <2>4, <2>5, <2>6
<1> QED
  BY <1>3, <1>4, <1>5

\* What constraints that do not clash come to.
Standing(v, K, C, nulls, b) ==
  /\ Narrowest(b, K)
  /\ IF C # {} THEN BoundsOf(v, b, C)
     ELSE IF b # "none" THEN v = Type(b)
     ELSE v = IF nulls = {} THEN Top ELSE Bounds("none", nulls)

LEMMA ComesShape ==
  ASSUME NEW K, NEW C, NEW nulls, NEW v
  PROVE  Comes(v, K, C, nulls) <=>
           IF Clash(K, C) THEN v = Bottom ELSE \E b : Standing(v, K, C, nulls, b)
BY DEF Comes, Standing, Narrowest

LEMMA KindsOnlyClash ==
  ASSUME NEW K
  PROVE  Clash(K, {}) <=> KindsClash(K)
<1>1. \A cs, i : cs = {} => ~IncompatibleGroup(cs, i)
  BY DEF IncompatibleGroup, Ends
<1>2. \A b : ~IncompatibleRange(b, {})
  BY <1>1 DEF IncompatibleRange
<1>3. ~MixedDemands({}) /\ \A b : ~ConflictingDemand(b, {})
  BY DEF MixedDemands, ConflictingDemand
<1> QED
  BY <1>2, <1>3 DEF Clash, KindsClash

LEMMA StandingShapes ==
  ASSUME NEW x, NEW M, NEW E, NEW nulls, NEW d, Standing(x, M, E, nulls, d)
  PROVE  /\ E # {} => x.t = "bounds"
         /\ E = {} /\ d # "none" => x = Type(d) /\ x.t = "type"
         /\ E = {} /\ d = "none" /\ nulls = {} => x = Top /\ x.t = "top"
         /\ E = {} /\ d = "none" /\ nulls # {} => x.t = "bounds"
         /\ x # Bottom
<1>1. E # {} => x.t = "bounds"
  BY DEF Standing, BoundsOf
<1>2. ASSUME E = {}, d # "none" PROVE x = Type(d) /\ x.t = "type"
  <2>1. x = Type(d)
    BY <1>2 DEF Standing
  <2> QED
    BY <2>1, Shapes
<1>3. ASSUME E = {}, d = "none", nulls = {} PROVE x = Top /\ x.t = "top"
  <2>1. x = Top
    BY <1>3 DEF Standing
  <2> QED
    BY <2>1, Shapes
<1>4. ASSUME E = {}, d = "none", nulls # {} PROVE x.t = "bounds"
  <2>1. x = Bounds("none", nulls)
    BY <1>4 DEF Standing
  <2> QED
    BY <2>1, Shapes
<1>5. x.t \in {"bounds", "type", "top"}
  BY <1>1, <1>2, <1>3, <1>4
<1> QED
  BY <1>1, <1>2, <1>3, <1>4, <1>5, Shapes

(* Bounds keep the bounds given, or `!= null` alone. *)
LEMMA BoundsStanding ==
  ASSUME NEW K, NEW C, NotNull \notin C, NEW nulls \in SUBSET {NotNull},
         NEW v, NEW b, Standing(v, K, C, nulls, b), K \in SUBSET AllKinds, v.t = "bounds"
  PROVE  /\ BoundsOf(v, b, C) /\ v.cs # {}
         /\ C = {} => b = "none" /\ K = {} /\ nulls = {NotNull} /\ v.cs = {NotNull}
<1>1. b = "none" <=> K = {}
  BY NarrowestNoClash DEF Standing
<1>2. CASE C # {}
  BY <1>2 DEF Standing, BoundsOf
<1>3. CASE C = {}
  <2>1. b = "none" /\ nulls = {NotNull} /\ v = Bounds("none", nulls)
    BY <1>3, Shapes DEF Standing
  <2>2. v.t = "bounds" /\ v.cs = {NotNull} /\ {NotNull} \ {NotNull} = {}
    BY <2>1, Shapes
  <2> QED
    BY <1>1, <1>3, <2>1, <2>2 DEF BoundsOf
<1> QED
  BY <1>2, <1>3

LEMMA BoundsMeetStanding ==
  ASSUME NEW K, NEW L, NEW C, NEW D, Beside(K \cup L, C \cup D),
         NEW n \in SUBSET {NotNull}, NEW m \in SUBSET {NotNull},
         NEW v, NEW b, Standing(v, K, C, n, b), ~Clash(K, C), v.t = "bounds",
         NEW w, NEW c, Standing(w, L, D, m, c), ~Clash(L, D), w # Top
  PROVE  Comes(MeetBounds(v, w), K \cup L, C \cup D, n \cup m)
<1>1. /\ K \in SUBSET AllKinds /\ L \in SUBSET AllKinds
      /\ Narrowest(b, K) /\ Narrowest(c, L)
      /\ NotNull \notin C /\ NotNull \notin D
  BY DEF Beside, BoundSet, Standing
<1>2. BoundsOf(v, b, C) /\ v.cs # {}
  BY <1>1, BoundsStanding
<1>3. C = {} => b = "none" /\ K = {} /\ n = {NotNull} /\ v.cs = {NotNull}
  BY <1>1, BoundsStanding
<1>4. CASE w.t = "bounds"
  <2>1. BoundsOf(w, c, D) /\ w.cs # {}
    BY <1>1, <1>4, BoundsStanding
  <2>2. D = {} => c = "none" /\ L = {} /\ m = {NotNull} /\ w.cs = {NotNull}
    BY <1>1, <1>4, BoundsStanding
  <2> DEFINE E == v.cs \cup w.cs
  <2>3. E \ {NotNull} = C \cup D
    BY <1>2, <2>1 DEF BoundsOf
  <2>4. MeetBounds(v, w) = IF MixedDemands(C \cup D) THEN Bottom
                           ELSE Checked(MergedBases(b, c), E)
    <3>1. ~ExcludesNull(w) /\ v.base = b /\ w.base = c
      BY <1>2, <1>4, <2>1, Shapes DEF ExcludesNull, BoundsOf
    <3>2. MeetBounds(v, w) = IF MixedDemands(E) THEN Bottom ELSE Checked(MergedBases(b, c), E)
      BY <1>2, <1>4, <3>1 DEF MeetBounds
    <3>3. MixedDemands(C \cup D) <=> MixedDemands(E)
      BY <2>3, NullsAside
    <3> QED
      BY <3>2, <3>3
  <2> HIDE DEF E
  <2>5. CASE C \cup D # {} /\ MixedDemands(C \cup D)
    BY <2>4, <2>5 DEF Comes, Clash
  <2>6. CASE C \cup D # {} /\ ~MixedDemands(C \cup D)
    BY <1>1, <2>3, <2>4, <2>6, MergedComes
  <2>7. CASE C \cup D = {}
    <3>1. /\ C = {} /\ D = {} /\ b = "none" /\ c = "none" /\ K = {} /\ L = {} /\ n = {NotNull}
          /\ E = {NotNull}
      BY <1>3, <2>2, <2>7 DEF E
    <3>2. /\ ~MixedDemands({}) /\ ~ConflictingDemand("none", {}) /\ ~IncompatibleRange("none", {})
      <4>1. ~Clash({}, {})
        BY <3>1
      <4> QED
        BY <4>1 DEF Clash, ConflictingDemand
    <3>3. MergedBases("none", "none") = {"none"}
      BY DEF MergedBases
    <3>4. /\ ~ConflictingDemand("none", {NotNull}) /\ ~IncompatibleRange("none", {NotNull})
      <4>1. {NotNull} \ {NotNull} = {}
        OBVIOUS
      <4> QED
        BY <3>2, <4>1, NullsAside
    <3>5. Checked({"none"}, {NotNull}) = Bounds("none", {NotNull})
      <4>1. (CHOOSE d \in {"none"} : TRUE) = "none"
        OBVIOUS
      <4> QED
        BY <3>4, <4>1 DEF Checked
    <3>7. MeetBounds(v, w) = Bounds("none", {NotNull})
      BY <2>4, <2>7, <3>1, <3>2, <3>3, <3>5
    <3>8. K \cup L = {} /\ C \cup D = {} /\ ~Clash({}, {})
      BY <3>1
    <3>9. Standing(MeetBounds(v, w), {}, {}, n \cup m, "none")
      BY <3>1, <3>7 DEF Standing, Narrowest
    <3> QED
      BY <3>1, <3>8, <3>9, ComesShape
  <2> QED
    BY <2>5, <2>6, <2>7
<1>5. CASE w.t # "bounds"
  <2>1. D = {} /\ c # "none" /\ w = Type(c) /\ c \in L
    <3>1. D = {}
      BY <1>5, StandingShapes
    <3>2. c # "none" /\ w = Type(c)
      BY <1>5, <3>1, StandingShapes
    <3> QED
      BY <1>1, <3>1, <3>2 DEF Narrowest
  <2>2. ExcludesNull(w) /\ w.t = "type" /\ w.kind = c
    <3>1. "null" \notin AllKinds
      BY DEF AllKinds, Numeric, Integer, Unsigned, Floating
    <3> QED
      BY <1>1, <2>1, <3>1, Shapes DEF ExcludesNull
  <2>3. v.cs \ {NotNull} = C /\ v.base = b
    BY <1>2, Shapes DEF BoundsOf
  <2>4. MeetBounds(v, w) = IF C = {} THEN Discharged(v, w) ELSE Checked(MergedBases(b, c), C)
    BY <1>2, <2>2, <2>3, Shapes DEF MeetBounds
  <2>5. CASE C = {}
    <3>1. MeetBounds(v, w) = Type(c)
      BY <1>3, <2>1, <2>3, <2>4, <2>5 DEF Discharged
    <3>2. K \cup L = L /\ C \cup D = {} /\ D = {}
      BY <1>3, <2>1, <2>5
    <3>3. Standing(MeetBounds(v, w), L, {}, n \cup m, c)
      BY <1>1, <2>1, <3>1 DEF Standing
    <3> QED
      BY <3>2, <3>3, ComesShape
  <2>6. CASE C # {}
    <3>1. ~MixedDemands(C)
      BY DEF Clash
    <3>2. C \cup D = C /\ C \ {NotNull} = C
      BY <1>1, <2>1
    <3>3. Comes(Checked(MergedBases(b, c), C), K \cup L, C, n \cup m)
      BY <1>1, <2>6, <3>1, <3>2, MergedComes
    <3> QED
      BY <2>4, <2>6, <3>2, <3>3
  <2> QED
    BY <2>5, <2>6
<1> QED
  BY <1>4, <1>5

LEMMA TypesMeetStanding ==
  ASSUME NEW K \in SUBSET AllKinds, NEW L \in SUBSET AllKinds, NEW nulls,
         NEW b, Narrowest(b, K), b # "none", NEW c, Narrowest(c, L), c # "none"
  PROVE  Comes(MeetPlain(Type(b), Type(c)), K \cup L, {}, nulls)
<1>1. MeetPlain(Type(b), Type(c)) = IF Subsumes(b, c) THEN Type(c)
                                    ELSE IF Subsumes(c, b) THEN Type(b) ELSE Bottom
  BY Shapes DEF MeetPlain
<1>2. /\ Subsumes(b, c) => Narrowest(c, K \cup L)
      /\ Subsumes(c, b) => Narrowest(b, K \cup L)
      /\ ~Subsumes(b, c) /\ ~Subsumes(c, b) => KindsClash(K \cup L)
  BY NarrowestJoin
<1>3. \A d : Narrowest(d, K \cup L) => ~Clash(K \cup L, {})
  BY NarrowestNoClash, KindsOnlyClash
<1>4. \A d : Narrowest(d, K \cup L) /\ d # "none" => Standing(Type(d), K \cup L, {}, nulls, d)
  BY DEF Standing
<1> QED
  BY <1>1, <1>2, <1>3, <1>4, ComesShape, KindsOnlyClash

(* Whatever two sets of kinds and bounds come to meets in what they come to *)
(* together.                                                                *)
LEMMA MeetComes ==
  ASSUME NEW K, NEW L, NEW C, NEW D, Beside(K \cup L, C \cup D),
         NEW n \in SUBSET {NotNull}, NEW m \in SUBSET {NotNull},
         NEW v, Comes(v, K, C, n), NEW w, Comes(w, L, D, m)
  PROVE  Comes(Meet(v, w), K \cup L, C \cup D, n \cup m)
<1>1. K \in SUBSET AllKinds /\ L \in SUBSET AllKinds /\ EndsFit(C \cup D)
  BY BoundSetFits DEF Beside
<1>2. CASE Clash(K, C) \/ Clash(L, D)
  <2>1. Clash(K \cup L, C \cup D)
    BY <1>1, <1>2, ClashMonotone
  <2>2. Bottom \in {v, w}
    BY <1>2, ComesShape
  <2> QED
    BY <2>1, <2>2 DEF Meet, Comes
<1>3. CASE ~Clash(K, C) /\ ~Clash(L, D)
  <2>1. PICK b : Standing(v, K, C, n, b)
    BY <1>3, ComesShape
  <2>2. PICK c : Standing(w, L, D, m, c)
    BY <1>3, ComesShape
  <2>3. v # Bottom /\ w # Bottom
    BY <2>1, <2>2, StandingShapes
  <2>4. /\ v = Top => C = {} /\ b = "none" /\ n = {}
        /\ w = Top => D = {} /\ c = "none" /\ m = {}
    BY <2>1, <2>2, StandingShapes, Shapes
  <2>5. /\ b = "none" <=> K = {}
        /\ c = "none" <=> L = {}
    BY <1>1, <2>1, <2>2, NarrowestNoClash DEF Standing
  <2>6. CASE v = Top
    <3>1. K \cup L = L /\ C \cup D = D /\ (n \cup m) = m
      BY <2>1, <2>4, <2>5, <2>6
    <3>2. Meet(v, w) = w
      BY <2>2, <2>3, <2>6, Shapes DEF Meet
    <3> QED
      BY <3>1, <3>2
  <2>7. CASE v # Top /\ w = Top
    <3>1. K \cup L = K /\ C \cup D = C /\ (n \cup m) = n
      BY <2>2, <2>4, <2>5, <2>7
    <3>2. Meet(v, w) = v
      BY <2>1, <2>3, <2>7, Shapes DEF Meet
    <3> QED
      BY <3>1, <3>2
  <2>8. CASE v # Top /\ w # Top
    <3>1. Meet(v, w) = IF v.t = "bounds" THEN MeetBounds(v, w)
                       ELSE IF w.t = "bounds" THEN MeetBounds(w, v) ELSE MeetPlain(v, w)
      BY <2>1, <2>2, <2>3, <2>8 DEF Meet
    <3>2. CASE v.t = "bounds"
      BY <1>3, <2>1, <2>2, <2>8, <3>1, <3>2, BoundsMeetStanding
    <3>3. CASE v.t # "bounds" /\ w.t = "bounds"
      <4>1. K \cup L = L \cup K /\ C \cup D = D \cup C /\ (n \cup m) = (m \cup n)
        OBVIOUS
      <4>2. Comes(MeetBounds(w, v), L \cup K, D \cup C, m \cup n)
        BY <1>3, <2>1, <2>2, <2>8, <3>3, <4>1, BoundsMeetStanding
      <4> QED
        BY <3>1, <3>3, <4>1, <4>2
    <3>4. CASE v.t # "bounds" /\ w.t # "bounds"
      <4>1. C = {} /\ b # "none" /\ v = Type(b)
        BY <2>1, <2>8, <3>4, StandingShapes
      <4>2. D = {} /\ c # "none" /\ w = Type(c)
        BY <2>2, <2>8, <3>4, StandingShapes
      <4>3. Comes(MeetPlain(Type(b), Type(c)), K \cup L, {}, n \cup m)
        BY <1>1, <2>1, <2>2, <4>1, <4>2, TypesMeetStanding DEF Standing
      <4>4. C \cup D = {}
        BY <4>1, <4>2
      <4> QED
        BY <3>1, <3>4, <4>1, <4>2, <4>3, <4>4
    <3> QED
      BY <3>2, <3>3, <3>4
  <2> QED
    BY <2>6, <2>7, <2>8
<1> QED
  BY <1>2, <1>3

(* What they come to is one value, `!= null` aside. *)
LEMMA ComesOne ==
  ASSUME NEW K, NEW C, Beside(K, C), NEW nulls \in SUBSET {NotNull},
         NEW v, Comes(v, K, C, nulls), NEW w, Comes(w, K, C, nulls)
  PROVE  Settled(v) = Settled(w)
<1>1. CASE Clash(K, C)
  BY <1>1, ComesShape
<1>2. CASE ~Clash(K, C)
  <2>1. PICK b : Standing(v, K, C, nulls, b)
    BY <1>2, ComesShape
  <2>2. PICK c : Standing(w, K, C, nulls, c)
    BY <1>2, ComesShape
  <2>3. b = c
    BY <2>1, <2>2, NarrowestOne DEF Standing, Beside
  <2>4. CASE C = {}
    BY <2>1, <2>2, <2>3, <2>4 DEF Standing
  <2>5. CASE C # {}
    <3>1. BoundsOf(v, b, C) /\ BoundsOf(w, b, C)
      BY <2>1, <2>2, <2>3, <2>5 DEF Standing
    <3>2. v.base = b /\ w.base = b
      BY <3>1, Shapes DEF BoundsOf
    <3> QED
      BY <3>1, <3>2 DEF BoundsOf, Settled
  <2> QED
    BY <2>4, <2>5
<1> QED
  BY <1>1, <1>2

(* Meeting it with itself changes nothing. *)
LEMMA ComesIdempotent ==
  ASSUME NEW K, NEW C, Beside(K, C), NEW nulls \in SUBSET {NotNull}, NEW v, Comes(v, K, C, nulls)
  PROVE  Meet(v, v) = v
<1>1. CASE Clash(K, C)
  BY <1>1, ComesShape DEF Meet
<1>2. CASE ~Clash(K, C)
  <2>1. PICK b : Standing(v, K, C, nulls, b)
    BY <1>2, ComesShape
  <2>2. v # Bottom
    BY <2>1, StandingShapes
  <2>3. CASE v = Top
    BY <2>2, <2>3 DEF Meet
  <2>4. CASE v # Top /\ v.t # "bounds"
    <3>1. C = {} /\ b # "none" /\ v = Type(b)
      BY <2>1, <2>4, StandingShapes
    <3>2. Subsumes(b, b)
      BY DEF Subsumes
    <3>3. MeetPlain(v, v) = v
      BY <3>1, <3>2, Shapes DEF MeetPlain
    <3> QED
      BY <2>2, <2>4, <3>3 DEF Meet
  <2>5. CASE v.t = "bounds"
    <3>1. K \in SUBSET AllKinds /\ Narrowest(b, K)
      BY <2>1 DEF Standing, Beside
    <3>2. BoundsOf(v, b, C) /\ v.cs # {}
      <4>1. NotNull \notin C
        BY DEF Beside, BoundSet
      <4> QED
        BY <2>1, <2>5, <3>1, <4>1, BoundsStanding
    <3>3. MergedBases(b, b) = {b}
      BY DEF MergedBases
    <3>4. ~ExcludesNull(v) /\ v.base = b
      BY <2>5, <3>2, Shapes DEF ExcludesNull, BoundsOf
    <3>5. v.cs \cup v.cs = v.cs
      OBVIOUS
    <3>6. MeetBounds(v, v) = IF MixedDemands(v.cs) THEN Bottom ELSE Checked({b}, v.cs)
      BY <2>5, <3>2, <3>3, <3>4, <3>5 DEF MeetBounds
    <3>7. ~MixedDemands(v.cs) /\ ~ConflictingDemand(b, v.cs) /\ ~IncompatibleRange(b, v.cs)
      <4>1. ~MixedDemands(C)
        BY <1>2 DEF Clash
      <4>2. ~ConflictingDemand(b, C)
        <5>1. CASE b \in K
          BY <1>2, <5>1 DEF Clash
        <5>2. CASE b \notin K
          BY <3>1, <5>2 DEF Narrowest, ConflictingDemand, Numeric, Integer, Unsigned, Floating
        <5> QED
          BY <5>1, <5>2
      <4>3. ~IncompatibleRange(b, C)
        <5>1. b = "int" => "int" \in K
          BY <3>1 DEF Narrowest
        <5>2. ~IncompatibleRange(IF "int" \in K THEN "int" ELSE "none", C)
          BY <1>2 DEF Clash
        <5>3. EndsFit(C) /\ C \in SUBSET C
          BY BoundSetFits DEF Beside
        <5> QED
          BY <5>1, <5>2, <5>3, RangeMonotone
      <4> QED
        BY <3>2, <4>1, <4>2, <4>3, NullsAside DEF BoundsOf
    <3>8. Checked({b}, v.cs) = v
      <4>1. (CHOOSE d \in {b} : TRUE) = b
        OBVIOUS
      <4> QED
        BY <3>2, <3>7, <4>1 DEF Checked, BoundsOf
    <3> QED
      BY <2>2, <2>5, <3>6, <3>7, <3>8, Shapes DEF Meet
  <2> QED
    BY <2>3, <2>4, <2>5
<1> QED
  BY <1>1, <1>2

-----------------------------------------------------------------------------
(* What a set of the constraints of a field comes to *)

Nulls(S) == BoundsIn(S) \cap {NotNull}

\* One of the constraints is a value, or a conflict.
Concluded(S) == \E s \in S : s.t \in {"atom", "bottom"}

Stands(v, S, g) ==
  /\ Formed(v, KindsIn(g), BoundsIn(g))
  /\ \A a \in Atoms : Admits(v, a) <=> \A s \in S : Admits(s, a)
  /\ Concluded(S) => v \in Atoms \cup {Bottom}
  /\ ~Concluded(S) => Comes(v, Ks(S), Cs(S), Nulls(S))

LEMMA GivenBeside ==
  ASSUME NEW g \in Given, NEW S \in SUBSET g
  PROVE  Beside(Ks(S), Cs(S))
<1>1. Mixable(KindsIn(g), BoundsIn(g))
  BY GivenFormed
<1>2. Ks(S) \subseteq KindsIn(g) /\ Cs(S) \subseteq BoundsIn(g) \ {NotNull}
  BY DEF Ks, KindsIn, Cs, BoundsIn
<1>3. Ks(S) \in SUBSET AllKinds
  BY <1>1, <1>2 DEF Mixable, AllKinds
<1>4. BoundSet(Cs(S))
  BY <1>1, <1>2 DEF Mixable, BoundSet
<1>5. Cs(S) = {} \/ Bounding(Ks(S))
  BY <1>1, <1>2 DEF Mixable, Bounding
<1> QED
  BY <1>3, <1>4, <1>5 DEF Beside

LEMMA Joined ==
  ASSUME NEW S, NEW T
  PROVE  /\ Ks(S \cup T) = Ks(S) \cup Ks(T) /\ Cs(S \cup T) = Cs(S) \cup Cs(T)
         /\ Nulls(S \cup T) = Nulls(S) \cup Nulls(T)
         /\ Concluded(S \cup T) <=> Concluded(S) \/ Concluded(T)
<1>1. BoundsIn(S \cup T) = BoundsIn(S) \cup BoundsIn(T)
  BY DEF BoundsIn
<1>2. Ks(S \cup T) = Ks(S) \cup Ks(T)
  BY DEF Ks
<1>3. Concluded(S \cup T) <=> Concluded(S) \/ Concluded(T)
  BY DEF Concluded
<1> QED
  BY <1>1, <1>2, <1>3 DEF Cs, Nulls

(* No bound conflicts with itself. *)
LEMMA OneBoundNoClash ==
  ASSUME NEW c, FormedBound(c)
  PROVE  ~Clash({}, {c})
<1>1. ~KindsClash({})
  BY DEF KindsClash
<1>2. ~MixedDemands({c})
  BY DEF MixedDemands, IsNumber
<1>3. c.v \in -Exact .. Exact /\ c.v \in Int
  BY Precision DEF FormedBound
<1>4. c.op \in {"<", "<=", ">", ">=", "==", "!=", "=~", "!~"}
  BY DEF FormedBound, NotNull, Bound
<1>5. PICK x \in Int : Compare(c.op, x, c.v)
  <2>1. CASE c.op \in {"<", "!=", "!~"}
    <3>1. c.v - 1 \in Int /\ c.v - 1 < c.v /\ c.v - 1 # c.v
      BY <1>3
    <3>2. Compare(c.op, c.v - 1, c.v)
      BY <2>1, <3>1 DEF Compare
    <3> QED
      BY <3>1, <3>2
  <2>2. CASE c.op \in {"<=", ">=", "==", "=~"}
    <3>1. c.v <= c.v /\ c.v >= c.v
      BY <1>3
    <3>2. Compare(c.op, c.v, c.v)
      BY <2>2, <3>1 DEF Compare
    <3> QED
      BY <1>3, <3>2
  <2>3. CASE c.op = ">"
    <3>1. c.v + 1 \in Int /\ c.v + 1 > c.v
      BY <1>3
    <3>2. Compare(c.op, c.v + 1, c.v)
      BY <2>3, <3>1 DEF Compare
    <3> QED
      BY <3>1, <3>2
  <2> QED
    BY <1>4, <2>1, <2>2, <2>3
<1>6. \A G \in SUBSET {c} : ~IncompatibleGroup(G, FALSE)
  <2>1. ASSUME NEW G \in SUBSET {c} PROVE ~IncompatibleGroup(G, FALSE)
    <3>1. /\ \A d \in G : d.v \in -Exact .. Exact
          /\ \A d \in G : Compare(d.op, x, d.v)
      BY <1>3, <1>5
    <3>2. FALSE \in BOOLEAN
      OBVIOUS
    <3> QED
      BY <3>1, <3>2, NoConflictAround
  <2> QED
    BY <2>1
<1>7. ~IncompatibleRange("none", {c})
  <2>1. {d \in {c} : IsNumber(d.kind)} \in SUBSET {c} /\ {d \in {c} : IsText(d.kind)} \in SUBSET {c}
    OBVIOUS
  <2>2. ("none" = "int") = FALSE
    OBVIOUS
  <2> QED
    BY <1>6, <2>1, <2>2 DEF IncompatibleRange
<1> QED
  BY <1>1, <1>2, <1>7 DEF Clash, KindsClash

LEMMA NothingClashes ==
  ~Clash({}, {}) /\ \A k : ~Clash({k}, {})
<1>1. ~KindsClash({})
  BY DEF KindsClash
<1>2. \A k : ~KindsClash({k})
  BY DEF KindsClash, Subsumes
<1> QED
  BY <1>1, <1>2, KindsOnlyClash

(* A constraint, as declared, is what it comes to by itself. *)
LEMMA GivenStands ==
  ASSUME NEW g \in Given, NEW x \in g
  PROVE  Stands(x, {x}, g)
<1>1. Formed(x, KindsIn(g), BoundsIn(g)) /\ Mixable(KindsIn(g), BoundsIn(g))
  BY GivenFormed
<1>2. /\ x.t = "atom" => x \in Atoms
      /\ x.t = "bounds" => \E c \in x.cs : x = Bounds("none", {c})
  BY GivenDeclared
<1>3. Concluded({x}) <=> x.t \in {"atom", "bottom"}
  BY DEF Concluded
<1>4. /\ Ks({x}) = IF x.t = "type" THEN {x.kind} ELSE {}
      /\ BoundsIn({x}) = IF x.t = "bounds" THEN x.cs ELSE {}
  <2>1. /\ {v \in {x} : v.t = "type"} = IF x.t = "type" THEN {x} ELSE {}
        /\ {v \in {x} : v.t = "bounds"} = IF x.t = "bounds" THEN {x} ELSE {}
    OBVIOUS
  <2> QED
    BY <2>1 DEF Ks, BoundsIn
<1>5. CASE x = Bottom
  BY <1>1, <1>3, <1>5, Shapes DEF Stands
<1>6. CASE x = Top
  <2>1. Ks({x}) = {} /\ Cs({x}) = {} /\ Nulls({x}) = {} /\ ~Concluded({x})
    BY <1>3, <1>4, <1>6, Shapes DEF Cs, Nulls
  <2>2. Standing(Top, {}, {}, {}, "none")
    BY DEF Standing, Narrowest
  <2>3. Comes(Top, {}, {}, {})
    BY <2>2, NothingClashes, ComesShape
  <2> QED
    BY <1>1, <1>6, <2>1, <2>3 DEF Stands
<1>7. CASE x.t = "atom"
  BY <1>1, <1>2, <1>3, <1>7 DEF Stands
<1>8. CASE x.t = "type"
  <2>1. x = Type(x.kind) /\ x.kind \in KindsIn(g)
    BY <1>1, <1>8, Shapes DEF Formed
  <2>2. x.kind # "none"
    BY <1>1, <2>1 DEF Mixable, Numeric, Integer, Unsigned, Floating
  <2>3. Ks({x}) = {x.kind} /\ Cs({x}) = {} /\ Nulls({x}) = {} /\ ~Concluded({x})
    BY <1>3, <1>4, <1>8 DEF Cs, Nulls
  <2>4. Standing(x, {x.kind}, {}, {}, x.kind)
    BY <2>1, <2>2 DEF Standing, Narrowest, Subsumes
  <2>5. Comes(x, {x.kind}, {}, {})
    BY <2>4, NothingClashes, ComesShape
  <2> QED
    BY <1>1, <2>3, <2>5 DEF Stands
<1>9. CASE x.t = "bounds"
  <2>1. PICK c \in x.cs : x = Bounds("none", {c})
    BY <1>2, <1>9
  <2>2. x.cs = {c} /\ x.t = "bounds"
    BY <2>1, Shapes
  <2>3. FormedBound(c)
    <3>1. x.cs \subseteq BoundsIn(g)
      BY <2>2 DEF BoundsIn
    <3> QED
      BY <1>1, <2>2, <3>1 DEF Mixable
  <2>4. Ks({x}) = {} /\ BoundsIn({x}) = {c} /\ ~Concluded({x})
    BY <1>3, <1>4, <2>2
  <2>5. CASE c = NotNull
    <3>1. Cs({x}) = {} /\ Nulls({x}) = {NotNull}
      BY <2>4, <2>5 DEF Cs, Nulls
    <3>2. Standing(x, {}, {}, {NotNull}, "none")
      BY <2>1, <2>5 DEF Standing, Narrowest
    <3>3. Comes(x, {}, {}, {NotNull})
      BY <3>2, NothingClashes, ComesShape
    <3> QED
      BY <1>1, <2>4, <3>1, <3>3 DEF Stands
  <2>6. CASE c # NotNull
    <3>1. Cs({x}) = {c} /\ Nulls({x}) = {}
      BY <2>4, <2>6 DEF Cs, Nulls
    <3>2. BoundsOf(x, "none", {c})
      BY <2>1, <2>2, <2>6 DEF BoundsOf
    <3>3. Standing(x, {}, {c}, {}, "none")
      BY <3>2 DEF Standing, Narrowest
    <3>4. Comes(x, {}, {c}, {})
      BY <2>3, <3>3, OneBoundNoClash, ComesShape
    <3> QED
      BY <1>1, <2>4, <3>1, <3>4 DEF Stands
  <2> QED
    BY <2>5, <2>6
<1>10. x \in {Bottom, Top} \/ x.t \in {"type", "atom", "bounds"}
  BY <1>1 DEF Formed
<1> QED
  BY <1>5, <1>6, <1>7, <1>8, <1>9, <1>10

(* A value meets whatever else to itself, or not at all. *)
LEMMA ValueMeets ==
  ASSUME NEW v \in Atoms, NEW w, NEW K, NEW C, Formed(w, K, C)
  PROVE  Meet(v, w) \in {v, Bottom} /\ Meet(w, v) \in {v, Bottom}
<1>1. v.t = "atom" /\ v = Atom(v.kind, v.v)
  BY GivenFormed DEF FormedAtom
<1>2. v # Bottom /\ v # Top
  BY <1>1, Shapes
<1>3. CASE w \in {Bottom, Top}
  BY <1>2, <1>3 DEF Meet
<1>4. CASE w \notin {Bottom, Top} /\ w.t \in {"atom", "type"}
  <2>1. MeetPlain(v, w) \in {v, Bottom} /\ MeetPlain(w, v) \in {v, Bottom}
    BY <1>1, <1>4 DEF MeetPlain
  <2> QED
    BY <1>1, <1>2, <1>4, <2>1 DEF Meet
<1>5. CASE w \notin {Bottom, Top} /\ w.t = "bounds"
  <2>1. \A u : MeetPlain(Type(u), v) \in {v, Bottom}
    BY <1>1, Shapes DEF MeetPlain
  <2>2. MeetBounds(w, v) \in {v, Bottom}
    BY <1>1, <2>1 DEF MeetBounds, Discharged
  <2> QED
    BY <1>1, <1>2, <1>5, <2>2 DEF Meet
<1>6. w \in {Bottom, Top} \/ w.t \in {"atom", "type", "bounds"}
  BY DEF Formed
<1> QED
  BY <1>3, <1>4, <1>5, <1>6

(* What two sets of constraints come to meets in what they come to together. *)
LEMMA StandsMeet ==
  ASSUME NEW g \in Given, NEW S \in SUBSET g, NEW T \in SUBSET g,
         NEW v, Stands(v, S, g), NEW w, Stands(w, T, g)
  PROVE  Stands(Meet(v, w), S \cup T, g)
<1> DEFINE K == KindsIn(g)
           C == BoundsIn(g)
<1>1. Mixable(K, C) /\ Formed(v, K, C) /\ Formed(w, K, C)
  BY GivenFormed DEF Stands
<1>2. MeetOf(Meet(v, w), v, w, K, C)
  BY <1>1, MeetMeans
<1>3. Formed(Meet(v, w), K, C)
  BY <1>2 DEF MeetOf
<1>4. \A a \in Atoms : Admits(Meet(v, w), a) <=> \A s \in S \cup T : Admits(s, a)
  <2>1. \A a \in Atoms : /\ Admits(Meet(v, w), a) <=> Admits(v, a) /\ Admits(w, a)
                         /\ Admits(v, a) <=> \A s \in S : Admits(s, a)
                         /\ Admits(w, a) <=> \A s \in T : Admits(s, a)
    BY <1>2 DEF MeetOf, Stands
  <2> QED
    BY <2>1
<1>5. Concluded(S \cup T) <=> Concluded(S) \/ Concluded(T)
  BY Joined
<1>6. CASE Concluded(S) \/ Concluded(T)
  <2>1. v \in Atoms \cup {Bottom} \/ w \in Atoms \cup {Bottom}
    BY <1>6 DEF Stands
  <2>2. Bottom \in {v, w} => Meet(v, w) = Bottom
    BY DEF Meet
  <2>3. v \in Atoms => Meet(v, w) \in {v, Bottom}
    BY <1>1, ValueMeets
  <2>4. w \in Atoms => Meet(v, w) \in {w, Bottom}
    BY <1>1, ValueMeets
  <2>5. Meet(v, w) \in Atoms \cup {Bottom}
    BY <2>1, <2>2, <2>3, <2>4
  <2> QED
    BY <1>3, <1>4, <1>5, <1>6, <2>5 DEF Stands
<1>7. CASE ~Concluded(S) /\ ~Concluded(T)
  <2>1. Comes(v, Ks(S), Cs(S), Nulls(S)) /\ Comes(w, Ks(T), Cs(T), Nulls(T))
    BY <1>7 DEF Stands
  <2>2. /\ Ks(S \cup T) = Ks(S) \cup Ks(T) /\ Cs(S \cup T) = Cs(S) \cup Cs(T)
        /\ Nulls(S \cup T) = Nulls(S) \cup Nulls(T)
    BY Joined
  <2>3. Beside(Ks(S) \cup Ks(T), Cs(S) \cup Cs(T))
    <3>1. S \cup T \in SUBSET g
      OBVIOUS
    <3> QED
      BY <2>2, <3>1, GivenBeside
  <2>4. Nulls(S) \in SUBSET {NotNull} /\ Nulls(T) \in SUBSET {NotNull}
    BY DEF Nulls
  <2>5. Comes(Meet(v, w), Ks(S) \cup Ks(T), Cs(S) \cup Cs(T), Nulls(S) \cup Nulls(T))
    BY <2>1, <2>3, <2>4, MeetComes
  <2> QED
    BY <1>3, <1>4, <1>5, <1>7, <2>2, <2>5 DEF Stands
<1> QED
  BY <1>6, <1>7

(* A set of constraints comes to one value, `!= null` aside. *)
LEMMA StandsOne ==
  ASSUME NEW g \in Given, NEW S \in SUBSET g, NEW v, Stands(v, S, g), NEW w, Stands(w, S, g)
  PROVE  Settled(v) = Settled(w)
<1>1. CASE Concluded(S)
  <2>1. v \in Atoms \cup {Bottom} /\ w \in Atoms \cup {Bottom}
    BY <1>1 DEF Stands
  <2>2. \A a \in Atoms : Admits(v, a) <=> Admits(w, a)
    BY DEF Stands
  <2>3. \A a, x \in Atoms : ~Admits(Bottom, a) /\ (Admits(x, a) <=> x = a)
    <3>1. \A x \in Atoms : x = Atom(x.kind, x.v)
      BY AtomsFormed
    <3> QED
      BY <3>1, AdmitsEach
  <2>4. v = w
    BY <2>1, <2>2, <2>3
  <2> QED
    BY <2>4
<1>2. CASE ~Concluded(S)
  <2>1. Comes(v, Ks(S), Cs(S), Nulls(S)) /\ Comes(w, Ks(S), Cs(S), Nulls(S))
    BY <1>2 DEF Stands
  <2>2. Beside(Ks(S), Cs(S)) /\ Nulls(S) \in SUBSET {NotNull}
    BY GivenBeside DEF Nulls
  <2> QED
    BY <2>1, <2>2, ComesOne
<1> QED
  BY <1>1, <1>2

(* What two sets both come to they come to together. *)
LEMMA StandsBoth ==
  ASSUME NEW g \in Given, NEW S \in SUBSET g, NEW T \in SUBSET g,
         NEW v, Stands(v, S, g), Stands(v, T, g)
  PROVE  Stands(v, S \cup T, g)
<1>1. Stands(Meet(v, v), S \cup T, g)
  BY StandsMeet
<1>2. Meet(v, v) = v
  <2>1. CASE Concluded(S)
    <3>1. v \in Atoms \cup {Bottom}
      BY <2>1 DEF Stands
    <3>2. CASE v \in Atoms
      <4>1. v.t = "atom"
        BY <3>2, GivenFormed
      <4>2. v # Bottom /\ v # Top /\ MeetPlain(v, v) = v
        BY <4>1, Shapes DEF MeetPlain
      <4> QED
        BY <4>1, <4>2 DEF Meet
    <3>3. CASE v = Bottom
      BY <3>3 DEF Meet
    <3> QED
      BY <3>1, <3>2, <3>3
  <2>2. CASE ~Concluded(S)
    <3>1. Comes(v, Ks(S), Cs(S), Nulls(S))
      BY <2>2 DEF Stands
    <3>2. Beside(Ks(S), Cs(S)) /\ Nulls(S) \in SUBSET {NotNull}
      BY GivenBeside DEF Nulls
    <3> QED
      BY <3>1, <3>2, ComesIdempotent
  <2> QED
    BY <2>1, <2>2
<1> QED
  BY <1>1, <1>2

-----------------------------------------------------------------------------
(* One order *)

LEMMA NothingStands ==
  ASSUME NEW g \in Given
  PROVE  Stands(Top, {}, g)
<1>1. Ks({}) = {} /\ Cs({}) = {} /\ Nulls({}) = {} /\ ~Concluded({})
  BY DEF Ks, Cs, Nulls, BoundsIn, Concluded
<1>2. Standing(Top, {}, {}, {}, "none")
  BY DEF Standing, Narrowest
<1>3. Comes(Top, {}, {}, {})
  BY <1>2, NothingClashes, ComesShape
<1>4. Formed(Top, KindsIn(g), BoundsIn(g)) /\ \A a \in Atoms : Admits(Top, a)
  BY FormedEach, AdmitsEach
<1> QED
  BY <1>1, <1>3, <1>4 DEF Stands

\* What InOneOrder says of the met of a set, given those of smaller ones.
MetStep(m, S) ==
  IF S = {} THEN Top
  ELSE LET x == CHOOSE x \in S : TRUE IN Meet(x, m[S \ {x}])

(* What is defined from smaller sets to larger exists, as sets are finite. *)
LEMMA MetExists ==
  ASSUME NEW g, IsFiniteSet(g)
  PROVE  \E m : m = [S \in SUBSET g |-> MetStep(m, S)]
<1> DEFINE Goes(k) ==
      \E m : /\ m = [S \in SUBSET g |-> m[S]]
             /\ \A S \in SUBSET g : Cardinality(S) < k => m[S] = MetStep(m, S)
<1>1. \A S \in SUBSET g : IsFiniteSet(S) /\ Cardinality(S) \in Nat /\ Cardinality(S) <= Cardinality(g)
  BY FS_Subset, FS_CardinalityType
<1>2. \A S \in SUBSET g : S # {} =>
        LET x == CHOOSE x \in S : TRUE
        IN S \ {x} \in SUBSET g /\ Cardinality(S \ {x}) = Cardinality(S) - 1
  BY <1>1, FS_RemoveElement
<1>3. Goes(0)
  <2> DEFINE m == [S \in SUBSET g |-> Top]
  <2>1. m = [S \in SUBSET g |-> m[S]]
    OBVIOUS
  <2>2. \A S \in SUBSET g : ~(Cardinality(S) < 0)
    BY <1>1
  <2> QED
    BY <2>1, <2>2
<1>4. ASSUME NEW k \in Nat, Goes(k) PROVE Goes(k + 1)
  <2>1. PICK m : /\ m = [S \in SUBSET g |-> m[S]]
                 /\ \A S \in SUBSET g : Cardinality(S) < k => m[S] = MetStep(m, S)
    BY <1>4
  <2> DEFINE u == [S \in SUBSET g |-> IF Cardinality(S) = k THEN MetStep(m, S) ELSE m[S]]
  <2>2. u = [S \in SUBSET g |-> u[S]]
    OBVIOUS
  <2>3. ASSUME NEW S \in SUBSET g, Cardinality(S) <= k PROVE MetStep(u, S) = MetStep(m, S)
    <3>1. CASE S = {}
      BY <3>1 DEF MetStep
    <3>2. CASE S # {}
      <4> DEFINE x == CHOOSE x \in S : TRUE
      <4>1. S \ {x} \in SUBSET g /\ Cardinality(S \ {x}) = Cardinality(S) - 1 /\ Cardinality(S) \in Nat
        BY <1>1, <1>2, <3>2
      <4>2. Cardinality(S \ {x}) # k
        BY <2>3, <4>1
      <4>3. u[S \ {x}] = m[S \ {x}]
        BY <4>1, <4>2
      <4> HIDE DEF u
      <4> QED
        BY <3>2, <4>3 DEF MetStep
    <3> QED
      BY <3>1, <3>2
  <2>4. ASSUME NEW S \in SUBSET g, Cardinality(S) < k + 1 PROVE u[S] = MetStep(u, S)
    <3>1. Cardinality(S) <= k /\ (Cardinality(S) # k => Cardinality(S) < k)
      BY <1>1, <2>4
    <3>2. u[S] = MetStep(m, S)
      BY <2>1, <3>1
    <3> QED
      BY <2>3, <3>1, <3>2
  <2> HIDE DEF u
  <2> QED
    BY <2>2, <2>4
<1>5. \A k \in Nat : Goes(k)
  <2> DEFINE Bad == {k \in Nat : ~Goes(k)}
  <2> HIDE DEF Goes
  <2>1. SUFFICES ASSUME Bad # {} PROVE FALSE
    OBVIOUS
  <2>2. PICK k \in Bad : \A j \in Bad : k <= j
    <3>1. Bad \subseteq Nat
      OBVIOUS
    <3> HIDE DEF Bad
    <3> QED
      BY <2>1, <3>1, Least
  <2>3. k # 0 /\ k \in Nat
    BY <1>3, <2>2
  <2>4. k - 1 \in Nat /\ k - 1 < k /\ (k - 1) + 1 = k
    BY <2>3
  <2>5. Goes(k - 1)
    BY <2>2, <2>4
  <2>6. Goes(k)
    BY <1>4, <2>4, <2>5
  <2> QED
    BY <2>2, <2>6
<1>6. PICK m : /\ m = [S \in SUBSET g |-> m[S]]
               /\ \A S \in SUBSET g : Cardinality(S) < Cardinality(g) + 1 => m[S] = MetStep(m, S)
  <2>1. Cardinality(g) + 1 \in Nat
    BY FS_CardinalityType
  <2> QED
    BY <1>5, <2>1
<1>7. \A S \in SUBSET g : m[S] = MetStep(m, S)
  <2>1. Cardinality(g) \in Nat
    BY FS_CardinalityType
  <2>2. \A S \in SUBSET g : Cardinality(S) < Cardinality(g) + 1
    BY <1>1, <2>1
  <2> QED
    BY <1>6, <2>2
<1>8. m = [S \in SUBSET g |-> MetStep(m, S)]
  <2> HIDE DEF Goes
  <2> QED
    BY <1>6, <1>7
<1> QED
  BY <1>8

LEMMA MetStands ==
  ASSUME NEW g \in Given, NEW m, \A S \in SUBSET g : m[S] = MetStep(m, S)
  PROVE  \A S \in SUBSET g : Stands(m[S], S, g)
<1> DEFINE Bad == {Cardinality(S) : S \in {S \in SUBSET g : ~Stands(m[S], S, g)}}
<1>1. \A S \in SUBSET g : IsFiniteSet(S) /\ Cardinality(S) \in Nat
  BY GivenDeclared, FS_Subset, FS_CardinalityType
<1>2. SUFFICES ASSUME NEW S \in SUBSET g, ~Stands(m[S], S, g),
                      \A T \in SUBSET g : Cardinality(T) < Cardinality(S) => Stands(m[T], T, g)
               PROVE  FALSE
  <2>1. SUFFICES ASSUME Bad # {} PROVE FALSE
    OBVIOUS
  <2>2. PICK k \in Bad : \A j \in Bad : k <= j
    <3>1. Bad \subseteq Nat
      BY <1>1
    <3> HIDE DEF Bad
    <3> QED
      BY <2>1, <3>1, Least
  <2>3. PICK S \in SUBSET g : ~Stands(m[S], S, g) /\ Cardinality(S) = k
    BY <2>2
  <2>4. ASSUME NEW T \in SUBSET g, Cardinality(T) < Cardinality(S) PROVE Stands(m[T], T, g)
    <3>1. SUFFICES ASSUME ~Stands(m[T], T, g) PROVE FALSE
      OBVIOUS
    <3>2. Cardinality(T) \in Bad
      BY <3>1
    <3>3. Cardinality(S) <= Cardinality(T)
      BY <2>2, <2>3, <3>2
    <3> QED
      BY <1>1, <2>4, <3>3
  <2> QED
    BY <1>2, <2>3, <2>4
<1>3. CASE S = {}
  <2>1. m[S] = Top
    BY <1>3 DEF MetStep
  <2> QED
    BY <1>2, <1>3, <2>1, NothingStands
<1>4. CASE S # {}
  <2> DEFINE x == CHOOSE x \in S : TRUE
             T == S \ {x}
  <2>1. x \in S
    BY <1>4
  <2> HIDE DEF x
  <2>2. T \in SUBSET g /\ Cardinality(T) < Cardinality(S) /\ x \in g /\ {x} \in SUBSET g
    <3>1. Cardinality(T) = Cardinality(S) - 1
      BY <1>1, <2>1, FS_RemoveElement
    <3> QED
      BY <1>1, <2>1, <3>1
  <2>3. Stands(m[T], T, g)
    BY <1>2, <2>2
  <2>4. Stands(x, {x}, g)
    BY <2>2, GivenStands
  <2>5. m[S] = Meet(x, m[T])
    BY <1>4 DEF MetStep, x
  <2>6. {x} \cup T = S
    BY <2>1
  <2>7. Stands(Meet(x, m[T]), {x} \cup T, g)
    BY <2>2, <2>3, <2>4, StandsMeet
  <2> QED
    BY <1>2, <2>5, <2>6, <2>7
<1> QED
  BY <1>3, <1>4

LEMMA OneOrderStands ==
  ASSUME given \in Given
  PROVE  Stands(InOneOrder, given, given)
<1> DEFINE m == CHOOSE m : m = [S \in SUBSET given |-> MetStep(m, S)]
<1>1. IsFiniteSet(given)
  BY GivenDeclared
<1>2. m = [S \in SUBSET given |-> MetStep(m, S)]
  BY <1>1, MetExists
<1>3. InOneOrder = m[given]
  BY DEF InOneOrder, MetStep
<1> HIDE DEF m
<1>4. \A S \in SUBSET given : m[S] = MetStep(m, S)
  BY <1>2
<1>5. Stands(m[given], given, given)
  BY <1>4, MetStands
<1> QED
  BY <1>3, <1>5

-----------------------------------------------------------------------------
(* Any order *)

\* Each operand is what some of the constraints come to, and none is missing.
Covering(F) ==
  /\ F \in [operands -> SUBSET given]
  /\ \A v \in operands : Stands(v, F[v], given)
  /\ \A x \in given : \E v \in operands : x \in F[v]

Covered == given \in Given /\ IsFiniteSet(operands) /\ \E F : Covering(F)

LEMMA CoveredFirst == Init => Covered
<1> SUFFICES ASSUME Init PROVE Covered
  OBVIOUS
<1>1. given \in Given /\ operands = given /\ IsFiniteSet(operands)
  BY GivenDeclared DEF Init
<1> DEFINE F == [v \in operands |-> {v}]
<1>2. \A v \in operands : Stands(v, F[v], given)
  BY <1>1, GivenStands
<1>3. F \in [operands -> SUBSET given] /\ \A x \in given : x \in operands /\ x \in F[x]
  BY <1>1
<1>4. Covering(F)
  BY <1>2, <1>3 DEF Covering
<1> QED
  BY <1>1, <1>4 DEF Covered

LEMMA CoveredNext == Covered /\ [Next]_vars => Covered'
<1> SUFFICES ASSUME Covered, [Next]_vars PROVE Covered'
  OBVIOUS
<1>1. CASE UNCHANGED vars
  BY <1>1 DEF vars, Covered, Covering
<1>2. CASE Unify
  <2>1. PICK x \in operands, y \in operands :
          operands' = (operands \ {x, y}) \cup {Meet(x, y)}
    BY <1>2 DEF Unify
  <2>2. given' = given /\ given \in Given
    BY <1>2 DEF Unify, Covered
  <2>3. PICK F : Covering(F)
    BY DEF Covered
  <2> DEFINE z == Meet(x, y)
             rest == operands \ {x, y}
             G == [v \in operands' |->
                     IF v # z THEN F[v]
                     ELSE (F[x] \cup F[y]) \cup (IF z \in rest THEN F[z] ELSE {})]
  <2>4. /\ \A v \in operands : F[v] \in SUBSET given /\ Stands(v, F[v], given)
        /\ F[x] \cup F[y] \in SUBSET given
    BY <2>3 DEF Covering
  <2>5. Stands(z, F[x] \cup F[y], given)
    BY <2>2, <2>4, StandsMeet
  <2> HIDE DEF z
  <2>6. operands' = rest \cup {z}
    BY <2>1 DEF z
  <2>7. G[z] = IF z \in rest THEN (F[x] \cup F[y]) \cup F[z] ELSE F[x] \cup F[y]
    BY <2>6
  <2>8. \A v \in operands' : v # z => v \in rest /\ v \in operands /\ G[v] = F[v]
    BY <2>6
  <2>9. G[z] \in SUBSET given /\ Stands(z, G[z], given)
    <3>1. CASE z \in rest
      BY <2>2, <2>4, <2>5, <2>7, <3>1, StandsBoth
    <3>2. CASE z \notin rest
      BY <2>4, <2>5, <2>7, <3>2
    <3> QED
      BY <3>1, <3>2
  <2>10. G \in [operands' -> SUBSET given]
    <3>1. \A v \in operands' : G[v] \in SUBSET given
      BY <2>4, <2>8, <2>9
    <3> QED
      BY <3>1
  <2>11. \A v \in operands' : Stands(v, G[v], given)
    BY <2>4, <2>8, <2>9
  <2>12. ASSUME NEW e \in given PROVE \E v \in operands' : e \in G[v]
    <3>1. PICK v \in operands : e \in F[v]
      BY <2>3 DEF Covering
    <3>2. CASE v \in {x, y}
      <4>1. e \in G[z] /\ z \in operands'
        BY <2>6, <2>7, <3>1, <3>2
      <4> QED
        BY <4>1
    <3>3. CASE v \in rest /\ v # z
      BY <2>6, <2>8, <3>1, <3>3
    <3>4. CASE v \in rest /\ v = z
      <4>1. e \in G[z] /\ z \in operands'
        BY <2>6, <2>7, <3>1, <3>4
      <4> QED
        BY <4>1
    <3> QED
      BY <3>2, <3>3, <3>4
  <2> HIDE DEF G
  <2>13. PICK H : /\ H \in [operands' -> SUBSET given]
                  /\ \A v \in operands' : Stands(v, H[v], given)
                  /\ \A e \in given : \E v \in operands' : e \in H[v]
    BY <2>10, <2>11, <2>12
  <2>14. Covering(H)'
    BY <2>2, <2>13 DEF Covering
  <2>15. IsFiniteSet(operands')
    <3>1. IsFiniteSet(operands) /\ rest = (operands \ {x}) \ {y}
      BY DEF Covered
    <3>2. IsFiniteSet(rest)
      BY <3>1, FS_RemoveElement
    <3> QED
      BY <2>6, <3>2, FS_AddElement
  <2> QED
    BY <2>2, <2>14, <2>15 DEF Covered
<1> QED
  BY <1>1, <1>2 DEF Next

(***************************************************************************)
(* Whatever constraints a field is declared with, all orders and groupings *)
(* of unify end in one value, `!= null` aside, and not only in values that *)
(* admit the same: where one order reports a conflict, so do all.          *)
(***************************************************************************)
THEOREM OrderIrrelevant == Spec => []OneResult
<1>1. Covered => OneResult
  <2> SUFFICES ASSUME Covered, NEW v \in operands, Cardinality(operands) = 1
               PROVE  Settled(v) = Settled(InOneOrder)
    BY DEF OneResult
  <2>1. given \in Given /\ IsFiniteSet(operands)
    BY DEF Covered
  <2>2. operands = {v}
    BY <2>1, FS_Singleton
  <2>3. PICK F : Covering(F)
    BY DEF Covered
  <2>4. F[v] = given
    BY <2>2, <2>3 DEF Covering
  <2>5. Stands(v, given, given)
    BY <2>3, <2>4 DEF Covering
  <2>6. Stands(InOneOrder, given, given)
    BY <2>1, OneOrderStands
  <2> QED
    BY <2>1, <2>5, <2>6, StandsOne
<1> QED
  BY <1>1, CoveredFirst, CoveredNext, PTL DEF Spec
=============================================================================
