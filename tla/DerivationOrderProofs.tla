----------------------- MODULE DerivationOrderProofs -----------------------
(***************************************************************************)
(* For any structs: the derivation order holds every field once, and a     *)
(* field follows those it reads where names are distinct and no field      *)
(* waits for itself.                                                       *)
(***************************************************************************)
EXTENDS DerivationOrder, FiniteSetTheorems, SequenceTheorems, WellFoundedInduction, TLAPS

FieldsTyped ==
  /\ nodes \in Seq([section : Sections, name : Names])
  /\ deps \in [Index -> SUBSET Names]

Typed ==
  /\ FieldsTyped
  /\ pending \in [Index -> Nat]
  /\ ready \in Seq(Index)
  /\ order \in Seq(Index)

OrderIsPlaced ==
  /\ placed = {order[k] : k \in DOMAIN order}
  /\ \A j, k \in DOMAIN order : j # k => order[j] # order[k]

\* The names nodes[i] reads whose fields are not placed.
Waits(i) == {n \in Reads(i) : \A j \in placed : nodes[j].name # n}

\* The counts say how many names a field waits for, until the rest is appended.
Counted == ~Done => \A i \in Index : pending[i] = Cardinality(Waits(i))

\* What is on the stack waits for nothing, and what waits for nothing is on it.
ReadyWaitNot ==
  \A i \in Index : (\E k \in DOMAIN ready : ready[k] = i) => Waits(i) = {}
WaitNotReady ==
  \A i \in Index \ placed : Waits(i) = {} => \E k \in DOMAIN ready : ready[k] = i

\* A field placed follows those it reads.
Followed ==
  \A k \in DOMAIN order, j \in Index :
    nodes[j].name \in Reads(order[k]) => \E m \in 1 .. k - 1 : order[m] = j

Scheduled ==
  DistinctNames => Counted /\ ReadyWaitNot /\ WaitNotReady /\ (Acyclic => Followed)

IInv == Typed /\ OrderIsPlaced /\ Scheduled

-----------------------------------------------------------------------------
(* Sets of indices, smallest first *)

(* Any set of naturals that is not empty has a least member. *)
LEMMA Least ==
  ASSUME NEW T \in SUBSET Nat, T # {}
  PROVE  \E m \in T : \A k \in T : m <= k
<1>1. PICK m \in T : \A k \in T : <<k, m>> \notin OpToRel(<, Nat)
  BY NatLessThanWellFounded, WFMin
<1>2. \A k \in T : ~(k < m)
  BY <1>1 DEF OpToRel
<1> QED
  BY <1>2

LEMMA Greatest ==
  ASSUME NEW N \in Nat, NEW T \in SUBSET (1 .. N), T # {}
  PROVE  \E m \in T : \A k \in T : k <= m
<1>1. {N - t : t \in T} \in SUBSET Nat /\ {N - t : t \in T} # {}
  <2>1. \A t \in T : t \in 1 .. N
    OBVIOUS
  <2>2. \A t \in T : N - t \in Nat
    BY <2>1
  <2> QED
    BY <2>2
<1>2. PICK d \in {N - t : t \in T} : \A e \in {N - t : t \in T} : d <= e
  BY <1>1, Least
<1>3. PICK m \in T : d = N - m
  BY <1>2
<1>4. \A k \in T : N - m <= N - k
  BY <1>2, <1>3
<1> QED
  BY <1>4

Sorted(S) ==
  {s \in [1 .. Cardinality(S) -> S] : \A j, k \in DOMAIN s : j < k => s[j] < s[k]}

LEMMA IndicesFinite ==
  ASSUME NEW N \in Nat, NEW T \in SUBSET (1 .. N)
  PROVE  IsFiniteSet(T) /\ Cardinality(T) \in Nat
<1>1. IsFiniteSet(1 .. N)
  BY FS_Interval
<1>2. IsFiniteSet(T)
  BY <1>1, FS_Subset
<1> QED
  BY <1>2, FS_CardinalityType

(* By the number of members: the greatest one goes last. *)
LEMMA Enumerated ==
  ASSUME NEW N \in Nat, NEW S \in SUBSET (1 .. N)
  PROVE  Sorted(S) # {}
<1> DEFINE Bad == {n \in Nat : \E T \in SUBSET (1 .. N) : Cardinality(T) = n /\ Sorted(T) = {}}
<1>1. \A T \in SUBSET (1 .. N) : IsFiniteSet(T) /\ Cardinality(T) \in Nat
  BY IndicesFinite
<1>2. SUFFICES ASSUME Bad # {} PROVE FALSE
  BY <1>1
<1>3. PICK n \in Bad : \A k \in Bad : n <= k
  BY <1>2, Least
<1>4. PICK T \in SUBSET (1 .. N) : Cardinality(T) = n /\ Sorted(T) = {}
  BY <1>3
<1>5. T # {}
  <2> SUFFICES ASSUME T = {} PROVE FALSE
    OBVIOUS
  <2>1. <<>> \in [1 .. 0 -> {}]
    OBVIOUS
  <2>2. <<>> \in Sorted(T)
    BY <1>1, FS_EmptySet, <2>1 DEF Sorted
  <2> QED
    BY <1>4, <2>2
<1>6. PICK m \in T : \A k \in T : k <= m
  BY <1>5, Greatest
<1>7. Cardinality(T \ {m}) = n - 1 /\ n - 1 \in Nat /\ n \in Nat
  <2>1. Cardinality(T \ {m}) = n - 1
    BY <1>1, <1>4, FS_RemoveElement
  <2> QED
    BY <1>1, <1>3, <2>1
<1>8. PICK s : s \in Sorted(T \ {m})
  <2>1. n - 1 \notin Bad
    BY <1>3, <1>7
  <2> QED
    BY <1>7, <2>1
<1> DEFINE t == [k \in 1 .. n |-> IF k = n THEN m ELSE s[k]]
<1>9. /\ s \in [1 .. n - 1 -> T \ {m}]
      /\ \A j, k \in 1 .. n - 1 : j < k => s[j] < s[k]
  BY <1>7, <1>8 DEF Sorted
<1>10. t \in [1 .. n -> T]
  BY <1>7, <1>9
<1>11. \A j, k \in 1 .. n : j < k => t[j] < t[k]
  <2> SUFFICES ASSUME NEW j \in 1 .. n, NEW k \in 1 .. n, j < k
               PROVE  t[j] < t[k]
    OBVIOUS
  <2>1. CASE k = n
    <3>1. j \in 1 .. n - 1
      BY <1>7, <2>1
    <3>2. s[j] \in T /\ s[j] # m
      BY <1>9, <3>1
    <3>3. s[j] <= m
      BY <1>6, <3>2
    <3>4. s[j] \in 1 .. N /\ m \in 1 .. N
      BY <3>2
    <3>5. t[j] = s[j] /\ t[k] = m
      BY <1>7, <2>1, <3>1
    <3> QED
      BY <3>2, <3>3, <3>4, <3>5
  <2>2. CASE k # n
    BY <1>7, <1>9, <2>2
  <2> QED
    BY <2>1, <2>2
<1>12. t \in Sorted(T)
  BY <1>4, <1>10, <1>11 DEF Sorted
<1> QED
  BY <1>4, <1>12

(* InOrder names every member once. *)
LEMMA InOrderFacts ==
  ASSUME FieldsTyped, NEW S \in SUBSET Index
  PROVE  /\ InOrder(S) \in Seq(S) /\ InOrder(S) \in Seq(Index)
         /\ S = {InOrder(S)[k] : k \in DOMAIN InOrder(S)}
         /\ \A j, k \in DOMAIN InOrder(S) : j # k => InOrder(S)[j] # InOrder(S)[k]
<1>1. Index = 1 .. Len(nodes) /\ Len(nodes) \in Nat
  BY DEF FieldsTyped, Index
<1>2. IsFiniteSet(S) /\ Cardinality(S) \in Nat
  BY <1>1, IndicesFinite
<1>3. \E s \in [1 .. Cardinality(S) -> S] : \A j, k \in DOMAIN s : j < k => s[j] < s[k]
  BY <1>1, Enumerated DEF Sorted
<1> DEFINE s == InOrder(S)
           n == Cardinality(S)
<1>4. s \in [1 .. n -> S] /\ \A j, k \in DOMAIN s : j < k => s[j] < s[k]
  BY <1>3 DEF InOrder
<1> HIDE DEF s
<1>5. \A j, k \in 1 .. n : j # k => s[j] # s[k]
  <2> SUFFICES ASSUME NEW j \in 1 .. n, NEW k \in 1 .. n, j # k
               PROVE  s[j] # s[k]
    OBVIOUS
  <2>1. s[j] \in S /\ s[k] \in S
    BY <1>4
  <2>2. \A i \in S : i \in Nat
    BY <1>1
  <2>3. s[j] \in Nat /\ s[k] \in Nat
    BY <2>1, <2>2
  <2>4. j < k \/ k < j
    BY <1>2
  <2> QED
    BY <1>4, <2>3, <2>4
<1>6. s \in Injection(1 .. n, S)
  BY <1>4, <1>5 DEF Injection, IsInjective
<1>7. Cardinality(1 .. n) = n
  BY <1>2, FS_Interval
<1>8. s \in Surjection(1 .. n, S)
  BY <1>2, <1>6, <1>7, FS_Injection
<1>9. S = {s[k] : k \in DOMAIN s}
  BY <1>4, <1>8 DEF Surjection
<1>10. s \in Seq(S) /\ s \in Seq(Index)
  BY <1>2, <1>4
<1> QED
  BY <1>4, <1>5, <1>9, <1>10 DEF s

-----------------------------------------------------------------------------
(* The stack and the order *)

LEMMA ReadsFinite ==
  ASSUME FieldsTyped, NEW i \in Index
  PROVE  IsFiniteSet(Reads(i)) /\ Cardinality(Reads(i)) \in Nat
<1>1. Index = 1 .. Len(nodes) /\ Len(nodes) \in Nat
  BY DEF FieldsTyped, Index
<1> DEFINE f == [k \in Index |-> nodes[k].name]
<1>2. f \in Surjection(Index, Held)
  BY DEF Surjection, Held
<1>3. IsFiniteSet(Held)
  BY <1>1, <1>2, FS_Interval, FS_Surjection
<1>4. IsFiniteSet(Reads(i))
  BY <1>3, FS_Subset DEF Reads
<1> QED
  BY <1>4, FS_CardinalityType

LEMMA Popped ==
  ASSUME Typed, ready # <<>>
  PROVE  /\ Len(ready) \in DOMAIN ready /\ Top \in Index
         /\ Below \in Seq(Index)
         /\ DOMAIN Below = DOMAIN ready \ {Len(ready)}
         /\ \A k \in DOMAIN Below : Below[k] = ready[k]
<1> USE DEF Typed
<1>1. Len(ready) \in Nat \ {0} /\ DOMAIN ready = 1 .. Len(ready)
  OBVIOUS
<1>2. Top \in Index
  BY <1>1 DEF Top
<1>3. Below = [k \in 1 .. Len(ready) - 1 |-> ready[k]]
  BY <1>1 DEF Below
<1> QED
  BY <1>1, <1>2, <1>3

\* What the stack holds after a field is placed.
LEMMA Pushed ==
  ASSUME Typed, ready # <<>>, NEW S \in SUBSET Index
  PROVE  LET r == Below \o InOrder(S)
         IN /\ r \in Seq(Index)
            /\ {r[k] : k \in DOMAIN r} = {Below[k] : k \in DOMAIN Below} \cup S
<1>1. Below \in Seq(Index)
  BY Popped
<1> DEFINE s == InOrder(S)
<1>2. s \in Seq(Index) /\ S = {s[k] : k \in DOMAIN s}
  BY InOrderFacts DEF Typed
<1> HIDE DEF s
<1> DEFINE b == Below
           r == b \o s
<1> HIDE DEF b
<1>3. r \in Seq(Index) /\ Len(r) = Len(b) + Len(s)
  BY <1>1, <1>2 DEF b
<1>4. /\ \A k \in 1 .. Len(b) : r[k] = b[k]
      /\ \A k \in 1 .. Len(s) : r[Len(b) + k] = s[k]
  BY <1>1, <1>2 DEF b
<1>5. \A k \in DOMAIN r : k \in 1 .. Len(b) \/ \E l \in 1 .. Len(s) : k = Len(b) + l
  <2> TAKE k \in DOMAIN r
  <2>1. k \in 1 .. Len(b) + Len(s) /\ Len(b) \in Nat /\ Len(s) \in Nat
    BY <1>1, <1>2, <1>3 DEF b
  <2>2. CASE k > Len(b)
    <3>1. k - Len(b) \in 1 .. Len(s) /\ k = Len(b) + (k - Len(b))
      BY <2>1, <2>2
    <3> QED
      BY <3>1
  <2> QED
    BY <2>1, <2>2
<1>6. DOMAIN b = 1 .. Len(b) /\ DOMAIN s = 1 .. Len(s) /\ DOMAIN r = 1 .. Len(b) + Len(s)
      /\ Len(b) \in Nat /\ Len(s) \in Nat
  BY <1>1, <1>2, <1>3 DEF b
<1>7. {r[k] : k \in DOMAIN r} = {b[k] : k \in DOMAIN b} \cup {s[k] : k \in DOMAIN s}
  <2> HIDE DEF r
  <2>1. ASSUME NEW k \in DOMAIN r
        PROVE  r[k] \in {b[l] : l \in DOMAIN b} \cup {s[l] : l \in DOMAIN s}
    BY <1>4, <1>5, <1>6, <2>1
  <2>2. ASSUME NEW k \in DOMAIN b PROVE \E l \in DOMAIN r : r[l] = b[k]
    BY <1>4, <1>6, <2>2
  <2>3. ASSUME NEW k \in DOMAIN s PROVE \E l \in DOMAIN r : r[l] = s[k]
    <3>1. Len(b) + k \in DOMAIN r
      BY <1>6, <2>3
    <3> QED
      BY <1>4, <1>6, <2>3, <3>1
  <2> QED
    BY <2>1, <2>2, <2>3
<1> QED
  BY <1>2, <1>3, <1>7 DEF b, s

-----------------------------------------------------------------------------
(* The invariant *)

LEMMA InitInvariant == Init => IInv
<1> SUFFICES ASSUME Init PROVE IInv
  OBVIOUS
<1>1. FieldsTyped
  BY StructsTyped DEF Init, Index, FieldsTyped
<1> DEFINE first == {i \in Index : Reads(i) = {}}
<1>2. /\ ready \in Seq(first)
      /\ first = {ready[k] : k \in DOMAIN ready}
  <2>1. first \in SUBSET Index
    OBVIOUS
  <2>2. ready = InOrder(first)
    BY DEF Init
  <2> HIDE DEF first
  <2> QED
    BY <1>1, <2>1, <2>2, InOrderFacts
<1>3. Typed
  <2>1. pending \in [Index -> Nat]
    BY <1>1, ReadsFinite DEF Init
  <2>2. ready \in Seq(Index)
    BY <1>2
  <2>3. order \in Seq(Index)
    BY DEF Init
  <2> QED
    BY <1>1, <2>1, <2>2, <2>3 DEF Typed
<1>4. OrderIsPlaced
  BY DEF Init, OrderIsPlaced
<1>5. \A i \in Index : Waits(i) = Reads(i)
  BY DEF Init, Waits
<1>6. Scheduled
  <2>1. Counted
    BY <1>5 DEF Init, Counted
  <2>2. ReadyWaitNot /\ WaitNotReady
    BY <1>2, <1>5 DEF ReadyWaitNot, WaitNotReady
  <2>3. Followed
    BY DEF Init, Followed
  <2> QED
    BY <2>1, <2>2, <2>3 DEF Scheduled
<1> QED
  BY <1>3, <1>4, <1>6 DEF IInv

LEMMA SkipInvariant ==
  ASSUME IInv, Skip
  PROVE  IInv'
<1>1. Typed /\ OrderIsPlaced /\ Scheduled
  BY DEF IInv
<1>2. /\ ready' = Below /\ Top \in placed /\ ready # <<>>
      /\ UNCHANGED <<nodes, deps, pending, placed, order>>
  BY DEF Skip
<1>3. /\ Index' = Index /\ DistinctNames' = DistinctNames /\ Acyclic' = Acyclic
      /\ \A i : Reads(i)' = Reads(i) /\ Waits(i)' = Waits(i)
  BY <1>2 DEF Index, DistinctNames, Acyclic, Reads, Held, Waits
<1>4. Typed'
  BY <1>1, <1>2, <1>3, Popped DEF Typed, FieldsTyped
<1>5. OrderIsPlaced'
  BY <1>1, <1>2 DEF OrderIsPlaced
<1>6. ASSUME DistinctNames
      PROVE  Counted' /\ ReadyWaitNot' /\ WaitNotReady' /\ (Acyclic => Followed')
  <2>1. Counted /\ ReadyWaitNot /\ WaitNotReady /\ (Acyclic => Followed)
    BY <1>1, <1>6 DEF Scheduled
  <2>2. Counted'
    BY <1>2, <1>3, <2>1 DEF Counted, Done
  <2>3. ReadyWaitNot'
    BY <1>1, <1>2, <1>3, <2>1, Popped DEF ReadyWaitNot
  <2>4. WaitNotReady'
    <3> SUFFICES ASSUME NEW i \in Index \ placed, Waits(i) = {}
                 PROVE  \E k \in DOMAIN Below : Below[k] = i
      BY <1>2, <1>3 DEF WaitNotReady
    <3>1. PICK k \in DOMAIN ready : ready[k] = i
      BY <2>1 DEF WaitNotReady
    <3>2. k # Len(ready)
      BY <1>2, <3>1 DEF Top
    <3> QED
      BY <1>1, <1>2, <3>1, <3>2, Popped
  <2>5. Acyclic => Followed'
    BY <1>2, <1>3, <2>1 DEF Followed
  <2> QED
    BY <2>2, <2>3, <2>4, <2>5
<1> QED
  BY <1>3, <1>4, <1>5, <1>6 DEF IInv, Scheduled

LEMMA PlaceInvariant ==
  ASSUME IInv, Place
  PROVE  IInv'
<1> DEFINE name == nodes[Top].name
           left == {i \in Readers(name) : pending'[i] = 0}
<1>1. Typed /\ OrderIsPlaced /\ Scheduled
  BY DEF IInv
<1>2. /\ ready # <<>> /\ Top \notin placed
      /\ placed' = placed \cup {Top}
      /\ order' = Append(order, Top)
      /\ pending' = [i \in Index |-> IF i \in Readers(name) /\ pending[i] > 0
                                     THEN pending[i] - 1 ELSE pending[i]]
      /\ ready' = Below \o InOrder(left)
      /\ nodes' = nodes /\ deps' = deps
  BY DEF Place
<1> HIDE DEF name, left
<1>3. /\ Index' = Index /\ DistinctNames' = DistinctNames /\ Acyclic' = Acyclic
      /\ \A i : Reads(i)' = Reads(i)
  BY <1>2 DEF Index, DistinctNames, Acyclic, Reads, Held
<1>4. Len(ready) \in DOMAIN ready /\ Top = ready[Len(ready)] /\ Top \in Index
  BY <1>1, <1>2, Popped DEF Top
<1>5. left \in SUBSET Index
  BY DEF left, Readers
<1>6. /\ ready' \in Seq(Index)
      /\ {ready'[k] : k \in DOMAIN ready'} = {Below[k] : k \in DOMAIN Below} \cup left
  BY <1>1, <1>2, <1>5, Pushed
<1>7. /\ order \in Seq(Index) /\ order' \in Seq(Index)
      /\ DOMAIN order = 1 .. Len(order) /\ DOMAIN order' = 1 .. Len(order) + 1 /\ Len(order) \in Nat
      /\ order'[Len(order) + 1] = Top
      /\ \A k \in 1 .. Len(order) : order'[k] = order[k]
  BY <1>1, <1>2, <1>4 DEF Typed
<1>8. Typed'
  <2>1. pending' \in [Index -> Nat]
    BY <1>1, <1>2 DEF Typed
  <2> QED
    BY <1>1, <1>2, <1>3, <1>6, <1>7, <2>1 DEF Typed, FieldsTyped
<1>9. OrderIsPlaced'
  <2>1. \A k \in 1 .. Len(order) : order[k] \in placed
    BY <1>1, <1>7 DEF OrderIsPlaced
  <2>2. placed' = {order'[k] : k \in DOMAIN order'}
    BY <1>1, <1>2, <1>7 DEF OrderIsPlaced
  <2>3. \A j, k \in DOMAIN order' : j # k => order'[j] # order'[k]
    BY <1>1, <1>2, <1>7, <2>1 DEF OrderIsPlaced
  <2> QED
    BY <2>2, <2>3 DEF OrderIsPlaced
<1>10. ASSUME DistinctNames
       PROVE  Counted' /\ ReadyWaitNot' /\ WaitNotReady' /\ (Acyclic => Followed')
  <2>1. Counted /\ ReadyWaitNot /\ WaitNotReady /\ (Acyclic => Followed)
    BY <1>1, <1>10 DEF Scheduled
  <2>2. \A i \in Index : Waits(i)' = Waits(i) \ {name}
    BY <1>2, <1>3 DEF Waits, name
  <2>3. \A i \in Index : i \in Readers(name) <=> name \in Reads(i)
    BY DEF Readers
  <2>4. \A j \in placed : nodes[j].name # name
    <3>1. placed \subseteq Index
      BY <1>1, <1>7 DEF OrderIsPlaced
    <3> QED
      BY <1>2, <1>4, <1>10, <3>1 DEF DistinctNames, name
  <2>5. \A i \in Index : name \in Waits(i) <=> i \in Readers(name)
    BY <2>3, <2>4 DEF Waits
  <2>6. \A i \in Index : /\ IsFiniteSet(Waits(i)) /\ Cardinality(Waits(i)) \in Nat
                         /\ pending[i] = Cardinality(Waits(i))
    <3> TAKE i \in Index
    <3>1. IsFiniteSet(Reads(i)) /\ Waits(i) \in SUBSET Reads(i)
      BY <1>1, ReadsFinite DEF Typed, Waits
    <3>2. IsFiniteSet(Waits(i))
      BY <3>1, FS_Subset
    <3> QED
      BY <1>2, <2>1, <3>2, FS_CardinalityType DEF Counted, Done
  <2>7. \A i \in Index : pending'[i] = Cardinality(Waits(i)')
    <3> TAKE i \in Index
    <3>1. CASE i \in Readers(name)
      <4>1. Cardinality(Waits(i) \ {name}) = Cardinality(Waits(i)) - 1
        BY <2>5, <2>6, <3>1, FS_RemoveElement
      <4>2. Cardinality(Waits(i)) # 0
        BY <2>5, <2>6, <3>1, FS_EmptySet
      <4>3. pending'[i] = pending[i] - 1
        BY <1>2, <2>6, <3>1, <4>2
      <4>4. Waits(i)' = Waits(i) \ {name}
        BY <2>2
      <4> QED
        BY <2>6, <4>1, <4>3, <4>4
    <3>2. CASE i \notin Readers(name)
      <4>1. Waits(i)' = Waits(i)
        BY <2>2, <2>5, <3>2
      <4> QED
        BY <1>2, <2>6, <3>2, <4>1
    <3> QED
      BY <3>1, <3>2
  <2>8. \A i \in Index : pending'[i] = 0 <=> Waits(i)' = {}
    <3> TAKE i \in Index
    <3>1. IsFiniteSet(Waits(i)')
      BY <2>2, <2>6, FS_RemoveElement
    <3> QED
      BY <2>7, <3>1, FS_EmptySet
  <2>9. Counted'
    BY <1>3, <2>7 DEF Counted
  <2>10. ReadyWaitNot'
    <3> SUFFICES ASSUME NEW i \in Index, i \in {ready'[k] : k \in DOMAIN ready'}
                 PROVE  Waits(i)' = {}
      BY <1>3 DEF ReadyWaitNot
    <3>1. CASE i \in left
      BY <2>8, <3>1 DEF left
    <3>2. CASE i \in {Below[l] : l \in DOMAIN Below}
      <4>1. PICK l \in DOMAIN ready : i = ready[l]
        BY <1>1, <1>2, <3>2, Popped
      <4>2. Waits(i) = {}
        BY <2>1, <4>1 DEF ReadyWaitNot
      <4> QED
        BY <2>2, <4>2
    <3> QED
      BY <1>6, <3>1, <3>2
  <2>11. WaitNotReady'
    <3> SUFFICES ASSUME NEW i \in Index, i \notin placed, i # Top, Waits(i)' = {}
                 PROVE  i \in {ready'[k] : k \in DOMAIN ready'}
      BY <1>2, <1>3 DEF WaitNotReady
    <3>1. CASE i \in Readers(name)
      BY <1>6, <2>8, <3>1 DEF left
    <3>2. CASE i \notin Readers(name)
      <4>1. Waits(i) = {}
        BY <2>2, <2>5, <3>2
      <4>2. PICK k \in DOMAIN ready : ready[k] = i
        BY <2>1, <4>1 DEF WaitNotReady
      <4>3. k \in DOMAIN Below /\ Below[k] = i
        BY <1>1, <1>2, <1>4, <4>2, Popped
      <4> QED
        BY <1>6, <4>3
    <3> QED
      BY <3>1, <3>2
  <2>12. ASSUME Acyclic PROVE Followed'
    <3> SUFFICES ASSUME NEW k \in 1 .. Len(order) + 1, NEW j \in Index,
                        nodes[j].name \in Reads(order'[k])
                 PROVE  \E m \in 1 .. k - 1 : order'[m] = j
      BY <1>2, <1>3, <1>7 DEF Followed
    <3>1. CASE k \in 1 .. Len(order)
      <4>1. PICK m \in 1 .. k - 1 : order[m] = j
        BY <1>7, <2>1, <2>12, <3>1 DEF Followed
      <4> QED
        BY <1>7, <3>1, <4>1
    <3>2. CASE k = Len(order) + 1
      <4>1. nodes[j].name \in Reads(Top) /\ Waits(Top) = {}
        BY <1>4, <1>7, <2>1, <3>2 DEF ReadyWaitNot
      <4>2. PICK l \in placed : nodes[l].name = nodes[j].name
        BY <4>1 DEF Waits
      <4>3. PICK m \in 1 .. Len(order) : order[m] = l
        BY <1>1, <1>7, <4>2 DEF OrderIsPlaced
      <4>4. l = j
        BY <1>7, <1>10, <4>2, <4>3 DEF DistinctNames
      <4> QED
        BY <1>7, <3>2, <4>3, <4>4
    <3> QED
      BY <1>7, <3>1, <3>2
  <2> QED
    BY <2>9, <2>10, <2>11, <2>12
<1> QED
  BY <1>3, <1>8, <1>9, <1>10 DEF IInv, Scheduled

LEMMA AppendRestInvariant ==
  ASSUME IInv, AppendRest
  PROVE  IInv'
<1> DEFINE rest == InOrder(Index \ placed)
<1>1. Typed /\ OrderIsPlaced /\ Scheduled
  BY DEF IInv
<1>2. /\ ready = <<>> /\ placed # Index /\ placed' = Index
      /\ order' = order \o rest
      /\ UNCHANGED <<nodes, deps, pending, ready>>
  BY DEF AppendRest
<1>3. /\ Index' = Index /\ DistinctNames' = DistinctNames /\ Acyclic' = Acyclic
      /\ \A i : Reads(i)' = Reads(i)
  BY <1>2 DEF Index, DistinctNames, Acyclic, Reads, Held
<1>4. /\ rest \in Seq(Index)
      /\ Index \ placed = {rest[k] : k \in DOMAIN rest}
      /\ \A j, k \in DOMAIN rest : j # k => rest[j] # rest[k]
  BY <1>1, InOrderFacts DEF Typed
<1> HIDE DEF rest
<1> DEFINE n == Len(order)
           m == Len(rest)
<1>5. /\ n \in Nat /\ m \in Nat /\ order' \in Seq(Index)
      /\ DOMAIN order = 1 .. n /\ DOMAIN rest = 1 .. m /\ DOMAIN order' = 1 .. n + m
      /\ \A k \in 1 .. n : order'[k] = order[k]
      /\ \A k \in n + 1 .. n + m : k - n \in 1 .. m /\ order'[k] = rest[k - n]
      /\ \A k \in 1 .. m : n + k \in n + 1 .. n + m /\ order'[n + k] = rest[k]
  BY <1>1, <1>2, <1>4 DEF Typed
<1> HIDE DEF n, m
<1>6. placed = {order[k] : k \in 1 .. n} /\ placed \subseteq Index
  <2>1. \A k \in 1 .. n : order[k] \in Index
    BY <1>1, <1>5 DEF Typed
  <2> QED
    BY <1>1, <1>5, <2>1 DEF OrderIsPlaced
<1>7. Typed'
  BY <1>1, <1>2, <1>3, <1>5 DEF Typed, FieldsTyped
<1>8. OrderIsPlaced'
  <2>1. \A k \in 1 .. n + m : k \in 1 .. n \/ k \in n + 1 .. n + m
    BY <1>5
  <2>2. ASSUME NEW i \in Index PROVE \E k \in 1 .. n + m : order'[k] = i
    <3>1. CASE i \in placed
      BY <1>5, <1>6, <3>1
    <3>2. CASE i \notin placed
      BY <1>4, <1>5, <3>2
    <3> QED
      BY <3>1, <3>2
  <2>3. ASSUME NEW j \in 1 .. n + m, NEW k \in 1 .. n + m, j # k
        PROVE  order'[j] # order'[k]
    <3>1. \A l \in 1 .. n : order'[l] \in placed
      BY <1>5, <1>6
    <3>2. \A l \in n + 1 .. n + m : order'[l] \notin placed
      BY <1>4, <1>5
    <3>3. CASE j \in 1 .. n /\ k \in 1 .. n
      BY <1>1, <1>5, <2>3, <3>3 DEF OrderIsPlaced
    <3>4. CASE j \in n + 1 .. n + m /\ k \in n + 1 .. n + m
      <4>1. j - n \in DOMAIN rest /\ k - n \in DOMAIN rest /\ j - n # k - n
        BY <1>5, <2>3, <3>4
      <4>2. rest[j - n] # rest[k - n]
        BY <1>4, <4>1
      <4> QED
        BY <1>5, <3>4, <4>2
    <3>5. CASE j \in 1 .. n /\ k \in n + 1 .. n + m
      <4>1. order'[j] \in placed /\ order'[k] \notin placed
        BY <3>1, <3>2, <3>5
      <4> QED
        BY <4>1
    <3>6. CASE j \in n + 1 .. n + m /\ k \in 1 .. n
      <4>1. order'[j] \notin placed /\ order'[k] \in placed
        BY <3>1, <3>2, <3>6
      <4> QED
        BY <4>1
    <3> QED
      BY <2>1, <3>3, <3>4, <3>5, <3>6
  <2>4. \A k \in 1 .. n + m : order'[k] \in Index
    BY <1>5
  <2>5. Index = {order'[k] : k \in 1 .. n + m}
    BY <2>2, <2>4
  <2>6. DOMAIN order' = 1 .. n + m /\ placed' = Index
    BY <1>2, <1>5
  <2>7. placed' = {order'[k] : k \in DOMAIN order'}
    BY <2>5, <2>6
  <2>8. \A j, k \in DOMAIN order' : j # k => order'[j] # order'[k]
    BY <2>3, <2>6
  <2> QED
    BY <2>7, <2>8 DEF OrderIsPlaced
<1>9. ASSUME DistinctNames
      PROVE  Counted' /\ ReadyWaitNot' /\ WaitNotReady' /\ (Acyclic => Followed')
  <2>1. Counted' /\ ReadyWaitNot' /\ WaitNotReady'
    BY <1>2, <1>3 DEF Counted, Done, ReadyWaitNot, WaitNotReady
  <2>2. ASSUME Acyclic PROVE FALSE
    <3>1. PICK i \in Index \ placed : \A j \in Index \ placed : nodes[j].name \notin Reads(i)
      BY <1>2, <1>6, <2>2 DEF Acyclic
    <3>2. \A x \in Reads(i) : \E j \in Index : nodes[j].name = x
      BY DEF Reads, Held
    <3>3. Waits(i) = {}
      BY <3>1, <3>2 DEF Waits
    <3> QED
      BY <1>1, <1>2, <1>9, <3>1, <3>3 DEF Scheduled, WaitNotReady
  <2> QED
    BY <2>1, <2>2
<1> QED
  BY <1>3, <1>7, <1>8, <1>9 DEF IInv, Scheduled

LEMMA Inductive == Spec => []IInv
<1>1. Init => IInv
  BY InitInvariant
<1>2. IInv /\ [Next]_vars => IInv'
  <2> SUFFICES ASSUME IInv, [Next]_vars PROVE IInv'
    OBVIOUS
  <2>1. CASE Skip
    BY <2>1, SkipInvariant
  <2>2. CASE Place
    BY <2>2, PlaceInvariant
  <2>3. CASE AppendRest
    BY <2>3, AppendRestInvariant
  <2>4. CASE UNCHANGED vars
    <3>1. UNCHANGED <<nodes, deps, pending, ready, placed, order>>
      BY <2>4 DEF vars
    <3>2. /\ Index' = Index /\ DistinctNames' = DistinctNames /\ Acyclic' = Acyclic
          /\ Done' = Done /\ \A i : Reads(i)' = Reads(i)
      BY <3>1 DEF Index, DistinctNames, Acyclic, Done, Reads, Held
    <3>3. \A i : Waits(i)' = Waits(i)
      BY <3>1, <3>2 DEF Waits
    <3>4. Typed'
      BY <3>1, <3>2 DEF IInv, Typed, FieldsTyped
    <3>5. OrderIsPlaced'
      BY <3>1 DEF IInv, OrderIsPlaced
    <3>6. Scheduled'
      BY <3>1, <3>2, <3>3 DEF IInv, Scheduled, Counted, ReadyWaitNot, WaitNotReady, Followed
    <3> QED
      BY <3>4, <3>5, <3>6 DEF IInv
  <2> QED
    BY <2>1, <2>2, <2>3, <2>4 DEF Next, Ended
<1> QED
  BY <1>1, <1>2, PTL DEF Spec

-----------------------------------------------------------------------------
(* For any struct, cycles and names shared by its maps included, the order  *)
(* of derivation_order (schedule/order.rs) names no field twice and, when   *)
(* the stack has run dry and the rest is appended, leaves none out.         *)
THEOREM OnceEach == Spec => []EachFieldOnce
<1>1. IInv => EachFieldOnce
  BY DEF IInv, OrderIsPlaced, EachFieldOnce, Done
<1> QED
  BY <1>1, Inductive, PTL

(* For any struct without a cycle whose fields have distinct names, each    *)
(* field comes after all it reads: counting reads by name and counting them *)
(* off by field agree, so the stack runs dry only when every field is       *)
(* placed, and one sweep carries a change the whole length of a chain.      *)
THEOREM ReadersLast == Spec => []ReadersAfterWhatTheyRead
<1>1. IInv => ReadersAfterWhatTheyRead
  <2> SUFFICES ASSUME IInv, Done, Acyclic, DistinctNames,
                      NEW i \in Index, NEW j \in Index, nodes[j].name \in Reads(i)
               PROVE  Position(j) < Position(i)
    BY DEF ReadersAfterWhatTheyRead
  <2>1. DOMAIN order = 1 .. Len(order) /\ Len(order) \in Nat
    BY DEF IInv, Typed
  <2>2. /\ Followed
        /\ \A k \in DOMAIN order, l \in DOMAIN order : order[k] = order[l] => k = l
        /\ \A l \in Index : \E k \in DOMAIN order : order[k] = l
    BY DEF IInv, Scheduled, OrderIsPlaced, Done
  <2>3. \A l \in Index : /\ Position(l) \in DOMAIN order /\ order[Position(l)] = l
                         /\ \A k \in DOMAIN order : order[k] = l => Position(l) = k
    BY <2>2 DEF Position
  <2>4. PICK m \in 1 .. Position(i) - 1 : order[m] = j
    BY <2>2, <2>3 DEF Followed
  <2>5. m \in DOMAIN order /\ m < Position(i)
    BY <2>1, <2>3, <2>4
  <2> QED
    BY <2>3, <2>4, <2>5
<1> QED
  BY <1>1, Inductive, PTL
=============================================================================
