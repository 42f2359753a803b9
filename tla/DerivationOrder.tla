-------------------------- MODULE DerivationOrder --------------------------
(***************************************************************************)
(* schedule/order.rs: the order to derive a struct's fields in, a field    *)
(* after the fields it reads, computed with counts of unplaced reads and a *)
(* stack of fields that are ready.  A struct keeps its fields in three     *)
(* maps, and readers know what they read by name alone.                    *)
(***************************************************************************)
EXTENDS Naturals, Sequences, FiniteSets

CONSTANTS
  Sections,   \* the maps of a struct
  Names,      \* field names, with their sigil
  Structs     \* records [nodes, deps]: the fields, and the names each reads

ASSUME StructsTyped ==
  \A s \in Structs : /\ s.nodes \in Seq([section : Sections, name : Names])
                     /\ s.deps \in [DOMAIN s.nodes -> SUBSET Names]

VARIABLES
  nodes,     \* the fields: sequence of [section, name], no two alike
  deps,      \* deps[i]: the names the conjuncts of nodes[i] read
  pending,   \* pending[i]: reads of nodes[i] not counted off yet
  ready,     \* stack of indices
  placed,    \* indices in the order
  order      \* the order so far, as indices

vars == <<nodes, deps, pending, ready, placed, order>>

Index == DOMAIN nodes
Held == {nodes[i].name : i \in Index}

\* What nodes[i] waits for; a recipe that reads its own field does not.
Reads(i) == (deps[i] \cap Held) \ {nodes[i].name}

Readers(name) == {i \in Index : name \in Reads(i)}

\* The members of a set of indices, smallest first.
InOrder(S) ==
  CHOOSE s \in [1 .. Cardinality(S) -> S] : \A j, k \in DOMAIN s : j < k => s[j] < s[k]

Init ==
  /\ \E s \in Structs : nodes = s.nodes /\ deps = s.deps
  /\ pending = [i \in Index |-> Cardinality(Reads(i))]
  /\ ready = InOrder({i \in Index : Reads(i) = {}})
  /\ placed = {}
  /\ order = <<>>

Top == ready[Len(ready)]
Below == SubSeq(ready, 1, Len(ready) - 1)

\* The stack may name a field twice; the second time it is skipped.
Skip ==
  /\ ready # <<>> /\ Top \in placed
  /\ ready' = Below
  /\ UNCHANGED <<nodes, deps, pending, placed, order>>

(* Fault: a reader becomes ready with its first read. *)
PlaceEarly ==
  /\ ready # <<>> /\ Top \notin placed
  /\ placed' = placed \cup {Top}
  /\ order' = Append(order, Top)
  /\ LET readers == Readers(nodes[Top].name)
     IN /\ pending' = [i \in Index |-> IF i \in readers /\ pending[i] > 0
                                       THEN pending[i] - 1 ELSE pending[i]]
        /\ ready' = Below \o InOrder(readers)
  /\ UNCHANGED <<nodes, deps>>

(* Fault: the stack is not checked for a field already placed. *)
PlaceAgain ==
  /\ ready # <<>>
  /\ placed' = placed \cup {Top}
  /\ order' = Append(order, Top)
  /\ LET readers == Readers(nodes[Top].name)
     IN /\ pending' = [i \in Index |-> IF i \in readers /\ pending[i] > 0
                                       THEN pending[i] - 1 ELSE pending[i]]
        /\ ready' = Below \o InOrder({i \in readers : pending'[i] = 0})
  /\ UNCHANGED <<nodes, deps>>

Place ==
  /\ ready # <<>> /\ Top \notin placed
  /\ placed' = placed \cup {Top}
  /\ order' = Append(order, Top)
  /\ LET readers == Readers(nodes[Top].name)
     IN /\ pending' = [i \in Index |-> IF i \in readers /\ pending[i] > 0
                                       THEN pending[i] - 1 ELSE pending[i]]
        /\ ready' = Below \o InOrder({i \in readers : pending'[i] = 0})
  /\ UNCHANGED <<nodes, deps>>

\* Fields on a cycle, and readers of one, go last, as they stand.
AppendRest ==
  /\ ready = <<>> /\ placed # Index
  /\ placed' = Index
  /\ order' = order \o InOrder(Index \ placed)
  /\ UNCHANGED <<nodes, deps, pending, ready>>

Done == ready = <<>> /\ placed = Index
Ended == Done /\ UNCHANGED vars

Next == Skip \/ Place \/ AppendRest \/ Ended

Spec == Init /\ [][Next]_vars

-----------------------------------------------------------------------------
(***************************************************************************)
(* The order holds every field of the struct once: a field it missed would *)
(* keep a stale value, one it repeated would be derived twice a sweep.     *)
(***************************************************************************)
EachFieldOnce ==
  /\ \A j, k \in DOMAIN order : j # k => order[j] # order[k]
  /\ Done => {order[k] : k \in DOMAIN order} = Index

\* No field waits, through any number of fields, for itself: among any of
\* them is one that reads none of them.
Acyclic ==
  \A S \in (SUBSET Index) \ {{}} :
    \E i \in S : \A j \in S : nodes[j].name \notin Reads(i)

DistinctNames == \A i, j \in Index : nodes[i].name = nodes[j].name => i = j

Position(i) == CHOOSE k \in DOMAIN order : order[k] = i

(***************************************************************************)
(* "A field after the fields it reads, so one sweep carries a change the   *)
(* whole length of a chain" - when no two sections hold one name. Reads    *)
(* are counted by name and counted off by field, so a quoted "#e" beside   *)
(* the definition #e counts off a reader of #e twice, and that reader can  *)
(* come before another field it reads.                                     *)
(***************************************************************************)
ReadersAfterWhatTheyRead ==
  Done /\ Acyclic /\ DistinctNames =>
    \A i, j \in Index : nodes[j].name \in Reads(i) => Position(j) < Position(i)
=============================================================================
