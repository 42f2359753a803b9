------------------------------ MODULE ValueArena ------------------------------
(***************************************************************************)
(* The central arena of crates/cue-eval/src/value.rs: every value node the *)
(* evaluator makes, the sparse metadata of the nodes that have some, the   *)
(* text index that shares equal strings, and the trail that lets a         *)
(* disjunction branch be tried and taken back.                             *)
(*                                                                         *)
(* A payload is abstracted to what the arena itself looks at: its variant, *)
(* the text of a string or the truth of a boolean, and the nodes it refers *)
(* to.  ValueIds are slotmap keys: a removed key is never handed out       *)
(* again, so ids are drawn from a counter.                                 *)
(*                                                                         *)
(* The callers' checkpoints live on their call stack, here `open`: each    *)
(* speculate is closed by exactly one commit_speculation or rollback with  *)
(* the checkpoint it returned (unify.rs 1474-1494 and 1504-1523).          *)
(*                                                                         *)
(* The arena mutates a node whenever it is asked to.  That nobody asks     *)
(* while a scope is open is a habit of its callers, and an assumption of   *)
(* Spec; AnyCaller does without it.                                        *)
(***************************************************************************)
EXTENDS Naturals, Sequences, FiniteSets

CONSTANTS
  Texts,     \* contents a string node may have
  NoText,    \* what stands for the text of a node that is not a string
  NoId,      \* Option<ValueId>::None
  MaxNodes,  \* bound: nodes ever allocated
  MaxScopes, \* bound: nesting of speculation scopes
  MaxRefs    \* bound: references one payload holds

ASSUME NoTextAssumption == NoText \notin Texts \cup BOOLEAN
ASSUME NoIdAssumption == NoId \notin Nat
ASSUME BoundsAssumption == MaxNodes \in Nat /\ MaxScopes \in Nat /\ MaxRefs \in Nat

VARIABLES
  nodes,             \* live nodes: ValueId -> payload
  metadata,          \* sparse: ValueId -> what the node retains
  trail,             \* ids allocated, oldest first, while they can roll back
  speculation_depth, \* live `speculate` scopes
  booleans,          \* weak ids of the shared booleans
  strings,           \* text -> the node shared for it
  nextId,            \* slotmap's next key
  open               \* trail_len of the callers' open checkpoints

vars == <<nodes, metadata, trail, speculation_depth, booleans, strings, nextId, open>>

-------------------------------------------------------------------------------
Live == DOMAIN nodes

(* The arena tells structs from the other composites (a metadata owner's   *)
(* fields must be one); placeholders, choices, lists, bounds and the rest  *)
(* are nodes with references.                                              *)
CompositeKinds == {"struct", "other"}
Kinds == {"string", "bool"} \cup CompositeKinds

StringValue(s) == [kind |-> "string", data |-> s, refs |-> {}]
BoolValue(b) == [kind |-> "bool", data |-> b, refs |-> {}]
Composite(k, R) == [kind |-> k, data |-> NoText, refs |-> R]

RefSets(ids) == {R \in SUBSET ids : Cardinality(R) <= MaxRefs}

(* The payloads a caller holding the handles `ids` can build. *)
Payloads(ids) ==
  {StringValue(s) : s \in Texts} \cup {BoolValue(b) : b \in BOOLEAN}
    \cup {Composite(k, R) : k \in CompositeKinds, R \in RefSets(ids)}

Structs == {id \in Live : nodes[id].kind = "struct"}

Put(f, x, y) == [z \in DOMAIN f \cup {x} |-> IF z = x THEN y ELSE f[z]]
Drop(f, S) == [z \in DOMAIN f \ S |-> f[z]]

-------------------------------------------------------------------------------
Init == /\ nodes = << >>
        /\ metadata = << >>
        /\ trail = << >>
        /\ speculation_depth = 0
        /\ booleans = [b \in BOOLEAN |-> NoId]
        /\ strings = << >>
        /\ nextId = 1
        /\ open = << >>

(* alloc: always a fresh node, and always on the trail. *)
Insert(v) == /\ nextId <= MaxNodes
             /\ nodes' = Put(nodes, nextId, v)
             /\ trail' = Append(trail, nextId)
             /\ nextId' = nextId + 1

Alloc(v) == /\ Insert(v)
            /\ UNCHANGED <<metadata, speculation_depth, booleans, strings, open>>

(* Fault: metadata attached to the shared boolean instead of a fresh one.  *)
AnnotateShared(v, fields, conjuncts) ==
  /\ fields \in Structs
  /\ v.kind = "bool" /\ booleans[v.data] \in Live
  /\ metadata' = Put(metadata, booleans[v.data],
                     [fields |-> fields, conjuncts |-> conjuncts])
  /\ UNCHANGED <<nodes, trail, nextId, speculation_depth, booleans, strings, open>>

AllocWithMetadata(v, fields, conjuncts) ==
  /\ fields \in Structs
  /\ Insert(v)
  /\ metadata' = Put(metadata, nextId, [fields |-> fields, conjuncts |-> conjuncts])
  /\ UNCHANGED <<speculation_depth, booleans, strings, open>>

(* A transformed payload keeps the metadata of the value it came from. *)
AllocLike(source, v) ==
  /\ Insert(v)
  /\ metadata' = IF source \in DOMAIN metadata
                   THEN Put(metadata, nextId, metadata[source])
                   ELSE metadata
  /\ UNCHANGED <<speculation_depth, booleans, strings, open>>

(* bool: the cached id is weak, so its payload is looked at before it is   *)
(* shared; a miss allocates and caches.                                    *)
BoolHit(b) == booleans[b] \in Live /\ nodes[booleans[b]] = BoolValue(b)

BoolOf(b) == /\ ~ BoolHit(b)
             /\ Insert(BoolValue(b))
             /\ booleans' = [booleans EXCEPT ![b] = nextId]
             /\ UNCHANGED <<metadata, speculation_depth, strings, open>>

(* string: the index holds only live, unmodified nodes, so a hit is        *)
(* returned as it is.  Only a miss changes the arena.                      *)
StringOf(s) == /\ s \notin DOMAIN strings
               /\ Insert(StringValue(s))
               /\ strings' = Put(strings, s, nextId)
               /\ UNCHANGED <<metadata, speculation_depth, booleans, open>>

(* get_mut and the write through it.  The string index forgets the node    *)
(* first.  Every mutation in the crate keeps the payload's variant.        *)
Mutate(id, v) ==
  /\ v.kind = nodes[id].kind
  /\ nodes' = [nodes EXCEPT ![id] = v]
  /\ strings' = Drop(strings, {s \in DOMAIN strings :
                                 /\ nodes[id] = StringValue(s)
                                 /\ strings[s] = id})
  /\ UNCHANGED <<metadata, trail, speculation_depth, booleans, nextId, open>>

(* Callers mutate from the evaluator only (relaxation.rs 660, annotate.rs  *)
(* 21), and it is not running while a branch is tried: what tries one has  *)
(* the arena and no evaluator to call.                                     *)
EvaluatorRuns == open = << >>

Speculate ==
  /\ Len(open) < MaxScopes
  /\ speculation_depth' = speculation_depth + 1
  /\ open' = Append(open, Len(trail))
  /\ UNCHANGED <<nodes, metadata, trail, booleans, strings, nextId>>

(* commit_speculation's effect on the trail `t`: with no scope left it is  *)
(* released whole.                                                         *)
Saturating(n) == IF n = 0 THEN 0 ELSE n - 1
ReleasedByAnyScope(t) == << >>  \* Fault: an inner commit empties the trail.
Released(t) == IF Saturating(speculation_depth) = 0 THEN << >> ELSE t

CloseScope(t) == /\ open # << >>
                 /\ open' = SubSeq(open, 1, Len(open) - 1)
                 /\ speculation_depth' = Saturating(speculation_depth)
                 /\ trail' = Released(t)

(* Fault: a commit takes the nodes of its scope off the trail, as if no    *)
(* scope around it could still be rolled back.                             *)
CommitForgetting == /\ open # << >>
                    /\ CloseScope(SubSeq(trail, 1, open[Len(open)]))
                    /\ UNCHANGED <<nodes, metadata, booleans, strings, nextId>>

CommitSpeculation == /\ CloseScope(trail)
                     /\ UNCHANGED <<nodes, metadata, booleans, strings, nextId>>

(* rollback: pop the trail down to the checkpoint, removing each node, its *)
(* metadata and the index entry it owns, then close the scope.             *)
Since(checkpoint) == {trail[i] : i \in checkpoint + 1 .. Len(trail)}

OwnedTexts(ids) == {s \in DOMAIN strings : /\ strings[s] \in ids
                                           /\ nodes[strings[s]] = StringValue(s)}

(* Fault: metadata outlives its node.                                      *)
RollbackKeepingMetadata ==
  /\ open # << >>
  /\ LET checkpoint == open[Len(open)]
         removed == Since(checkpoint)
     IN /\ nodes' = Drop(nodes, removed)
        /\ strings' = Drop(strings, OwnedTexts(removed))
        /\ CloseScope(SubSeq(trail, 1, checkpoint))
  /\ UNCHANGED <<metadata, booleans, nextId>>

(* Fault: the text index keeps the keys of removed strings.                *)
RollbackKeepingIndex ==
  /\ open # << >>
  /\ LET checkpoint == open[Len(open)]
         removed == Since(checkpoint)
     IN /\ nodes' = Drop(nodes, removed)
        /\ metadata' = Drop(metadata, removed)
        /\ CloseScope(SubSeq(trail, 1, checkpoint))
  /\ UNCHANGED <<strings, booleans, nextId>>

Rollback ==
  /\ open # << >>
  /\ LET checkpoint == open[Len(open)]
         removed == Since(checkpoint)
     IN /\ nodes' = Drop(nodes, removed)
        /\ metadata' = Drop(metadata, removed)
        /\ strings' = Drop(strings, OwnedTexts(removed))
        /\ CloseScope(SubSeq(trail, 1, checkpoint))
  /\ UNCHANGED <<booleans, nextId>>

Next ==
  \/ \E v \in Payloads(Live) : Alloc(v)
  \/ \E v \in Payloads(Live), f \in Structs, C \in RefSets(Live) : AllocWithMetadata(v, f, C)
  \/ \E src \in Live, v \in Payloads(Live) : AllocLike(src, v)
  \/ \E b \in BOOLEAN : BoolOf(b)
  \/ \E s \in Texts : StringOf(s)
  \/ EvaluatorRuns /\ \E id \in Live, v \in Payloads(Live) : Mutate(id, v)
  \/ Speculate
  \/ CommitSpeculation
  \/ Rollback

Spec == Init /\ [][Next]_vars

(* A caller may also mutate while a branch is tried.                       *)
NextOfAnyCaller == Next \/ \E id \in Live, v \in Payloads(Live) : Mutate(id, v)

AnyCaller == Init /\ [][NextOfAnyCaller]_vars

-------------------------------------------------------------------------------
(* Every variable has its type, and the arena's own scope counter agrees   *)
(* with the scopes its callers have open: commit_speculation's saturating  *)
(* subtraction never saturates.                                            *)
Payload == [kind : Kinds, data : Texts \cup BOOLEAN \cup {NoText}, refs : SUBSET Nat]
Metadata == [fields : Nat, conjuncts : SUBSET Nat]

TypeOK ==
  /\ nextId \in Nat \ {0}
  /\ Live \subseteq 1 .. nextId - 1
  /\ nodes \in [Live -> Payload]
  /\ DOMAIN metadata \subseteq Live
  /\ metadata \in [DOMAIN metadata -> Metadata]
  /\ trail \in Seq(Live)
  /\ booleans \in [BOOLEAN -> 1 .. nextId - 1 \cup {NoId}]
  /\ DOMAIN strings \subseteq Texts
  /\ strings \in [DOMAIN strings -> Nat]
  /\ open \in Seq(Nat)
  /\ speculation_depth = Len(open)

(* A string read through the index is live, holds exactly that text, and   *)
(* carries no metadata: `string` hands the id out without looking, so a    *)
(* stale entry left by a rollback or a mutation would be a wrong value.    *)
(* This the arena keeps whoever calls it (AnyCaller).                      *)
StringIndexSound ==
  \A s \in DOMAIN strings : /\ strings[s] \in Live
                            /\ nodes[strings[s]] = StringValue(s)
                            /\ strings[s] \notin DOMAIN metadata

(* No live node refers to a removed one, in its payload or its metadata,   *)
(* and a node's retained fields are a live struct ("always a struct node   *)
(* allocated in this arena"): rolling a branch back never leaves a handle  *)
(* dangling in what survives.  It rests on EvaluatorRuns.                  *)
NoDanglingReference ==
  /\ \A id \in Live : nodes[id].refs \subseteq Live
  /\ \A id \in DOMAIN metadata : /\ metadata[id].fields \in Structs
                                 /\ metadata[id].conjuncts \subseteq Live

(* A boolean shared from the cache carries no metadata: fields and lexical *)
(* recipes never attach to a node every `true` of the program reads.       *)
SharedBooleansUnannotated ==
  \A b \in BOOLEAN : BoolHit(b) => booleans[b] \notin DOMAIN metadata

-------------------------------------------------------------------------------
(* The store each open scope started from, read off the trail: everything  *)
(* allocated since is exactly what lies above the scope's checkpoint.      *)
StoreWithout(ids) ==
  [nodes |-> Drop(nodes, ids),
   metadata |-> Drop(metadata, ids),
   strings |-> Drop(strings, {s \in DOMAIN strings : strings[s] \in ids})]

Store == [nodes |-> nodes, metadata |-> metadata, strings |-> strings]
Saved == [i \in 1 .. Len(open) |-> StoreWithout(Since(open[i]))]

Abstract == INSTANCE TransactionalStore WITH store <- Store, saved <- Saved

(* The undo log implements the transactional store: a rolled back branch   *)
(* leaves nodes, metadata and index exactly as it found them, however      *)
(* scopes nested and committed in between.  It rests on EvaluatorRuns: a   *)
(* mutation is not on the trail.                                           *)
ImplementsTransactionalStore == Abstract!Spec
===============================================================================
