--------------------------- MODULE ValueArenaProofs ---------------------------
(***************************************************************************)
(* The arena's invariants hold for any number of nodes, texts and nested   *)
(* scopes.  The strengthening is about the trail: its ids are distinct,    *)
(* checkpoints grow with nesting, and each set of nodes a scope would be   *)
(* rolled back to is closed under references.  The closures are all that   *)
(* rests on callers mutating nodes only outside the scopes.                *)
(***************************************************************************)
EXTENDS ValueArena, SequenceTheorems, TLAPS

TrailDistinct ==
  \A i, j \in 1 .. Len(trail) : trail[i] = trail[j] => i = j

OpenOrdered ==
  \A i \in 1 .. Len(open) : /\ open[i] <= Len(trail)
                            /\ \A j \in i .. Len(open) : open[i] <= open[j]

(* What a live node or its metadata refers to stays within `ids`. *)
ClosedUnder(ids) ==
  \A id \in ids : /\ nodes[id].refs \subseteq ids
                  /\ id \in DOMAIN metadata =>
                       /\ metadata[id].fields \in ids
                       /\ nodes[metadata[id].fields].kind = "struct"
                       /\ metadata[id].conjuncts \subseteq ids

ScopesClosed == \A i \in 1 .. Len(open) : ClosedUnder(Live \ Since(open[i]))

CachedUnannotated ==
  \A b \in BOOLEAN : booleans[b] \notin DOMAIN metadata

(* What holds whoever calls the arena, and what a caller that mutates      *)
(* nodes inside a scope could break.                                       *)
Sound == /\ TypeOK
         /\ TrailDistinct
         /\ OpenOrdered
         /\ StringIndexSound
         /\ CachedUnannotated

Closures == ClosedUnder(Live) /\ ScopesClosed

IInv == Sound /\ Closures

(* What an operation does to the two, the second where it held.            *)
Preserved == Sound' /\ (Closures => Closures')

-------------------------------------------------------------------------------
(* A value a caller can build refers only to handles it holds. *)
LEMMA PayloadTyped ==
  ASSUME NEW ids \in SUBSET Nat, NEW v \in Payloads(ids)
  PROVE  v \in Payload /\ v.refs \subseteq ids
<1>1. CASE \E s \in Texts : v = StringValue(s)
  BY <1>1 DEF Payload, StringValue, Kinds
<1>2. CASE \E b \in BOOLEAN : v = BoolValue(b)
  BY <1>2 DEF Payload, BoolValue, Kinds
<1>3. CASE \E k \in CompositeKinds, R \in RefSets(ids) : v = Composite(k, R)
  BY <1>3 DEF Payload, Composite, RefSets, Kinds
<1> QED
  BY <1>1, <1>2, <1>3 DEF Payloads

(* What inserting a fresh node does to everything but metadata and the     *)
(* caches: its id is new, and above every checkpoint.                      *)
Inserted(v) ==
  /\ nextId \notin Live
  /\ nextId \in Nat \ {0} /\ nextId' = nextId + 1
  /\ Live' = Live \cup {nextId}
  /\ Live' \subseteq 1 .. nextId' - 1
  /\ nodes' \in [Live' -> Payload]
  /\ \A id \in Live : nodes'[id] = nodes[id]
  /\ nodes'[nextId] = v
  /\ v.refs \subseteq Live
  /\ trail' \in Seq(Live')
  /\ TrailDistinct'
  /\ OpenOrdered'
  /\ \A i \in 1 .. Len(open) : Since(open[i])' = Since(open[i]) \cup {nextId}

LEMMA InsertKeeps ==
  ASSUME Sound, NEW v \in Payloads(Live), Insert(v), UNCHANGED open
  PROVE  Inserted(v)
<1> USE DEF Sound
<1>1. Live \in SUBSET Nat /\ nextId \in Nat \ {0} /\ nextId \notin Live
  BY DEF TypeOK
<1>2. v \in Payload /\ v.refs \subseteq Live
  BY <1>1, PayloadTyped
<1>3. nodes' = Put(nodes, nextId, v) /\ nextId' = nextId + 1
  BY DEF Insert
<1>4. /\ Live' = Live \cup {nextId}
      /\ \A id \in Live : nodes'[id] = nodes[id]
      /\ nodes'[nextId] = v
      /\ nodes' \in [Live' -> Payload]
  BY <1>1, <1>2, <1>3 DEF Put, Live, TypeOK
<1>5. nextId' \in Nat \ {0} /\ Live' \subseteq 1 .. nextId' - 1
  BY <1>1, <1>3, <1>4 DEF TypeOK
<1>6. /\ trail \in Seq(Live')
      /\ trail' = Append(trail, nextId)
      /\ trail' \in Seq(Live')
      /\ Len(trail') = Len(trail) + 1
      /\ \A i \in 1 .. Len(trail) : trail'[i] = trail[i] /\ trail[i] \in Live
      /\ trail'[Len(trail) + 1] = nextId
      /\ Len(trail) \in Nat
  <2>1. trail \in Seq(Live) /\ trail \in Seq(Live')
    BY <1>4 DEF TypeOK
  <2>2. QED
    BY <2>1, <1>4 DEF Insert
<1>7. TrailDistinct'
  BY <1>1, <1>6 DEF TrailDistinct
<1>8. OpenOrdered'
  BY <1>6 DEF OpenOrdered, TypeOK
<1>9. \A i \in 1 .. Len(open) : Since(open[i])' = Since(open[i]) \cup {nextId}
  <2> SUFFICES ASSUME NEW i \in 1 .. Len(open)
               PROVE  Since(open[i])' = Since(open[i]) \cup {nextId}
    OBVIOUS
  <2>1. open[i] \in Nat /\ open[i] <= Len(trail) /\ open' = open
    BY DEF TypeOK, OpenOrdered
  <2> QED
    BY <2>1, <1>6 DEF Since
<1> QED
  BY <1>1, <1>2, <1>3, <1>4, <1>5, <1>6, <1>7, <1>8, <1>9 DEF Inserted

(* Closure of the live set and of every scope's set after an insertion     *)
(* whose metadata, if any, is about live nodes.                            *)
LEMMA InsertClosed ==
  ASSUME Sound, Closures, NEW v \in Payloads(Live), Insert(v), UNCHANGED open,
         DOMAIN metadata' \subseteq DOMAIN metadata \cup {nextId},
         \A id \in DOMAIN metadata : id \in DOMAIN metadata' /\ metadata'[id] = metadata[id],
         nextId \in DOMAIN metadata' =>
            /\ metadata'[nextId].fields \in Structs
            /\ metadata'[nextId].conjuncts \subseteq Live
  PROVE  ClosedUnder(Live)' /\ ScopesClosed'
<1> USE DEF Sound, Closures
<1>0. Inserted(v)
  BY InsertKeeps
<1>1. ClosedUnder(Live)'
  <2> SUFFICES ASSUME NEW id \in Live'
               PROVE  /\ nodes'[id].refs \subseteq Live'
                      /\ id \in DOMAIN metadata' =>
                           /\ metadata'[id].fields \in Live'
                           /\ nodes'[metadata'[id].fields].kind = "struct"
                           /\ metadata'[id].conjuncts \subseteq Live'
    BY DEF ClosedUnder
  <2>1. CASE id = nextId
    BY <2>1, <1>0 DEF Inserted, Structs
  <2>2. CASE id \in Live
    <3>1. id \in DOMAIN metadata' => id \in DOMAIN metadata /\ metadata'[id] = metadata[id]
      BY <2>2, <1>0 DEF Inserted
    <3> QED
      BY <2>2, <3>1, <1>0 DEF Inserted, ClosedUnder
  <2> QED
    BY <2>1, <2>2, <1>0 DEF Inserted
<1>2. ScopesClosed'
  <2> SUFFICES ASSUME NEW i \in 1 .. Len(open)
               PROVE  ClosedUnder(Live \ Since(open[i]))'
    BY DEF ScopesClosed
  <2> DEFINE K == Live \ Since(open[i])
  <2>1. K' = K /\ K \subseteq Live /\ nextId \notin K
    BY <1>0 DEF Inserted
  <2>2. ClosedUnder(K)
    BY DEF ScopesClosed
  <2>3. ASSUME NEW id \in K
        PROVE  /\ nodes'[id].refs \subseteq K
               /\ id \in DOMAIN metadata' =>
                    /\ metadata'[id].fields \in K
                    /\ nodes'[metadata'[id].fields].kind = "struct"
                    /\ metadata'[id].conjuncts \subseteq K
    <3> HIDE DEF K
    <3>1. id \in DOMAIN metadata' => id \in DOMAIN metadata /\ metadata'[id] = metadata[id]
      BY <2>1
    <3> QED
      BY <2>1, <2>2, <3>1, <1>0 DEF ClosedUnder, Inserted
  <2> HIDE DEF K
  <2>4. ClosedUnder(K)'
    BY <2>1, <2>3 DEF ClosedUnder
  <2> QED
    BY <2>4 DEF K
<1> QED
  BY <1>1, <1>2

(* Prefixes of a sequence, which is what closing a scope leaves. *)
LEMMA PrefixFacts ==
  ASSUME NEW S, NEW s \in Seq(S), NEW n \in 0 .. Len(s)
  PROVE  /\ SubSeq(s, 1, n) \in Seq(S)
         /\ Len(SubSeq(s, 1, n)) = n
         /\ \A i \in 1 .. n : SubSeq(s, 1, n)[i] = s[i]
BY SubSeqProperties

-------------------------------------------------------------------------------
(* Closing the innermost scope, the trail being `t` after it: the outer    *)
(* scopes keep their checkpoints, and with none left the trail is empty.   *)
Closed(t) ==
  /\ Len(open) \in Nat \ {0}
  /\ Len(open') = Len(open) - 1
  /\ open' \in Seq(Nat)
  /\ \A i \in 1 .. Len(open') : open'[i] = open[i]
  /\ speculation_depth' = Len(open')
  /\ trail' = IF Len(open) = 1 THEN << >> ELSE t

LEMMA CloseScopeFacts ==
  ASSUME TypeOK, NEW t, CloseScope(t)
  PROVE  Closed(t)
<1>1. open \in Seq(Nat) /\ Len(open) \in Nat \ {0} /\ speculation_depth = Len(open)
  BY DEF TypeOK, CloseScope
<1>2. /\ Len(open') = Len(open) - 1
      /\ open' \in Seq(Nat)
      /\ \A i \in 1 .. Len(open') : open'[i] = open[i]
  BY <1>1, PrefixFacts, Len(open) - 1 \in 0 .. Len(open) DEF CloseScope
<1>3. speculation_depth' = Len(open')
  BY <1>1, <1>2 DEF CloseScope, Saturating
<1>4. trail' = IF Len(open) = 1 THEN << >> ELSE t
  BY <1>1 DEF CloseScope, Released, Saturating
<1> QED
  BY <1>1, <1>2, <1>3, <1>4 DEF Closed

LEMMA CommitKeeps == Sound /\ CommitSpeculation => Preserved
<1> SUFFICES ASSUME Sound, CommitSpeculation PROVE Preserved
  OBVIOUS
<1> USE DEF Sound
<1>1. /\ Closed(trail)
      /\ UNCHANGED <<nodes, metadata, booleans, strings, nextId>>
      /\ Live' = Live
  BY CloseScopeFacts DEF CommitSpeculation, Live
<1>2. CASE Len(open) = 1
  <2>1. trail' = << >> /\ Len(open') = 0
    BY <1>1, <1>2 DEF Closed
  <2>2. TypeOK'
    BY <1>1, <2>1 DEF Closed, TypeOK
  <2>3. TrailDistinct' /\ OpenOrdered' /\ ScopesClosed'
    BY <2>1 DEF TrailDistinct, OpenOrdered, ScopesClosed
  <2> QED
    BY <1>1, <2>2, <2>3
       DEF ClosedUnder, StringIndexSound, CachedUnannotated, Preserved, Closures
<1>3. CASE Len(open) # 1
  <2>1. trail' = trail /\ Len(open') = Len(open) - 1 /\ Len(open) \in Nat
    BY <1>1, <1>3 DEF Closed
  <2>2. TypeOK'
    BY <1>1, <2>1 DEF Closed, TypeOK
  <2>3. TrailDistinct' /\ OpenOrdered'
    BY <1>1, <2>1 DEF TrailDistinct, OpenOrdered, Closed
  <2>4. Closures => ScopesClosed'
    <3> SUFFICES ASSUME Closures, NEW i \in 1 .. Len(open')
                 PROVE  ClosedUnder(Live \ Since(open[i]))'
      BY DEF ScopesClosed
    <3> DEFINE K == Live \ Since(open[i])
    <3>1. i \in 1 .. Len(open) /\ open'[i] = open[i]
      BY <1>1, <2>1 DEF Closed
    <3>2. K' = K /\ ClosedUnder(K)
      BY <1>1, <2>1, <3>1 DEF Since, ScopesClosed, Closures
    <3> HIDE DEF K
    <3>3. ClosedUnder(K)'
      BY <1>1, <3>2 DEF ClosedUnder
    <3> QED
      BY <3>3 DEF K
  <2> QED
    BY <1>1, <2>2, <2>3, <2>4
       DEF ClosedUnder, StringIndexSound, CachedUnannotated, Preserved, Closures
<1> QED
  BY <1>2, <1>3

-------------------------------------------------------------------------------
(* Rolling back leaves the set of nodes the innermost scope started from,  *)
(* and for every outer scope the set it started from is what it was.       *)
LEMMA RollbackKeeps == Sound /\ Rollback => Preserved
<1> SUFFICES ASSUME Sound, Rollback PROVE Preserved
  OBVIOUS
<1> USE DEF Sound
<1> DEFINE n == Len(open)
           c == open[n]
           removed == Since(c)
           K == Live \ removed
<1>1. /\ n \in Nat \ {0}
      /\ c \in 0 .. Len(trail)
      /\ trail \in Seq(Live)
      /\ Len(trail) \in Nat
      /\ \A i \in 1 .. n : open[i] \in Nat /\ open[i] <= c
  <2>1. open \in Seq(Nat) /\ trail \in Seq(Live) /\ open # << >>
    BY DEF Rollback, TypeOK
  <2>2. n \in Nat \ {0} /\ Len(trail) \in Nat /\ \A i \in 1 .. n : open[i] \in Nat
    BY <2>1
  <2>3. \A i \in 1 .. n : open[i] <= c /\ open[i] <= Len(trail)
    BY <2>2 DEF OpenOrdered
  <2> QED
    BY <2>1, <2>2, <2>3
<1>2. /\ nodes' = Drop(nodes, removed)
      /\ metadata' = Drop(metadata, removed)
      /\ strings' = Drop(strings, OwnedTexts(removed))
      /\ CloseScope(SubSeq(trail, 1, c))
      /\ UNCHANGED <<booleans, nextId>>
  BY DEF Rollback
<1>3. Closed(SubSeq(trail, 1, c))
  BY <1>2, CloseScopeFacts
<1>4. /\ Live' = K
      /\ \A id \in K : nodes'[id] = nodes[id]
      /\ nodes' \in [K -> Payload]
      /\ DOMAIN metadata' = DOMAIN metadata \ removed
      /\ \A id \in DOMAIN metadata' : metadata'[id] = metadata[id]
      /\ metadata' \in [DOMAIN metadata' -> Metadata]
      /\ DOMAIN metadata' \subseteq K
  BY <1>2 DEF Drop, Live, TypeOK
<1>5. /\ DOMAIN strings' = {s \in DOMAIN strings : strings[s] \in K}
      /\ \A s \in DOMAIN strings' : strings'[s] = strings[s]
      /\ strings' \in [DOMAIN strings' -> Nat]
  BY <1>2 DEF Drop, OwnedTexts, StringIndexSound, TypeOK
<1>6. /\ \A i \in 1 .. c : trail[i] \in K
      /\ SubSeq(trail, 1, c) \in Seq(K)
      /\ Len(SubSeq(trail, 1, c)) = c
      /\ \A i \in 1 .. c : SubSeq(trail, 1, c)[i] = trail[i]
  <2>1. \A i \in 1 .. c : trail[i] \in K
    BY <1>1 DEF TrailDistinct, Since
  <2>2. /\ SubSeq(trail, 1, c) \in Seq(Live)
        /\ Len(SubSeq(trail, 1, c)) = c
        /\ \A i \in 1 .. c : SubSeq(trail, 1, c)[i] = trail[i]
    BY <1>1, PrefixFacts
  <2>3. SubSeq(trail, 1, c) \in Seq(K)
    <3> HIDE DEF c, K
    <3>1. \A i \in 1 .. Len(SubSeq(trail, 1, c)) : SubSeq(trail, 1, c)[i] \in K
      BY <2>1, <2>2
    <3> QED
      BY <2>2, <3>1, <1>1, SeqDef
  <2> QED
    BY <2>1, <2>2, <2>3
<1>7. Closures => ClosedUnder(K)
  BY <1>1 DEF ScopesClosed, Closures
<1> HIDE DEF n, c, removed, K
<1>8. (Closures => ClosedUnder(Live)') /\ StringIndexSound' /\ CachedUnannotated'
  <2>1. Closures => ClosedUnder(Live)'
    BY <1>4, <1>7 DEF ClosedUnder
  <2>2. StringIndexSound'
    <3> SUFFICES ASSUME NEW s \in DOMAIN strings'
                 PROVE  /\ strings'[s] \in Live'
                        /\ nodes'[strings'[s]] = StringValue(s)
                        /\ strings'[s] \notin DOMAIN metadata'
      BY DEF StringIndexSound
    <3>1. s \in DOMAIN strings /\ strings'[s] = strings[s] /\ strings[s] \in K
      BY <1>5
    <3>2. nodes[strings[s]] = StringValue(s) /\ strings[s] \notin DOMAIN metadata
      BY <3>1 DEF StringIndexSound
    <3> QED
      BY <1>4, <3>1, <3>2
  <2>3. CachedUnannotated'
    BY <1>2, <1>4 DEF CachedUnannotated
  <2> QED
    BY <2>1, <2>2, <2>3
<1>10. ASSUME trail' \in Seq(Live') PROVE TypeOK'
  <2>1. /\ nextId' \in Nat \ {0}
        /\ Live' \subseteq 1 .. nextId' - 1
        /\ booleans' \in [BOOLEAN -> 1 .. nextId' - 1 \cup {NoId}]
    BY <1>2, <1>4 DEF TypeOK, K
  <2>2. nodes' \in [Live' -> Payload]
    BY <1>4
  <2>3. DOMAIN strings' \subseteq Texts
    BY <1>5 DEF TypeOK
  <2>4. open' \in Seq(Nat) /\ speculation_depth' = Len(open')
    BY <1>3 DEF Closed
  <2> QED
    BY <1>4, <1>5, <1>10, <2>1, <2>2, <2>3, <2>4 DEF TypeOK
<1>9. TypeOK' /\ TrailDistinct' /\ OpenOrdered' /\ (Closures => ScopesClosed')
  <2>1. K \subseteq Live
    BY DEF K
  <2>2. CASE n = 1
    <3>1. trail' = << >> /\ Len(open') = 0
      BY <1>3, <2>2 DEF Closed, n
    <3>2. trail' \in Seq(Live')
      BY <3>1
    <3> QED
      BY <3>1, <3>2, <1>10 DEF TrailDistinct, OpenOrdered, ScopesClosed
  <2>3. CASE n # 1
    <3>1. trail' = SubSeq(trail, 1, c) /\ Len(open') = n - 1 /\ Len(trail') = c
      BY <1>3, <2>3, <1>6 DEF Closed, n
    <3>2. TypeOK'
      BY <1>4, <1>6, <1>10, <3>1
    <3>3. \A i \in 1 .. c : trail'[i] = trail[i]
      BY <1>6, <3>1
    <3>4. TrailDistinct'
      <4>1. \A i, j \in 1 .. c : trail[i] = trail[j] => i = j
        BY <1>1 DEF TrailDistinct
      <4>2. \A i, j \in 1 .. Len(trail') : trail'[i] = trail'[j] => i = j
        <5>1. Len(trail') = c
          BY <3>1
        <5> SUFFICES ASSUME NEW i \in 1 .. c, NEW j \in 1 .. c, trail'[i] = trail'[j]
                     PROVE  i = j
          BY <5>1
        <5>2. trail[i] = trail[j]
          BY <3>3
        <5> QED
          BY <4>1, <5>2
      <4> QED
        BY <4>2 DEF TrailDistinct
    <3>5. OpenOrdered'
      <4>1. \A i \in 1 .. Len(open') : i \in 1 .. n /\ open'[i] = open[i]
        BY <1>1, <1>3, <3>1 DEF Closed
      <4>2. \A i, j \in 1 .. n : j >= i => open[i] <= open[j] /\ open[i] <= c
        BY <1>1 DEF OpenOrdered, n
      <4> QED
        BY <1>1, <3>1, <4>1, <4>2 DEF OpenOrdered
    <3>6. Closures => ScopesClosed'
      <4> SUFFICES ASSUME Closures, NEW i \in 1 .. Len(open')
                   PROVE  ClosedUnder(Live \ Since(open[i]))'
        BY DEF ScopesClosed
      <4> DEFINE Q == Live \ Since(open[i])
      <4>1. i \in 1 .. n /\ open'[i] = open[i] /\ open[i] \in Nat /\ open[i] <= c
        <5>1. i \in 1 .. n
          BY <1>1, <3>1
        <5>2. open'[i] = open[i]
          BY <1>3 DEF Closed
        <5> QED
          BY <1>1, <5>1, <5>2
      <4>2. Q' = Q /\ Q \subseteq K
        <5>1. Since(open[i]) = {trail[j] : j \in open[i] + 1 .. c} \cup removed
          BY <1>1, <4>1 DEF Since, removed
        <5>2. Since(open[i])' = {trail[j] : j \in open[i] + 1 .. c}
          <6>1. open'[i] + 1 .. Len(trail') = open[i] + 1 .. c
            BY <3>1, <4>1
          <6>2. \A j \in open[i] + 1 .. c : trail'[j] = trail[j]
            BY <1>1, <3>3, <4>1
          <6> QED
            BY <6>1, <6>2 DEF Since
        <5> QED
          BY <5>1, <5>2, <1>4 DEF K
      <4>3. ClosedUnder(Q)
        BY <4>1 DEF ScopesClosed, Closures, n
      <4> HIDE DEF Q
      <4>4. ClosedUnder(Q)'
        BY <4>2, <4>3, <1>4 DEF ClosedUnder
      <4> QED
        BY <4>4 DEF Q
    <3> QED
      BY <3>2, <3>4, <3>5, <3>6
  <2> QED
    BY <2>2, <2>3
<1> QED
  BY <1>8, <1>9 DEF Preserved, Closures
-------------------------------------------------------------------------------
(* TypeOK after an insertion that keeps the scopes.                        *)
LEMMA InsertTyped ==
  ASSUME TypeOK, NEW v, Inserted(v), UNCHANGED <<open, speculation_depth>>,
         DOMAIN metadata' \subseteq Live',
         metadata' \in [DOMAIN metadata' -> Metadata],
         booleans' \in [BOOLEAN -> 1 .. nextId' - 1 \cup {NoId}],
         DOMAIN strings' \subseteq Texts,
         strings' \in [DOMAIN strings' -> Nat]
  PROVE  TypeOK'
<1>1. nextId' \in Nat \ {0} /\ Live' \subseteq 1 .. nextId' - 1
  BY DEF Inserted
<1>2. nodes' \in [Live' -> Payload] /\ trail' \in Seq(Live')
  BY DEF Inserted
<1>3. open' \in Seq(Nat) /\ speculation_depth' = Len(open')
  BY DEF TypeOK
<1> QED
  BY <1>1, <1>2, <1>3 DEF TypeOK

(* The caches' ids stay in range when the next id moves on. *)
LEMMA BooleansGrow ==
  ASSUME TypeOK, nextId' = nextId + 1
  PROVE  booleans \in [BOOLEAN -> 1 .. nextId' - 1 \cup {NoId}]
BY DEF TypeOK

LEMMA AllocKeeps ==
  ASSUME Sound, NEW v \in Payloads(Live), Alloc(v)
  PROVE  Preserved
<1>1. Insert(v) /\ UNCHANGED <<metadata, speculation_depth, booleans, strings, open>>
  BY DEF Alloc
<1>2. Inserted(v) /\ TypeOK /\ nextId \notin DOMAIN metadata
  BY <1>1, InsertKeeps DEF Sound, TypeOK, Inserted
<1>3. Closures => Closures'
  BY <1>1, <1>2, InsertClosed DEF Closures
<1>4. TypeOK'
  <2>1. nextId' = nextId + 1 /\ Live \subseteq Live'
    BY <1>2 DEF Inserted
  <2>2. booleans' \in [BOOLEAN -> 1 .. nextId' - 1 \cup {NoId}]
    BY <1>1, <1>2, <2>1, BooleansGrow
  <2>3. /\ DOMAIN metadata' \subseteq Live'
        /\ metadata' \in [DOMAIN metadata' -> Metadata]
        /\ DOMAIN strings' \subseteq Texts
        /\ strings' \in [DOMAIN strings' -> Nat]
    BY <1>1, <1>2, <2>1 DEF TypeOK
  <2> QED
    BY <1>1, <1>2, <2>2, <2>3, InsertTyped
<1>5. StringIndexSound' /\ CachedUnannotated'
  BY <1>1, <1>2 DEF Sound, Inserted, StringIndexSound, CachedUnannotated
<1> QED
  BY <1>2, <1>3, <1>4, <1>5 DEF Sound, Inserted, Preserved

LEMMA BoolKeeps ==
  ASSUME Sound, NEW b \in BOOLEAN, BoolOf(b)
  PROVE  Preserved
<1> DEFINE v == BoolValue(b)
<1>1. /\ Insert(v)
      /\ booleans' = [booleans EXCEPT ![b] = nextId]
      /\ UNCHANGED <<metadata, speculation_depth, strings, open>>
      /\ v \in Payloads(Live)
  BY DEF BoolOf, Payloads
<1> HIDE DEF v
<1>2. Inserted(v) /\ TypeOK /\ nextId \notin DOMAIN metadata
  BY <1>1, InsertKeeps DEF Sound, TypeOK, Inserted
<1>3. Closures => Closures'
  BY <1>1, <1>2, InsertClosed DEF Closures
<1>4. TypeOK'
  <2>1. nextId \in Nat \ {0} /\ nextId' = nextId + 1 /\ Live \subseteq Live'
    BY <1>2 DEF Inserted
  <2>2. booleans' \in [BOOLEAN -> 1 .. nextId' - 1 \cup {NoId}]
    BY <1>1, <1>2, <2>1, BooleansGrow
  <2>3. /\ DOMAIN metadata' \subseteq Live'
        /\ metadata' \in [DOMAIN metadata' -> Metadata]
        /\ DOMAIN strings' \subseteq Texts
        /\ strings' \in [DOMAIN strings' -> Nat]
    BY <1>1, <1>2, <2>1 DEF TypeOK
  <2> QED
    BY <1>1, <1>2, <2>2, <2>3, InsertTyped
<1>5. StringIndexSound'
  BY <1>1, <1>2 DEF Sound, Inserted, StringIndexSound
<1>6. CachedUnannotated'
  BY <1>1, <1>2 DEF Sound, CachedUnannotated, TypeOK
<1> QED
  BY <1>2, <1>3, <1>4, <1>5, <1>6 DEF Sound, Inserted, Preserved

LEMMA StringKeeps ==
  ASSUME Sound, NEW s \in Texts, StringOf(s)
  PROVE  Preserved
<1> DEFINE v == StringValue(s)
<1>1. /\ Insert(v)
      /\ s \notin DOMAIN strings
      /\ strings' = Put(strings, s, nextId)
      /\ UNCHANGED <<metadata, speculation_depth, booleans, open>>
      /\ v \in Payloads(Live)
  BY DEF StringOf, Payloads
<1> HIDE DEF v
<1>2. Inserted(v) /\ TypeOK /\ nextId \notin DOMAIN metadata /\ nextId \in Nat
  BY <1>1, InsertKeeps DEF Sound, TypeOK, Inserted
<1>3. Closures => Closures'
  BY <1>1, <1>2, InsertClosed DEF Closures
<1>4. /\ DOMAIN strings' = DOMAIN strings \cup {s}
      /\ strings'[s] = nextId
      /\ \A t \in DOMAIN strings : strings'[t] = strings[t]
      /\ strings' \in [DOMAIN strings' -> Nat]
  BY <1>1, <1>2 DEF Put, TypeOK
<1>5. TypeOK'
  <2>1. nextId' = nextId + 1 /\ Live \subseteq Live'
    BY <1>2 DEF Inserted
  <2>2. booleans' \in [BOOLEAN -> 1 .. nextId' - 1 \cup {NoId}]
    BY <1>1, <1>2, <2>1, BooleansGrow
  <2>3. /\ DOMAIN metadata' \subseteq Live'
        /\ metadata' \in [DOMAIN metadata' -> Metadata]
        /\ DOMAIN strings' \subseteq Texts
    BY <1>1, <1>2, <1>4, <2>1 DEF TypeOK
  <2> QED
    BY <1>1, <1>2, <1>4, <2>2, <2>3, InsertTyped
<1>6. StringIndexSound'
  BY <1>1, <1>2, <1>4 DEF Sound, Inserted, StringIndexSound, v
<1>7. CachedUnannotated'
  BY <1>1 DEF Sound, CachedUnannotated
<1> QED
  BY <1>2, <1>3, <1>5, <1>6, <1>7 DEF Sound, Inserted, Preserved

(* An insertion that gives the new node metadata `m` of live nodes. *)
LEMMA AnnotateKeeps ==
  ASSUME Sound, NEW v \in Payloads(Live), Insert(v),
         NEW m \in Metadata, Closures => m.fields \in Structs /\ m.conjuncts \subseteq Live,
         metadata' = Put(metadata, nextId, m),
         UNCHANGED <<speculation_depth, booleans, strings, open>>
  PROVE  Preserved
<1>1. Inserted(v) /\ TypeOK /\ nextId \notin DOMAIN metadata
  BY InsertKeeps DEF Sound, TypeOK, Inserted
<1>2. /\ DOMAIN metadata' = DOMAIN metadata \cup {nextId}
      /\ metadata'[nextId] = m
      /\ \A id \in DOMAIN metadata : metadata'[id] = metadata[id]
      /\ metadata' \in [DOMAIN metadata' -> Metadata]
  BY <1>1 DEF Put, TypeOK
<1>3. Closures => Closures'
  <2>1. \A id \in DOMAIN metadata : id \in DOMAIN metadata' /\ metadata'[id] = metadata[id]
    BY <1>2
  <2> QED
    BY <1>1, <1>2, <2>1, InsertClosed DEF Closures
<1>4. TypeOK'
  <2>1. nextId' = nextId + 1 /\ Live' = Live \cup {nextId}
    BY <1>1 DEF Inserted
  <2>2. booleans' \in [BOOLEAN -> 1 .. nextId' - 1 \cup {NoId}]
    BY <1>1, <2>1, BooleansGrow
  <2>3. /\ DOMAIN metadata' \subseteq Live'
        /\ DOMAIN strings' \subseteq Texts
        /\ strings' \in [DOMAIN strings' -> Nat]
    BY <1>1, <1>2, <2>1 DEF TypeOK
  <2> QED
    BY <1>1, <1>2, <2>2, <2>3, InsertTyped
<1>5. StringIndexSound'
  BY <1>1, <1>2 DEF Sound, Inserted, StringIndexSound
<1>6. CachedUnannotated'
  <2>1. \A b \in BOOLEAN : booleans[b] # nextId
    BY <1>1, NoIdAssumption DEF TypeOK
  <2> QED
    BY <1>2, <2>1 DEF Sound, CachedUnannotated
<1> QED
  BY <1>1, <1>3, <1>4, <1>5, <1>6 DEF Sound, Inserted, Preserved

LEMMA AllocWithMetadataKeeps ==
  ASSUME Sound, NEW v \in Payloads(Live), NEW f \in Structs, NEW C \in RefSets(Live),
         AllocWithMetadata(v, f, C)
  PROVE  Preserved
<1>1. [fields |-> f, conjuncts |-> C] \in Metadata
  BY DEF Sound, TypeOK, Structs, Metadata, RefSets
<1> QED
  BY <1>1, AnnotateKeeps DEF AllocWithMetadata, RefSets

LEMMA AllocLikeKeeps ==
  ASSUME Sound, NEW source \in Live, NEW v \in Payloads(Live), AllocLike(source, v)
  PROVE  Preserved
<1>1. CASE source \in DOMAIN metadata
  <2>1. metadata[source] \in Metadata
    BY <1>1 DEF Sound, TypeOK
  <2>2. Closures => /\ metadata[source].fields \in Structs
                    /\ metadata[source].conjuncts \subseteq Live
    BY <1>1 DEF Closures, ClosedUnder, Structs
  <2> QED
    BY <1>1, <2>1, <2>2, AnnotateKeeps DEF AllocLike
<1>2. CASE source \notin DOMAIN metadata
  BY <1>2, AllocKeeps DEF AllocLike, Alloc
<1> QED
  BY <1>1, <1>2

(* A mutation keeps the variant, so metadata owners' fields stay structs;  *)
(* outside every scope there is no closed set but the live one.  Inside    *)
(* one only the closures are at risk.                                      *)
LEMMA MutateKeeps ==
  ASSUME Sound, NEW id \in Live, NEW v \in Payloads(Live), Mutate(id, v)
  PROVE  Sound' /\ (EvaluatorRuns => Preserved)
<1>1. /\ v.kind = nodes[id].kind
      /\ nodes' = [nodes EXCEPT ![id] = v]
      /\ strings' = Drop(strings, {s \in DOMAIN strings :
                                     nodes[id] = StringValue(s) /\ strings[s] = id})
      /\ UNCHANGED <<metadata, trail, speculation_depth, booleans, nextId, open>>
  BY DEF Mutate
<1>2. TypeOK /\ Live \in SUBSET Nat
  BY DEF Sound, TypeOK
<1>3. v \in Payload /\ v.refs \subseteq Live
  BY <1>2, PayloadTyped
<1>4. /\ Live' = Live
      /\ nodes' \in [Live -> Payload]
      /\ nodes'[id] = v
      /\ \A k \in Live \ {id} : nodes'[k] = nodes[k]
      /\ \A k \in Live : nodes'[k].kind = nodes[k].kind
  BY <1>1, <1>2, <1>3 DEF Live, TypeOK
<1>5. /\ DOMAIN strings' = {s \in DOMAIN strings : strings[s] # id}
      /\ \A s \in DOMAIN strings' : strings'[s] = strings[s]
      /\ strings' \in [DOMAIN strings' -> Nat]
  BY <1>1, <1>2 DEF Drop, Sound, StringIndexSound, TypeOK
<1>6. TypeOK'
  BY <1>1, <1>2, <1>4, <1>5 DEF TypeOK
<1>7. TrailDistinct' /\ OpenOrdered' /\ (EvaluatorRuns => ScopesClosed')
  BY <1>1 DEF Sound, TrailDistinct, OpenOrdered, ScopesClosed, EvaluatorRuns
<1>8. Closures => ClosedUnder(Live)'
  BY <1>1, <1>3, <1>4 DEF Closures, ClosedUnder
<1>9. StringIndexSound'
  BY <1>1, <1>4, <1>5 DEF Sound, StringIndexSound
<1>10. CachedUnannotated'
  BY <1>1 DEF Sound, CachedUnannotated
<1> QED
  BY <1>6, <1>7, <1>8, <1>9, <1>10 DEF Sound, Closures, Preserved

LEMMA SpeculateKeeps == Sound /\ Speculate => Preserved
<1> SUFFICES ASSUME Sound, Speculate PROVE Preserved
  OBVIOUS
<1>1. /\ open' = Append(open, Len(trail))
      /\ speculation_depth' = speculation_depth + 1
      /\ UNCHANGED <<nodes, metadata, trail, booleans, strings, nextId>>
      /\ Live' = Live
  BY DEF Speculate, Live
<1>2. open \in Seq(Nat) /\ Len(trail) \in Nat /\ trail \in Seq(Live) /\ Len(open) \in Nat
  BY DEF Sound, TypeOK
<1>3. /\ open' \in Seq(Nat) /\ Len(open') = Len(open) + 1
      /\ \A i \in 1 .. Len(open) : open'[i] = open[i]
      /\ open'[Len(open) + 1] = Len(trail)
  BY <1>1, <1>2
<1>4. TypeOK'
  BY <1>1, <1>2, <1>3 DEF Sound, TypeOK
<1>5. /\ TrailDistinct' /\ StringIndexSound' /\ CachedUnannotated'
      /\ Closures => ClosedUnder(Live)'
  BY <1>1 DEF Sound, Closures, TrailDistinct, ClosedUnder, StringIndexSound, CachedUnannotated
<1>6. OpenOrdered'
  BY <1>1, <1>2, <1>3 DEF Sound, OpenOrdered
<1>7. Closures => ScopesClosed'
  <2> SUFFICES ASSUME Closures, NEW i \in 1 .. Len(open')
               PROVE  ClosedUnder(Live \ Since(open[i]))'
    BY DEF ScopesClosed
  <2> DEFINE K == Live \ Since(open[i])
  <2>1. ClosedUnder(K')
    <3>1. CASE i \in 1 .. Len(open)
      <4>1. K' = K
        BY <1>1, <1>3, <3>1 DEF Since
      <4>2. ClosedUnder(K)
        BY <3>1 DEF Closures, ScopesClosed
      <4> QED
        BY <4>1, <4>2
    <3>2. CASE i = Len(open) + 1
      <4>1. K' = Live
        BY <1>1, <1>2, <1>3, <3>2 DEF Since
      <4> QED
        BY <4>1 DEF Closures
    <3> QED
      BY <1>2, <1>3, <3>1, <3>2
  <2> HIDE DEF K
  <2>2. ClosedUnder(K)'
    BY <1>1, <2>1 DEF ClosedUnder
  <2> QED
    BY <2>2 DEF K
<1> QED
  BY <1>4, <1>5, <1>6, <1>7 DEF Sound, Closures, Preserved

-------------------------------------------------------------------------------
LEMMA InitHolds == Init => IInv
<1> SUFFICES ASSUME Init PROVE IInv
  OBVIOUS
<1>1. /\ Live = {} /\ DOMAIN metadata = {} /\ DOMAIN strings = {}
      /\ trail = << >> /\ open = << >> /\ speculation_depth = 0 /\ nextId = 1
      /\ nodes = << >> /\ metadata = << >> /\ strings = << >>
      /\ booleans = [b \in BOOLEAN |-> NoId]
  BY DEF Init, Live
<1>2. TypeOK
  BY <1>1 DEF TypeOK
<1> QED
  BY <1>1, <1>2 DEF IInv, Sound, Closures, TrailDistinct, OpenOrdered, ClosedUnder, ScopesClosed,
                    StringIndexSound, CachedUnannotated

LEMMA NextKeeps == Sound /\ [Next]_vars => Preserved
<1> SUFFICES ASSUME Sound, [Next]_vars PROVE Preserved
  OBVIOUS
<1>1. ASSUME NEW v \in Payloads(Live), Alloc(v) PROVE Preserved
  BY <1>1, AllocKeeps
<1>2. ASSUME NEW v \in Payloads(Live), NEW f \in Structs, NEW C \in RefSets(Live),
             AllocWithMetadata(v, f, C)
      PROVE  Preserved
  BY <1>2, AllocWithMetadataKeeps
<1>3. ASSUME NEW src \in Live, NEW v \in Payloads(Live), AllocLike(src, v) PROVE Preserved
  BY <1>3, AllocLikeKeeps
<1>4. ASSUME NEW b \in BOOLEAN, BoolOf(b) PROVE Preserved
  BY <1>4, BoolKeeps
<1>5. ASSUME NEW s \in Texts, StringOf(s) PROVE Preserved
  BY <1>5, StringKeeps
<1>6. ASSUME EvaluatorRuns, NEW id \in Live, NEW v \in Payloads(Live), Mutate(id, v)
      PROVE  Preserved
  BY <1>6, MutateKeeps
<1>7. CASE Speculate
  BY <1>7, SpeculateKeeps
<1>8. CASE CommitSpeculation
  BY <1>8, CommitKeeps
<1>9. CASE Rollback
  BY <1>9, RollbackKeeps
<1>10. CASE UNCHANGED vars
  <2>1. TypeOK'
    BY <1>10 DEF vars, Sound, TypeOK, Live
  <2>2. TrailDistinct' /\ OpenOrdered' /\ StringIndexSound' /\ CachedUnannotated'
    BY <1>10 DEF vars, Sound, TrailDistinct, OpenOrdered, StringIndexSound,
                 CachedUnannotated, Live
  <2>3. Closures => Closures'
    BY <1>10 DEF vars, Closures, ClosedUnder, ScopesClosed, Live, Since
  <2> QED
    BY <2>1, <2>2, <2>3 DEF Sound, Preserved
<1> QED
  BY <1>1, <1>2, <1>3, <1>4, <1>5, <1>6, <1>7, <1>8, <1>9, <1>10 DEF Next

LEMMA Inductive == Spec => []IInv
<1>1. IInv /\ [Next]_vars => IInv'
  BY NextKeeps DEF IInv, Preserved
<1> QED
  BY InitHolds, <1>1, PTL DEF Spec

(* Every variable keeps its type, and the arena's scope counter is the     *)
(* number of scopes its callers have open.                                 *)
THEOREM Typed == Spec => []TypeOK
<1>1. IInv => TypeOK
  BY DEF IInv, Sound
<1> QED
  BY Inductive, <1>1, PTL

(* A text index hit is always a live node of exactly that text, through    *)
(* every nesting of speculate, commit_speculation and rollback.            *)
THEOREM IndexSound == Spec => []StringIndexSound
<1>1. IInv => StringIndexSound
  BY DEF IInv, Sound
<1> QED
  BY Inductive, <1>1, PTL

(* No rollback leaves a live node, or its metadata, referring to a node    *)
(* that is gone.                                                           *)
THEOREM ReferencesLive == Spec => []NoDanglingReference
<1>1. IInv => NoDanglingReference
  BY DEF IInv, Sound, Closures, NoDanglingReference, ClosedUnder, TypeOK, Structs
<1> QED
  BY Inductive, <1>1, PTL

(* A boolean handed out from the cache never carries metadata.             *)
THEOREM SharedBare == Spec => []SharedBooleansUnannotated
<1>1. IInv => SharedBooleansUnannotated
  BY DEF IInv, Sound, CachedUnannotated, SharedBooleansUnannotated
<1> QED
  BY Inductive, <1>1, PTL
(* The text index and the shared booleans stay sound whoever calls the     *)
(* arena, also where nodes are filled in place inside a scope that is      *)
(* rolled back later: get_mut forgets the node before anybody writes to    *)
(* it, and rollback only the entries of what it removes.                   *)
THEOREM CachesSoundForAnyCaller ==
  AnyCaller => [](StringIndexSound /\ SharedBooleansUnannotated)
<1>1. Init => Sound
  BY InitHolds DEF IInv
<1>2. Sound /\ [NextOfAnyCaller]_vars => Sound'
  BY NextKeeps, MutateKeeps DEF NextOfAnyCaller, Preserved
<1>3. Sound => StringIndexSound /\ SharedBooleansUnannotated
  BY DEF Sound, CachedUnannotated, SharedBooleansUnannotated
<1> QED
  BY <1>1, <1>2, <1>3, PTL DEF AnyCaller

-------------------------------------------------------------------------------
(* The refinement.  What a scope would be rolled back to is the store with *)
(* everything above its checkpoint dropped; these lemmas say when two such *)
(* restrictions are the same function.                                     *)
LEMMA DropSame ==
  ASSUME NEW f, NEW g, NEW S, NEW T,
         DOMAIN f \ S = DOMAIN g \ T,
         \A z \in DOMAIN f \ S : f[z] = g[z]
  PROVE  Drop(f, S) = Drop(g, T)
BY DEF Drop

LEMMA DropNothing ==
  ASSUME NEW D, NEW R, NEW f \in [D -> R], NEW S, S \cap D = {}
  PROVE  Drop(f, S) = f
BY DEF Drop

(* The texts a store without `ids` forgets. *)
Forgotten(ids) == {s \in DOMAIN strings : strings[s] \in ids}

LEMMA SavedShape ==
  ASSUME TypeOK
  PROVE  /\ Len(open) \in Nat
         /\ DOMAIN Saved = 1 .. Len(open)
         /\ Len(Saved) = Len(open)
         /\ Saved \in Seq({Saved[i] : i \in 1 .. Len(open)})
<1>1. Len(open) \in Nat /\ DOMAIN Saved = 1 .. Len(open)
  BY DEF TypeOK, Saved
<1> DEFINE S == {Saved[i] : i \in 1 .. Len(open)}
<1>2. Saved \in [1 .. Len(open) -> S]
  BY DEF Saved
<1> HIDE DEF S
<1>3. Saved \in Seq(S)
  BY <1>1, <1>2, SeqDef
<1> QED
  BY <1>1, <1>3 DEF S

(* With the scopes untouched, an insertion changes no saved store. *)
LEMMA InsertGrows ==
  ASSUME Sound, Sound', NEW v \in Payloads(Live), Insert(v), UNCHANGED open,
         \A id \in DOMAIN metadata : id \in DOMAIN metadata' /\ metadata'[id] = metadata[id],
         DOMAIN metadata' \subseteq DOMAIN metadata \cup {nextId},
         \A s \in DOMAIN strings : s \in DOMAIN strings' /\ strings'[s] = strings[s],
         \A s \in DOMAIN strings' : s \in DOMAIN strings \/ strings'[s] = nextId
  PROVE  Abstract!Grow
<1>1. Inserted(v)
  BY InsertKeeps
<1>2. Saved' = Saved
  <2>1. ASSUME NEW i \in 1 .. Len(open)
        PROVE  StoreWithout(Since(open[i]))' = StoreWithout(Since(open[i]))
    <3> DEFINE X == Since(open[i])
    <3>1. X' = X \cup {nextId}
      BY <1>1 DEF Inserted
    <3> HIDE DEF X
    <3>2. Drop(nodes, X)' = Drop(nodes, X)
      <4>1. DOMAIN nodes' \ X' = DOMAIN nodes \ X
        BY <1>1, <3>1 DEF Inserted, Live
      <4>2. \A z \in DOMAIN nodes' \ X' : nodes'[z] = nodes[z]
        BY <1>1, <4>1 DEF Inserted, Live
      <4> QED
        BY <4>1, <4>2, DropSame
    <3>3. Drop(metadata, X)' = Drop(metadata, X)
      <4>1. nextId \notin DOMAIN metadata
        BY <1>1 DEF Inserted, Sound, TypeOK
      <4>2. DOMAIN metadata' \ X' = DOMAIN metadata \ X
        BY <3>1, <4>1
      <4> QED
        BY <4>2, DropSame
    <3>4. Drop(strings, Forgotten(X))' = Drop(strings, Forgotten(X))
      <4>1. \A s \in DOMAIN strings : strings[s] # nextId
        BY <1>1 DEF Inserted, Sound, StringIndexSound
      <4>2. DOMAIN strings' \ Forgotten(X)' = DOMAIN strings \ Forgotten(X)
        BY <3>1, <4>1 DEF Forgotten
      <4> QED
        BY <4>2, DropSame
    <3> QED
      BY <3>2, <3>3, <3>4 DEF StoreWithout, Forgotten, X
  <2> QED
    BY <2>1 DEF Saved
<1>3. /\ Abstract!Extends(nodes', nodes)
      /\ Abstract!Extends(metadata', metadata)
      /\ Abstract!Extends(strings', strings)
  BY <1>1 DEF Abstract!Extends, Inserted, Live
<1> QED
  BY <1>2, <1>3 DEF Abstract!Grow, Store

(* Closing the innermost scope, the remaining scopes' stores unchanged.    *)
LEMMA SavedShrinks ==
  ASSUME TypeOK, Len(open) # 0,
         Len(open') = Len(open) - 1,
         \A i \in 1 .. Len(open) - 1 :
            StoreWithout(Since(open[i]))' = StoreWithout(Since(open[i]))
  PROVE  Saved' = SubSeq(Saved, 1, Len(Saved) - 1)
<1> DEFINE S == {Saved[i] : i \in 1 .. Len(open)}
           m == Len(open) - 1
<1>1. /\ Saved \in Seq(S) /\ Len(Saved) = Len(open) /\ Len(open) \in Nat
      /\ m \in 0 .. Len(Saved)
  BY SavedShape
<1> HIDE DEF S
<1>2. /\ SubSeq(Saved, 1, m) \in Seq(S)
      /\ Len(SubSeq(Saved, 1, m)) = m
      /\ \A i \in 1 .. m : SubSeq(Saved, 1, m)[i] = Saved[i]
  BY <1>1, PrefixFacts
<1>3. DOMAIN Saved' = 1 .. m /\ \A i \in 1 .. m : Saved'[i] = Saved[i]
  BY <1>1 DEF Saved
<1>4. SubSeq(Saved, 1, m) = [i \in 1 .. m |-> Saved[i]]
  BY <1>2
<1>5. Saved' = [i \in 1 .. m |-> Saved[i]]
  BY <1>3 DEF Saved
<1> QED
  BY <1>1, <1>4, <1>5

LEMMA SpeculateBegins ==
  ASSUME Sound, Speculate
  PROVE  Abstract!Begin
<1>1. /\ open' = Append(open, Len(trail))
      /\ UNCHANGED <<nodes, metadata, trail, strings>>
  BY DEF Speculate
<1>2. open \in Seq(Nat) /\ Len(trail) \in Nat /\ trail \in Seq(Live) /\ Len(open) \in Nat
  BY DEF Sound, TypeOK
<1>3. /\ Len(open') = Len(open) + 1
      /\ \A i \in 1 .. Len(open) : open'[i] = open[i]
      /\ open'[Len(open) + 1] = Len(trail)
  BY <1>1, <1>2
<1>4. \A ids : StoreWithout(ids)' = StoreWithout(ids)
  BY <1>1 DEF StoreWithout
<1>5. \A i \in 1 .. Len(open) : Saved'[i] = Saved[i]
  <2> SUFFICES ASSUME NEW i \in 1 .. Len(open)
               PROVE  Saved'[i] = Saved[i]
    OBVIOUS
  <2>1. Since(open[i])' = Since(open[i])
    BY <1>1, <1>3 DEF Since
  <2>2. StoreWithout(Since(open[i]))' = StoreWithout(Since(open[i]))
    BY <1>1, <2>1 DEF StoreWithout
  <2>3. i \in 1 .. Len(open')
    BY <1>2, <1>3
  <2> QED
    BY <2>2, <2>3 DEF Saved
<1>6. Saved'[Len(open) + 1] = Store
  <2> PICK k \in Nat : k = Len(open) + 1
    BY <1>2
  <2>1. Since(open[k])' = {}
    <3>1. open'[k] = Len(trail) /\ trail' = trail
      BY <1>1, <1>3
    <3>2. open'[k] + 1 .. Len(trail') = {}
      BY <1>2, <3>1
    <3> QED
      BY <3>2 DEF Since
  <2>2. Saved'[k] = StoreWithout({})
    <3>1. k \in 1 .. Len(open')
      BY <1>2, <1>3
    <3>2. Saved'[k] = StoreWithout(Since(open[k]))'
      BY <3>1 DEF Saved
    <3> QED
      BY <1>1, <2>1, <3>2 DEF StoreWithout
  <2>3. /\ Drop(nodes, {}) = nodes
        /\ Drop(metadata, {}) = metadata
        /\ Drop(strings, {}) = strings
    <3>1. nodes \in [Live -> Payload] /\ metadata \in [DOMAIN metadata -> Metadata]
      BY DEF Sound, TypeOK
    <3>2. strings \in [DOMAIN strings -> Nat]
      BY DEF Sound, TypeOK
    <3> QED
      BY <3>1, <3>2 DEF Drop
  <2>4. Forgotten({}) = {}
    BY DEF Forgotten
  <2> QED
    BY <2>2, <2>3, <2>4 DEF StoreWithout, Store, Forgotten
<1>7. Saved' = Append(Saved, Store)
  <2>1. Saved' = [i \in 1 .. Len(open) + 1 |-> Saved'[i]]
    BY <1>3 DEF Saved
  <2> DEFINE S == {Saved[i] : i \in 1 .. Len(open)} \cup {Store}
  <2>2. Saved \in Seq(S) /\ Len(Saved) = Len(open) /\ Store \in S
    <3>1. Saved \in [1 .. Len(open) -> S]
      BY DEF Saved
    <3> HIDE DEF S
    <3>2. Saved \in Seq(S)
      BY <1>2, <3>1, SeqDef
    <3> QED
      BY <3>2, SavedShape DEF Sound, S
  <2> HIDE DEF S
  <2>3. /\ Append(Saved, Store) \in Seq(S)
        /\ Len(Append(Saved, Store)) = Len(open) + 1
        /\ \A i \in 1 .. Len(open) : Append(Saved, Store)[i] = Saved[i]
        /\ Append(Saved, Store)[Len(open) + 1] = Store
    BY <2>2, AppendProperties
  <2>4. Append(Saved, Store) = [i \in 1 .. Len(open) + 1 |-> Append(Saved, Store)[i]]
    <3>1. Append(Saved, Store) \in [1 .. Len(open) + 1 -> S]
      BY <2>3, LenProperties
    <3> QED
      BY <3>1
  <2>5. \A i \in 1 .. Len(open) + 1 : Append(Saved, Store)[i] = Saved'[i]
    BY <1>2, <1>5, <1>6, <2>3
  <2> QED
    BY <2>1, <2>4, <2>5
<1> QED
  BY <1>1, <1>7 DEF Abstract!Begin, Store

LEMMA CommitRefines ==
  ASSUME Sound, CommitSpeculation
  PROVE  Abstract!Keep
<1>1. Closed(trail) /\ UNCHANGED <<nodes, metadata, strings>> /\ TypeOK
  BY CloseScopeFacts DEF CommitSpeculation, Sound
<1>2. Len(open) \in Nat \ {0} /\ Len(open') = Len(open) - 1
  BY <1>1 DEF Closed
<1>3. ASSUME NEW i \in 1 .. Len(open) - 1
      PROVE  StoreWithout(Since(open[i]))' = StoreWithout(Since(open[i]))
  <2>1. Len(open) # 1 /\ i \in 1 .. Len(open')
    BY <1>2
  <2>2. trail' = trail /\ open'[i] = open[i]
    BY <1>1, <2>1 DEF Closed
  <2>3. Since(open[i])' = Since(open[i])
    BY <2>2 DEF Since
  <2> QED
    BY <1>1, <2>3 DEF StoreWithout
<1>4. Saved' = SubSeq(Saved, 1, Len(Saved) - 1)
  BY <1>1, <1>2, <1>3, SavedShrinks
<1>5. Saved # << >>
  BY <1>1, <1>2, SavedShape
<1> QED
  BY <1>1, <1>4, <1>5 DEF Abstract!Keep, Store

LEMMA RollbackRefines ==
  ASSUME Sound, Rollback
  PROVE  Abstract!Undo
<1> DEFINE n == Len(open)
           c == open[n]
           removed == Since(c)
<1>1. /\ n \in Nat \ {0} /\ TypeOK
      /\ c \in 0 .. Len(trail)
      /\ trail \in Seq(Live)
      /\ Len(trail) \in Nat
      /\ \A i \in 1 .. n : open[i] \in Nat /\ open[i] <= c
  BY DEF Rollback, TypeOK, OpenOrdered, Sound
<1>2. /\ nodes' = Drop(nodes, removed)
      /\ metadata' = Drop(metadata, removed)
      /\ strings' = Drop(strings, OwnedTexts(removed))
      /\ CloseScope(SubSeq(trail, 1, c))
  BY DEF Rollback
<1>3. Closed(SubSeq(trail, 1, c))
  BY <1>1, <1>2, CloseScopeFacts
<1>4. OwnedTexts(removed) = Forgotten(removed)
  BY DEF OwnedTexts, Forgotten, Sound, StringIndexSound
<1>5. /\ Len(open') = n - 1
      /\ \A i \in 1 .. n - 1 : open'[i] = open[i]
  BY <1>3 DEF Closed
<1>6. Store' = Saved[n]
  BY <1>1, <1>2, <1>4 DEF Store, Saved, StoreWithout, Forgotten
<1>7. \A i \in 1 .. c : trail[i] \notin removed
  BY <1>1 DEF Sound, TrailDistinct, Since
<1>8. ASSUME NEW i \in 1 .. n - 1
      PROVE  StoreWithout(Since(open[i]))' = StoreWithout(Since(open[i]))
  <2> DEFINE X == Since(open[i])
  <2>1. /\ trail' = SubSeq(trail, 1, c)
        /\ Len(trail') = c
        /\ \A j \in 1 .. c : trail'[j] = trail[j]
    <3>1. trail' = SubSeq(trail, 1, c)
      <4>1. Len(open) # 1
        BY <1>1
      <4> QED
        BY <1>3, <4>1 DEF Closed
    <3> HIDE DEF c
    <3>2. /\ Len(SubSeq(trail, 1, c)) = c
          /\ \A j \in 1 .. c : SubSeq(trail, 1, c)[j] = trail[j]
      BY <1>1, PrefixFacts
    <3> QED
      BY <3>1, <3>2
  <2>2. open[i] \in Nat /\ open[i] <= c /\ open'[i] = open[i]
    BY <1>1, <1>5
  <2>3. X' = X \ removed /\ removed \subseteq X
    <3>1. X = {trail[j] : j \in open[i] + 1 .. c} \cup removed
      BY <1>1, <2>2 DEF Since
    <3>2. open'[i] + 1 .. Len(trail') = open[i] + 1 .. c
      BY <2>1, <2>2
    <3>3. \A j \in open[i] + 1 .. c : trail'[j] = trail[j] /\ trail[j] \notin removed
      BY <1>1, <1>7, <2>1, <2>2
    <3>4. X' = {trail[j] : j \in open[i] + 1 .. c}
      BY <3>2, <3>3 DEF Since
    <3> QED
      BY <3>1, <3>3, <3>4
  <2> HIDE DEF X, removed
  <2>4. Drop(nodes, X)' = Drop(nodes, X)
    BY <1>2, <2>3 DEF Drop
  <2>5. Drop(metadata, X)' = Drop(metadata, X)
    BY <1>2, <2>3 DEF Drop
  <2>6. Drop(strings, Forgotten(X))' = Drop(strings, Forgotten(X))
    <3>1. /\ DOMAIN strings' = DOMAIN strings \ Forgotten(removed)
          /\ \A s \in DOMAIN strings' : strings'[s] = strings[s]
      BY <1>2, <1>4 DEF Drop
    <3>2. DOMAIN strings' \ Forgotten(X)' = DOMAIN strings \ Forgotten(X)
      BY <2>3, <3>1 DEF Forgotten
    <3> QED
      BY <3>1, <3>2, DropSame
  <2> QED
    BY <2>4, <2>5, <2>6 DEF StoreWithout, Forgotten, X
<1>9. Saved' = SubSeq(Saved, 1, Len(Saved) - 1)
  BY <1>1, <1>5, <1>8, SavedShrinks
<1>10. Saved # << >> /\ Len(Saved) = n
  BY <1>1, SavedShape
<1> QED
  BY <1>6, <1>9, <1>10 DEF Abstract!Undo

LEMMA MutateRefines ==
  ASSUME Sound, EvaluatorRuns, NEW id \in Live, NEW v \in Payloads(Live), Mutate(id, v)
  PROVE  Abstract!Replace
<1>1. open = << >> /\ open' = << >> /\ metadata' = metadata /\ DOMAIN nodes' = DOMAIN nodes
  BY DEF Mutate, EvaluatorRuns
<1>2. Saved = << >> /\ Saved' = << >>
  BY <1>1 DEF Saved
<1> QED
  BY <1>1, <1>2 DEF Abstract!Replace, Store

LEMMA NextRefines ==
  ASSUME Sound, Sound', [Next]_vars
  PROVE  [Abstract!Next]_<<Store, Saved>>
<1>1. ASSUME NEW v \in Payloads(Live), Alloc(v) PROVE Abstract!Grow
  BY <1>1, InsertGrows DEF Alloc
<1>2. ASSUME NEW v \in Payloads(Live), Insert(v), UNCHANGED <<open, strings>>,
             NEW m, metadata' = Put(metadata, nextId, m)
      PROVE  Abstract!Grow
  <2>1. nextId \notin DOMAIN metadata
    BY DEF Sound, TypeOK
  <2>2. /\ DOMAIN metadata' = DOMAIN metadata \cup {nextId}
        /\ \A i \in DOMAIN metadata : metadata'[i] = metadata[i]
    BY <1>2, <2>1 DEF Put
  <2> QED
    BY <1>2, <2>2, InsertGrows
<1>3. ASSUME NEW v \in Payloads(Live), NEW f \in Structs, NEW C \in RefSets(Live),
             AllocWithMetadata(v, f, C)
      PROVE  Abstract!Grow
  BY <1>3, <1>2 DEF AllocWithMetadata
<1>4. ASSUME NEW src \in Live, NEW v \in Payloads(Live), AllocLike(src, v)
      PROVE  Abstract!Grow
  <2>1. CASE src \in DOMAIN metadata
    BY <1>2, <1>4, <2>1 DEF AllocLike
  <2>2. CASE src \notin DOMAIN metadata
    BY <1>1, <1>4, <2>2 DEF AllocLike, Alloc
  <2> QED
    BY <2>1, <2>2
<1>5. ASSUME NEW b \in BOOLEAN, BoolOf(b) PROVE Abstract!Grow
  BY <1>5, InsertGrows DEF BoolOf, Payloads
<1>6. ASSUME NEW s \in Texts, StringOf(s) PROVE Abstract!Grow
  <2>1. /\ Insert(StringValue(s)) /\ UNCHANGED <<metadata, open>>
        /\ s \notin DOMAIN strings /\ strings' = Put(strings, s, nextId)
    BY <1>6 DEF StringOf
  <2>2. /\ \A t \in DOMAIN strings : t \in DOMAIN strings' /\ strings'[t] = strings[t]
        /\ \A t \in DOMAIN strings' : t \in DOMAIN strings \/ strings'[t] = nextId
    BY <2>1 DEF Put
  <2>3. StringValue(s) \in Payloads(Live)
    BY DEF Payloads
  <2> QED
    BY <2>1, <2>2, <2>3, InsertGrows
<1>7. ASSUME EvaluatorRuns, NEW id \in Live, NEW v \in Payloads(Live), Mutate(id, v)
      PROVE  Abstract!Replace
  BY <1>7, MutateRefines
<1>8. CASE UNCHANGED vars
  BY <1>8 DEF vars, Store, Saved, StoreWithout, Since
<1> QED
  BY <1>1, <1>3, <1>4, <1>5, <1>6, <1>7, <1>8, SpeculateBegins, CommitRefines, RollbackRefines
     DEF Next, Abstract!Next

(* The undo log implements the transactional store for any number of       *)
(* nodes, texts and nested scopes: rollback restores nodes, metadata and   *)
(* text index exactly, and nothing made before a scope changes inside it.  *)
THEOREM Transactional == Spec => ImplementsTransactionalStore
<1>1. Init => Abstract!Init
  BY DEF Init, Abstract!Init, Store, Saved
<1>2. Sound /\ Sound' /\ [Next]_vars => [Abstract!Next]_<<Store, Saved>>
  BY NextRefines
<1>3. IInv => Sound
  BY DEF IInv
<1> QED
  BY Inductive, <1>1, <1>2, <1>3, PTL DEF Spec, ImplementsTransactionalStore, Abstract!Spec,
                                    Abstract!vars
===============================================================================
