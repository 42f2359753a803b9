------------------------- MODULE ScopeFramesProofs -------------------------
(***************************************************************************)
(* For any names, values, addresses and number of handles: shared storage  *)
(* never changes under a capture, and copy-on-write frames with their log  *)
(* of writes and cached view implement plain frames.                       *)
(***************************************************************************)
EXTENDS ScopeFrames, SequenceTheorems, TLAPS

Logged == [Names -> Values \cup {Unbound, Kept}]
FrameRecords == [at : Addr, link : Nat, open : BOOLEAN]
HandleRecords == [at : Addr, link : Nat, of : Nat]
LaterRecords == [base : Addr, writes : Logged, view : Addr \cup {None}]

\* Handles point to maps, to frames and to Laters that are there, and a
\* capture shares the Later of its frame.
Typed ==
  /\ heap \in [Addr -> Bindings]
  /\ frames \in Seq(FrameRecords)
  /\ caps \in Seq(HandleRecords)
  /\ laters \in Seq(LaterRecords)
  /\ saved \in Seq(HandleRecords)
  /\ dynamic \in BOOLEAN
  /\ \A f \in 1 .. Len(frames) : frames[f].link \in 0 .. Len(laters)
  /\ \A c \in 1 .. Len(caps) :
       /\ caps[c].link \in 1 .. Len(laters)
       /\ caps[c].of \in 1 .. Len(frames)
       /\ frames[caps[c].of].link = caps[c].link
  /\ \A s \in 1 .. Len(saved) : saved[s].of \in 1 .. Len(frames)

\* Each Later is of one frame.
OwnLater ==
  \A f, g \in 1 .. Len(frames) :
    frames[f].link # 0 /\ frames[f].link = frames[g].link => f = g

\* A cached view is what building it anew would give.
ViewCurrent ==
  \A l \in 1 .. Len(laters) :
    laters[l].view # None => heap[laters[l].view] = Applied(laters[l])

\* The log says what the frame binds.
LogFollows ==
  \A f \in 1 .. Len(frames) :
    frames[f].open /\ frames[f].link # 0 =>
      Applied(laters[frames[f].link]) = heap[frames[f].at]

\* As long as nothing is written, everybody holds the map of the first capture.
UnwrittenAtBase ==
  \A l \in 1 .. Len(laters) : laters[l].writes = NoWrites =>
    /\ \A c \in 1 .. Len(caps) : caps[c].link = l => caps[c].at = laters[l].base
    /\ \A f \in 1 .. Len(frames) :
         frames[f].open /\ frames[f].link = l => frames[f].at = laters[l].base

\* Set aside and put back, a frame's map is older than its log.
Followed == ~dynamic => saved = <<>> /\ LogFollows /\ UnwrittenAtBase

IInv == Typed /\ OwnLater /\ ViewCurrent /\ Followed

-----------------------------------------------------------------------------
(* Storage *)

LEMMA FreshIsFree == CanAllocate => Fresh \in Addr /\ Free(Fresh)
BY DEF CanAllocate, Fresh

\* What Rc::make_mut and the write leave alone.
LEMMA StoreKeeps ==
  ASSUME Typed, NEW f \in 1 .. Len(frames), frames[f].open,
         NEW map \in Bindings, Store(f, map)
  PROVE  /\ heap' \in [Addr -> Bindings]
         /\ frames' \in Seq(FrameRecords)
         /\ Len(frames') = Len(frames)
         /\ \A g \in 1 .. Len(frames) :
              /\ frames'[g].link = frames[g].link
              /\ frames'[g].open = frames[g].open
              /\ g # f => frames'[g] = frames[g]
              /\ g # f /\ frames[g].open => heap'[frames[g].at] = heap[frames[g].at]
         /\ heap'[frames'[f].at] = map
         /\ \A a \in Addr : HeldElsewhere(a) => heap'[a] = heap[a]
<1> USE DEF Typed
<1>0. frames[f] \in FrameRecords
  OBVIOUS
<1>1. CASE Sole(f) /\ StoreInPlace(f, map)
  <2>1. heap' = [heap EXCEPT ![frames[f].at] = map] /\ frames' = frames
    BY <1>1 DEF StoreInPlace
  <2>2. \A a \in Addr : HeldElsewhere(a) => a # frames[f].at
    BY <1>1 DEF Sole
  <2>3. \A g \in 1 .. Len(frames) : g # f /\ frames[g].open => frames[g].at # frames[f].at
    BY <1>1 DEF Sole, FrameHolds
  <2> QED
    BY <1>0, <2>1, <2>2, <2>3 DEF FrameRecords
<1>2. CASE CanAllocate /\ heap' = [heap EXCEPT ![Fresh] = map]
                       /\ frames' = [frames EXCEPT ![f].at = Fresh]
  <2>1. Fresh \in Addr /\ Free(Fresh)
    BY <1>2, FreshIsFree
  <2> DEFINE a == Fresh
  <2> HIDE DEF a
  <2>2. /\ heap' = [heap EXCEPT ![a] = map]
        /\ frames' = [frames EXCEPT ![f] = [frames[f] EXCEPT !.at = a]]
        /\ a \in Addr /\ Free(a)
    BY <1>2, <2>1 DEF a
  <2>3. \A b \in Addr : HeldElsewhere(b) => b # a
    BY <2>2 DEF Free
  <2>4. \A g \in 1 .. Len(frames) : frames[g].open => frames[g].at # a
    BY <2>2 DEF Free, FrameHolds
  <2>5. [frames[f] EXCEPT !.at = a] \in FrameRecords
    BY <1>0, <2>2 DEF FrameRecords
  <2>6. frames' \in Seq(FrameRecords) /\ Len(frames') = Len(frames)
    BY <2>2, <2>5
  <2>7. \A g \in 1 .. Len(frames) : g # f => frames'[g] = frames[g]
    BY <2>2
  <2>8. /\ frames'[f].at = a
        /\ frames'[f].link = frames[f].link
        /\ frames'[f].open = frames[f].open
    <3>1. frames'[f] = [frames[f] EXCEPT !.at = a]
      <4> DEFINE r == [frames[f] EXCEPT !.at = a]
      <4>1. frames' = [frames EXCEPT ![f] = r]
        BY <2>2
      <4> HIDE DEF r
      <4>2. frames'[f] = r
        BY <4>1
      <4> QED
        BY <4>2 DEF r
    <3> QED
      BY <1>0, <3>1 DEF FrameRecords
  <2>9. \A g \in 1 .. Len(frames) : frames[g] \in FrameRecords
    OBVIOUS
  <2>10. /\ heap' \in [Addr -> Bindings]
         /\ heap'[a] = map
         /\ \A b \in Addr : b # a => heap'[b] = heap[b]
    BY <2>2
  <2>11. \A g \in 1 .. Len(frames) : frames[g].open => heap'[frames[g].at] = heap[frames[g].at]
    BY <2>4, <2>9, <2>10 DEF FrameRecords
  <2> QED
    BY <2>3, <2>6, <2>7, <2>8, <2>10, <2>11
<1> QED
  BY <1>1, <1>2 DEF Store

\* What a Later stands for changes with its writes and its base only.
LEMMA AppliedKept ==
  ASSUME Typed, NEW l \in 1 .. Len(laters), NEW k,
         laters'[k].base = laters[l].base, laters'[k].writes = laters[l].writes,
         heap'[laters[l].base] = heap[laters[l].base]
  PROVE  Applied(laters[k])' = Applied(laters[l])
BY DEF Applied

LEMMA AppliedTyped ==
  ASSUME Typed, NEW l \in 1 .. Len(laters)
  PROVE  /\ laters[l].base \in Addr /\ laters[l].writes \in Logged
         /\ laters[l].view \in Addr \cup {None}
         /\ Applied(laters[l]) \in Bindings
         /\ laters[l].writes = NoWrites => Applied(laters[l]) = heap[laters[l].base]
<1>1. laters[l] \in LaterRecords
  BY DEF Typed
<1>2. laters[l].base \in Addr /\ laters[l].writes \in Logged /\ laters[l].view \in Addr \cup {None}
  BY <1>1 DEF LaterRecords
<1>3. heap[laters[l].base] \in Bindings
  BY <1>2 DEF Typed
<1>4. Applied(laters[l]) \in Bindings
  BY <1>2, <1>3 DEF Applied, Bindings, Logged
<1>5. ASSUME laters[l].writes = NoWrites PROVE Applied(laters[l]) = heap[laters[l].base]
  BY <1>3, <1>5 DEF Applied, NoWrites, Bindings
<1> QED
  BY <1>2, <1>4, <1>5

LEMMA HeldByLater ==
  ASSUME NEW l \in 1 .. Len(laters), Typed
  PROVE  /\ HeldElsewhere(laters[l].base)
         /\ HeldElsewhere(laters[l].view)
<1>1. l \in DOMAIN laters
  BY DEF Typed
<1> QED
  BY <1>1 DEF HeldElsewhere

-----------------------------------------------------------------------------
(* A write *)

\* What a write makes of the Laters: that of its frame records it.
LEMMA RecordFacts ==
  ASSUME Typed, NEW f \in 1 .. Len(frames), NEW n \in Names, NEW x \in Values \cup {Unbound},
         Record(f, n, x)
  PROVE  /\ laters' \in Seq(LaterRecords) /\ Len(laters') = Len(laters)
         /\ \A l \in 1 .. Len(laters) :
              /\ laters'[l].base = laters[l].base
              /\ l # frames[f].link => laters'[l] = laters[l]
         /\ frames[f].link # 0 =>
              /\ laters'[frames[f].link].writes = [laters[frames[f].link].writes EXCEPT ![n] = x]
              /\ laters'[frames[f].link].view = None
<1>1. CASE frames[f].link = 0
  BY <1>1 DEF Record, Typed
<1>2. CASE frames[f].link # 0
  <2> DEFINE k == frames[f].link
  <2> DEFINE r == [laters[k] EXCEPT !.writes = [laters[k].writes EXCEPT ![n] = x], !.view = None]
  <2>1. k \in 1 .. Len(laters) /\ laters[k] \in LaterRecords
    BY <1>2 DEF Typed
  <2>2. laters' = [laters EXCEPT ![k] = r]
    BY <1>2, <2>1 DEF Record, LaterRecords
  <2>3. /\ r \in LaterRecords
        /\ r.base = laters[k].base
        /\ r.writes = [laters[k].writes EXCEPT ![n] = x]
        /\ r.view = None
    BY <2>1 DEF LaterRecords, Logged
  <2> HIDE DEF k, r
  <2>4. /\ laters' \in Seq(LaterRecords) /\ Len(laters') = Len(laters)
        /\ laters'[k] = r
        /\ \A l \in 1 .. Len(laters) : l # k => laters'[l] = laters[l]
    BY <2>1, <2>2, <2>3 DEF Typed
  <2> QED
    BY <1>2, <2>3, <2>4 DEF k
<1> QED
  BY <1>1, <1>2

LEMMA WriteKeeps ==
  ASSUME IInv, NEW f \in 1 .. Len(frames), NEW n \in Names, NEW x \in Values \cup {Unbound},
         Write(f, n, x)
  PROVE  IInv'
<1> DEFINE map == [heap[frames[f].at] EXCEPT ![n] = x]
<1>1. Typed /\ frames[f] \in FrameRecords /\ frames[f].open
  BY DEF IInv, Typed, Write
<1>2. heap[frames[f].at] \in Bindings /\ map \in Bindings
  BY <1>1 DEF Typed, FrameRecords, Bindings
<1>3. Store(f, map) /\ Record(f, n, x) /\ UNCHANGED <<caps, saved, dynamic>>
  BY DEF Write
<1> HIDE DEF map
<1>4. /\ heap' \in [Addr -> Bindings]
      /\ frames' \in Seq(FrameRecords)
      /\ Len(frames') = Len(frames)
      /\ \A g \in 1 .. Len(frames) :
           /\ frames'[g].link = frames[g].link
           /\ frames'[g].open = frames[g].open
           /\ g # f => frames'[g] = frames[g]
           /\ g # f /\ frames[g].open => heap'[frames[g].at] = heap[frames[g].at]
      /\ heap'[frames'[f].at] = map
      /\ \A a \in Addr : HeldElsewhere(a) => heap'[a] = heap[a]
  BY <1>1, <1>2, <1>3, StoreKeeps
<1>5. /\ laters' \in Seq(LaterRecords) /\ Len(laters') = Len(laters)
      /\ \A l \in 1 .. Len(laters) :
           /\ laters'[l].base = laters[l].base
           /\ l # frames[f].link => laters'[l] = laters[l]
      /\ frames[f].link # 0 =>
           /\ laters'[frames[f].link].writes = [laters[frames[f].link].writes EXCEPT ![n] = x]
           /\ laters'[frames[f].link].view = None
  BY <1>1, <1>3, RecordFacts
<1>6. Typed'
  BY <1>1, <1>3, <1>4, <1>5 DEF Typed
<1>7. OwnLater'
  BY <1>4 DEF IInv, OwnLater
<1>8. \A l \in 1 .. Len(laters) :
        /\ heap'[laters[l].base] = heap[laters[l].base]
        /\ laters[l].view # None => heap'[laters[l].view] = heap[laters[l].view]
        /\ l # frames[f].link => Applied(laters[l])' = Applied(laters[l])
  <2> TAKE l \in 1 .. Len(laters)
  <2>1. heap'[laters[l].base] = heap[laters[l].base]
    BY <1>1, <1>4, HeldByLater, AppliedTyped
  <2>2. laters[l].view # None => heap'[laters[l].view] = heap[laters[l].view]
    BY <1>1, <1>4, HeldByLater, AppliedTyped
  <2>3. l # frames[f].link => Applied(laters[l])' = Applied(laters[l])
    BY <1>1, <1>5, <2>1, AppliedKept
  <2> QED
    BY <2>1, <2>2, <2>3
<1>9. ViewCurrent'
  <2> SUFFICES ASSUME NEW l \in 1 .. Len(laters), laters'[l].view # None
               PROVE  heap'[laters'[l].view] = Applied(laters[l])'
    BY <1>5 DEF ViewCurrent
  <2>1. l # frames[f].link /\ laters'[l] = laters[l]
    BY <1>5, <1>1
  <2> QED
    BY <1>8, <2>1 DEF IInv, ViewCurrent
<1>10. ASSUME NEW k, k = frames[f].link, k # 0, ~dynamic
       PROVE  Applied(laters[k])' = map
  <2>1. k \in 1 .. Len(laters)
    BY <1>1, <1>10 DEF Typed
  <2>2. Applied(laters[k]) = heap[frames[f].at]
    BY <1>1, <1>10 DEF IInv, Followed, LogFollows
  <2>3. laters[k].writes \in Logged
    BY <1>1, <2>1, AppliedTyped
  <2>4. /\ laters'[k].base = laters[k].base
        /\ laters'[k].writes = [laters[k].writes EXCEPT ![n] = x]
        /\ heap'[laters[k].base] = heap[laters[k].base]
    BY <1>5, <1>8, <1>10, <2>1
  <2>5. x # Kept
    BY Sentinels
  <2>6. \A m \in Names :
          (IF laters'[k].writes[m] = Kept THEN heap'[laters'[k].base][m] ELSE laters'[k].writes[m])
          = map[m]
    <3> TAKE m \in Names
    <3>1. CASE m = n
      BY <1>2, <2>3, <2>4, <2>5, <3>1 DEF map, Logged, Bindings
    <3>2. CASE m # n
      <4>1. laters'[k].writes[m] = laters[k].writes[m]
        BY <2>3, <2>4, <3>2 DEF Logged
      <4>2. map[m] = heap[frames[f].at][m]
        BY <1>2, <3>2 DEF map, Bindings
      <4>3. Applied(laters[k])[m] =
              IF laters[k].writes[m] = Kept THEN heap[laters[k].base][m] ELSE laters[k].writes[m]
        BY DEF Applied
      <4> QED
        BY <2>2, <2>4, <4>1, <4>2, <4>3
    <3> QED
      BY <3>1, <3>2
  <2> QED
    BY <1>2, <2>6 DEF Applied, Bindings
<1>11. Followed'
  <2> SUFFICES ASSUME ~dynamic PROVE (saved = <<>> /\ LogFollows /\ UnwrittenAtBase)'
    BY <1>3 DEF Followed
  <2>1. saved = <<>> /\ LogFollows /\ UnwrittenAtBase
    BY DEF IInv, Followed
  <2>2. LogFollows'
    <3> SUFFICES ASSUME NEW g \in 1 .. Len(frames), frames[g].open, frames[g].link # 0,
                        NEW k, k = frames[g].link
                 PROVE  Applied(laters[k])' = heap'[frames'[g].at]
      BY <1>4 DEF LogFollows
    <3>1. CASE g = f
      BY <1>4, <1>10, <3>1
    <3>2. CASE g # f
      <4>1. k \in 1 .. Len(laters) /\ k # frames[f].link
        BY <1>1, <3>2 DEF IInv, OwnLater, Typed
      <4>2. Applied(laters[k]) = heap[frames[g].at]
        BY <2>1 DEF LogFollows
      <4>3. Applied(laters[k])' = Applied(laters[k])
        BY <1>8, <4>1
      <4>4. heap'[frames'[g].at] = heap[frames[g].at]
        BY <1>4, <3>2
      <4> QED
        BY <4>2, <4>3, <4>4
    <3> QED
      BY <3>1, <3>2
  <2>3. UnwrittenAtBase'
    <3> SUFFICES ASSUME NEW l \in 1 .. Len(laters), laters'[l].writes = NoWrites
                 PROVE  /\ \A c \in 1 .. Len(caps) : caps[c].link = l => caps[c].at = laters'[l].base
                        /\ \A g \in 1 .. Len(frames) :
                             frames'[g].open /\ frames'[g].link = l => frames'[g].at = laters'[l].base
      BY <1>3, <1>4, <1>5 DEF UnwrittenAtBase
    <3>1. l # frames[f].link
      <4> SUFFICES ASSUME l = frames[f].link PROVE FALSE
        OBVIOUS
      <4>1. laters'[l].writes = [laters[l].writes EXCEPT ![n] = x] /\ laters[l].writes \in Logged
        BY <1>1, <1>5, AppliedTyped
      <4>2. laters'[l].writes[n] = x
        BY <4>1 DEF Logged
      <4> QED
        BY <4>2, Sentinels DEF NoWrites
    <3>2. laters'[l] = laters[l]
      BY <1>5, <3>1
    <3>3. \A c \in 1 .. Len(caps) : caps[c].link = l => caps[c].at = laters[l].base
      BY <2>1, <3>2 DEF UnwrittenAtBase
    <3>4. \A g \in 1 .. Len(frames) : frames'[g].open /\ frames'[g].link = l => frames'[g].at = laters[l].base
      <4> SUFFICES ASSUME NEW g \in 1 .. Len(frames), frames'[g].open, frames'[g].link = l
                   PROVE  frames'[g].at = laters[l].base
        OBVIOUS
      <4>1. g # f /\ frames'[g] = frames[g]
        BY <1>4, <3>1
      <4> QED
        BY <2>1, <3>2, <4>1 DEF UnwrittenAtBase
    <3> QED
      BY <3>2, <3>3, <3>4
  <2> QED
    BY <1>3, <2>1, <2>2, <2>3
<1> QED
  BY <1>6, <1>7, <1>9, <1>11 DEF IInv

-----------------------------------------------------------------------------
(* The other steps *)

\* A capture shares the Later of its frame, a new one if it has none.
LEMMA CaptureFacts ==
  ASSUME Typed, NEW f \in 1 .. Len(frames), Capture(f)
  PROVE  \E k \in Nat \ {0} :
           /\ frames[f].open
           /\ frames[f].link \in {0, k}
           /\ frames' = [frames EXCEPT ![f] = [at |-> frames[f].at, link |-> k, open |-> TRUE]]
           /\ caps' = Append(caps, [at |-> frames[f].at, link |-> k, of |-> f])
           /\ \/ /\ frames[f].link = 0 /\ k = Len(laters) + 1
                 /\ laters' = Append(laters, [base |-> frames[f].at,
                                             writes |-> NoWrites, view |-> None])
              \/ /\ frames[f].link = k /\ k \in 1 .. Len(laters)
                 /\ laters' = laters
<1>1. frames[f] \in FrameRecords /\ frames[f].link \in 0 .. Len(laters) /\ Len(laters) \in Nat
  BY DEF Typed
<1>2. frames[f].open
  BY DEF Capture
<1>3. frames[f] = [at |-> frames[f].at, link |-> frames[f].link, open |-> TRUE]
  BY <1>1, <1>2 DEF FrameRecords
<1> DEFINE k == IF frames[f].link = 0 THEN Len(laters) + 1 ELSE frames[f].link
<1>4. /\ frames' = [frames EXCEPT ![f].link = k]
      /\ caps' = Append(caps, [at |-> frames[f].at, link |-> k, of |-> f])
      /\ laters' = IF frames[f].link = 0
                   THEN Append(laters, [base |-> frames[f].at, writes |-> NoWrites, view |-> None])
                   ELSE laters
  BY DEF Capture
<1>5. k \in Nat \ {0} /\ (frames[f].link # 0 => k \in 1 .. Len(laters))
  BY <1>1
<1>6. frames' = [frames EXCEPT ![f] = [at |-> frames[f].at, link |-> k, open |-> TRUE]]
  <2> HIDE DEF k
  <2>1. \A r \in FrameRecords : [r EXCEPT !.link = k] = [at |-> r.at, link |-> k, open |-> r.open]
    BY DEF FrameRecords
  <2>2. [frames[f] EXCEPT !.link = k] = [at |-> frames[f].at, link |-> k, open |-> TRUE]
    BY <1>1, <1>2, <2>1 DEF FrameRecords
  <2> QED
    BY <1>4, <2>2
<1> QED
  BY <1>2, <1>4, <1>5, <1>6

LEMMA CaptureKeeps ==
  ASSUME IInv, NEW f \in 1 .. Len(frames), Capture(f)
  PROVE  IInv'
<1>1. Typed /\ frames[f] \in FrameRecords
  BY DEF IInv, Typed
<1> DEFINE F(k) == [at |-> frames[f].at, link |-> k, open |-> TRUE]
           L == [base |-> frames[f].at, writes |-> NoWrites, view |-> None]
           C(k) == [at |-> frames[f].at, link |-> k, of |-> f]
<1>2. PICK k \in Nat \ {0} :
        /\ frames[f].open
        /\ frames[f].link \in {0, k}
        /\ frames' = [frames EXCEPT ![f] = F(k)]
        /\ caps' = Append(caps, C(k))
        /\ \/ frames[f].link = 0 /\ k = Len(laters) + 1 /\ laters' = Append(laters, L)
           \/ frames[f].link = k /\ k \in 1 .. Len(laters) /\ laters' = laters
  BY <1>1, CaptureFacts
<1>3. UNCHANGED <<heap, saved, dynamic>>
  BY DEF Capture
<1>4. /\ F(k) \in FrameRecords /\ F(k).at = frames[f].at /\ F(k).link = k /\ F(k).open
      /\ C(k) \in HandleRecords /\ C(k).at = frames[f].at /\ C(k).link = k /\ C(k).of = f
      /\ L \in LaterRecords /\ L.base = frames[f].at /\ L.writes = NoWrites /\ L.view = None
  BY <1>1 DEF FrameRecords, HandleRecords, LaterRecords, NoWrites, Logged, Typed
<1> HIDE DEF F, C, L
<1>5. /\ frames' \in Seq(FrameRecords) /\ Len(frames') = Len(frames)
      /\ frames'[f] = F(k)
      /\ \A g \in 1 .. Len(frames) : g # f => frames'[g] = frames[g]
  BY <1>1, <1>2, <1>4 DEF Typed
<1>6. /\ caps' \in Seq(HandleRecords) /\ Len(caps') = Len(caps) + 1
      /\ caps'[Len(caps) + 1] = C(k)
      /\ \A c \in 1 .. Len(caps) : caps'[c] = caps[c]
  BY <1>1, <1>2, <1>4 DEF Typed
<1>7. /\ laters' \in Seq(LaterRecords)
      /\ Len(laters') >= Len(laters) /\ Len(laters') \in Nat
      /\ \A l \in 1 .. Len(laters) : laters'[l] = laters[l]
      /\ \A l \in 1 .. Len(laters') : l \in 1 .. Len(laters) \/ (l = k /\ laters'[l] = L)
      /\ k \in 1 .. Len(laters')
  <2>1. laters \in Seq(LaterRecords) /\ Len(laters) \in Nat
    BY <1>1 DEF Typed
  <2>2. CASE laters' = laters /\ k \in 1 .. Len(laters)
    BY <2>1, <2>2
  <2>3. CASE laters' = Append(laters, L) /\ k = Len(laters) + 1
    <3>1. /\ laters' \in Seq(LaterRecords) /\ Len(laters') = Len(laters) + 1
          /\ laters'[Len(laters) + 1] = L
          /\ \A l \in 1 .. Len(laters) : laters'[l] = laters[l]
      BY <1>4, <2>1, <2>3
    <3> QED
      BY <2>1, <2>3, <3>1
  <2> QED
    BY <1>2, <2>2, <2>3
<1>8. \A l \in 1 .. Len(laters) : Applied(laters[l])' = Applied(laters[l])
  BY <1>1, <1>3, <1>7, AppliedKept
<1>9. Typed'
  <2>1. \A g \in 1 .. Len(frames') : frames'[g].link \in 0 .. Len(laters')
    <3> TAKE g \in 1 .. Len(frames')
    <3>1. CASE g = f
      BY <1>4, <1>5, <1>7, <3>1
    <3>2. CASE g # f
      <4>1. frames'[g].link = frames[g].link /\ frames[g].link \in 0 .. Len(laters)
        BY <1>1, <1>5, <3>2 DEF Typed
      <4> QED
        BY <1>1, <1>7, <4>1 DEF Typed
    <3> QED
      BY <3>1, <3>2
  <2>2. \A c \in 1 .. Len(caps') :
          /\ caps'[c].link \in 1 .. Len(laters')
          /\ caps'[c].of \in 1 .. Len(frames')
          /\ frames'[caps'[c].of].link = caps'[c].link
    <3> TAKE c \in 1 .. Len(caps')
    <3>1. CASE c = Len(caps) + 1
      BY <1>1, <1>4, <1>5, <1>6, <1>7, <3>1 DEF Typed
    <3>2. CASE c \in 1 .. Len(caps)
      <4>1. /\ caps'[c] = caps[c] /\ caps[c].link \in 1 .. Len(laters)
            /\ caps[c].of \in 1 .. Len(frames) /\ frames[caps[c].of].link = caps[c].link
        BY <1>1, <1>6, <3>2 DEF Typed
      <4>2. frames'[caps[c].of].link = caps[c].link
        BY <1>2, <1>4, <1>5, <4>1
      <4> QED
        BY <1>5, <1>7, <4>1, <4>2
    <3> QED
      BY <1>1, <1>6, <3>1, <3>2 DEF Typed
  <2> QED
    BY <1>1, <1>3, <1>5, <1>6, <1>7, <2>1, <2>2 DEF Typed
<1>10. OwnLater'
  <2> SUFFICES ASSUME NEW g \in 1 .. Len(frames), NEW h \in 1 .. Len(frames),
                      frames'[g].link # 0, frames'[g].link = frames'[h].link
               PROVE  g = h
    BY <1>5 DEF OwnLater
  <2>1. \A i \in 1 .. Len(frames) : i # f => frames'[i].link = frames[i].link /\ frames[i].link \in 0 .. Len(laters)
    BY <1>1, <1>5 DEF Typed
  <2>2. frames'[f].link = k
    BY <1>4, <1>5
  <2> QED
    BY <1>1, <1>2, <2>1, <2>2 DEF IInv, OwnLater, Typed
<1>11. ViewCurrent'
  <2> SUFFICES ASSUME NEW l \in 1 .. Len(laters'), laters'[l].view # None
               PROVE  heap'[laters'[l].view] = Applied(laters[l])'
    BY DEF ViewCurrent
  <2>1. l \in 1 .. Len(laters)
    BY <1>4, <1>7
  <2> QED
    BY <1>3, <1>7, <1>8, <2>1 DEF IInv, ViewCurrent
<1>12. Followed'
  <2> SUFFICES ASSUME ~dynamic PROVE (saved = <<>> /\ LogFollows /\ UnwrittenAtBase)'
    BY <1>3 DEF Followed
  <2>1. saved = <<>> /\ LogFollows /\ UnwrittenAtBase
    BY DEF IInv, Followed
  <2>2. ASSUME laters'[k] = L, k \notin 1 .. Len(laters)
        PROVE  Applied(laters[k])' = heap[frames[f].at]
    <3>1. heap[frames[f].at] \in Bindings
      BY <1>1 DEF Typed, FrameRecords
    <3> QED
      BY <1>3, <1>4, <2>2, <3>1 DEF Applied, NoWrites, Bindings
  <2>3. LogFollows'
    <3> SUFFICES ASSUME NEW g \in 1 .. Len(frames), NEW l, l = frames'[g].link,
                        frames'[g].open, l # 0
                 PROVE  Applied(laters[l])' = heap[frames'[g].at]
      BY <1>3, <1>5 DEF LogFollows
    <3>1. CASE g = f
      <4>1. l = k /\ frames'[g].at = frames[f].at
        BY <1>4, <1>5, <3>1
      <4>2. CASE k \in 1 .. Len(laters) /\ frames[f].link = k
        BY <1>2, <1>8, <2>1, <4>1, <4>2 DEF LogFollows
      <4>3. CASE k \notin 1 .. Len(laters)
        BY <1>7, <2>2, <4>1, <4>3
      <4> QED
        BY <1>1, <1>2, <4>2, <4>3 DEF Typed
    <3>2. CASE g # f
      <4>1. frames'[g] = frames[g] /\ l \in 1 .. Len(laters)
        BY <1>1, <1>5, <3>2 DEF Typed
      <4> QED
        BY <1>8, <2>1, <4>1 DEF LogFollows
    <3> QED
      BY <3>1, <3>2
  <2>4. UnwrittenAtBase'
    <3> SUFFICES ASSUME NEW l \in 1 .. Len(laters'), laters'[l].writes = NoWrites
                 PROVE  /\ \A c \in 1 .. Len(caps') : caps'[c].link = l => caps'[c].at = laters'[l].base
                        /\ \A g \in 1 .. Len(frames) :
                             frames'[g].open /\ frames'[g].link = l => frames'[g].at = laters'[l].base
      BY <1>5 DEF UnwrittenAtBase
    <3>1. CASE l \in 1 .. Len(laters)
      <4>1. laters'[l] = laters[l]
        BY <1>7, <3>1
      <4>2. \A g \in 1 .. Len(frames) : frames[g].open /\ frames[g].link = l => frames[g].at = laters[l].base
        BY <2>1, <3>1, <4>1 DEF UnwrittenAtBase
      <4>3. l = k => frames[f].link = k
        BY <1>1, <1>2, <3>1 DEF Typed
      <4>4. l = k => frames[f].at = laters[l].base
        BY <1>2, <4>2, <4>3
      <4>5. \A g \in 1 .. Len(frames) : frames'[g].open /\ frames'[g].link = l => frames'[g].at = laters[l].base
        BY <1>4, <1>5, <4>2, <4>4
      <4>6. \A c \in 1 .. Len(caps) : caps'[c].link = l => caps'[c].at = laters[l].base
        BY <1>6, <2>1, <3>1, <4>1 DEF UnwrittenAtBase
      <4>7. caps'[Len(caps) + 1].link = l => caps'[Len(caps) + 1].at = laters[l].base
        BY <1>4, <1>6, <4>4
      <4>8. \A c \in 1 .. Len(caps') : c \in 1 .. Len(caps) \/ c = Len(caps) + 1
        BY <1>1, <1>6 DEF Typed
      <4>9. \A c \in 1 .. Len(caps') : caps'[c].link = l => caps'[c].at = laters[l].base
        BY <4>6, <4>7, <4>8
      <4>10. laters'[l].base = laters[l].base
        BY <4>1
      <4> QED
        BY <4>5, <4>9, <4>10
    <3>2. CASE l \notin 1 .. Len(laters)
      <4>1. l = k /\ laters'[l].base = frames[f].at
        BY <1>4, <1>7, <3>2
      <4>2. \A g \in 1 .. Len(frames) : frames'[g].link = l => g = f
        BY <1>1, <1>5, <3>2 DEF Typed
      <4>3. \A c \in 1 .. Len(caps) : caps'[c].link # l
        BY <1>1, <1>6, <3>2 DEF Typed
      <4>4. \A c \in 1 .. Len(caps') : c \in 1 .. Len(caps) \/ c = Len(caps) + 1
        BY <1>1, <1>6 DEF Typed
      <4>5. caps'[Len(caps) + 1].at = frames[f].at /\ frames'[f].at = frames[f].at
        BY <1>4, <1>5, <1>6
      <4>6. \A c \in 1 .. Len(caps') : caps'[c].link = l => caps'[c].at = frames[f].at
        BY <4>3, <4>4, <4>5
      <4>7. \A g \in 1 .. Len(frames) : frames'[g].link = l => frames'[g].at = frames[f].at
        BY <4>2, <4>5
      <4>8. laters'[l].base = frames[f].at
        BY <4>1
      <4>9. \A c \in 1 .. Len(caps') : caps'[c].link = l => caps'[c].at = laters'[l].base
        BY <4>6, <4>8
      <4>10. \A g \in 1 .. Len(frames) : frames'[g].link = l => frames'[g].at = laters'[l].base
        BY <4>7, <4>8
      <4> QED
        BY <4>9, <4>10
    <3> QED
      BY <3>1, <3>2
  <2> QED
    BY <1>3, <2>1, <2>3, <2>4
<1> QED
  BY <1>9, <1>10, <1>11, <1>12 DEF IInv

\* A derivation gets a frame of its own over a map nobody writes: one there is,
\* or one built for it, which is then the view.
LEMMA CurrentFacts ==
  ASSUME IInv, NEW c \in 1 .. Len(caps), Current(c)
  PROVE  \E a \in Addr :
           /\ frames' = Append(frames, [at |-> a, link |-> 0, open |-> TRUE])
           /\ heap' \in [Addr -> Bindings]
           /\ \A b \in Addr : HeldElsewhere(b) => heap'[b] = heap[b]
           /\ \A g \in 1 .. Len(frames) : frames[g].open => heap'[frames[g].at] = heap[frames[g].at]
           /\ laters' \in Seq(LaterRecords) /\ Len(laters') = Len(laters)
           /\ \A l \in 1 .. Len(laters) :
                /\ laters'[l].base = laters[l].base /\ laters'[l].writes = laters[l].writes
                /\ \/ laters'[l].view = laters[l].view
                   \/ laters'[l].view = a /\ heap'[a] = Applied(laters[l])
           /\ ~dynamic => heap'[a] = Applied(laters[caps[c].link])
<1>1. Typed /\ caps[c] \in HandleRecords /\ caps[c].link \in 1 .. Len(laters)
  BY DEF IInv, Typed
<1> DEFINE k == caps[c].link
           Opens(a) == frames' = Append(frames, [at |-> a, link |-> 0, open |-> TRUE])
<1>2. /\ k \in 1 .. Len(laters) /\ laters[k] \in LaterRecords /\ caps[c].at \in Addr
      /\ Applied(laters[k]) \in Bindings
      /\ laters[k].writes = NoWrites => Applied(laters[k]) = heap[laters[k].base]
  BY <1>1, AppliedTyped DEF Typed, HandleRecords
<1>3. CASE laters[k].writes = NoWrites /\ Opens(caps[c].at) /\ UNCHANGED <<heap, laters>>
  <2>1. ~dynamic => heap[caps[c].at] = Applied(laters[k])
    BY <1>2, <1>3 DEF IInv, Followed, UnwrittenAtBase
  <2> QED
    BY <1>1, <1>2, <1>3, <2>1 DEF Typed
<1>4. CASE laters[k].view # None /\ Opens(laters[k].view) /\ UNCHANGED <<heap, laters>>
  <2>1. laters[k].view \in Addr /\ heap[laters[k].view] = Applied(laters[k])
    BY <1>2, <1>4 DEF LaterRecords, IInv, ViewCurrent
  <2> QED
    BY <1>1, <1>2, <1>4, <2>1 DEF Typed
<1>5. CASE /\ CanAllocate /\ Opens(Fresh)
           /\ heap' = [heap EXCEPT ![Fresh] = Applied(laters[k])]
           /\ laters' = [laters EXCEPT ![k].view = Fresh]
  <2> DEFINE a == Fresh
             r == [laters[k] EXCEPT !.view = a]
  <2>1. a \in Addr /\ Free(a)
    BY <1>5, FreshIsFree
  <2>2. Opens(a) /\ heap' = [heap EXCEPT ![a] = Applied(laters[k])] /\ laters' = [laters EXCEPT ![k] = r]
    BY <1>5
  <2> HIDE DEF a
  <2>3. r \in LaterRecords /\ r.base = laters[k].base /\ r.writes = laters[k].writes /\ r.view = a
    BY <1>2, <2>1 DEF LaterRecords
  <2> HIDE DEF r, k, Opens
  <2>4. /\ heap' \in [Addr -> Bindings]
        /\ heap'[a] = Applied(laters[k])
        /\ \A b \in Addr : b # a => heap'[b] = heap[b]
    BY <1>1, <1>2, <2>1, <2>2 DEF Typed
  <2>5. /\ laters' \in Seq(LaterRecords) /\ Len(laters') = Len(laters)
        /\ laters'[k] = r
        /\ \A l \in 1 .. Len(laters) : l # k => laters'[l] = laters[l]
    BY <1>1, <1>2, <2>2, <2>3 DEF Typed
  <2>6. \A b \in Addr : HeldElsewhere(b) => b # a
    BY <2>1 DEF Free
  <2>7. \A g \in 1 .. Len(frames) : frames[g].open => frames[g].at # a /\ frames[g].at \in Addr
    <3>1. \A g \in 1 .. Len(frames) : frames[g].at \in Addr
      <4> TAKE g \in 1 .. Len(frames)
      <4>1. frames[g] \in FrameRecords
        BY <1>1 DEF Typed
      <4> QED
        BY <4>1 DEF FrameRecords
    <3>2. \A g \in 1 .. Len(frames) : frames[g].open => frames[g].at # a
      BY <1>1, <2>1 DEF Free, FrameHolds, Typed
    <3> QED
      BY <3>1, <3>2
  <2>8. \A l \in 1 .. Len(laters) :
          /\ laters'[l].base = laters[l].base /\ laters'[l].writes = laters[l].writes
          /\ \/ laters'[l].view = laters[l].view
             \/ laters'[l].view = a /\ heap'[a] = Applied(laters[l])
    BY <2>3, <2>4, <2>5
  <2>9. \A g \in 1 .. Len(frames) : frames[g].open => heap'[frames[g].at] = heap[frames[g].at]
    BY <2>4, <2>7
  <2>10. \A b \in Addr : HeldElsewhere(b) => heap'[b] = heap[b]
    BY <2>4, <2>6
  <2> QED
    BY <2>1, <2>2, <2>4, <2>5, <2>8, <2>9, <2>10 DEF k, Opens
<1> QED
  BY <1>3, <1>4, <1>5 DEF Current, Own

LEMMA CurrentKeeps ==
  ASSUME IInv, NEW c \in 1 .. Len(caps), Current(c)
  PROVE  IInv'
<1>1. Typed
  BY DEF IInv
<1> DEFINE F(a) == [at |-> a, link |-> 0, open |-> TRUE]
<1>2. PICK a \in Addr :
        /\ frames' = Append(frames, F(a))
        /\ heap' \in [Addr -> Bindings]
        /\ \A b \in Addr : HeldElsewhere(b) => heap'[b] = heap[b]
        /\ \A g \in 1 .. Len(frames) : frames[g].open => heap'[frames[g].at] = heap[frames[g].at]
        /\ laters' \in Seq(LaterRecords) /\ Len(laters') = Len(laters)
        /\ \A l \in 1 .. Len(laters) :
             /\ laters'[l].base = laters[l].base /\ laters'[l].writes = laters[l].writes
             /\ \/ laters'[l].view = laters[l].view
                \/ laters'[l].view = a /\ heap'[a] = Applied(laters[l])
        /\ ~dynamic => heap'[a] = Applied(laters[caps[c].link])
  BY CurrentFacts
<1>3. UNCHANGED <<caps, saved, dynamic>>
  BY DEF Current
<1>4. F(a) \in FrameRecords /\ F(a).link = 0
  BY DEF FrameRecords
<1> HIDE DEF F
<1>5. /\ frames' \in Seq(FrameRecords) /\ Len(frames') = Len(frames) + 1
      /\ frames'[Len(frames) + 1] = F(a)
      /\ \A g \in 1 .. Len(frames) : frames'[g] = frames[g]
      /\ \A g \in 1 .. Len(frames') : g \in 1 .. Len(frames) \/ g = Len(frames) + 1
      /\ \A g \in 1 .. Len(frames) : g \in 1 .. Len(frames')
  BY <1>1, <1>2, <1>4 DEF Typed
<1>6. \A l \in 1 .. Len(laters) :
        /\ Applied(laters[l])' = Applied(laters[l])
        /\ laters[l].view # None => heap'[laters[l].view] = heap[laters[l].view]
  <2> TAKE l \in 1 .. Len(laters)
  <2>1. heap'[laters[l].base] = heap[laters[l].base]
    BY <1>1, <1>2, HeldByLater, AppliedTyped
  <2>2. laters[l].view # None => heap'[laters[l].view] = heap[laters[l].view]
    BY <1>1, <1>2, HeldByLater, AppliedTyped
  <2> QED
    BY <1>1, <1>2, <2>1, <2>2, AppliedKept
<1>7. Typed'
  <2>1. \A g \in 1 .. Len(frames') : frames'[g].link \in 0 .. Len(laters')
    BY <1>1, <1>2, <1>4, <1>5 DEF Typed
  <2>2. \A d \in 1 .. Len(caps) :
          /\ caps[d].link \in 1 .. Len(laters')
          /\ caps[d].of \in 1 .. Len(frames')
          /\ frames'[caps[d].of].link = caps[d].link
    BY <1>1, <1>2, <1>5 DEF Typed
  <2> QED
    BY <1>1, <1>2, <1>3, <1>5, <2>1, <2>2 DEF Typed
<1>8. OwnLater'
  <2> SUFFICES ASSUME NEW g \in 1 .. Len(frames'), NEW h \in 1 .. Len(frames'),
                      frames'[g].link # 0, frames'[g].link = frames'[h].link
               PROVE  g = h
    BY DEF OwnLater
  <2>1. g \in 1 .. Len(frames) /\ h \in 1 .. Len(frames)
    BY <1>4, <1>5
  <2> QED
    BY <1>5, <2>1 DEF IInv, OwnLater
<1>9. ViewCurrent'
  <2> SUFFICES ASSUME NEW l \in 1 .. Len(laters), laters'[l].view # None
               PROVE  heap'[laters'[l].view] = Applied(laters[l])'
    BY <1>2 DEF ViewCurrent
  <2>1. CASE laters'[l].view = laters[l].view
    BY <1>6, <2>1 DEF IInv, ViewCurrent
  <2>2. CASE laters'[l].view = a /\ heap'[a] = Applied(laters[l])
    BY <1>6, <2>2
  <2> QED
    BY <1>2, <2>1, <2>2
<1>10. Followed'
  <2> SUFFICES ASSUME ~dynamic PROVE (saved = <<>> /\ LogFollows /\ UnwrittenAtBase)'
    BY <1>3 DEF Followed
  <2>1. saved = <<>> /\ LogFollows /\ UnwrittenAtBase
    BY DEF IInv, Followed
  <2>2. LogFollows'
    <3> SUFFICES ASSUME NEW g \in 1 .. Len(frames'), NEW l, l = frames'[g].link,
                        frames'[g].open, l # 0
                 PROVE  Applied(laters[l])' = heap'[frames'[g].at]
      BY DEF LogFollows
    <3>1. g \in 1 .. Len(frames) /\ frames'[g] = frames[g]
      BY <1>4, <1>5
    <3>2. l \in 1 .. Len(laters)
      BY <1>1, <3>1 DEF Typed
    <3> QED
      BY <1>2, <1>6, <2>1, <3>1, <3>2 DEF LogFollows
  <2>3. UnwrittenAtBase'
    <3> SUFFICES ASSUME NEW l \in 1 .. Len(laters), laters[l].writes = NoWrites
                 PROVE  /\ \A d \in 1 .. Len(caps) : caps[d].link = l => caps[d].at = laters[l].base
                        /\ \A g \in 1 .. Len(frames') :
                             frames'[g].open /\ frames'[g].link = l => frames'[g].at = laters[l].base
      BY <1>2, <1>3 DEF UnwrittenAtBase
    <3>1. \A g \in 1 .. Len(frames') :
            frames'[g].open /\ frames'[g].link = l => frames'[g].at = laters[l].base
      <4> SUFFICES ASSUME NEW g \in 1 .. Len(frames'), frames'[g].open, frames'[g].link = l
                   PROVE  frames'[g].at = laters[l].base
        OBVIOUS
      <4>1. g \in 1 .. Len(frames) /\ frames'[g] = frames[g]
        BY <1>4, <1>5
      <4> QED
        BY <2>1, <4>1 DEF UnwrittenAtBase
    <3> QED
      BY <2>1, <3>1 DEF UnwrittenAtBase
  <2> QED
    BY <1>3, <2>1, <2>2, <2>3
<1> QED
  BY <1>7, <1>8, <1>9, <1>10 DEF IInv

LEMMA LeaveKeeps ==
  ASSUME IInv, NEW f \in 1 .. Len(frames), Leave(f)
  PROVE  IInv'
<1>1. Typed /\ frames[f] \in FrameRecords
  BY DEF IInv, Typed
<1>2. UNCHANGED <<heap, caps, laters, saved, dynamic>>
  BY DEF Leave
<1> DEFINE r == [frames[f] EXCEPT !.open = FALSE]
<1>3. frames' = [frames EXCEPT ![f] = r]
  BY DEF Leave
<1>4. r \in FrameRecords /\ r.link = frames[f].link /\ ~r.open
  BY <1>1 DEF FrameRecords
<1> HIDE DEF r
<1>5. /\ frames' \in Seq(FrameRecords) /\ Len(frames') = Len(frames)
      /\ \A g \in 1 .. Len(frames) :
           /\ frames'[g].link = frames[g].link
           /\ frames'[g].open => frames'[g] = frames[g]
  BY <1>1, <1>3, <1>4 DEF Typed
<1>6. Typed'
  BY <1>1, <1>2, <1>5 DEF Typed
<1>7. OwnLater'
  BY <1>5 DEF IInv, OwnLater
<1>8. ViewCurrent'
  BY <1>2 DEF IInv, ViewCurrent, Applied
<1>9. Followed'
  <2> SUFFICES ASSUME ~dynamic PROVE (saved = <<>> /\ LogFollows /\ UnwrittenAtBase)'
    BY <1>2 DEF Followed
  <2>1. saved = <<>> /\ LogFollows /\ UnwrittenAtBase
    BY DEF IInv, Followed
  <2>2. LogFollows'
    BY <1>2, <1>5, <2>1 DEF LogFollows, Applied
  <2>3. UnwrittenAtBase'
    BY <1>2, <1>5, <2>1 DEF UnwrittenAtBase
  <2> QED
    BY <1>2, <2>1, <2>2, <2>3
<1> QED
  BY <1>6, <1>7, <1>8, <1>9 DEF IInv

LEMMA SetAsideKeeps ==
  ASSUME IInv, NEW f \in 1 .. Len(frames), SetAside(f)
  PROVE  IInv'
<1>1. Typed /\ frames[f] \in FrameRecords /\ dynamic
  BY DEF IInv, Typed, SetAside
<1>2. UNCHANGED <<heap, frames, caps, laters, dynamic>>
  BY DEF SetAside
<1> DEFINE r == [at |-> frames[f].at, link |-> frames[f].link, of |-> f]
<1>3. saved' = <<r>> /\ r \in HandleRecords /\ r.of = f
  BY <1>1 DEF SetAside, HandleRecords, FrameRecords
<1> HIDE DEF r
<1>4. saved' \in Seq(HandleRecords) /\ \A s \in 1 .. Len(saved') : saved'[s].of \in 1 .. Len(frames)
  BY <1>3
<1>5. Typed'
  BY <1>1, <1>2, <1>4 DEF Typed
<1> QED
  BY <1>1, <1>2, <1>5 DEF IInv, OwnLater, ViewCurrent, Applied, Followed

LEMMA PutBackKeeps ==
  ASSUME IInv, PutBack
  PROVE  IInv'
<1>1. Typed /\ saved # <<>> /\ saved \in Seq(HandleRecords)
  BY DEF IInv, Typed, PutBack
<1>2. 1 \in 1 .. Len(saved) /\ saved[1] \in HandleRecords /\ saved[1].of \in 1 .. Len(frames)
  BY <1>1 DEF Typed
<1>3. dynamic
  BY <1>1 DEF IInv, Followed, Typed
<1>4. UNCHANGED <<heap, caps, laters, dynamic>> /\ saved' = <<>>
  BY DEF PutBack
<1> DEFINE f == saved[1].of
           r == [frames[f] EXCEPT !.at = saved[1].at]
<1>5. f \in 1 .. Len(frames) /\ frames[f] \in FrameRecords /\ frames' = [frames EXCEPT ![f] = r]
  BY <1>1, <1>2 DEF PutBack, Typed
<1>6. r \in FrameRecords /\ r.link = frames[f].link
  BY <1>2, <1>5 DEF FrameRecords, HandleRecords
<1> HIDE DEF f, r
<1>7. /\ frames' \in Seq(FrameRecords) /\ Len(frames') = Len(frames)
      /\ \A g \in 1 .. Len(frames) : frames'[g].link = frames[g].link
  BY <1>1, <1>5, <1>6 DEF Typed
<1>8. Typed'
  <2>1. saved' \in Seq(HandleRecords) /\ Len(saved') = 0
    BY <1>4
  <2>2. \A c \in 1 .. Len(caps) : frames'[caps[c].of].link = caps[c].link
    BY <1>1, <1>7 DEF Typed
  <2> QED
    BY <1>1, <1>4, <1>7, <2>1, <2>2 DEF Typed
<1> QED
  BY <1>3, <1>4, <1>7, <1>8 DEF IInv, OwnLater, ViewCurrent, Applied, Followed

LEMMA InitHolds == Init => IInv
<1> SUFFICES ASSUME Init PROVE IInv
  OBVIOUS
<1> DEFINE a == CHOOSE a \in Addr : TRUE
           F == [at |-> a, link |-> 0, open |-> TRUE]
<1>1. a \in Addr
  BY Sentinels
<1>2. frames = <<F>> /\ F \in FrameRecords /\ F.link = 0
  BY <1>1 DEF Init, FrameRecords
<1> HIDE DEF F, a
<1>3. frames \in Seq(FrameRecords) /\ \A f \in 1 .. Len(frames) : f = 1 /\ frames[f].link = 0
  BY <1>2
<1>4. /\ heap \in [Addr -> Bindings] /\ caps = <<>> /\ laters = <<>> /\ saved = <<>>
      /\ dynamic \in BOOLEAN
  BY DEF Init, Bindings, Empty
<1>5. Len(caps) = 0 /\ Len(laters) = 0 /\ Len(saved) = 0
  BY <1>4
<1>6. Typed
  BY <1>3, <1>4, <1>5 DEF Typed
<1>7. OwnLater /\ ViewCurrent
  BY <1>3, <1>5 DEF OwnLater, ViewCurrent
<1>8. LogFollows /\ UnwrittenAtBase
  BY <1>3, <1>5 DEF LogFollows, UnwrittenAtBase
<1> QED
  BY <1>4, <1>6, <1>7, <1>8 DEF IInv, Followed

LEMMA NextKeeps == IInv /\ [Next]_vars => IInv'
<1> SUFFICES ASSUME IInv, [Next]_vars PROVE IInv'
  OBVIOUS
<1>1. DOMAIN frames = 1 .. Len(frames) /\ DOMAIN caps = 1 .. Len(caps)
  BY DEF IInv, Typed
<1>2. CASE UNCHANGED vars
  BY <1>2 DEF vars, IInv, Typed, OwnLater, ViewCurrent, Applied, Followed, LogFollows, UnwrittenAtBase
<1> QED
  BY <1>1, <1>2, WriteKeeps, CaptureKeeps, LeaveKeeps, SetAsideKeeps, CurrentKeeps, PutBackKeeps
     DEF Next

LEMMA Inductive == Spec => []IInv
BY InitHolds, NextKeeps, PTL DEF Spec

-----------------------------------------------------------------------------
(* Captures keep their bindings *)

LEMMA HeldByCapture ==
  ASSUME Typed, NEW c \in 1 .. Len(caps)
  PROVE  caps[c].at \in Addr /\ HeldElsewhere(caps[c].at)
<1>1. c \in DOMAIN caps /\ caps[c] \in HandleRecords
  BY DEF Typed
<1> QED
  BY <1>1 DEF HeldElsewhere, HandleRecords

LEMMA NextUnmoved ==
  ASSUME IInv, [Next]_vars
  PROVE  \A c \in 1 .. Len(caps) : caps'[c] = caps[c] /\ heap'[caps[c].at] = heap[caps[c].at]
<1> USE DEF IInv
<1>0. DOMAIN frames = 1 .. Len(frames) /\ DOMAIN caps = 1 .. Len(caps) /\ caps \in Seq(HandleRecords)
  BY DEF Typed
<1>1. ASSUME NEW f \in 1 .. Len(frames), NEW n \in Names, NEW x \in Values \cup {Unbound},
             Write(f, n, x)
      PROVE  \A c \in 1 .. Len(caps) : caps'[c] = caps[c] /\ heap'[caps[c].at] = heap[caps[c].at]
  <2>1. frames[f] \in FrameRecords /\ frames[f].open
    BY <1>1 DEF Write, Typed
  <2>2. [heap[frames[f].at] EXCEPT ![n] = x] \in Bindings
    BY <2>1 DEF Typed, FrameRecords, Bindings
  <2>3. Store(f, [heap[frames[f].at] EXCEPT ![n] = x]) /\ caps' = caps
    BY <1>1 DEF Write
  <2>4. \A a \in Addr : HeldElsewhere(a) => heap'[a] = heap[a]
    BY <2>1, <2>2, <2>3, StoreKeeps
  <2> QED
    BY <2>3, <2>4, HeldByCapture
<1>2. ASSUME NEW f \in 1 .. Len(frames), Capture(f)
      PROVE  \A c \in 1 .. Len(caps) : caps'[c] = caps[c] /\ heap'[caps[c].at] = heap[caps[c].at]
  <2>1. heap' = heap /\ \E h : caps' = Append(caps, h)
    BY <1>2 DEF Capture
  <2> QED
    BY <1>0, <2>1
<1>3. ASSUME NEW d \in 1 .. Len(caps), Current(d)
      PROVE  \A c \in 1 .. Len(caps) : caps'[c] = caps[c] /\ heap'[caps[c].at] = heap[caps[c].at]
  <2>1. \A a \in Addr : HeldElsewhere(a) => heap'[a] = heap[a]
    BY <1>3, CurrentFacts
  <2> QED
    BY <1>3, <2>1, HeldByCapture DEF Current
<1> QED
  BY <1>0, <1>1, <1>2, <1>3 DEF Next, vars, Leave, SetAside, PutBack

(* "A capture keeps the bindings it was taken with": no write, of its frame *)
(* or of any other, reaches the map a capture points to (scope.rs 117), for *)
(* any number of frames, captures and names, dynamic labels included.       *)
THEOREM CapturesUnmoved == Spec => CapturesKeepTheirBindings
<1>1. IInv /\ [Next]_vars =>
        [\A c \in DOMAIN caps : heap'[caps'[c].at] = heap[caps[c].at]]_vars
  <2> SUFFICES ASSUME IInv, [Next]_vars, NEW c \in DOMAIN caps
               PROVE  heap'[caps'[c].at] = heap[caps[c].at]
    OBVIOUS
  <2>1. c \in 1 .. Len(caps)
    BY DEF IInv, Typed
  <2> QED
    BY <2>1, NextUnmoved
<1> QED
  BY Inductive, <1>1, PTL DEF Spec, CapturesKeepTheirBindings

-----------------------------------------------------------------------------
(* The frames implement plain ones *)

LEMMA Singleton ==
  ASSUME NEW e
  PROVE  <<e>> = [i \in 1 .. 1 |-> e]
<1>1. <<e>> \in Seq({e}) /\ Len(<<e>>) = 1 /\ <<e>>[1] = e
  OBVIOUS
<1>2. [i \in 1 .. 1 |-> e] \in Seq({e}) /\ Len([i \in 1 .. 1 |-> e]) = 1
  OBVIOUS
<1>3. \A i \in 1 .. 1 : <<e>>[i] = [j \in 1 .. 1 |-> e][i]
  BY <1>1
<1> QED
  BY <1>1, <1>2, <1>3, SeqEqual

LEMMA Appended ==
  ASSUME NEW S, NEW s \in Seq(S), NEW t \in Seq(S), Len(t) = Len(s) + 1,
         \A i \in 1 .. Len(s) : t[i] = s[i]
  PROVE  t = Append(s, t[Len(t)])
<1>1. t[Len(t)] \in S /\ Len(s) \in Nat
  OBVIOUS
<1> DEFINE e == t[Len(t)]
<1>2. /\ Append(s, e) \in Seq(S) /\ Len(Append(s, e)) = Len(s) + 1
      /\ \A i \in 1 .. Len(s) : Append(s, e)[i] = s[i]
      /\ Append(s, e)[Len(s) + 1] = e
  BY <1>1, AppendProperties
<1> HIDE DEF e
<1>3. e = t[Len(s) + 1]
  BY DEF e
<1>4. \A i \in 1 .. Len(t) : t[i] = Append(s, e)[i]
  BY <1>1, <1>2, <1>3
<1> QED
  BY <1>2, <1>4, SeqEqual DEF e

\* What frame f binds, or bound last.
Binds(f) ==
  IF frames[f].open THEN heap[frames[f].at]
  ELSE IF frames[f].link # 0 THEN Applied(laters[frames[f].link])
  ELSE Empty

LEMMA Mapped ==
  ASSUME Typed, ~dynamic
  PROVE  /\ Bound = [f \in 1 .. Len(frames) |-> Binds(f)]
         /\ Opened = [f \in 1 .. Len(frames) |-> frames[f].open]
         /\ Captured = [c \in 1 .. Len(caps) |-> [of |-> caps[c].of, held |-> heap[caps[c].at]]]
<1>1. DOMAIN frames = 1 .. Len(frames) /\ DOMAIN caps = 1 .. Len(caps)
  BY DEF Typed
<1> QED
  BY <1>1 DEF Bound, Opened, Captured, Binds

LEMMA MappedNext ==
  ASSUME Typed', ~dynamic'
  PROVE  /\ Bound' = [f \in 1 .. Len(frames') |-> Binds(f)']
         /\ Opened' = [f \in 1 .. Len(frames') |-> frames'[f].open]
         /\ Captured' = [c \in 1 .. Len(caps') |-> [of |-> caps'[c].of, held |-> heap'[caps'[c].at]]]
<1>1. DOMAIN frames' = 1 .. Len(frames') /\ DOMAIN caps' = 1 .. Len(caps')
  BY DEF Typed
<1> QED
  BY <1>1 DEF Bound, Opened, Captured, Binds

\* A frame, open or left, binds what its log says.
LEMMA LogBinds ==
  ASSUME IInv, ~dynamic, NEW f \in 1 .. Len(frames), frames[f].link # 0
  PROVE  Binds(f) = Applied(laters[frames[f].link])
BY DEF IInv, Followed, LogFollows, Binds

LEMMA FrameTyped ==
  ASSUME Typed, NEW f \in 1 .. Len(frames)
  PROVE  frames[f] \in FrameRecords
BY DEF Typed

LEMMA CaptureTyped ==
  ASSUME Typed, NEW c \in 1 .. Len(caps)
  PROVE  /\ caps[c] \in HandleRecords
         /\ caps[c].of \in 1 .. Len(frames) /\ frames[caps[c].of].link = caps[c].link
         /\ caps[c].link \in 1 .. Len(laters)
BY DEF Typed

LEMMA WriteRefines ==
  ASSUME IInv, IInv', ~dynamic, NEW f \in 1 .. Len(frames), NEW n \in Names,
         NEW x \in Values \cup {Unbound}, Write(f, n, x)
  PROVE  Abstract!Write(f, n, x)
<1> DEFINE map == [heap[frames[f].at] EXCEPT ![n] = x]
<1>1. Typed /\ Typed' /\ frames[f] \in FrameRecords /\ frames[f].open /\ dynamic' = dynamic /\ caps' = caps
  <2>1. Typed /\ Typed'
    BY DEF IInv
  <2>2. frames[f].open /\ dynamic' = dynamic /\ caps' = caps
    BY DEF Write
  <2> QED
    BY <2>1, <2>2, FrameTyped
<1>2. map \in Bindings
  BY <1>1 DEF Typed, FrameRecords, Bindings
<1>3. Store(f, map) /\ Record(f, n, x)
  BY DEF Write
<1> HIDE DEF map
<1>4. /\ Len(frames') = Len(frames)
      /\ \A g \in 1 .. Len(frames) :
           /\ frames'[g].link = frames[g].link
           /\ frames'[g].open = frames[g].open
           /\ g # f => frames'[g] = frames[g]
           /\ g # f /\ frames[g].open => heap'[frames[g].at] = heap[frames[g].at]
      /\ heap'[frames'[f].at] = map
      /\ \A a \in Addr : HeldElsewhere(a) => heap'[a] = heap[a]
  BY <1>1, <1>2, <1>3, StoreKeeps
<1>5. \A l \in 1 .. Len(laters) : l # frames[f].link => laters'[l] = laters[l]
  BY <1>1, <1>3, RecordFacts
<1>6. \A g \in 1 .. Len(frames) : Binds(g)' = IF g = f THEN map ELSE Binds(g)
  <2> TAKE g \in 1 .. Len(frames)
  <2>1. CASE g = f
    BY <1>1, <1>4, <2>1 DEF Binds
  <2>2. CASE g # f /\ frames[g].open
    BY <1>4, <2>2 DEF Binds
  <2>3. CASE g # f /\ ~frames[g].open /\ frames[g].link # 0
    <3> SUFFICES ASSUME NEW l, l = frames[g].link
                 PROVE  Applied(laters[l])' = Applied(laters[l])
      BY <1>4, <2>3 DEF Binds
    <3>1. l \in 1 .. Len(laters) /\ l # frames[f].link
      <4>1. l \in 1 .. Len(laters)
        BY <1>1, <2>3 DEF Typed
      <4>2. OwnLater
        BY DEF IInv
      <4>3. l # frames[f].link
        BY <2>3, <4>2 DEF OwnLater
      <4> QED
        BY <4>1, <4>3
    <3>2. heap'[laters[l].base] = heap[laters[l].base]
      BY <1>1, <1>4, <3>1, AppliedTyped, HeldByLater
    <3> QED
      BY <1>1, <1>5, <3>1, <3>2, AppliedKept
  <2>4. CASE g # f /\ ~frames[g].open /\ frames[g].link = 0
    BY <1>4, <2>4 DEF Binds
  <2> QED
    BY <2>1, <2>2, <2>3, <2>4
<1>7. Binds(f) = heap[frames[f].at]
  BY <1>1 DEF Binds
<1>8. /\ Bound' = [g \in 1 .. Len(frames) |-> Binds(g)'] /\ Bound = [g \in 1 .. Len(frames) |-> Binds(g)]
      /\ Opened' = [g \in 1 .. Len(frames) |-> frames'[g].open]
      /\ Opened = [g \in 1 .. Len(frames) |-> frames[g].open]
      /\ Captured' = [c \in 1 .. Len(caps) |-> [of |-> caps[c].of, held |-> heap'[caps[c].at]]]
      /\ Captured = [c \in 1 .. Len(caps) |-> [of |-> caps[c].of, held |-> heap[caps[c].at]]]
  BY <1>1, <1>4, Mapped, MappedNext
<1>9. Opened' = Opened /\ Opened[f]
  BY <1>1, <1>4, <1>8
<1>10. Captured' = Captured
  BY <1>1, <1>4, <1>8, HeldByCapture
<1>11. Bound' = [Bound EXCEPT ![f] = [Bound[f] EXCEPT ![n] = x]]
  <2>1. Bound[f] = heap[frames[f].at]
    BY <1>7, <1>8
  <2>2. Bound' = [Bound EXCEPT ![f] = map]
    BY <1>6, <1>8
  <2> QED
    BY <2>1, <2>2 DEF map
<1> QED
  BY <1>9, <1>10, <1>11 DEF Abstract!Write

LEMMA CaptureRefines ==
  ASSUME IInv, IInv', ~dynamic, NEW f \in 1 .. Len(frames), Capture(f)
  PROVE  Abstract!Capture(f)
<1>1. Typed /\ Typed' /\ frames[f] \in FrameRecords /\ dynamic' = dynamic /\ heap' = heap
  <2>1. Typed /\ Typed'
    BY DEF IInv
  <2>2. dynamic' = dynamic /\ heap' = heap
    BY DEF Capture
  <2> QED
    BY <2>1, <2>2, FrameTyped
<1>2. PICK k \in Nat \ {0} :
        /\ frames[f].open
        /\ frames[f].link \in {0, k}
        /\ frames' = [frames EXCEPT ![f] = [at |-> frames[f].at, link |-> k, open |-> TRUE]]
        /\ caps' = Append(caps, [at |-> frames[f].at, link |-> k, of |-> f])
        /\ \/ /\ frames[f].link = 0 /\ k = Len(laters) + 1
              /\ laters' = Append(laters, [base |-> frames[f].at,
                                          writes |-> NoWrites, view |-> None])
           \/ /\ frames[f].link = k /\ k \in 1 .. Len(laters)
              /\ laters' = laters
  BY <1>1, CaptureFacts
<1> DEFINE F == [at |-> frames[f].at, link |-> k, open |-> TRUE]
           C == [at |-> frames[f].at, link |-> k, of |-> f]
<1>3. F.at = frames[f].at /\ F.open = TRUE /\ C.at = frames[f].at /\ C.of = f
  OBVIOUS
<1>4. frames' = [frames EXCEPT ![f] = F] /\ caps' = Append(caps, C) /\ frames[f].open
  BY <1>2
<1> HIDE DEF F, C
<1>5. /\ Len(frames') = Len(frames) /\ frames'[f] = F
      /\ \A g \in 1 .. Len(frames) : g # f => frames'[g] = frames[g]
      /\ Len(caps') = Len(caps) + 1 /\ caps'[Len(caps) + 1] = C
      /\ \A c \in 1 .. Len(caps) : caps'[c] = caps[c]
      /\ Len(caps) \in Nat
  BY <1>1, <1>4 DEF Typed
<1>6. \A l \in 1 .. Len(laters) : laters'[l] = laters[l]
  BY <1>1, <1>2 DEF Typed
<1>7. \A g \in 1 .. Len(frames) : Binds(g)' = Binds(g)
  <2> TAKE g \in 1 .. Len(frames)
  <2>1. CASE g = f
    BY <1>1, <1>3, <1>4, <1>5, <2>1 DEF Binds
  <2>2. CASE g # f
    <3>1. frames'[g] = frames[g] /\ frames[g].link \in 0 .. Len(laters)
      BY <1>1, <1>5, <2>2 DEF Typed
    <3>2. frames[g].link # 0 => laters'[frames[g].link] = laters[frames[g].link]
      BY <1>6, <3>1
    <3> QED
      BY <1>1, <3>1, <3>2 DEF Binds, Applied
  <2> QED
    BY <2>1, <2>2
<1>8. \A g \in 1 .. Len(frames) : frames'[g].open = frames[g].open
  <2> TAKE g \in 1 .. Len(frames)
  <2>1. frames[f].open = TRUE
    BY <1>1, <1>4 DEF FrameRecords
  <2> QED
    BY <1>3, <1>5, <2>1
<1>9. /\ Bound' = [g \in 1 .. Len(frames) |-> Binds(g)'] /\ Bound = [g \in 1 .. Len(frames) |-> Binds(g)]
      /\ Opened' = [g \in 1 .. Len(frames) |-> frames'[g].open]
      /\ Opened = [g \in 1 .. Len(frames) |-> frames[g].open]
      /\ Captured' = [c \in 1 .. Len(caps') |-> [of |-> caps'[c].of, held |-> heap[caps'[c].at]]]
      /\ Captured = [c \in 1 .. Len(caps) |-> [of |-> caps[c].of, held |-> heap[caps[c].at]]]
  BY <1>1, <1>5, Mapped, MappedNext
<1>10. Bound' = Bound /\ Opened' = Opened /\ Opened[f] /\ Bound[f] = heap[frames[f].at]
  BY <1>4, <1>7, <1>8, <1>9 DEF Binds
<1>11. Captured' = Append(Captured, [of |-> f, held |-> Bound[f]])
  <2> DEFINE H == [of |-> f, held |-> Bound[f]]
             held(c) == [of |-> caps'[c].of, held |-> heap[caps'[c].at]]
             S == [of : Nat, held : Bindings]
  <2>1. held(Len(caps) + 1) = H
    BY <1>3, <1>5, <1>10
  <2>2. \A c \in 1 .. Len(caps) : Captured[c] = held(c)
    BY <1>5, <1>9
  <2>3. Captured' = [c \in 1 .. Len(caps) + 1 |-> held(c)]
    BY <1>5, <1>9
  <2>4. \A c \in 1 .. Len(caps) + 1 : held(c) \in S
    <3> TAKE c \in 1 .. Len(caps) + 1
    <3>1. caps'[c] \in HandleRecords
      BY <1>1, <1>5 DEF Typed
    <3> QED
      BY <1>1, <3>1 DEF HandleRecords, Typed
  <2>5. Captured = [c \in 1 .. Len(caps) |-> held(c)]
    BY <1>5, <1>9
  <2> HIDE DEF held, S
  <2>6. /\ Captured \in Seq(S) /\ Len(Captured) = Len(caps)
        /\ Captured' \in Seq(S) /\ Len(Captured') = Len(caps) + 1
        /\ \A c \in 1 .. Len(caps) + 1 : Captured'[c] = held(c)
    BY <1>5, <2>3, <2>4, <2>5
  <2>7. \A c \in 1 .. Len(Captured) : Captured'[c] = Captured[c]
    BY <1>5, <2>2, <2>6
  <2>8. Captured' = Append(Captured, Captured'[Len(Captured')])
    BY <2>6, <2>7, Appended
  <2> QED
    BY <1>5, <2>1, <2>6, <2>8
<1> QED
  BY <1>10, <1>11 DEF Abstract!Capture

LEMMA CurrentRefines ==
  ASSUME IInv, IInv', ~dynamic, NEW c \in 1 .. Len(caps), Current(c)
  PROVE  Abstract!DeriveAgain(c)
<1>1. /\ Typed /\ Typed' /\ dynamic' = dynamic /\ caps' = caps /\ caps[c] \in HandleRecords
      /\ caps[c].of \in 1 .. Len(frames) /\ frames[caps[c].of].link = caps[c].link
      /\ caps[c].link \in 1 .. Len(laters)
  <2>1. Typed /\ Typed'
    BY DEF IInv
  <2>2. dynamic' = dynamic /\ caps' = caps
    BY DEF Current
  <2> QED
    BY <2>1, <2>2, CaptureTyped
<1> DEFINE F(a) == [at |-> a, link |-> 0, open |-> TRUE]
           o == caps[c].of
<1>2. PICK a \in Addr :
        /\ frames' = Append(frames, F(a))
        /\ heap' \in [Addr -> Bindings]
        /\ \A b \in Addr : HeldElsewhere(b) => heap'[b] = heap[b]
        /\ \A g \in 1 .. Len(frames) : frames[g].open => heap'[frames[g].at] = heap[frames[g].at]
        /\ laters' \in Seq(LaterRecords) /\ Len(laters') = Len(laters)
        /\ \A l \in 1 .. Len(laters) :
             /\ laters'[l].base = laters[l].base /\ laters'[l].writes = laters[l].writes
             /\ \/ laters'[l].view = laters[l].view
                \/ laters'[l].view = a /\ heap'[a] = Applied(laters[l])
        /\ ~dynamic => heap'[a] = Applied(laters[caps[c].link])
  BY CurrentFacts
<1>3. F(a) \in FrameRecords /\ F(a).at = a /\ F(a).open = TRUE
  BY DEF FrameRecords
<1> HIDE DEF F
<1>4. /\ Len(frames) \in Nat /\ Len(frames') = Len(frames) + 1
      /\ frames'[Len(frames) + 1] = F(a)
      /\ \A g \in 1 .. Len(frames) : frames'[g] = frames[g]
  BY <1>1, <1>2, <1>3 DEF Typed
<1>5. \A g \in 1 .. Len(frames) : Binds(g)' = Binds(g)
  <2> SUFFICES ASSUME NEW g \in 1 .. Len(frames), NEW l, l = frames[g].link, l # 0, ~frames[g].open
               PROVE  Applied(laters[l])' = Applied(laters[l])
    BY <1>2, <1>4 DEF Binds
  <2>1. l \in 1 .. Len(laters)
    BY <1>1 DEF Typed
  <2>2. heap'[laters[l].base] = heap[laters[l].base]
    BY <1>1, <1>2, <2>1, AppliedTyped, HeldByLater
  <2> QED
    BY <1>1, <1>2, <2>1, <2>2, AppliedKept
<1>6. \A g \in 1 .. Len(frames') : g = Len(frames) + 1 => Binds(g)' = heap'[a]
  BY <1>3, <1>4 DEF Binds
<1>7. o \in 1 .. Len(frames) /\ heap'[a] = Binds(o)
  <2>1. o \in 1 .. Len(frames) /\ frames[o].link = caps[c].link /\ frames[o].link # 0
    BY <1>1
  <2> HIDE DEF o
  <2>2. Binds(o) = Applied(laters[frames[o].link])
    BY <2>1, LogBinds
  <2> QED
    BY <1>2, <2>1, <2>2
<1>8. \A g \in 1 .. Len(frames') : Binds(g)' \in Bindings
  <2> TAKE g \in 1 .. Len(frames')
  <2>1. frames'[g] \in FrameRecords /\ frames'[g].link \in 0 .. Len(laters')
    BY <1>1 DEF Typed
  <2>2. CASE frames'[g].open
    BY <1>2, <2>1, <2>2 DEF Binds, FrameRecords
  <2>3. CASE ~frames'[g].open /\ frames'[g].link = 0
    BY <2>3 DEF Binds, Bindings, Empty
  <2>4. CASE ~frames'[g].open /\ frames'[g].link # 0
    <3>1. \A l \in 1 .. Len(laters') : Applied(laters[l])' \in Bindings
      <4> TAKE l \in 1 .. Len(laters')
      <4>1. /\ l \in 1 .. Len(laters)
            /\ Applied(laters[l]) \in Bindings
            /\ heap'[laters[l].base] = heap[laters[l].base]
        BY <1>1, <1>2, AppliedTyped, HeldByLater
      <4> QED
        BY <1>1, <1>2, <4>1, AppliedKept
    <3> QED
      BY <2>1, <2>4, <3>1 DEF Binds
  <2> QED
    BY <2>2, <2>3, <2>4
<1>9. /\ Bound' = [g \in 1 .. Len(frames') |-> Binds(g)'] /\ Bound = [g \in 1 .. Len(frames) |-> Binds(g)]
      /\ Opened' = [g \in 1 .. Len(frames') |-> frames'[g].open]
      /\ Opened = [g \in 1 .. Len(frames) |-> frames[g].open]
      /\ Captured' = [d \in 1 .. Len(caps) |-> [of |-> caps[d].of, held |-> heap'[caps[d].at]]]
      /\ Captured = [d \in 1 .. Len(caps) |-> [of |-> caps[d].of, held |-> heap[caps[d].at]]]
  BY <1>1, Mapped, MappedNext
<1>10. Captured' = Captured
  BY <1>1, <1>2, <1>9, HeldByCapture
<1>11. Bound' = Append(Bound, Bound[o])
  <2> DEFINE S == Bindings
             after == Bound'
  <2>1. /\ Bound' \in Seq(S) /\ Len(Bound') = Len(frames) + 1
        /\ \A g \in 1 .. Len(frames) + 1 : Bound'[g] = Binds(g)'
    BY <1>4, <1>8, <1>9
  <2>2. \A g \in 1 .. Len(frames) : Binds(g) \in S
    BY <1>4, <1>5, <1>8
  <2>3. /\ Bound \in Seq(S) /\ Len(Bound) = Len(frames)
        /\ \A g \in 1 .. Len(frames) : Bound[g] = Binds(g)
    BY <1>4, <1>9, <2>2
  <2>4. Bound' = Append(Bound, Bound'[Len(Bound')])
    BY <1>4, <1>5, <2>1, <2>3, Appended
  <2>5. Bound'[Len(Bound')] = Bound[o]
    BY <1>4, <1>6, <1>7, <2>1, <2>3
  <2> QED
    BY <2>4, <2>5
<1>12. Opened' = Append(Opened, TRUE)
  <2>1. \A g \in 1 .. Len(frames') : frames'[g].open \in BOOLEAN
    <3> TAKE g \in 1 .. Len(frames')
    <3>1. frames'[g] \in FrameRecords
      BY <1>1 DEF Typed
    <3> QED
      BY <3>1 DEF FrameRecords
  <2>2. /\ Opened' \in Seq(BOOLEAN) /\ Len(Opened') = Len(frames) + 1
        /\ \A g \in 1 .. Len(frames) + 1 : Opened'[g] = frames'[g].open
    BY <1>4, <1>9, <2>1
  <2>3. /\ Opened \in Seq(BOOLEAN) /\ Len(Opened) = Len(frames)
        /\ \A g \in 1 .. Len(frames) : Opened[g] = frames'[g].open
    BY <1>4, <1>9, <2>1
  <2>4. Opened' = Append(Opened, Opened'[Len(Opened')])
    BY <1>4, <2>2, <2>3, Appended
  <2>5. Opened'[Len(Opened')] = TRUE
    BY <1>3, <1>4, <2>2
  <2> QED
    BY <2>4, <2>5
<1>13. Captured[c].of = o
  BY <1>9
<1> QED
  BY <1>10, <1>11, <1>12, <1>13 DEF Abstract!DeriveAgain

LEMMA LeaveRefines ==
  ASSUME IInv, IInv', ~dynamic, NEW f \in 1 .. Len(frames), Leave(f)
  PROVE  Abstract!Leave(f)
<1>1. /\ Typed /\ Typed' /\ frames[f] \in FrameRecords /\ frames[f].open
      /\ UNCHANGED <<heap, caps, laters, dynamic>>
  <2>1. Typed /\ Typed'
    BY DEF IInv
  <2>2. frames[f].open /\ UNCHANGED <<heap, caps, laters, dynamic>>
    BY DEF Leave
  <2> QED
    BY <2>1, <2>2, FrameTyped
<1> DEFINE r == [frames[f] EXCEPT !.open = FALSE]
<1>2. frames' = [frames EXCEPT ![f] = r]
  BY DEF Leave
<1>3. r.link = frames[f].link /\ r.open = FALSE
  BY <1>1 DEF FrameRecords
<1> HIDE DEF r
<1>4. /\ Len(frames') = Len(frames) /\ frames'[f] = r
      /\ \A g \in 1 .. Len(frames) : g # f => frames'[g] = frames[g]
  BY <1>1, <1>2 DEF Typed
<1>5. \A g \in 1 .. Len(frames) : g # f => Binds(g)' = Binds(g)
  BY <1>1, <1>4 DEF Binds, Applied
<1>6. IF frames[f].link # 0 THEN Binds(f)' = Binds(f) ELSE Binds(f)' = Empty
  <2>1. CASE frames[f].link = 0
    BY <1>3, <1>4, <2>1 DEF Binds
  <2>2. CASE frames[f].link # 0
    <3>1. Binds(f) = Applied(laters[frames[f].link])
      BY <2>2, LogBinds
    <3>2. Binds(f)' = Applied(laters[frames[f].link])
      BY <1>1, <1>3, <1>4, <2>2 DEF Binds, Applied
    <3> QED
      BY <2>2, <3>1, <3>2
  <2> QED
    BY <2>1, <2>2
<1>7. /\ Bound' = [g \in 1 .. Len(frames) |-> Binds(g)'] /\ Bound = [g \in 1 .. Len(frames) |-> Binds(g)]
      /\ Opened' = [g \in 1 .. Len(frames) |-> frames'[g].open]
      /\ Opened = [g \in 1 .. Len(frames) |-> frames[g].open]
      /\ Captured' = [c \in 1 .. Len(caps) |-> [of |-> caps[c].of, held |-> heap[caps[c].at]]]
      /\ Captured = [c \in 1 .. Len(caps) |-> [of |-> caps[c].of, held |-> heap[caps[c].at]]]
  BY <1>1, <1>4, Mapped, MappedNext
<1>8. Opened[f] /\ Opened' = [Opened EXCEPT ![f] = FALSE] /\ Captured' = Captured
  BY <1>1, <1>3, <1>4, <1>7
<1>9. CASE frames[f].link # 0
  <2>1. Bound' = Bound
    BY <1>5, <1>6, <1>7, <1>9
  <2> QED
    BY <1>8, <2>1 DEF Abstract!Leave
<1>10. CASE frames[f].link = 0
  <2>1. Bound' = [Bound EXCEPT ![f] = Empty]
    BY <1>5, <1>6, <1>7, <1>10
  <2>2. \A c \in DOMAIN Captured : Captured[c].of # f
    <3> SUFFICES ASSUME NEW c \in 1 .. Len(caps) PROVE caps[c].of # f
      BY <1>7
    <3> QED
      BY <1>1, <1>10 DEF Typed
  <2>3. Abstract!Empty = Empty
    BY DEF Abstract!Empty, Empty
  <2> QED
    BY <1>8, <2>1, <2>2, <2>3 DEF Abstract!Leave
<1> QED
  BY <1>9, <1>10

LEMMA NextRefines ==
  ASSUME IInv, IInv', [Next]_vars
  PROVE  [Abstract!Next]_<<Bound, Opened, Captured>>
<1>1. CASE UNCHANGED vars
  BY <1>1 DEF vars, Bound, Opened, Captured, Applied
<1>2. dynamic' = dynamic
  BY DEF Next, vars, Write, Capture, Leave, SetAside, Current, PutBack
<1>3. CASE dynamic
  BY <1>2, <1>3 DEF Bound, Opened, Captured
<1>4. CASE ~dynamic /\ Next
  <2>1. /\ DOMAIN frames = 1 .. Len(frames) /\ DOMAIN caps = 1 .. Len(caps)
        /\ Typed /\ saved = <<>>
    BY <1>4 DEF IInv, Typed, Followed
  <2>2. DOMAIN Bound = 1 .. Len(frames) /\ DOMAIN Captured = 1 .. Len(caps)
    BY <1>4, <2>1, Mapped
  <2>3. ASSUME NEW f \in 1 .. Len(frames), NEW n \in Names, NEW x \in Values \cup {Unbound},
               Write(f, n, x)
        PROVE  Abstract!Next
    BY <1>4, <2>2, <2>3, WriteRefines DEF Abstract!Next
  <2>4. ASSUME NEW f \in 1 .. Len(frames), Capture(f) PROVE Abstract!Next
    BY <1>4, <2>2, <2>4, CaptureRefines DEF Abstract!Next
  <2>5. ASSUME NEW f \in 1 .. Len(frames), Leave(f) PROVE Abstract!Next
    BY <1>4, <2>2, <2>5, LeaveRefines DEF Abstract!Next
  <2>6. ASSUME NEW c \in 1 .. Len(caps), Current(c) PROVE Abstract!Next
    BY <1>4, <2>2, <2>6, CurrentRefines DEF Abstract!Next
  <2>7. ~PutBack /\ \A f \in DOMAIN frames : ~SetAside(f)
    BY <1>4, <2>1 DEF PutBack, SetAside
  <2> QED
    BY <1>4, <2>1, <2>3, <2>4, <2>5, <2>6, <2>7 DEF Next
<1> QED
  BY <1>1, <1>3, <1>4

(* For any names, values, addresses and number of handles, storage shared   *)
(* until it is written, the log of writes and the cached view implement     *)
(* frames that are plain functions and captures that are copies: deriving a *)
(* captured frame again yields what that frame binds now (scope.rs 79-106). *)
THEOREM Lexical == Spec => ImplementsLexicalFrames
<1>1. Init => Abstract!Init
  <2> SUFFICES ASSUME Init PROVE Abstract!Init
    OBVIOUS
  <2>1. /\ frames = <<[at |-> CHOOSE a \in Addr : TRUE, link |-> 0, open |-> TRUE]>>
        /\ heap = [a \in Addr |-> Empty] /\ caps = <<>>
    BY DEF Init
  <2>2. (CHOOSE a \in Addr : TRUE) \in Addr
    BY Sentinels
  <2>3. heap[CHOOSE a \in Addr : TRUE] = Empty
    BY <2>1, <2>2
  <2>4. Bound = <<Empty>> /\ Opened = <<TRUE>> /\ Captured = <<>>
    <3> DEFINE F == [at |-> CHOOSE a \in Addr : TRUE, link |-> 0, open |-> TRUE]
    <3>1. frames = <<F>> /\ F.open = TRUE /\ heap[F.at] = Empty
      BY <2>1, <2>3
    <3> HIDE DEF F
    <3>2. DOMAIN frames = 1 .. 1 /\ frames[1] = F
      BY <3>1
    <3>3. CASE dynamic
      BY <3>3 DEF Bound, Opened, Captured
    <3>4. CASE ~dynamic
      <4>1. Bound = [f \in 1 .. 1 |-> Empty]
        BY <3>1, <3>2, <3>4 DEF Bound
      <4>2. Opened = [f \in 1 .. 1 |-> TRUE]
        <5>1. \A f \in 1 .. 1 : frames[f].open = TRUE
          BY <3>1, <3>2
        <5>2. Opened = [f \in 1 .. 1 |-> frames[f].open]
          BY <3>2, <3>4 DEF Opened
        <5> QED
          BY <5>1, <5>2
      <4>3. Captured = <<>>
        BY <2>1, <3>4 DEF Captured
      <4>4. <<Empty>> = [f \in 1 .. 1 |-> Empty] /\ <<TRUE>> = [f \in 1 .. 1 |-> TRUE]
        BY Singleton
      <4> QED
        BY <4>1, <4>2, <4>3, <4>4
    <3> QED
      BY <3>3, <3>4
  <2>5. Abstract!Empty = Empty
    BY DEF Abstract!Empty, Empty
  <2> QED
    BY <2>4, <2>5 DEF Abstract!Init
<1>2. IInv /\ IInv' /\ [Next]_vars => [Abstract!Next]_<<Bound, Opened, Captured>>
  BY NextRefines
<1> QED
  BY Inductive, <1>1, <1>2, PTL DEF Spec, ImplementsLexicalFrames, Abstract!Spec, Abstract!vars
=============================================================================
