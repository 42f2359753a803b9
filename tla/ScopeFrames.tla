---------------------------- MODULE ScopeFrames ----------------------------
(***************************************************************************)
(* crates/cue-eval/src/scope.rs: the copy-on-write frames the evaluator    *)
(* binds names in, and the captures its thunks and recipes keep of them.   *)
(*                                                                         *)
(* Storage is explicit: `heap` holds the maps that Rc<Bindings> points     *)
(* to, and Rc::make_mut writes in place exactly when no other handle holds *)
(* the address.  A frame and its captures share one Later: the map at the  *)
(* first capture, every write since and the view built from the two.       *)
(*                                                                         *)
(* Captures belong to values and are never dropped here; frames are left.  *)
(***************************************************************************)
EXTENDS Naturals, Sequences

CONSTANTS
  Names,       \* identifiers a frame can bind
  Values,      \* value ids
  Unbound,     \* a name the frame does not bind
  Kept,        \* a name no write was recorded for
  Addr,        \* addresses of shared maps
  None,        \* no address
  MaxHandles   \* bound: frames and captures ever made

ASSUME Sentinels ==
  /\ Unbound \notin Values
  /\ Kept \notin Values \cup {Unbound}
  /\ None \notin Addr
  /\ Addr # {}

ASSUME Bounds == MaxHandles \in Nat

VARIABLES
  heap,    \* the maps behind Rc<Bindings>
  frames,  \* the evaluator's frames, left ones included
  caps,    \* captured frames; `of` is the frame they were taken of
  laters,  \* the Later records
  saved,   \* plain clones of frames, set aside by eval_decls_scoped
  dynamic  \* a literal with dynamic labels is evaluated, so clones are made

vars == <<heap, frames, caps, laters, saved, dynamic>>

Bindings == [Names -> Values \cup {Unbound}]
Empty == [n \in Names |-> Unbound]
NoWrites == [n \in Names |-> Kept]

\* `base` with `writes` applied.
Applied(later) ==
  [n \in Names |-> IF later.writes[n] = Kept THEN heap[later.base][n] ELSE later.writes[n]]

\* Every handle on a shared map, and the address it holds.
FrameHolds(a) == {f \in DOMAIN frames : frames[f].open /\ frames[f].at = a}
HeldElsewhere(a) ==
  \/ \E c \in DOMAIN caps : caps[c].at = a
  \/ \E l \in DOMAIN laters : laters[l].base = a \/ laters[l].view = a
  \/ \E s \in DOMAIN saved : saved[s].at = a

Free(a) == FrameHolds(a) = {} /\ ~HeldElsewhere(a)
CanAllocate == \E a \in Addr : Free(a)
Fresh == CHOOSE a \in Addr : Free(a)
Sole(f) == FrameHolds(frames[f].at) = {f} /\ ~HeldElsewhere(frames[f].at)

Init ==
  /\ frames = <<[at |-> CHOOSE a \in Addr : TRUE, link |-> 0, open |-> TRUE]>>
  /\ heap = [a \in Addr |-> Empty]
  /\ caps = <<>>
  /\ laters = <<>>
  /\ saved = <<>>
  /\ dynamic \in BOOLEAN

(***************************************************************************)
(* Rc::make_mut followed by the write, for frame f.                        *)
(***************************************************************************)
StoreInPlace(f, map) ==
  /\ heap' = [heap EXCEPT ![frames[f].at] = map]
  /\ UNCHANGED frames

(* Fault: the write never detaches the storage a capture shares. *)
StoreAlwaysInPlace(f, map) == StoreInPlace(f, map)

Store(f, map) ==
  \/ /\ Sole(f)
     /\ StoreInPlace(f, map)
  \/ /\ ~Sole(f)
     /\ CanAllocate
     /\ heap' = [heap EXCEPT ![Fresh] = map]
     /\ frames' = [frames EXCEPT ![f].at = Fresh]

(* Fault: the write is recorded but the view built earlier stays. *)
RecordKeepingView(f, n, x) ==
  laters' = IF frames[f].link = 0
            THEN laters
            ELSE [laters EXCEPT ![frames[f].link].writes[n] = x]

\* Tell the captures of f that it now binds n to x.
Record(f, n, x) ==
  laters' = IF frames[f].link = 0
            THEN laters
            ELSE [laters EXCEPT ![frames[f].link].writes[n] = x,
                                ![frames[f].link].view = None]

\* ScopeFrame::insert (x a value) and ScopeFrame::remove (x = Unbound).
Write(f, n, x) ==
  /\ frames[f].open
  /\ heap[frames[f].at][n] # x
  /\ Store(f, [heap[frames[f].at] EXCEPT ![n] = x])
  /\ Record(f, n, x)
  /\ UNCHANGED <<caps, saved, dynamic>>

Capture(f) ==
  /\ Len(frames) + Len(caps) < MaxHandles
  /\ frames[f].open
  /\ LET first == frames[f].link = 0
         link == IF first THEN Len(laters) + 1 ELSE frames[f].link
     IN /\ laters' = IF first
                     THEN Append(laters, [base |-> frames[f].at,
                                          writes |-> NoWrites, view |-> None])
                     ELSE laters
        /\ frames' = [frames EXCEPT ![f].link = link]
        /\ caps' = Append(caps, [at |-> frames[f].at, link |-> link, of |-> f])
  /\ UNCHANGED <<heap, saved, dynamic>>

\* A frame of its own over the map at address a.
Own(a) == frames' = Append(frames, [at |-> a, link |-> 0, open |-> TRUE])

(***************************************************************************)
(* ScopeFrame::current, for the frame a derivation reads and writes.       *)
(***************************************************************************)
Current(c) ==
  LET later == laters[caps[c].link]
  IN /\ Len(frames) + Len(caps) < MaxHandles
     /\ \/ /\ later.writes = NoWrites
           /\ Own(caps[c].at)
           /\ UNCHANGED <<heap, laters>>
        \/ /\ later.writes # NoWrites /\ later.view # None
           /\ Own(later.view)
           /\ UNCHANGED <<heap, laters>>
        \/ /\ later.writes # NoWrites /\ later.view = None
           /\ CanAllocate
           /\ heap' = [heap EXCEPT ![Fresh] = Applied(later)]
           /\ laters' = [laters EXCEPT ![caps[c].link].view = Fresh]
           /\ Own(Fresh)
     /\ UNCHANGED <<caps, saved, dynamic>>

\* The scope is popped, or the derivation ends and drops its frames.
Leave(f) ==
  /\ frames[f].open
  /\ frames' = [frames EXCEPT ![f].open = FALSE]
  /\ UNCHANGED <<heap, caps, laters, saved, dynamic>>

(***************************************************************************)
(* A literal with dynamic labels: eval_decls_scoped clones the scopes      *)
(* right after capturing them, evaluates the body, and puts the clone back *)
(* to evaluate the body again.                                             *)
(***************************************************************************)
SetAside(f) ==
  /\ dynamic
  /\ saved = <<>>
  /\ frames[f].open /\ frames[f].link # 0
  /\ saved' = <<[at |-> frames[f].at, link |-> frames[f].link, of |-> f]>>
  /\ UNCHANGED <<heap, frames, caps, laters, dynamic>>

PutBack ==
  /\ saved # <<>>
  /\ frames[saved[1].of].open
  /\ frames' = [frames EXCEPT ![saved[1].of].at = saved[1].at]
  /\ saved' = <<>>
  /\ UNCHANGED <<heap, caps, laters, dynamic>>

Next ==
  \/ \E f \in DOMAIN frames, n \in Names, x \in Values \cup {Unbound} : Write(f, n, x)
  \/ \E f \in DOMAIN frames : Capture(f) \/ Leave(f) \/ SetAside(f)
  \/ \E c \in DOMAIN caps : Current(c)
  \/ PutBack

Spec == Init /\ [][Next]_vars

-----------------------------------------------------------------------------
(***************************************************************************)
(* A capture keeps the bindings it was taken with: whatever its frame, a   *)
(* frame derived from it or a literal evaluated again writes later, the    *)
(* map a capture points to never changes ("a write detaches shared         *)
(* storage first, so a capture keeps the bindings it was taken with").     *)
(***************************************************************************)
CapturesKeepTheirBindings ==
  [][\A c \in DOMAIN caps : heap'[caps'[c].at] = heap[caps[c].at]]_vars

(***************************************************************************)
(* Frames and captures behave as plain values: LexicalFrames, where a      *)
(* derivation gets exactly what the captured frame binds now and its own   *)
(* writes reach nobody.  Said of literals without dynamic labels: putting  *)
(* the scopes back leaves the writes in the Later the clone shares, and a  *)
(* capture derived again then sees those of the run that was given up.     *)
(***************************************************************************)
Bound ==
  IF dynamic THEN <<Empty>>
  ELSE [f \in DOMAIN frames |->
          IF frames[f].open THEN heap[frames[f].at]
          ELSE IF frames[f].link # 0 THEN Applied(laters[frames[f].link])
          ELSE Empty]
Opened == IF dynamic THEN <<TRUE>> ELSE [f \in DOMAIN frames |-> frames[f].open]
Captured ==
  IF dynamic THEN <<>>
  ELSE [c \in DOMAIN caps |-> [of |-> caps[c].of, held |-> heap[caps[c].at]]]

Abstract == INSTANCE LexicalFrames WITH binds <- Bound, open <- Opened, caps <- Captured

ImplementsLexicalFrames == Abstract!Spec
=============================================================================
