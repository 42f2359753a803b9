-------------------------- MODULE TransactionalStore --------------------------
(***************************************************************************)
(* What the arena promises its callers, without the undo log that keeps    *)
(* the promise: a store of nodes, their metadata and a text index, and a   *)
(* stack of the states the open speculation scopes started from.  A scope  *)
(* that is undone restores the store it started from, exactly; a scope     *)
(* that is kept only forgets where it started; while any scope is open     *)
(* nothing that already exists may change.                                 *)
(***************************************************************************)
EXTENDS Naturals, Sequences

VARIABLES
  store,   \* [nodes, metadata, strings], each a function
  saved    \* the stores the open scopes started from, outermost first

vars == <<store, saved>>

Extends(f, g) == /\ DOMAIN g \subseteq DOMAIN f
                 /\ \A x \in DOMAIN g : f[x] = g[x]

Init == /\ store = [nodes |-> << >>, metadata |-> << >>, strings |-> << >>]
        /\ saved = << >>

(* New nodes, metadata and index entries; what was there stays as it was. *)
Grow == /\ Extends(store'.nodes, store.nodes)
        /\ Extends(store'.metadata, store.metadata)
        /\ Extends(store'.strings, store.strings)
        /\ UNCHANGED saved

(* A payload is replaced in place: only when no scope could be undone. *)
Replace == /\ saved = << >>
           /\ DOMAIN store'.nodes = DOMAIN store.nodes
           /\ store'.metadata = store.metadata
           /\ UNCHANGED saved

Begin == /\ saved' = Append(saved, store)
         /\ UNCHANGED store

Keep == /\ saved # << >>
        /\ saved' = SubSeq(saved, 1, Len(saved) - 1)
        /\ UNCHANGED store

Undo == /\ saved # << >>
        /\ store' = saved[Len(saved)]
        /\ saved' = SubSeq(saved, 1, Len(saved) - 1)

Next == Grow \/ Replace \/ Begin \/ Keep \/ Undo

Spec == Init /\ [][Next]_vars
===============================================================================
