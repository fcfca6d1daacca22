--------------------------- MODULE WatchedObject ---------------------------
(***************************************************************************)
(* One object of a Kubernetes API server together with the part of its     *)
(* history that an informer has not delivered yet.                         *)
(*                                                                         *)
(* A watched object w is a record with                                     *)
(*   w.rv    the resource version of the stored object,                    *)
(*   w.seen  the resource version the informer's cache is at,              *)
(*   w.log   the contents at every resource version in w.seen .. w.rv.     *)
(*                                                                         *)
(* Every write appends one version; the informer moves through the         *)
(* versions one at a time and never backwards; a re-list jumps to the      *)
(* last one.  An absent object is a version like any other (its contents   *)
(* say that it is not there), so a deletion has a resource version too.    *)
(***************************************************************************)
EXTENDS Integers

\* The stored contents, as a live read or a write's precondition sees them.
Live(w) == w.log[w.rv]

\* The contents in the informer's store, as a lister sees them.
Cached(w) == w.log[w.seen]

\* The informer has events that it has not delivered.
Lagging(w) == w.seen < w.rv

\* The object after a write that stores the contents c.
Write(w, c) ==
  [rv   |-> w.rv + 1,
   seen |-> w.seen,
   log  |-> [i \in w.seen .. (w.rv + 1) |-> IF i = w.rv + 1 THEN c ELSE w.log[i]]]

\* The object after the informer delivered its next event.
Deliver(w) ==
  [rv   |-> w.rv,
   seen |-> w.seen + 1,
   log  |-> [i \in (w.seen + 1) .. w.rv |-> w.log[i]]]

\* The object after a new informer listed it.
Relist(w) ==
  [rv   |-> w.rv,
   seen |-> w.rv,
   log  |-> [i \in w.rv .. w.rv |-> w.log[i]]]

\* A watched object with the contents c and an informer that is in sync.
Fresh(c) == [rv |-> 0, seen |-> 0, log |-> [i \in 0 .. 0 |-> c]]

\* w is a watched object whose contents are members of C.
IsWatched(w, C) ==
  /\ w = [rv |-> w.rv, seen |-> w.seen, log |-> w.log]
  /\ w.rv \in Nat
  /\ w.seen \in 0 .. w.rv
  /\ w.log \in [w.seen .. w.rv -> C]
=============================================================================
