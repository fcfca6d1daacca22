------------------------------ MODULE WatchLog ------------------------------
(***************************************************************************)
(* An object of an API server and the informer that follows it, without    *)
(* resource versions: a non-empty sequence of contents, from the one in    *)
(* the informer's store (the first) to the stored one (the last).          *)
(*                                                                         *)
(* A request that carries the resource version of the cached object        *)
(* succeeds iff the log has one element.  Where a controller reads its     *)
(* cache and sends one request, the two are one step: a delay between them *)
(* is the informer delivering later.                                       *)
(***************************************************************************)
EXTENDS Integers, Sequences

Stored(w) == w[Len(w)]
InStore(w) == w[1]
InSync(w) == Len(w) = 1

\* A write; the API server makes no event of one that changes nothing.
Store(w, c) == IF c = Stored(w) THEN w ELSE Append(w, c)

\* The informer's next event.
Event(w) == Tail(w)

\* A new informer lists what is stored.
List(w) == <<Stored(w)>>

IsLog(w, C) == w \in Seq(C) /\ Len(w) >= 1
=============================================================================
