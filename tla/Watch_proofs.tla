---------------------------- MODULE Watch_proofs ----------------------------
(***************************************************************************)
(* What the operations on watched objects do, for the proofs about the     *)
(* specifications that use them: objects with resource versions (module    *)
(* WatchedObject) and without (module WatchLog).                           *)
(***************************************************************************)
EXTENDS WatchedObject, WatchLog, TLAPS

\* A write stores the contents, at the next resource version, and leaves what
\* the informer has still to deliver as it was.
LEMMA WriteLemma ==
  ASSUME NEW C, NEW w, IsWatched(w, C), NEW c \in C
  PROVE  /\ IsWatched(Write(w, c), C)
         /\ Write(w, c).rv = w.rv + 1
         /\ Write(w, c).seen = w.seen
         /\ Live(Write(w, c)) = c
         /\ \A i \in w.seen .. w.rv : Write(w, c).log[i] = w.log[i]
         /\ Write(w, c).log[w.rv + 1] = c
  BY DEF IsWatched, Write, Live

\* Delivering an event moves the cache one version on and changes no version.
LEMMA DeliverLemma ==
  ASSUME NEW C, NEW w, IsWatched(w, C), Lagging(w)
  PROVE  /\ IsWatched(Deliver(w), C)
         /\ Deliver(w).rv = w.rv
         /\ Deliver(w).seen = w.seen + 1
         /\ Live(Deliver(w)) = Live(w)
         /\ \A i \in (w.seen + 1) .. w.rv : Deliver(w).log[i] = w.log[i]
  BY DEF IsWatched, Deliver, Live, Lagging

\* A list brings the cache to the stored version.
LEMMA RelistLemma ==
  ASSUME NEW C, NEW w, IsWatched(w, C)
  PROVE  /\ IsWatched(Relist(w), C)
         /\ Relist(w).rv = w.rv
         /\ Relist(w).seen = w.rv
         /\ Live(Relist(w)) = Live(w)
         /\ Relist(w).log[w.rv] = w.log[w.rv]
  BY DEF IsWatched, Relist, Live

\* The stored and the cached contents of a watched object are of its type.
LEMMA ContentsLemma ==
  ASSUME NEW C, NEW w, IsWatched(w, C)
  PROVE  /\ Live(w) \in C
         /\ Cached(w) \in C
         /\ w.rv \in Nat
         /\ w.seen \in Nat
         /\ w.seen <= w.rv
  BY DEF IsWatched, Live, Cached

\* An object that has just been set up is watched.
LEMMA FreshLemma ==
  ASSUME NEW C, NEW c \in C
  PROVE  /\ IsWatched(Fresh(c), C)
         /\ Live(Fresh(c)) = c
  BY DEF IsWatched, Fresh, Live

-----------------------------------------------------------------------------
(* Objects without resource versions.                                      *)

\* The stored and the cached contents of a log are of its type; they are the same when
\* nothing is undelivered.
LEMMA LogContents ==
  ASSUME NEW C, NEW w, IsLog(w, C)
  PROVE  /\ Stored(w) \in C /\ InStore(w) \in C
         /\ InSync(w) => InStore(w) = Stored(w)
         /\ Len(w) \in Nat \ {0}
  BY DEF IsLog, Stored, InStore, InSync

\* A write stores the contents and leaves the cache as it was.
LEMMA LogStore ==
  ASSUME NEW C, NEW w, IsLog(w, C), NEW c \in C
  PROVE  /\ IsLog(Store(w, c), C)
         /\ Stored(Store(w, c)) = c
         /\ InStore(Store(w, c)) = InStore(w)
  BY DEF IsLog, Store, Stored, InStore

\* An event changes the cache and not what is stored.
LEMMA LogEvent ==
  ASSUME NEW C, NEW w, IsLog(w, C), ~InSync(w)
  PROVE  /\ IsLog(Event(w), C)
         /\ Stored(Event(w)) = Stored(w)
         /\ InStore(Event(w)) = w[2]
  <1>1. w \in Seq(C) /\ Len(w) \in Nat /\ Len(w) >= 1 /\ Len(w) # 1
    BY DEF IsLog, InSync
  <1>2. PICK n \in Nat : n + 1 = Len(w) /\ n = Len(w) - 1 /\ n >= 1
    <2>1. \A m \in Nat : m >= 1 /\ m # 1 => m - 1 \in Nat /\ m - 1 >= 1 /\ m - 1 + 1 = m
      OBVIOUS
    <2>2. QED
      BY <1>1, <2>1
  <1>3. /\ Tail(w) \in Seq(C) /\ Len(Tail(w)) = n
        /\ \A i \in 1 .. n : Tail(w)[i] = w[i + 1]
    BY <1>1, <1>2
  <1>4. Tail(w)[n] = w[n + 1] /\ Tail(w)[1] = w[1 + 1]
    BY <1>2, <1>3
  <1>5. QED
    BY <1>1, <1>2, <1>3, <1>4 DEF IsLog, Event, Stored, InStore

\* A new informer has what is stored.
LEMMA LogList ==
  ASSUME NEW C, NEW w, IsLog(w, C)
  PROVE  /\ IsLog(List(w), C)
         /\ Stored(List(w)) = Stored(w)
         /\ InStore(List(w)) = Stored(w)
         /\ InSync(List(w))
  BY DEF IsLog, List, Stored, InStore, InSync

\* An object that nobody has written since the informer listed it.
LEMMA LogNew ==
  ASSUME NEW C, NEW c \in C
  PROVE  IsLog(<<c>>, C) /\ Stored(<<c>>) = c /\ InStore(<<c>>) = c
  BY DEF IsLog, Stored, InStore
=============================================================================
