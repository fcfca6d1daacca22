---------------------- MODULE ClaimedResources_proofs ----------------------
(***************************************************************************)
(* Proofs about the owner of a claimed object, for any contents and any    *)
(* number of operations and failures, when the claim's selector matches    *)
(* every object (Unclaimed = {}).                                          *)
(***************************************************************************)
EXTENDS ClaimedResources, Watch_proofs

Sides == {"provider", "consumer"}
MaybeObject == Object \cup {Gone}

-----------------------------------------------------------------------------
(* The versions of an object that its informer has or will have.            *)

\* What is stored and what is in the cache are versions.
LEMMA EndsAreVersions ==
  ASSUME NEW C, NEW w, IsLog(w, C), NEW side
  PROVE  /\ HasOwner(Stored(w), side) => InLog(w, side)
         /\ HasOwner(InStore(w), side) => InLog(w, side)
  <1>1. Len(w) \in Nat /\ 1 <= Len(w)
    BY LogContents DEF IsLog
  <1>2. Len(w) \in 1 .. Len(w) /\ 1 \in 1 .. Len(w)
    BY <1>1
  <1>3. QED
    BY <1>2 DEF InLog, Stored, InStore

\* A write adds one version and changes no other.
LEMMA VersionsOfStore ==
  ASSUME NEW C, NEW w, IsLog(w, C), NEW c \in C, Store(w, c) # w
  PROVE  /\ Len(w) \in Nat /\ Len(Store(w, c)) = Len(w) + 1
         /\ \A i \in 1 .. Len(w) : Store(w, c)[i] = w[i]
         /\ Store(w, c)[Len(w) + 1] = c
  BY DEF IsLog, Store, Stored

\* An event takes the first version away.
LEMMA VersionsOfEvent ==
  ASSUME NEW C, NEW w, IsLog(w, C), ~InSync(w)
  PROVE  \E n \in Nat : /\ Len(w) = n + 1 /\ Len(Event(w)) = n
                        /\ \A i \in 1 .. n : Event(w)[i] = w[i + 1]
  <1>1. w \in Seq(C) /\ Len(w) \in Nat /\ Len(w) >= 1 /\ Len(w) # 1
    BY DEF IsLog, InSync
  <1>2. PICK n \in Nat : n + 1 = Len(w) /\ n = Len(w) - 1 /\ n >= 1
    <2>1. \A m \in Nat : m >= 1 /\ m # 1 => m - 1 \in Nat /\ m - 1 >= 1 /\ m - 1 + 1 = m
      OBVIOUS
    <2>2. QED
      BY <1>1, <2>1
  <1>3. /\ Len(Tail(w)) = n
        /\ \A i \in 1 .. n : Tail(w)[i] = w[i + 1]
    BY <1>1, <1>2
  <1>4. QED
    BY <1>2, <1>3 DEF Event

\* An owner in a log was there before the write, or is the one that is written.
LEMMA OwnerOfStore ==
  ASSUME NEW C, NEW w, IsLog(w, C), NEW c \in C, NEW side
  PROVE  InLog(Store(w, c), side) => InLog(w, side) \/ HasOwner(c, side)
  <1> SUFFICES ASSUME InLog(Store(w, c), side), Store(w, c) # w
               PROVE  InLog(w, side) \/ HasOwner(c, side)
    OBVIOUS
  <1>1. PICK i \in 1 .. Len(Store(w, c)) : HasOwner(Store(w, c)[i], side)
    BY DEF InLog
  <1>2. i \in 1 .. Len(w) \/ i = Len(w) + 1
    BY VersionsOfStore
  <1>3. QED
    BY <1>1, <1>2, VersionsOfStore DEF InLog

\* A label of the provider is written where the cache has had the object.
LEMMA LabelledStore ==
  ASSUME NEW C, NEW w, IsLog(w, C), NEW c \in C, LabelledAfterSeen(w),
         HasOwner(c, "provider") => \A i \in 1 .. Len(w) : w[i] # Gone
  PROVE  LabelledAfterSeen(Store(w, c))
  <1> SUFFICES ASSUME Store(w, c) # w PROVE LabelledAfterSeen(Store(w, c))
    OBVIOUS
  <1> SUFFICES ASSUME NEW i \in 1 .. Len(Store(w, c)), HasOwner(Store(w, c)[i], "provider"),
                      NEW j \in 1 .. i
               PROVE  Store(w, c)[j] # Gone
    BY DEF LabelledAfterSeen
  <1>1. /\ i \in 1 .. Len(w) \/ i = Len(w) + 1
        /\ j \in 1 .. Len(w) \/ (j = Len(w) + 1 /\ i = j)
    BY VersionsOfStore
  <1>2. CASE j = Len(w) + 1 /\ i = j
    BY <1>2 DEF HasOwner
  <1>3. CASE i \in 1 .. Len(w) /\ j \in 1 .. Len(w)
    BY <1>3, VersionsOfStore DEF LabelledAfterSeen
  <1>4. CASE i = Len(w) + 1 /\ j \in 1 .. Len(w)
    BY <1>4, VersionsOfStore
  <1>5. QED
    BY <1>1, <1>2, <1>3, <1>4

\* What the stored object's label says of the versions before it.
LEMMA LabelledStored ==
  ASSUME NEW C, NEW w, IsLog(w, C), LabelledAfterSeen(w), HasOwner(Stored(w), "provider")
  PROVE  \A i \in 1 .. Len(w) : w[i] # Gone
  <1>1. Len(w) \in 1 .. Len(w)
    BY LogContents
  <1>2. QED
    BY <1>1 DEF LabelledAfterSeen, Stored

\* While the cache has no object, no version of it is labelled as the provider's.
LEMMA UnseenIsUnlabelled ==
  ASSUME NEW C, NEW w, IsLog(w, C), LabelledAfterSeen(w), InStore(w) = Gone
  PROVE  ~InLog(w, "provider")
  <1> SUFFICES ASSUME NEW i \in 1 .. Len(w), HasOwner(w[i], "provider") PROVE FALSE
    BY DEF InLog
  <1>1. 1 \in 1 .. i
    BY LogContents
  <1>2. QED
    BY <1>1 DEF LabelledAfterSeen, InStore

-----------------------------------------------------------------------------
(* Steps that add no owner.                                                 *)

\* The log v has no owner that w has not.
Follows(v, w) ==
  /\ IsLog(v, MaybeObject)
  /\ \A side \in Sides : InLog(v, side) => InLog(w, side)
  /\ LabelledAfterSeen(v)

\* The object o has no owner but the one of the object before it.
OwnerKept(o, before) ==
  o \in MaybeObject /\ \A side \in Sides : HasOwner(o, side) => HasOwner(before, side)

LEMMA FollowsItself ==
  ASSUME NEW w, IsLog(w, MaybeObject), LabelledAfterSeen(w)
  PROVE  Follows(w, w)
  BY DEF Follows

LEMMA FollowsStore ==
  ASSUME NEW w, IsLog(w, MaybeObject), LabelledAfterSeen(w), NEW o, OwnerKept(o, Stored(w))
  PROVE  Follows(Store(w, o), w)
  <1>1. o \in MaybeObject
    BY DEF OwnerKept
  <1>2. IsLog(Store(w, o), MaybeObject)
    BY <1>1, LogStore
  <1>3. \A side \in Sides : InLog(Store(w, o), side) => InLog(w, side)
    BY <1>1, OwnerOfStore, EndsAreVersions DEF OwnerKept
  <1>4. HasOwner(o, "provider") => \A i \in 1 .. Len(w) : w[i] # Gone
    BY LabelledStored DEF OwnerKept, Sides
  <1>5. LabelledAfterSeen(Store(w, o))
    BY <1>1, <1>4, LabelledStore
  <1>6. QED
    BY <1>2, <1>3, <1>5 DEF Follows

LEMMA FollowsEvent ==
  ASSUME NEW w, IsLog(w, MaybeObject), LabelledAfterSeen(w), ~InSync(w)
  PROVE  Follows(Event(w), w)
  <1>1. PICK n \in Nat : /\ Len(w) = n + 1 /\ Len(Event(w)) = n
                         /\ \A i \in 1 .. n : Event(w)[i] = w[i + 1]
    BY VersionsOfEvent
  <1>2. \A i \in 1 .. n : i + 1 \in 1 .. (n + 1) /\ \A j \in 1 .. i : j + 1 \in 1 .. (i + 1) /\ j \in 1 .. n
    OBVIOUS
  <1>3. \A side \in Sides : InLog(Event(w), side) => InLog(w, side)
    BY <1>1, <1>2 DEF InLog
  <1>4. LabelledAfterSeen(Event(w))
    <2> SUFFICES ASSUME NEW i \in 1 .. n, HasOwner(Event(w)[i], "provider"), NEW j \in 1 .. i
                 PROVE  Event(w)[j] # Gone
      BY <1>1 DEF LabelledAfterSeen
    <2>1. HasOwner(w[i + 1], "provider") /\ Event(w)[j] = w[j + 1]
      BY <1>1, <1>2
    <2>2. QED
      BY <2>1, <1>1, <1>2 DEF LabelledAfterSeen
  <1>5. QED
    BY <1>3, <1>4, LogEvent DEF Follows

LEMMA FollowsList ==
  ASSUME NEW w, IsLog(w, MaybeObject), LabelledAfterSeen(w)
  PROVE  Follows(List(w), w)
  <1>1. Len(List(w)) = 1 /\ List(w)[1] = Stored(w)
    BY DEF List
  <1>2. \A i \in 1 .. 1 : i = 1 /\ \A j \in 1 .. i : j = 1
    OBVIOUS
  <1>3. \A side \in Sides : InLog(List(w), side) => InLog(w, side)
    BY <1>1, <1>2, EndsAreVersions DEF InLog
  <1>4. LabelledAfterSeen(List(w))
    BY <1>1, <1>2 DEF LabelledAfterSeen, HasOwner
  <1>5. QED
    BY <1>3, <1>4, LogList DEF Follows

-----------------------------------------------------------------------------
(* The inductive invariant.                                                *)

LEMMA IdleType == Idle \in Workers /\ Idle.pc = "idle"
  BY DEF Idle, Workers, Owners

LEMMA ObjectType ==
  ASSUME NEW o \in Object
  PROVE  /\ o # Gone /\ o.data \in Data /\ o.owner \in Owners /\ o.deleting \in BOOLEAN
         /\ \A d \in Data : [o EXCEPT !.data = d] \in Object
         /\ \A d \in Data : [o EXCEPT !.data = d].owner = o.owner
         /\ \A b \in BOOLEAN : /\ [o EXCEPT !.deleting = b] \in Object
                               /\ [o EXCEPT !.deleting = b].owner = o.owner
         /\ \A s \in Owners : /\ [o EXCEPT !.owner = s] \in Object
                              /\ [o EXCEPT !.owner = s].owner = s
                              /\ [o EXCEPT !.owner = s].data = o.data
  BY ConstantsAssumption DEF Object

\* An object with a new label.
LEMMA MakeOwnerType ==
  ASSUME NEW o \in Object, NEW s \in Owners
  PROVE  /\ MakeOwner(o, s) \in Object
         /\ MakeOwner(o, s).owner = s
         /\ MakeOwner(o, s).data = o.data
  BY DEF MakeOwner, Object

\* The worker after somebody else has written the object of a side.
LEMMA OutdatedType ==
  ASSUME TypeOK, NEW side
  PROVE  /\ Outdated(side) \in Workers
         /\ Outdated(side) \in {worker, [worker EXCEPT !.fresh = FALSE]}
         /\ worker.owner = side => Outdated(side) = [worker EXCEPT !.fresh = FALSE]
  BY DEF Outdated, TypeOK, Workers

LEMMA InitInv == Init => OwnersInv
  <1> SUFFICES ASSUME Init PROVE OwnersInv
    OBVIOUS
  <1>1. con = <<Gone>> /\ pro = <<Gone>> /\ worker = Idle /\ ops = 0
    BY DEF Init
  <1>2. TypeOK
    BY <1>1, LogNew, IdleType DEF TypeOK
  <1>3. Len(pro) = 1 /\ pro[1] = Gone /\ Stored(con) = Gone /\ \A i \in 1 .. 1 : i = 1
    BY <1>1 DEF Stored
  <1>4. \A side : ~InLog(pro, side) /\ ~HasOwner(Stored(con), side)
    BY <1>3 DEF InLog, HasOwner
  <1>5. LabelledAfterSeen(pro)
    BY <1>3 DEF LabelledAfterSeen, HasOwner
  <1>6. QED
    BY <1>1, <1>2, <1>4, <1>5, IdleType DEF OwnersInv

\* A step that adds no owner, after which the worker does not rely on what it changed.
LEMMA NoOwnerAdded ==
  ASSUME OwnersInv, ops' \in Nat,
         Follows(pro', pro),
         IsLog(con', MaybeObject), OwnerKept(Stored(con'), Stored(con)),
         worker' \in {worker, [worker EXCEPT !.fresh = FALSE], Idle},
         (worker' = worker /\ worker.fresh /\ worker.pc = "label") =>
            /\ worker.owner = "provider" => pro' = pro
            /\ worker.owner = "consumer" => Stored(con') = Stored(con)
  PROVE  OwnersInv'
  <1>1. worker \in Workers
    BY DEF OwnersInv, TypeOK
  <1>2. /\ worker' \in Workers
        /\ worker'.pc = "idle" \/ /\ worker'.pc = worker.pc /\ worker'.owner = worker.owner
                                  /\ worker'.p = worker.p /\ worker'.c = worker.c
                                  /\ worker'.fresh => worker' = worker
    BY <1>1, IdleType DEF Workers
  <1>3. TypeOK'
    BY <1>2 DEF TypeOK, Follows, MaybeObject
  <1>4. /\ InLog(pro', "provider") => InLog(pro, "provider")
        /\ InLog(pro', "consumer") => InLog(pro, "consumer")
        /\ LabelledAfterSeen(pro')
    BY DEF Follows, Sides
  <1>5. /\ HasOwner(Stored(con'), "provider") => HasOwner(Stored(con), "provider")
        /\ HasOwner(Stored(con'), "consumer") => HasOwner(Stored(con), "consumer")
    BY DEF OwnerKept, Sides
  <1>6. ASSUME worker'.pc # "idle" 
        PROVE  \/ worker'.owner = "provider" /\ SyncsToConsumer'
               \/ worker'.owner = "consumer" /\ SyncsToProvider'
    <2>1. /\ worker'.pc = worker.pc /\ worker'.owner = worker.owner
          /\ worker'.p = worker.p /\ worker'.c = worker.c
          /\ worker'.fresh => worker' = worker
      BY <1>2, <1>6
    <2>2. CASE worker.owner = "provider" /\ SyncsToConsumer
      <3>1. worker'.pc = "label" /\ worker'.fresh => pro' = pro
        BY <2>1, <2>2
      <3>2. SyncsToConsumer'
        BY <3>1, <2>1, <2>2, <1>4, <1>5 DEF SyncsToConsumer
      <3>3. QED
        BY <3>2, <2>1, <2>2
    <2>3. CASE worker.owner = "consumer" /\ SyncsToProvider
      <3>1. worker'.pc = "label" /\ worker'.fresh => Stored(con') = Stored(con)
        BY <2>1, <2>3
      <3>2. SyncsToProvider'
        BY <3>1, <2>1, <2>3, <1>4, <1>5 DEF SyncsToProvider
      <3>3. QED
        BY <3>2, <2>1, <2>3
    <2>4. QED
      BY <2>1, <2>2, <2>3, <1>6 DEF OwnersInv
  <1>7. QED
    BY <1>3, <1>4, <1>5, <1>6 DEF OwnersInv

\* What the invariant says of the logs, for the lemmas about them.
LEMMA LogsOfInv ==
  ASSUME OwnersInv
  PROVE  /\ TypeOK /\ ops \in Nat /\ worker \in Workers
         /\ IsLog(pro, MaybeObject) /\ LabelledAfterSeen(pro) /\ Follows(pro, pro)
         /\ IsLog(con, MaybeObject) /\ OwnerKept(Stored(con), Stored(con))
         /\ Stored(pro) \in MaybeObject /\ Stored(con) \in MaybeObject
         /\ InStore(pro) \in MaybeObject
  <1>1. /\ TypeOK /\ ops \in Nat /\ worker \in Workers
        /\ IsLog(pro, MaybeObject) /\ LabelledAfterSeen(pro)
        /\ IsLog(con, MaybeObject)
    BY DEF OwnersInv, TypeOK, MaybeObject
  <1>2. QED
    BY <1>1, LogContents, FollowsItself DEF OwnerKept

\* The writes of users: an object that is made has no owner, others keep theirs.
LEMMA UserWrites ==
  ASSUME NEW o \in MaybeObject, NEW n,
         \/ o = Gone /\ \E d \in Data : n = New(d)
         \/ o # Gone /\ \E d \in Data : n = [o EXCEPT !.data = d]
         \/ o # Gone /\ n \in {Gone, [o EXCEPT !.deleting = TRUE]}
         \/ n = Gone
  PROVE  OwnerKept(n, o)
  <1>1. ASSUME NEW d \in Data PROVE New(d) \in Object /\ New(d).owner = "none"
    BY DEF New, Object, Owners
  <1>2. o # Gone => o \in Object
    BY DEF MaybeObject
  <1>3. n \in MaybeObject /\ (n # Gone => n.owner = "none" \/ (o # Gone /\ n.owner = o.owner))
    <2>1. CASE n = Gone
      BY <2>1 DEF MaybeObject
    <2>2. CASE \E d \in Data : n = New(d)
      BY <2>2, <1>1 DEF MaybeObject
    <2>3. CASE o # Gone /\ \E d \in Data : n = [o EXCEPT !.data = d]
      BY <2>3, <1>2, ObjectType DEF MaybeObject
    <2>4. CASE o # Gone /\ n = [o EXCEPT !.deleting = TRUE]
      BY <2>4, <1>2, ObjectType DEF MaybeObject
    <2>5. QED
      BY <2>1, <2>2, <2>3, <2>4
  <1>4. QED
    BY <1>3 DEF OwnerKept, HasOwner, Sides

LEMMA ConsumerWritesInv ==
  ASSUME OwnersInv, ConsumerWrites PROVE OwnersInv'
  <1>1. PICK n : con' = Store(con, n) /\ OwnerKept(n, Stored(con))
    BY UserWrites, LogsOfInv DEF ConsumerWrites, StoreCon
  <1>2. IsLog(con', MaybeObject) /\ Stored(con') = n
    BY <1>1, LogsOfInv, LogStore DEF OwnerKept
  <1>3. ops' \in Nat /\ pro' = pro /\ worker' = Outdated("consumer")
    BY LogsOfInv DEF ConsumerWrites, Op
  <1>4. worker' \in {worker, [worker EXCEPT !.fresh = FALSE], Idle}
    BY <1>3, LogsOfInv, OutdatedType
  <1>5. worker' = worker /\ worker.fresh => worker.owner # "consumer"
    BY <1>3, LogsOfInv, OutdatedType DEF Workers
  <1>6. Follows(pro', pro)
    BY <1>3, LogsOfInv
  <1>7. QED
    BY <1>1, <1>2, <1>3, <1>4, <1>5, <1>6, NoOwnerAdded

\* The writes of others to the provider's object.
LEMMA ProviderWritten ==
  ASSUME OwnersInv, NEW n, pro' = Store(pro, n), OwnerKept(n, Stored(pro)),
         con' = con, worker' = Outdated("provider"), ops' \in Nat
  PROVE  OwnersInv'
  <1>1. Follows(pro', pro)
    BY LogsOfInv, FollowsStore
  <1>2. worker' \in {worker, [worker EXCEPT !.fresh = FALSE], Idle}
    BY LogsOfInv, OutdatedType
  <1>3. worker' = worker /\ worker.fresh => worker.owner # "provider"
    BY LogsOfInv, OutdatedType DEF Workers
  <1>4. IsLog(con', MaybeObject) /\ OwnerKept(Stored(con'), Stored(con))
    BY LogsOfInv
  <1>5. QED
    BY <1>1, <1>2, <1>3, <1>4, NoOwnerAdded

LEMMA ProviderWritesInv ==
  ASSUME OwnersInv, ProviderWrites \/ DeletionEnds PROVE OwnersInv'
  <1>1. \E n : pro' = Store(pro, n) /\ OwnerKept(n, Stored(pro))
    BY UserWrites, LogsOfInv DEF ProviderWrites, DeletionEnds, StorePro
  <1>2. ops' \in Nat /\ con' = con /\ worker' = Outdated("provider")
    BY LogsOfInv DEF ProviderWrites, DeletionEnds, Op
  <1>3. QED
    BY <1>1, <1>2, ProviderWritten

\* Steps that leave the objects and the worker alone, or stop the worker.
LEMMA ObjectsKept ==
  ASSUME OwnersInv, con' = con, pro' = pro, ops' \in Nat, worker' \in {worker, Idle}
  PROVE  OwnersInv'
  <1>1. Follows(pro', pro) /\ IsLog(con', MaybeObject) /\ OwnerKept(Stored(con'), Stored(con))
    BY LogsOfInv
  <1>2. QED
    BY <1>1, NoOwnerAdded

LEMMA SnsWrittenInv ==
  ASSUME OwnersInv, SnsWritten PROVE OwnersInv'
  <1>1. ops' \in Nat /\ con' = con
    BY LogsOfInv DEF SnsWritten, Op
  <1>2. CASE UNCHANGED <<pro, worker>>
    BY <1>1, <1>2, ObjectsKept
  <1>3. CASE StorePro(Gone) /\ worker' = Outdated("provider")
    <2>1. OwnerKept(Gone, Stored(pro)) /\ pro' = Store(pro, Gone)
      BY <1>3, LogsOfInv, UserWrites DEF StorePro
    <2>2. QED
      BY <1>1, <1>3, <2>1, ProviderWritten
  <1>4. QED
    BY <1>2, <1>3 DEF SnsWritten

\* The informers; a label that the worker may still write is in no undelivered version.
LEMMA DeliveriesInv ==
  ASSUME OwnersInv, DeliverConsumer \/ DeliverProvider \/ DeliverSns \/ Start PROVE OwnersInv'
  <1>1. worker' = worker /\ ops' \in Nat
    BY LogsOfInv DEF DeliverConsumer, DeliverProvider, DeliverSns, Start
  <1>2. IsLog(con', MaybeObject) /\ Stored(con') = Stored(con)
    BY LogsOfInv, LogEvent, LogList DEF DeliverConsumer, DeliverProvider, DeliverSns, Start
  <1>3. \/ pro' = pro \/ pro' = List(pro) \/ (~InSync(pro) /\ pro' = Event(pro))
    BY DEF DeliverConsumer, DeliverProvider, DeliverSns, Start
  <1>4. Follows(pro', pro)
    BY <1>3, LogsOfInv, FollowsEvent, FollowsList
  <1>5. ASSUME worker.fresh, worker.pc = "label", worker.owner = "provider" PROVE pro' = pro
    <2>1. pro = <<worker.p>>
      BY <1>5 DEF OwnersInv, SyncsToConsumer
    <2>2. InSync(pro) /\ List(pro) = pro
      BY <2>1 DEF InSync, List, Stored
    <2>3. QED
      BY <1>3, <2>2
  <1>6. OwnerKept(Stored(con'), Stored(con))
    BY <1>2, LogsOfInv
  <1>7. QED
    BY <1>1, <1>2, <1>4, <1>5, <1>6, NoOwnerAdded

\* Steps of the controllers that write no object.
LEMMA OthersInv ==
  ASSUME OwnersInv,
         \/ BackendReady \/ SetOwnerFails \/ SyncFails \/ EnsureServiceNamespace
         \/ Notify \/ Receive \/ Stop \/ Synced
  PROVE  OwnersInv'
  <1>1. con' = con /\ pro' = pro /\ ops' = ops /\ worker' \in {worker, Idle}
    BY DEF BackendReady, SetOwnerFails, SyncFails, Done, EnsureServiceNamespace, Notify,
           Receive, Stop, Synced, objects
  <1>2. QED
    BY <1>1, LogsOfInv, ObjectsKept

-----------------------------------------------------------------------------
(* The worker.                                                             *)

\* The kinds of objects from which reconcile decides to sync to the consumer.
LEMMA ProviderIsOwner ==
  ASSUME NEW p \in MaybeObject, NEW c \in MaybeObject, ~(p = Gone /\ c = Gone),
         DetermineOwner(p, c) = "provider"
  PROVE  \/ HasOwner(p, "provider")
         \/ HasOwner(p, "none") /\ (c = Gone \/ HasOwner(c, "provider"))
         \/ p = Gone /\ HasOwner(c, "provider")
  BY DEF DetermineOwner, HasOwner

\* And to the provider.
LEMMA ConsumerIsOwner ==
  ASSUME NEW p \in MaybeObject, NEW c \in MaybeObject, ~(p = Gone /\ c = Gone),
         DetermineOwner(p, c) = "consumer"
  PROVE  \/ HasOwner(p, "consumer")
         \/ HasOwner(c, "consumer")
         \/ p = Gone /\ HasOwner(c, "none")
  BY DEF DetermineOwner, HasOwner

LEMMA OwnerType ==
  ASSUME NEW p \in MaybeObject, NEW c \in MaybeObject
  PROVE  DetermineOwner(p, c) \in Owners
  BY ObjectType DEF DetermineOwner, Owners, MaybeObject

\* The decision is taken from the cache and the API server; what it says holds of all
\* versions in between.
LEMMA ReconcileInv ==
  ASSUME Unclaimed = {}, OwnersInv, Reconcile PROVE OwnersInv'
  <1>1. con' = con /\ pro' = pro /\ ops' = ops /\ ops' \in Nat
    BY LogsOfInv DEF Reconcile, objects
  <1>2. CachedPro = InStore(pro)
    BY DEF CachedPro, Seen, IsClaimed
  <1>3. CASE worker' = Idle
    BY <1>1, <1>3, ObjectsKept
  <1>4. CASE worker' # Idle
    <2>1. PICK p, c : p = CachedPro /\ c = Stored(con)
      OBVIOUS
    <2>2. PICK owner : owner = IF p = Gone /\ c = Gone THEN "none" ELSE DetermineOwner(p, c)
      OBVIOUS
    <2>3. PICK own : own = IF owner = "provider" THEN p ELSE c
      OBVIOUS
    <2>4. /\ p = InStore(pro) /\ c = Stored(con)
          /\ ~(p = Gone /\ c = Gone) /\ owner = DetermineOwner(p, c) /\ owner # "none"
          /\ own = (IF owner = "provider" THEN p ELSE c)
          /\ worker' = [pc |-> IF own # Gone /\ own.owner # owner THEN "label" ELSE "write",
                        p |-> p, c |-> c, owner |-> owner,
                        fresh |-> owner = "consumer" \/ InSync(pro)]
      <3>1. worker' = IF owner = "none" THEN Idle
               ELSE [pc |-> IF own # Gone /\ own.owner # owner THEN "label" ELSE "write",
                     p |-> p, c |-> c, owner |-> owner,
                     fresh |-> owner = "consumer" \/ InSync(pro)]
        BY <2>1, <2>2, <2>3, Zenon DEF Reconcile
      <3>2. owner # "none"
        BY <3>1, <1>4
      <3>3. ~(p = Gone /\ c = Gone) /\ owner = DetermineOwner(p, c)
        BY <2>2, <3>2
      <3>4. QED
        BY <2>1, <2>3, <3>1, <3>2, <3>3, <1>2
    <2>5. p \in MaybeObject /\ c \in MaybeObject
      BY <2>4, LogsOfInv
    <2>6. owner \in Owners
      BY <2>4, <2>5, OwnerType
    <2>7. PICK pc \in {"label", "write"} :
             pc = IF own # Gone /\ own.owner # owner THEN "label" ELSE "write"
      OBVIOUS
    <2>8. PICK fresh \in BOOLEAN : fresh = (owner = "consumer" \/ InSync(pro))
      OBVIOUS
    <2>9. worker' = [pc |-> pc, p |-> p, c |-> c, owner |-> owner, fresh |-> fresh]
      BY <2>4, <2>7, <2>8
    <2>10. worker' \in Workers /\ worker'.pc = pc /\ worker'.p = p /\ worker'.c = c
          /\ worker'.owner = owner /\ worker'.fresh = fresh
      BY <2>5, <2>6, <2>9 DEF Workers, MaybeObject
    <2>11. TypeOK'
      BY <2>10, <1>1, LogsOfInv DEF TypeOK
    <2>12. HasOwner(p, "provider") => InLog(pro, "provider")
      BY <2>4, LogsOfInv, EndsAreVersions
    <2>13. HasOwner(p, "consumer") => InLog(pro, "consumer")
      BY <2>4, LogsOfInv, EndsAreVersions
    <2>14. p = Gone => ~InLog(pro, "provider")
      BY <2>4, LogsOfInv, UnseenIsUnlabelled
    <2>15. /\ HasOwner(c, "consumer") => ~InLog(pro, "provider")
           /\ HasOwner(c, "provider") => ~InLog(pro, "consumer")
           /\ ~InLog(pro, "provider") \/ ~InLog(pro, "consumer")
      BY <2>4 DEF OwnersInv
    <2>16. CASE owner = "provider"
      <3>1. own = p
        BY <2>4, <2>16
      <3>2. \/ HasOwner(p, "provider")
            \/ HasOwner(p, "none") /\ (c = Gone \/ HasOwner(c, "provider"))
            \/ p = Gone /\ HasOwner(c, "provider")
        BY <2>4, <2>5, <2>16, ProviderIsOwner
      <3>3. ~HasOwner(c, "consumer") /\ ~HasOwner(p, "consumer")
        BY <3>2, <2>12, <2>15 DEF HasOwner
      <3>4. pc = "label" => p # Gone
        BY <3>1, <2>7
      <3>5. pc = "write" /\ p # Gone => ~InLog(pro, "consumer")
        <4>1. pc = "write" /\ p # Gone => HasOwner(p, "provider")
          BY <3>1, <2>7, <2>16 DEF HasOwner
        <4>2. QED
          BY <4>1, <2>12, <2>15
      <3>6. fresh => pro = <<p>>
        <4>1. fresh => Len(pro) = 1
          BY <2>8, <2>16 DEF InSync
        <4>2. pro \in Seq(MaybeObject) /\ p = pro[1]
          BY <2>4, LogsOfInv DEF IsLog, InStore
        <4>3. QED
          BY <4>1, <4>2
      <3>7. SyncsToConsumer'
        BY <3>3, <3>4, <3>5, <3>6, <2>4, <2>10, <1>1 DEF SyncsToConsumer
      <3>8. QED
        BY <3>7, <2>10, <2>11, <2>16, <1>1 DEF OwnersInv
    <2>17. CASE owner = "consumer"
      <3>1. own = c
        BY <2>4, <2>17
      <3>2. \/ HasOwner(p, "consumer")
            \/ HasOwner(c, "consumer")
            \/ p = Gone /\ HasOwner(c, "none")
        BY <2>4, <2>5, <2>17, ConsumerIsOwner
      <3>3. ~HasOwner(c, "provider")
        BY <3>2, <2>13, <2>15 DEF HasOwner
      <3>4. ~InLog(pro, "provider")
        BY <3>2, <2>13, <2>14, <2>15
      <3>5. pc = "label" => c # Gone
        BY <3>1, <2>7
      <3>6. pc = "write" /\ c # Gone => c.owner = "consumer"
        BY <3>1, <2>7, <2>17
      <3>7. SyncsToProvider'
        BY <3>3, <3>4, <3>5, <3>6, <2>4, <2>10, <1>1 DEF SyncsToProvider
      <3>8. QED
        BY <3>7, <2>10, <2>11, <2>17, <1>1 DEF OwnersInv
    <2>18. QED
      BY <2>4, <2>6, <2>16, <2>17 DEF Owners
  <1>5. QED
    BY <1>3, <1>4

\* The label is written at the version that was read: the provider's object is the one
\* in the cache, and the consumer's the one that was read.
LEMMA SetOwnerInv ==
  ASSUME OwnersInv, SetOwner PROVE OwnersInv'
  <1>1. worker.pc = "label" /\ worker.fresh /\ ops' = ops
    BY DEF SetOwner
  <1>2. CASE worker.owner = "provider" /\ StorePro(MakeOwner(worker.p, "provider"))
             /\ worker' = [worker EXCEPT !.pc = "write"] /\ UNCHANGED con
    <2>1. /\ ~HasOwner(Stored(con), "consumer") /\ ~HasOwner(worker.p, "consumer")
          /\ worker.p # Gone /\ pro = <<worker.p>>
      BY <1>1, <1>2 DEF OwnersInv, SyncsToConsumer
    <2>2. PICK p \in Object : p = worker.p
      BY <2>1, LogsOfInv DEF Workers
    <2>3. PICK n \in Object : n = MakeOwner(p, "provider") /\ n.owner = "provider"
      BY <2>2, MakeOwnerType DEF Owners
    <2>4. pro' = Store(pro, n) /\ n \in MaybeObject
      BY <1>2, <2>2, <2>3 DEF StorePro, MaybeObject
    <2>5. Len(pro) = 1 /\ pro[1] = p /\ \A i \in 1 .. 1 : i = 1
      BY <2>1, <2>2
    <2>6. ~InLog(pro, "consumer") /\ \A i \in 1 .. Len(pro) : pro[i] # Gone
      BY <2>1, <2>2, <2>5 DEF InLog
    <2>7. ~InLog(pro', "consumer")
      BY <2>3, <2>4, <2>6, LogsOfInv, OwnerOfStore DEF HasOwner
    <2>8. LabelledAfterSeen(pro')
      BY <2>4, <2>6, LogsOfInv, LabelledStore
    <2>9. IsLog(pro', MaybeObject)
      BY <2>4, LogsOfInv, LogStore
    <2>10. worker' \in Workers /\ worker'.pc = "write" /\ worker'.p = worker.p
           /\ worker'.owner = "provider"
      BY <1>2, LogsOfInv DEF Workers
    <2>11. TypeOK'
      BY <2>9, <2>10, <1>1, <1>2, LogsOfInv DEF TypeOK, MaybeObject
    <2>12. SyncsToConsumer'
      BY <2>1, <2>7, <2>10, <1>2 DEF SyncsToConsumer
    <2>13. QED
      BY <2>1, <2>7, <2>8, <2>10, <2>11, <2>12, <1>2 DEF OwnersInv
  <1>3. CASE worker.owner = "consumer" /\ StoreCon(MakeOwner(worker.c, "consumer"))
             /\ worker' = [worker EXCEPT !.pc = "write", !.c = MakeOwner(@, "consumer")]
             /\ UNCHANGED pro
    <2>1. /\ ~HasOwner(Stored(con), "provider") /\ ~InLog(pro, "provider")
          /\ worker.c # Gone
      BY <1>1, <1>3 DEF OwnersInv, SyncsToProvider
    <2>2. PICK c \in Object : c = worker.c
      BY <2>1, LogsOfInv DEF Workers
    <2>3. PICK n \in Object : n = MakeOwner(c, "consumer") /\ n.owner = "consumer"
      BY <2>2, MakeOwnerType DEF Owners
    <2>4. con' = Store(con, n) /\ n \in MaybeObject
      BY <1>3, <2>2, <2>3 DEF StoreCon, MaybeObject
    <2>5. IsLog(con', MaybeObject) /\ Stored(con') = n
      BY <2>4, LogsOfInv, LogStore
    <2>6. worker' = [worker EXCEPT !.pc = "write", !.c = n]
      BY <1>3, <2>2, <2>3
    <2>7. worker' \in Workers /\ worker'.pc = "write" /\ worker'.c = n
          /\ worker'.owner = "consumer"
      BY <2>6, <1>3, LogsOfInv DEF Workers
    <2>8. TypeOK'
      BY <2>5, <2>7, <1>1, <1>3, LogsOfInv DEF TypeOK, MaybeObject
    <2>9. ~HasOwner(Stored(con'), "provider")
      BY <2>3, <2>5 DEF HasOwner
    <2>10. SyncsToProvider'
      BY <2>1, <2>3, <2>7, <2>9, <1>3 DEF SyncsToProvider
    <2>11. LabelledAfterSeen(pro')
      BY <1>3, LogsOfInv
    <2>12. QED
      BY <2>1, <2>7, <2>8, <2>9, <2>10, <2>11, <1>3 DEF OwnersInv
  <1>4. QED
    BY <1>2, <1>3 DEF SetOwner

\* What the worker writes to the other side.
LEMMA CandidateType ==
  ASSUME NEW o \in Object
  PROVE  /\ CandidateFromOwnerObj(o) \in Object
         /\ CandidateFromOwnerObj(o).owner = o.owner
         /\ MakeOwner(CandidateFromOwnerObj(o), "provider") \in Object
         /\ MakeOwner(CandidateFromOwnerObj(o), "provider").owner = "provider"
  <1>1. CandidateFromOwnerObj(o) \in Object /\ CandidateFromOwnerObj(o).owner = o.owner
    BY ObjectType DEF CandidateFromOwnerObj
  <1>2. QED
    BY <1>1, MakeOwnerType DEF Owners

\* The consumer's copy gets no owner but the provider, and that only when no version of
\* the provider's object names the consumer.
LEMMA SyncToConsumerInv ==
  ASSUME OwnersInv, SyncToConsumer PROVE OwnersInv'
  <1>1. worker.pc = "write" /\ worker.owner = "provider" /\ worker' = Idle
        /\ pro' = pro /\ ops' = ops
    BY DEF SyncToConsumer, Done
  <1>2. /\ ~HasOwner(Stored(con), "consumer") /\ ~HasOwner(worker.p, "consumer")
        /\ worker.p # Gone => ~InLog(pro, "consumer")
    BY <1>1 DEF OwnersInv, SyncsToConsumer
  <1>3. CASE con' = con
    BY <1>1, <1>3, LogsOfInv, ObjectsKept
  <1>4. CASE con' = Store(con, Gone)
    <2>1. OwnerKept(Gone, Stored(con))
      BY LogsOfInv, UserWrites
    <2>2. IsLog(con', MaybeObject) /\ Stored(con') = Gone
      BY <1>4, LogsOfInv, LogStore DEF MaybeObject
    <2>3. worker' \in {worker, [worker EXCEPT !.fresh = FALSE], Idle}
          /\ (worker' = worker => worker.pc # "label") /\ Follows(pro', pro) /\ ops' \in Nat
      BY <1>1, LogsOfInv
    <2>4. QED
      BY <2>1, <2>2, <2>3, NoOwnerAdded
  <1>5. CASE worker.p # Gone /\ (\/ con' = Store(con, CandidateFromOwnerObj(worker.p))
                                 \/ con' = Store(con, MakeOwner(CandidateFromOwnerObj(worker.p), "provider")))
    <2>1. PICK p \in Object : p = worker.p
      BY <1>5, LogsOfInv DEF Workers
    <2>2. p.owner # "consumer"
      BY <2>1, <1>2, <1>5 DEF HasOwner
    <2>3. PICK n \in Object : con' = Store(con, n) /\ n.owner # "consumer"
      BY <1>5, <2>1, <2>2, CandidateType
    <2>4. IsLog(con', MaybeObject) /\ Stored(con') = n
      BY <2>3, LogsOfInv, LogStore DEF MaybeObject
    <2>5. ~HasOwner(Stored(con'), "consumer") /\ ~InLog(pro', "consumer")
      BY <2>3, <2>4, <1>1, <1>2, <1>5 DEF HasOwner
    <2>6. TypeOK'
      BY <2>4, <1>1, IdleType, LogsOfInv DEF TypeOK, MaybeObject
    <2>7. LabelledAfterSeen(pro') /\ worker'.pc = "idle"
      BY <1>1, LogsOfInv, IdleType
    <2>8. QED
      BY <2>5, <2>6, <2>7 DEF OwnersInv
  <1>6. QED
    BY <1>3, <1>4, <1>5 DEF SyncToConsumer, StoreCon

\* And the other way round.
LEMMA SyncToProviderInv ==
  ASSUME OwnersInv, SyncToProvider PROVE OwnersInv'
  <1>1. worker.pc = "write" /\ worker.owner = "consumer" /\ worker' = Idle
        /\ con' = con /\ ops' = ops
    BY DEF SyncToProvider, Done
  <1>2. /\ ~HasOwner(Stored(con), "provider") /\ ~InLog(pro, "provider")
        /\ worker.c # Gone => worker.c.owner = "consumer"
    BY <1>1 DEF OwnersInv, SyncsToProvider
  <1>3. CASE pro' = pro
    BY <1>1, <1>3, LogsOfInv, ObjectsKept
  <1>4. CASE \/ pro' = Store(pro, Gone)
             \/ Stored(pro) # Gone /\ pro' = Store(pro, [Stored(pro) EXCEPT !.deleting = TRUE])
    <2>1. PICK n : pro' = Store(pro, n) /\ OwnerKept(n, Stored(pro))
      BY <1>4, LogsOfInv, UserWrites
    <2>2. Follows(pro', pro)
      BY <2>1, LogsOfInv, FollowsStore
    <2>3. worker' \in {worker, [worker EXCEPT !.fresh = FALSE], Idle}
          /\ (worker' = worker => worker.pc # "label") /\ ops' \in Nat
          /\ IsLog(con', MaybeObject) /\ OwnerKept(Stored(con'), Stored(con))
      BY <1>1, LogsOfInv
    <2>4. QED
      BY <2>2, <2>3, NoOwnerAdded
  <1>5. CASE worker.c # Gone /\ pro' = Store(pro, CandidateFromOwnerObj(worker.c))
    <2>1. PICK c \in Object : c = worker.c
      BY <1>5, LogsOfInv DEF Workers
    <2>2. PICK n \in Object : pro' = Store(pro, n) /\ n.owner = "consumer"
      BY <1>2, <1>5, <2>1, CandidateType
    <2>3. n \in MaybeObject /\ ~HasOwner(n, "provider")
      BY <2>2 DEF MaybeObject, HasOwner
    <2>4. ~InLog(pro', "provider")
      BY <2>2, <2>3, <1>2, LogsOfInv, OwnerOfStore
    <2>5. LabelledAfterSeen(pro') /\ IsLog(pro', MaybeObject)
      BY <2>2, <2>3, LogsOfInv, LabelledStore, LogStore
    <2>6. TypeOK'
      BY <2>5, <1>1, IdleType, LogsOfInv DEF TypeOK, MaybeObject
    <2>7. ~HasOwner(Stored(con'), "provider") /\ worker'.pc = "idle"
      BY <1>1, <1>2, IdleType
    <2>8. QED
      BY <2>4, <2>5, <2>6, <2>7 DEF OwnersInv
  <1>6. QED
    BY <1>3, <1>4, <1>5 DEF SyncToProvider, StorePro

LEMMA NextInv ==
  ASSUME Unclaimed = {}, OwnersInv, [Next]_vars PROVE OwnersInv'
  <1>1. CASE UNCHANGED vars
    BY <1>1, LogsOfInv, ObjectsKept DEF vars, objects
  <1>2. CASE Users
    BY <1>2, ConsumerWritesInv, ProviderWritesInv, SnsWrittenInv DEF Users
  <1>3. CASE DeletionEnds
    BY <1>3, ProviderWritesInv
  <1>4. CASE DeliverConsumer \/ DeliverProvider \/ DeliverSns \/ Start
    BY <1>4, DeliveriesInv
  <1>5. CASE Reconcile
    BY <1>5, ReconcileInv
  <1>6. CASE SetOwner
    BY <1>6, SetOwnerInv
  <1>7. CASE SyncToConsumer
    BY <1>7, SyncToConsumerInv
  <1>8. CASE SyncToProvider
    BY <1>8, SyncToProviderInv
  <1>9. CASE \/ BackendReady \/ SetOwnerFails \/ SyncFails \/ EnsureServiceNamespace
             \/ Notify \/ Receive \/ Stop \/ Synced
    BY <1>9, OthersInv
  <1>10. QED
    BY <1>1, <1>2, <1>3, <1>4, <1>5, <1>6, <1>7, <1>8, <1>9 DEF Next

\* The inductive invariant: what the worker has read from a cache and from an API server
\* (reconcile, claimedresources) speaks for all versions of the object in between.
THEOREM OwnersInvariant ==
  ASSUME Unclaimed = {} PROVE Spec => []OwnersInv
  <1>1. OwnersInv /\ [Next]_vars => OwnersInv'
    BY NextInv
  <1>2. QED
    BY <1>1, InitInv, PTL DEF Spec

\* The two copies of a claimed object never name different owners: determineOwner, from a
\* cached object of the provider and a live one of the consumer, never labels against a
\* label that is on the other side or on its way to the cache.
THEOREM OwnersAlwaysAgree ==
  ASSUME Unclaimed = {} PROVE Spec => []OwnersAgree
  <1>1. ASSUME OwnersInv PROVE OwnersAgree
    <2>1. PICK p, c : p = Stored(pro) /\ c = Stored(con) /\ p \in MaybeObject /\ c \in MaybeObject
      BY <1>1, LogsOfInv
    <2>2. /\ HasOwner(p, "provider") => InLog(pro, "provider")
          /\ HasOwner(p, "consumer") => InLog(pro, "consumer")
      BY <1>1, <2>1, LogsOfInv, EndsAreVersions
    <2>3. ~(HasOwner(c, "consumer") /\ HasOwner(p, "provider"))
          /\ ~(HasOwner(c, "provider") /\ HasOwner(p, "consumer"))
      BY <1>1, <2>1, <2>2 DEF OwnersInv
    <2>4. (p # Gone => p.owner \in Owners) /\ (c # Gone => c.owner \in Owners)
      BY <2>1, ObjectType DEF MaybeObject
    <2>5. (p # Gone /\ c # Gone /\ "none" \notin {p.owner, c.owner}) => p.owner = c.owner
      BY <2>3, <2>4 DEF HasOwner, Owners
    <2>6. QED
      BY <2>1, <2>5 DEF OwnersAgree
  <1>2. QED
    BY <1>1, OwnersInvariant, PTL

\* An object of the consumer that is labelled as the consumer's.
LEMMA ConsumerDecides ==
  ASSUME OwnersInv, [Next]_vars, ops' = ops, HasOwner(Stored(con), "consumer")
  PROVE  Stored(con') # Gone /\ Stored(con').data = Stored(con).data
  <1>1. ops \in Nat /\ Stored(con) # Gone
    BY LogsOfInv DEF HasOwner
  <1>2. ~Users
    BY <1>1 DEF Users, ConsumerWrites, ProviderWrites, SnsWritten, Op
  <1>3. ~SyncToConsumer
    BY DEF SyncToConsumer, OwnersInv, SyncsToConsumer
  <1>4. CASE Stored(con') = Stored(con)
    BY <1>1, <1>4
  <1>5. CASE SetOwner /\ con' # con
    <2>1. /\ worker.owner = "consumer" /\ StoreCon(MakeOwner(worker.c, "consumer"))
          /\ worker.pc = "label" /\ worker.fresh
      BY <1>5 DEF SetOwner
    <2>2. worker.c = Stored(con)
      BY <2>1 DEF OwnersInv, SyncsToProvider
    <2>3. PICK c \in Object : c = Stored(con) /\ c = worker.c
      BY <2>2, <1>1, LogsOfInv DEF MaybeObject
    <2>4. PICK n \in Object : n = MakeOwner(c, "consumer") /\ n.data = c.data
      BY <2>3, MakeOwnerType DEF Owners
    <2>5. con' = Store(con, n) /\ n \in MaybeObject
      BY <2>1, <2>3, <2>4 DEF StoreCon, MaybeObject
    <2>6. Stored(con') = n
      BY <2>5, LogsOfInv, LogStore
    <2>7. QED
      BY <2>3, <2>4, <2>6, ObjectType
  <1>6. CASE DeliverConsumer \/ Start
    <2>1. Stored(con') = Stored(con)
      BY <1>6, LogsOfInv, LogEvent, LogList DEF DeliverConsumer, Start
    <2>2. QED
      BY <2>1, <1>4
  <1>7. con' = con \/ (SetOwner /\ con' # con) \/ DeliverConsumer \/ Start
    <2>1. CASE UNCHANGED vars
      BY <2>1 DEF vars, objects
    <2>2. DeletionEnds \/ BackendReady \/ DeliverProvider \/ DeliverSns \/ Reconcile => con' = con
      BY DEF DeletionEnds, BackendReady, DeliverProvider, DeliverSns, Reconcile, objects
    <2>3. SetOwnerFails \/ SyncToProvider \/ SyncFails \/ EnsureServiceNamespace => con' = con
      BY DEF SetOwnerFails, SyncToProvider, SyncFails, EnsureServiceNamespace, objects
    <2>4. Notify \/ Receive \/ Stop \/ Synced => con' = con
      BY DEF Notify, Receive, Stop, Synced, objects
    <2>5. QED
      BY <2>1, <2>2, <2>3, <2>4, <1>2, <1>3 DEF Next
  <1>8. QED
    BY <1>4, <1>5, <1>6, <1>7

\* An object of the provider that is labelled as the provider's and not being deleted.
LEMMA ProviderDecides ==
  ASSUME OwnersInv, [Next]_vars, ops' = ops, HasOwner(Stored(pro), "provider"),
         ~Stored(pro).deleting
  PROVE  Stored(pro') # Gone /\ Stored(pro').data = Stored(pro).data
  <1>1. ops \in Nat /\ Stored(pro) # Gone /\ InLog(pro, "provider")
    BY LogsOfInv, EndsAreVersions DEF HasOwner
  <1>2. ~Users /\ ~DeletionEnds
    BY <1>1 DEF Users, ConsumerWrites, ProviderWrites, SnsWritten, Op, DeletionEnds, IsDeleting
  <1>3. ~SyncToProvider
    BY <1>1 DEF SyncToProvider, OwnersInv, SyncsToProvider
  <1>4. CASE Stored(pro') = Stored(pro)
    BY <1>1, <1>4
  <1>5. CASE SetOwner /\ pro' # pro
    <2>1. /\ worker.owner = "provider" /\ StorePro(MakeOwner(worker.p, "provider"))
          /\ worker.pc = "label" /\ worker.fresh
      BY <1>5 DEF SetOwner
    <2>2. pro = <<worker.p>>
      BY <2>1 DEF OwnersInv, SyncsToConsumer
    <2>3. worker.p = Stored(pro)
      BY <2>2 DEF Stored
    <2>4. PICK p \in Object : p = Stored(pro) /\ p = worker.p
      BY <2>3, <1>1, LogsOfInv DEF MaybeObject
    <2>5. PICK n \in Object : n = MakeOwner(p, "provider") /\ n.data = p.data
      BY <2>4, MakeOwnerType DEF Owners
    <2>6. pro' = Store(pro, n) /\ n \in MaybeObject
      BY <2>1, <2>4, <2>5 DEF StorePro, MaybeObject
    <2>7. Stored(pro') = n
      BY <2>6, LogsOfInv, LogStore
    <2>8. QED
      BY <2>4, <2>5, <2>7, ObjectType
  <1>6. CASE DeliverProvider \/ DeliverSns \/ Start
    <2>1. pro' = pro \/ pro' = List(pro) \/ (~InSync(pro) /\ pro' = Event(pro))
      BY <1>6 DEF DeliverProvider, DeliverSns, Start
    <2>2. Stored(pro') = Stored(pro)
      BY <2>1, LogsOfInv, LogEvent, LogList
    <2>3. QED
      BY <2>2, <1>4
  <1>7. pro' = pro \/ (SetOwner /\ pro' # pro) \/ DeliverProvider \/ DeliverSns \/ Start
    <2>1. CASE UNCHANGED vars
      BY <2>1 DEF vars, objects
    <2>2. BackendReady \/ DeliverConsumer \/ Reconcile => pro' = pro
      BY DEF BackendReady, DeliverConsumer, Reconcile, objects
    <2>3. SetOwnerFails \/ SyncToConsumer \/ SyncFails \/ EnsureServiceNamespace => pro' = pro
      BY DEF SetOwnerFails, SyncToConsumer, SyncFails, EnsureServiceNamespace, objects
    <2>4. Notify \/ Receive \/ Stop \/ Synced => pro' = pro
      BY DEF Notify, Receive, Stop, Synced, objects
    <2>5. QED
      BY <2>1, <2>2, <2>3, <2>4, <1>2, <1>3 DEF Next
  <1>8. QED
    BY <1>4, <1>5, <1>6, <1>7

\* The konnector changes neither the contents nor the existence of an object that is
\* labelled as the property of the side it is on: reconcile writes only to the other side,
\* and the label at the version that it has read.
THEOREM OwnersAlwaysDecide ==
  ASSUME Unclaimed = {} PROVE Spec => OwnersDecide
  <1> DEFINE Decides ==
    (ops' = ops) =>
       /\ (Stored(con) # Gone /\ Stored(con).owner = "consumer")
            => (Stored(con)' # Gone /\ Stored(con)'.data = Stored(con).data)
       /\ (Stored(pro) # Gone /\ Stored(pro).owner = "provider" /\ ~Stored(pro).deleting)
            => (Stored(pro)' # Gone /\ Stored(pro)'.data = Stored(pro).data)
  <1>1. OwnersInv /\ [Next]_vars => [Decides]_vars
    <2> SUFFICES ASSUME OwnersInv, [Next]_vars PROVE Decides
      OBVIOUS
    <2>1. Stored(con)' = Stored(con') /\ Stored(pro)' = Stored(pro')
      BY DEF Stored
    <2>2. QED
      BY <2>1, ConsumerDecides, ProviderDecides DEF HasOwner
  <1>2. QED
    BY <1>1, OwnersInvariant, PTL DEF Spec, OwnersDecide
=============================================================================
