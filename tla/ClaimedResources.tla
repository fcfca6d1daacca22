-------------------------- MODULE ClaimedResources --------------------------
(***************************************************************************)
(* One object of a claimed resource, which the consumer or the provider    *)
(* owns and the konnector copies to the other side                         *)
(* (pkg/konnector/controllers/cluster/claimedresources), and the           *)
(* APIServiceNamespace that is made for it (claimedresourcesnamespaces).   *)
(*                                                                         *)
(* The provider's object is read from an informer, the consumer's from the *)
(* API server.  Both informers are filtered by the claim's label selector. *)
(***************************************************************************)
EXTENDS WatchLog

CONSTANTS
  Data,        \* contents of the object, its labels included
  Unclaimed,   \* those that the claim's selector does not match
  Gone,        \* the object is not there
  MaxOps,      \* bound on what users and providers do
  MaxLag,      \* bound on undelivered events of an object
  MaxFaults    \* bound on crashes and failed requests

Owners == {"none", "provider", "consumer"}
Object == [data: Data, owner: Owners, deleting: BOOLEAN]

ASSUME ConstantsAssumption ==
  /\ Unclaimed \subseteq Data
  /\ Gone \notin Object
  /\ MaxOps \in Nat /\ MaxLag \in Nat /\ MaxFaults \in Nat

VARIABLES
  con,      \* the consumer's object, watched
  pro,      \* the provider's object, watched while the namespace is ready
  sns,      \* the APIServiceNamespace, watched
  queue,    \* the key is in the claimedresources queue
  worker,   \* the worker of claimedresources
  nsQueue,  \* the object is in the claimedresourcesnamespaces queue
  nsWaits,  \* its worker waits for the APIServiceNamespace
  channel,  \* the object is in the channel between the two controllers
  stage,    \* of the goroutine that starts the controllers
  ops, faults

objects == <<con, pro, sns>>
spaces == <<nsQueue, nsWaits, channel>>
vars == <<objects, queue, worker, spaces, stage, ops, faults>>

IsClaimed(o) == o # Gone /\ o.data \notin Unclaimed

\* What a filtered informer has of an object.
Seen(o) == IF IsClaimed(o) THEN o ELSE Gone

IsDeleting(o) == o # Gone /\ o.deleting

\* candidateFromOwnerObj
CandidateFromOwnerObj(o) == [o EXCEPT !.deleting = FALSE]

MakeOwner(o, owner) == [o EXCEPT !.owner = owner]

Idle == [pc |-> "idle", p |-> Gone, c |-> Gone, owner |-> "none", fresh |-> FALSE]

Init ==
  /\ con = <<Gone>> /\ pro = <<Gone>> /\ sns = <<"absent">>
  /\ queue = FALSE /\ worker = Idle
  /\ nsQueue = FALSE /\ nsWaits = FALSE /\ channel = FALSE
  /\ stage = "up"
  /\ ops = 0 /\ faults = 0

-----------------------------------------------------------------------------
(* Writes to the two API servers.  One to the owner's object in between     *)
(* outdates the resource version that the worker has read.                 *)

Outdated(side) == IF worker.owner = side THEN [worker EXCEPT !.fresh = FALSE] ELSE worker

StoreCon(o) == Len(con) <= MaxLag /\ con' = Store(con, o)
StorePro(o) == Len(pro) <= MaxLag /\ pro' = Store(pro, o)
StoreSns(s) == Len(sns) <= MaxLag /\ sns' = Store(sns, s)

\* The provider's namespace exists while its APIServiceNamespace is ready.
Accepts == Stored(sns) = "ready"

Op == ops < MaxOps /\ ops' = ops + 1 /\ UNCHANGED <<queue, spaces, stage, faults>>

New(d) == [data |-> d, owner |-> "none", deleting |-> FALSE]

\* A user of the consumer creates, edits or deletes the object.
ConsumerWrites ==
  /\ Op
  /\ \/ Stored(con) = Gone /\ \E d \in Data : StoreCon(New(d))
     \/ Stored(con) # Gone /\ \E d \in Data \ {Stored(con).data} :
                                StoreCon([Stored(con) EXCEPT !.data = d])
     \/ Stored(con) # Gone /\ StoreCon(Gone)
  /\ worker' = Outdated("consumer")
  /\ UNCHANGED <<pro, sns>>

\* So does the provider; its object may have finalizers.
ProviderWrites ==
  /\ Op
  /\ Accepts
  /\ \/ Stored(pro) = Gone /\ \E d \in Data : StorePro(New(d))
     \/ Stored(pro) # Gone /\ \E d \in Data \ {Stored(pro).data} :
                                StorePro([Stored(pro) EXCEPT !.data = d])
     \/ Stored(pro) # Gone /\ \E o \in {Gone, [Stored(pro) EXCEPT !.deleting = TRUE]} :
                                StorePro(o)
  /\ worker' = Outdated("provider")
  /\ UNCHANGED <<con, sns>>

\* The finalizers of the provider's object are removed.
DeletionEnds ==
  /\ IsDeleting(Stored(pro))
  /\ StorePro(Gone)
  /\ worker' = Outdated("provider")
  /\ UNCHANGED <<con, sns, queue, spaces, stage, ops, faults>>

\* A spec controller makes the APIServiceNamespace; it is deleted, and the
\* provider's namespace with all that is in it.
SnsWritten ==
  /\ Op
  /\ \/ Stored(sns) = "absent" /\ StoreSns("new") /\ UNCHANGED <<pro, worker>>
     \/ Stored(sns) # "absent" /\ StoreSns("absent") /\ StorePro(Gone)
        /\ worker' = Outdated("provider")
  /\ UNCHANGED con

\* The backend makes the provider's namespace and says so in the status.
BackendReady ==
  /\ Stored(sns) = "new"
  /\ StoreSns("ready")
  /\ UNCHANGED <<con, pro, queue, worker, spaces, stage, ops, faults>>

-----------------------------------------------------------------------------
(* Events.                                                                 *)

\* enqueueConsumer and enqueueConsumerByKey
EnqueueConsumer(old, new) ==
  queue \/ ((IsClaimed(old) \/ IsClaimed(new)) /\ InStore(sns) = "ready")

\* enqueueConsumer of claimedresourcesnamespaces, for added objects only.
EnqueueNamespace(old, new) ==
  nsQueue \/ (~IsClaimed(old) /\ IsClaimed(new) /\ InStore(sns) = "absent")

DeliverConsumer ==
  /\ stage # "down" /\ ~InSync(con)
  /\ con' = Event(con)
  /\ queue' = EnqueueConsumer(InStore(con), InStore(con'))
  /\ nsQueue' = EnqueueNamespace(InStore(con), InStore(con'))
  /\ UNCHANGED <<pro, sns, worker, nsWaits, channel, stage, ops, faults>>

\* enqueueProvider
EnqueueProvider(old, new) == queue \/ IsClaimed(old) \/ IsClaimed(new)

DeliverProvider ==
  /\ stage # "down" /\ ~InSync(pro)
  /\ InStore(sns) = "ready"
  /\ pro' = Event(pro)
  /\ queue' = EnqueueProvider(InStore(pro), InStore(pro'))
  /\ UNCHANGED <<con, sns, worker, spaces, stage, ops, faults>>

\* Mutant: only the provider's objects are enqueued.
EnqueueProviderObjects(s, p) == queue \/ (s = "ready" /\ IsClaimed(p))

\* enqueueServiceNamespace: what both informers have.
EnqueueServiceNamespace(s, p) ==
  queue \/ (s = "ready" /\ (IsClaimed(p) \/ IsClaimed(InStore(con))))

\* The informer of the provider's namespace starts when it is ready; the handler
\* of this controller is added when the controller starts.
DeliverSns ==
  /\ stage # "down" /\ ~InSync(sns)
  /\ sns' = Event(sns)
  /\ pro' = IF InStore(sns') = "ready" THEN List(pro) ELSE pro
  /\ queue' = IF stage = "up" THEN EnqueueServiceNamespace(InStore(sns'), InStore(pro'))
              ELSE queue \/ (InStore(sns') = "ready" /\ IsClaimed(InStore(pro')))
  /\ UNCHANGED <<con, worker, spaces, stage, ops, faults>>

-----------------------------------------------------------------------------
(* The worker of claimedresources.                                         *)

\* Mutant: an object without a label is the provider's, whatever the consumer has.
UnlabelledIsProvider(p, c) ==
  IF p # Gone THEN (IF p.owner # "none" THEN p.owner ELSE "provider")
  ELSE IF c.owner # "none" THEN c.owner ELSE "consumer"

\* determineOwner
DetermineOwner(p, c) ==
  IF p # Gone /\ p.owner # "none" THEN p.owner
  ELSE IF p # Gone /\ c = Gone THEN "provider"
  ELSE IF c # Gone /\ c.owner # "none" THEN c.owner
  ELSE IF p = Gone THEN "consumer"
  ELSE "none"

\* Get of the multi-namespace informer, in the namespace of an APIServiceNamespace
\* that is ready.
CachedPro == Seen(InStore(pro))

\* The beginning of reconcile.  Without a ready APIServiceNamespace in the cache
\* it fails and is retried.
Reconcile ==
  LET p == CachedPro
      c == Stored(con)
      owner == IF p = Gone /\ c = Gone THEN "none" ELSE DetermineOwner(p, c)
      own == IF owner = "provider" THEN p ELSE c
  IN
  /\ stage = "up" /\ queue /\ worker.pc = "idle"
  /\ InStore(sns) = "ready"
  /\ queue' = FALSE
  /\ worker' = IF owner = "none" THEN Idle
               ELSE [pc |-> IF own # Gone /\ own.owner # owner THEN "label" ELSE "write",
                     p |-> p, c |-> c, owner |-> owner,
                     fresh |-> owner = "consumer" \/ InSync(pro)]
  /\ UNCHANGED <<objects, spaces, stage, ops, faults>>

\* makeProviderOwner or makeConsumerOwner on the owner's object, at the resource
\* version that was read.
SetOwner ==
  LET w == worker
  IN
  /\ w.pc = "label" /\ w.fresh
  /\ \/ /\ w.owner = "provider"
        /\ StorePro(MakeOwner(w.p, "provider"))
        /\ worker' = [w EXCEPT !.pc = "write"]
        /\ UNCHANGED con
     \/ /\ w.owner = "consumer"
        /\ StoreCon(MakeOwner(w.c, "consumer"))
        /\ worker' = [w EXCEPT !.pc = "write", !.c = MakeOwner(@, "consumer")]
        /\ UNCHANGED pro
  /\ UNCHANGED <<sns, queue, spaces, stage, ops, faults>>

\* A request fails: with a conflict, or for another reason.
SetOwnerFails ==
  /\ worker.pc = "label"
  /\ worker.fresh => faults < MaxFaults
  /\ faults' = IF worker.fresh THEN faults + 1 ELSE faults
  /\ worker' = Idle
  /\ queue' = TRUE
  /\ UNCHANGED <<objects, spaces, stage, ops>>

Done(failed) == worker' = Idle /\ queue' = (queue \/ failed)

\* The case OwnerProvider: deletes, creates or updates the consumer's object.
\* The update has no resource version, and the deletion finds no object only
\* where the provider's is being deleted.
SyncToConsumer ==
  LET w == worker
      there == Stored(con) # Gone
  IN
  /\ w.pc = "write" /\ w.owner = "provider"
  /\ \/ /\ w.p = Gone \/ (w.c # Gone /\ IsDeleting(w.p))
        /\ StoreCon(Gone)
        /\ Done(w.p # Gone /\ ~there)
     \/ /\ w.p # Gone /\ w.c = Gone
        /\ IF there THEN UNCHANGED con
           ELSE StoreCon(MakeOwner(CandidateFromOwnerObj(w.p), "provider"))
        /\ Done(there)
     \/ /\ w.p # Gone /\ w.c # Gone /\ ~w.p.deleting
        /\ IF there /\ CandidateFromOwnerObj(w.p) # CandidateFromOwnerObj(w.c)
           THEN StoreCon(CandidateFromOwnerObj(w.p)) ELSE UNCHANGED con
        /\ Done(~there /\ CandidateFromOwnerObj(w.p) # CandidateFromOwnerObj(w.c))
  /\ UNCHANGED <<pro, sns, spaces, stage, ops, faults>>

\* The case OwnerConsumer, the other way round.  The update drops the finalizers
\* of the provider's object.
SyncToProvider ==
  LET w == worker
      there == Stored(pro) # Gone
      differ == w.p # Gone /\ CandidateFromOwnerObj(w.p) # CandidateFromOwnerObj(w.c)
  IN
  /\ w.pc = "write" /\ w.owner = "consumer"
  /\ \/ /\ w.c = Gone
        /\ \/ StorePro(Gone)
           \/ there /\ StorePro([Stored(pro) EXCEPT !.deleting = TRUE])
        /\ Done(FALSE)
     \/ /\ w.c # Gone /\ w.p = Gone
        /\ IF there \/ ~Accepts THEN UNCHANGED pro ELSE StorePro(CandidateFromOwnerObj(w.c))
        /\ Done(there \/ ~Accepts)
     \/ /\ w.c # Gone /\ w.p # Gone
        /\ IF differ /\ there
           THEN StorePro(IF Stored(pro).deleting THEN Gone ELSE CandidateFromOwnerObj(w.c))
           ELSE UNCHANGED pro
        /\ Done(differ /\ ~there)
  /\ UNCHANGED <<con, sns, spaces, stage, ops, faults>>

SyncFails ==
  /\ worker.pc = "write"
  /\ faults < MaxFaults
  /\ faults' = faults + 1
  /\ Done(TRUE)
  /\ UNCHANGED <<objects, spaces, stage, ops>>

-----------------------------------------------------------------------------
(* claimedresourcesnamespaces.                                             *)

\* ensureServiceNamespace: creates it unless the cache has it, and then waits.
EnsureServiceNamespace ==
  /\ stage # "down" /\ nsQueue /\ ~nsWaits
  /\ nsQueue' = FALSE
  /\ nsWaits' = (InStore(sns) = "absent")
  /\ IF InStore(sns) = "absent" /\ Stored(sns) = "absent"
     THEN StoreSns("new") ELSE UNCHANGED sns
  /\ UNCHANGED <<con, pro, queue, worker, channel, stage, ops, faults>>

\* The wait ends; a full channel loses the key.
Notify ==
  /\ nsWaits
  /\ InStore(sns) = "ready"
  /\ nsWaits' = FALSE
  /\ channel' \in {TRUE, channel}
  /\ UNCHANGED <<objects, queue, worker, nsQueue, stage, ops, faults>>

\* The goroutine of Start: enqueueConsumerByKey.
Receive ==
  /\ stage = "up" /\ channel
  /\ channel' = FALSE
  /\ queue' = (queue \/ InStore(sns) = "ready")
  /\ UNCHANGED <<objects, worker, nsQueue, nsWaits, stage, ops, faults>>

-----------------------------------------------------------------------------
(* The life of the controllers.                                            *)

\* The konnector stops, or the controllers of the claim are stopped.
Stop ==
  /\ stage # "down"
  /\ faults < MaxFaults
  /\ faults' = faults + 1
  /\ stage' = "down"
  /\ queue' = FALSE
  /\ worker' = Idle
  /\ nsQueue' = FALSE
  /\ nsWaits' = FALSE
  /\ channel' = FALSE
  /\ UNCHANGED <<objects, ops>>

\* The informers list; an APIServiceNamespace that is there has to become ready
\* before those of the provider count as synced.
Start ==
  /\ stage = "down"
  /\ stage' = IF Stored(sns) = "new" THEN "sync" ELSE "synced"
  /\ con' = List(con) /\ pro' = List(pro) /\ sns' = List(sns)
  /\ nsQueue' = (IsClaimed(Stored(con)) /\ Stored(sns) = "absent")
  /\ queue' = ((IsClaimed(Stored(con)) \/ IsClaimed(Stored(pro))) /\ Stored(sns) = "ready")
  /\ UNCHANGED <<worker, nsWaits, channel, ops, faults>>

\* WaitForCacheSync returns; the handler for APIServiceNamespaces gets those in
\* the cache, and the workers start.
Synced ==
  /\ stage = "synced" \/ (stage = "sync" /\ InStore(sns) # "new")
  /\ stage' = "up"
  /\ queue' = EnqueueServiceNamespace(InStore(sns), InStore(pro))
  /\ UNCHANGED <<objects, worker, spaces, ops, faults>>

-----------------------------------------------------------------------------
Users == ConsumerWrites \/ ProviderWrites \/ SnsWritten

Next ==
  \/ Users \/ DeletionEnds \/ BackendReady
  \/ DeliverConsumer \/ DeliverProvider \/ DeliverSns
  \/ Reconcile \/ SetOwner \/ SetOwnerFails
  \/ SyncToConsumer \/ SyncToProvider \/ SyncFails
  \/ EnsureServiceNamespace \/ Notify \/ Receive
  \/ Stop \/ Start \/ Synced

Spec == Init /\ [][Next]_vars

\* Watches deliver, workers run, and others do their part.
FairSpec ==
  /\ Spec
  /\ WF_vars(DeletionEnds) /\ WF_vars(BackendReady)
  /\ WF_vars(DeliverConsumer) /\ WF_vars(DeliverProvider) /\ WF_vars(DeliverSns)
  /\ WF_vars(Reconcile) /\ WF_vars(SetOwner) /\ WF_vars(SetOwnerFails)
  /\ WF_vars(SyncToConsumer) /\ WF_vars(SyncToProvider)
  /\ WF_vars(EnsureServiceNamespace) /\ WF_vars(Notify) /\ WF_vars(Receive)
  /\ WF_vars(Start) /\ WF_vars(Synced)

-----------------------------------------------------------------------------
Workers == [pc: {"idle", "label", "write"}, p: Object \cup {Gone}, c: Object \cup {Gone},
            owner: Owners, fresh: BOOLEAN]

TypeOK ==
  /\ IsLog(con, Object \cup {Gone})
  /\ IsLog(pro, Object \cup {Gone})
  /\ worker \in Workers
  /\ ops \in Nat

HasOwner(o, owner) == o # Gone /\ o.owner = owner

\* A version with that owner is in the informer's store, or has not come to it yet.
InLog(w, owner) == \E i \in 1 .. Len(w) : HasOwner(w[i], owner)

\* The provider's object is labelled as its own only after the cache has had it.
LabelledAfterSeen(w) ==
  \A i \in 1 .. Len(w) : HasOwner(w[i], "provider") => \A j \in 1 .. i : w[j] # Gone

\* While the worker syncs to the consumer, nothing says that the consumer is the owner:
\* not the consumer's object, and where it writes a copy, no version of the provider's.
SyncsToConsumer ==
  /\ ~HasOwner(Stored(con), "consumer")
  /\ ~HasOwner(worker.p, "consumer")
  /\ worker.pc = "label" => worker.p # Gone /\ (worker.fresh => pro = <<worker.p>>)
  /\ worker.pc = "write" /\ worker.p # Gone => ~InLog(pro, "consumer")

\* And the other way round.
SyncsToProvider ==
  /\ ~HasOwner(Stored(con), "provider")
  /\ ~InLog(pro, "provider")
  /\ worker.pc = "label" => worker.c # Gone /\ (worker.fresh => Stored(con) = worker.c)
  /\ worker.pc = "write" /\ worker.c # Gone => worker.c.owner = "consumer"

\* Why the owners agree when all objects are claimed: no version of the provider's object
\* between the cache and the API server contradicts the label of the consumer's object, or
\* another version, whatever both sides delete and make again.
OwnersInv ==
  /\ TypeOK
  /\ HasOwner(Stored(con), "consumer") => ~InLog(pro, "provider")
  /\ HasOwner(Stored(con), "provider") => ~InLog(pro, "consumer")
  /\ ~InLog(pro, "provider") \/ ~InLog(pro, "consumer")
  /\ LabelledAfterSeen(pro)
  /\ worker.pc # "idle" => \/ worker.owner = "provider" /\ SyncsToConsumer
                           \/ worker.owner = "consumer" /\ SyncsToProvider

\* The two copies never name different owners, although one of them is read from
\* a cache, both may be deleted and re-created, and updates have no version.
OwnersAgree ==
  LET p == Stored(pro)
      c == Stored(con)
  IN (p # Gone /\ c # Gone /\ "none" \notin {p.owner, c.owner}) => p.owner = c.owner

\* The konnector changes neither the contents nor the existence of an object that
\* is labelled as the property of the side it is on.
OwnersDecide ==
  [][(ops' = ops) =>
       /\ (Stored(con) # Gone /\ Stored(con).owner = "consumer")
            => (Stored(con)' # Gone /\ Stored(con)'.data = Stored(con).data)
       /\ (Stored(pro) # Gone /\ Stored(pro).owner = "provider" /\ ~Stored(pro).deleting)
            => (Stored(pro)' # Gone /\ Stored(pro)'.data = Stored(pro).data)]_vars

\* A claimed object comes to be the same on both sides whenever its namespace is
\* ready, unless there are two of which one has no owner label (two objects of that
\* name made independently, or a label that was lost).  The channel
\* may lose the notification, events may come before the namespace is ready, and
\* a copy is made again and again of an object that is being deleted.
ClaimedConverges ==
  LET p == Stored(pro)
      c == Stored(con)
  IN <>[](\/ Stored(sns) # "ready"
          \/ p = c
          \/ p # Gone /\ c # Gone /\ (p.owner = "none" \/ c.owner = "none")
          \/ p # Gone /\ ~IsClaimed(p)
          \/ c # Gone /\ ~IsClaimed(c))
=============================================================================
