----------------------------- MODULE ObjectSync -----------------------------
(***************************************************************************)
(* The synchronisation of one object of a bound API between the consumer   *)
(* cluster ("downstream") and the provider cluster ("upstream") by the     *)
(* konnector's spec and status controllers                                 *)
(* (pkg/konnector/controllers/cluster/serviceexport/{spec,status}).        *)
(*                                                                         *)
(* The spec worker copies the consumer's spec upstream and guards the      *)
(* consumer object with a finalizer; the status worker copies the upstream *)
(* status back and deletes an upstream whose consumer object is gone.      *)
(* Both read informer caches that lag behind the API servers and write to  *)
(* the API servers directly; a write to a stale resource version fails     *)
(* with a conflict and the key is retried.  Keys are independent of one    *)
(* another, so one key is modelled.                                        *)
(***************************************************************************)
EXTENDS WatchedObject

CONSTANTS
  Namespaced,       \* the resource is namespaced: an APIServiceNamespace translates
  Statuses,         \* the statuses the provider publishes
  NoStatus,         \* the status field is not there
  FieldNames,       \* the fields of an object that are the user's to write
  Metadata,         \* those among them that are labels and annotations
  Values,           \* what a field may hold
  NoField,          \* the field is not there
  Content(_),       \* Content(n)[f] is what field f holds after the user's n-th write
  MaxEdits,         \* bound on the user's writes of a spec
  MaxProviderOps,   \* bound on what is done to the upstream object by others
  MaxWrites,        \* bound on both together
  MaxFaults         \* bound on restarts of the konnector and failed requests

ASSUME ConstantsAssumption ==
  /\ Namespaced \in BOOLEAN
  /\ NoStatus \notin Statuses
  /\ Metadata \subseteq FieldNames
  /\ NoField \in Values
  /\ \A n \in 0 .. MaxEdits : Content(n) \in [FieldNames -> Values]
  /\ MaxEdits \in Nat
  /\ MaxProviderOps \in Nat
  /\ MaxWrites \in Nat
  /\ MaxFaults \in Nat

VARIABLES
  consumer,    \* the consumer object, watched by the konnector
  provider,    \* the provider object, watched by the konnector
  sns,         \* APIServiceNamespace: 0 absent, 1 no status.namespace, 2 ready
  snsCache,    \* the same in the konnector's informer
  specQ,       \* the key is in the spec controller's work queue
  specW,       \* the spec controller's worker
  statusQ,     \* the key is in the status controller's work queue
  statusW,     \* the status controller's worker
  edits,       \* the number of specs the user wrote
  providerOps, \* the number of operations of others on the provider object
  faults       \* the number of restarts and failed requests

objects == <<consumer, provider>>
namespaces == <<sns, snsCache>>
budgets == <<edits, providerOps, faults>>
vars == <<consumer, provider, sns, snsCache, specQ, specW, statusQ, statusW,
          edits, providerOps, faults>>

-----------------------------------------------------------------------------
(* Objects.  A consumer object holds the number of the user's write that   *)
(* its contents come from; its uid is the number of the write that created *)
(* it.  A provider object also holds its contents, which may differ from   *)
(* what any write had, and the fields that the field managers of the       *)
(* konnector's create requests and of its server-side applies own.         *)

AllStatuses == Statuses \cup {NoStatus}
Numbers == 0 .. MaxEdits

ConsumerObject ==
  [alive: BOOLEAN, uid: Numbers, spec: Numbers, status: AllStatuses,
   deleting: BOOLEAN,   \* metadata.deletionTimestamp is set
   fin: BOOLEAN]        \* it has the finalizer kubebind.io/syncer

ProviderObject ==
  [alive: BOOLEAN, spec: Numbers, status: AllStatuses,
   deleting: BOOLEAN,
   held: BOOLEAN,       \* it has a finalizer of the service provider
   content: [FieldNames -> Values],
   created: SUBSET FieldNames, applied: SUBSET FieldNames]

NoConsumer == [alive |-> FALSE, uid |-> 0, spec |-> 0, status |-> NoStatus,
               deleting |-> FALSE, fin |-> FALSE]
NoProvider == [alive |-> FALSE, spec |-> 0, status |-> NoStatus,
               deleting |-> FALSE, held |-> FALSE,
               content |-> [f \in FieldNames |-> NoField],
               created |-> {}, applied |-> {}]

\* What the API server stores for the creation of a consumer object.
NewConsumer(n) == [alive |-> TRUE, uid |-> n, spec |-> n, status |-> NoStatus,
                   deleting |-> FALSE, fin |-> FALSE]

\* reflect.DeepEqual of the specs of a downstream and an upstream object.
SameSpec(obj, up) ==
  \A f \in FieldNames \ Metadata : Content(obj.spec)[f] = up.content[f]

\* The fields that contents c have.
Present(c) == {f \in FieldNames : c[f] # NoField}

\* The upstream object made from the downstream one: the copy without uid,
\* resourceVersion, deletionTimestamp, ownerReferences, finalizers and status.
CleanCopy(obj) == [alive |-> TRUE, spec |-> obj.spec, status |-> NoStatus,
                   deleting |-> FALSE, held |-> FALSE,
                   content |-> Content(obj.spec),
                   created |-> Present(Content(obj.spec)), applied |-> {}]

\* The cached upstream object with the spec of the downstream one: what the
\* konnector applies.
Sent(obj, up) ==
  [f \in FieldNames |-> IF f \in Metadata THEN up.content[f] ELSE Content(obj.spec)[f]]

\* A forced server-side apply of the contents c for the user's write n: a field
\* that is not sent is removed unless another manager, here that of the create
\* request, owns it; a field that is sent is taken from a manager that set
\* another value.
Apply(up, n, c) ==
  [up EXCEPT
     !.spec = n,
     !.content = [f \in FieldNames |-> IF c[f] = NoField /\ f \in up.created
                                       THEN up.content[f] ELSE c[f]],
     !.created = {f \in up.created : c[f] \in {NoField, up.content[f]}},
     !.applied = Present(c)]

\* A DELETE request for the provider object: finalizers delay the removal.
DeleteUpstream(w) ==
  CASE ~Live(w).alive                -> w
    [] Live(w).alive /\ ~Live(w).held -> Write(w, NoProvider)
    [] Live(w).alive /\ Live(w).held /\ ~Live(w).deleting
                                     -> Write(w, [Live(w) EXCEPT !.deleting = TRUE])
    [] OTHER                         -> w

\* The namespace is translated: nothing to translate, or the cached
\* APIServiceNamespace names the upstream namespace.
Translates == snsCache = 2

IdleSpec == [pc |-> "idle", obj |-> NoConsumer, at |-> 0,
             up |-> NoProvider, upAt |-> 0]
IdleStatus == [pc |-> "idle", up |-> NoProvider, down |-> NoConsumer, at |-> 0]

Init ==
  /\ consumer = Fresh(NoConsumer)
  /\ provider = Fresh(NoProvider)
  /\ sns = IF Namespaced THEN 0 ELSE 2
  /\ snsCache = sns
  /\ specQ = FALSE
  /\ specW = IdleSpec
  /\ statusQ = FALSE
  /\ statusW = IdleStatus
  /\ edits = 0
  /\ providerOps = 0
  /\ faults = 0

-----------------------------------------------------------------------------
(* The user of the consumer cluster.                                       *)

UserCreate ==
  /\ edits < MaxEdits
  /\ edits + providerOps < MaxWrites
  /\ ~Live(consumer).alive
  /\ edits' = edits + 1
  /\ consumer' = Write(consumer, NewConsumer(edits + 1))
  /\ UNCHANGED <<provider, namespaces, specQ, specW, statusQ, statusW, providerOps, faults>>

UserEdit ==
  /\ edits < MaxEdits
  /\ edits + providerOps < MaxWrites
  /\ Live(consumer).alive
  /\ edits' = edits + 1
  /\ consumer' = Write(consumer, [Live(consumer) EXCEPT !.spec = edits + 1])
  /\ UNCHANGED <<provider, namespaces, specQ, specW, statusQ, statusW, providerOps, faults>>

UserDelete ==
  /\ Live(consumer).alive
  /\ ~Live(consumer).deleting
  /\ consumer' = Write(consumer, IF Live(consumer).fin
                                 THEN [Live(consumer) EXCEPT !.deleting = TRUE]
                                 ELSE NoConsumer)
  /\ UNCHANGED <<provider, namespaces, specQ, specW, statusQ, statusW, budgets>>

-----------------------------------------------------------------------------
(* The service provider, and the backend that makes namespaces.            *)

ProviderWrite(o) ==
  /\ providerOps < MaxProviderOps
  /\ edits + providerOps < MaxWrites
  /\ Live(provider).alive
  /\ providerOps' = providerOps + 1
  /\ provider' = o
  /\ UNCHANGED <<consumer, namespaces, specQ, specW, statusQ, statusW, edits, faults>>

ProviderStatus ==
  \E s \in Statuses \ {Live(provider).status} :
    ProviderWrite(Write(provider, [Live(provider) EXCEPT !.status = s]))

ProviderHold ==
  /\ ~Live(provider).held
  /\ ~Live(provider).deleting
  /\ ProviderWrite(Write(provider, [Live(provider) EXCEPT !.held = TRUE]))

ProviderDelete ==
  /\ ~Live(provider).deleting
  /\ ProviderWrite(DeleteUpstream(provider))

\* The provider's operator has cleaned up and lets the object go.
ProviderRelease ==
  /\ Live(provider).alive
  /\ Live(provider).held
  /\ Live(provider).deleting
  /\ provider' = Write(provider, NoProvider)
  /\ UNCHANGED <<consumer, namespaces, specQ, specW, statusQ, statusW, budgets>>

\* The backend creates the namespace and sets status.namespace.
BackendReady ==
  /\ sns = 1
  /\ sns' = 2
  /\ UNCHANGED <<objects, snsCache, specQ, specW, statusQ, statusW, budgets>>

-----------------------------------------------------------------------------
(* The informers: each delivers the next event and runs the handlers of    *)
(* both controllers.                                                       *)

\* The spec controller's handlers of consumer and provider events
\* (enqueueConsumer, enqueueProvider) and of APIServiceNamespace events
\* (enqueueServiceNamespace: the cached consumer objects of the namespace).
SpecOnConsumer == specQ' = TRUE
SpecOnProvider == specQ' = (specQ \/ Translates)
SpecOnServiceNamespace == specQ' = (specQ \/ Cached(consumer).alive)

\* The status controller's: a consumer event without a ready
\* APIServiceNamespace in the cache is dropped.
StatusOnConsumer == statusQ' = (statusQ \/ Translates)
StatusOnProvider == statusQ' = (statusQ \/ Translates)
StatusOnServiceNamespace ==
  statusQ' = (statusQ \/ (snsCache' = 2 /\ Cached(provider).alive))

DeliverConsumer ==
  /\ Lagging(consumer)
  /\ consumer' = Deliver(consumer)
  /\ SpecOnConsumer
  /\ StatusOnConsumer
  /\ UNCHANGED <<provider, namespaces, specW, statusW, budgets>>

\* The informer of a provider namespace runs once the APIServiceNamespace is
\* ready in the cache.
DeliverProvider ==
  /\ Lagging(provider)
  /\ Translates
  /\ provider' = Deliver(provider)
  /\ SpecOnProvider
  /\ StatusOnProvider
  /\ UNCHANGED <<consumer, namespaces, specW, statusW, budgets>>

DeliverServiceNamespace ==
  /\ snsCache < sns
  /\ snsCache' = snsCache + 1
  /\ SpecOnServiceNamespace
  /\ StatusOnServiceNamespace
  /\ UNCHANGED <<objects, sns, specW, statusW, budgets>>

\* The informers' periodic resync replays what is in their stores.
Resync ==
  /\ Cached(consumer).alive \/ Cached(provider).alive
  /\ specQ' = TRUE
  /\ statusQ' = (statusQ \/ Translates)
  /\ UNCHANGED <<objects, namespaces, specW, statusW, budgets>>

-----------------------------------------------------------------------------
(* The spec controller: processNextWorkItem, process and reconcile of      *)
(* serviceexport/spec.  One action for each read of a cache and each       *)
(* request; what is decided between two of them belongs to the first.      *)

SpecUnchanged == UNCHANGED <<statusQ, statusW, edits, providerOps, faults>>

\* reconcile returned nil: Forget and Done.
SpecDone ==
  /\ specW' = IdleSpec
  /\ specQ' = specQ

\* reconcile returned an error (AddRateLimited), or asked for a requeue.
SpecRetry ==
  /\ specW' = IdleSpec
  /\ specQ' = TRUE

\* The next request of reconcile, for the downstream object obj at resource
\* version at and the cached upstream object up.
SpecCall(pc, obj, at, up, upAt) ==
  /\ specW' = [pc |-> pc, obj |-> obj, at |-> at, up |-> up, upAt |-> upAt]
  /\ specQ' = specQ

\* The key is taken off the queue and the downstream object read from the
\* cache.  Without one there is nothing to do.
SpecGet ==
  /\ specQ
  /\ specW.pc = "idle"
  /\ specQ' = FALSE
  /\ specW' = IF Cached(consumer).alive
              THEN [IdleSpec EXCEPT !.pc = "namespace", !.obj = Cached(consumer),
                                    !.at = consumer.seen]
              ELSE IdleSpec
  /\ UNCHANGED <<objects, namespaces>>
  /\ SpecUnchanged

\* The APIServiceNamespace is looked up in the cache and created if it is
\* not there (AlreadyExists is an error); reconcile goes on once the cached
\* object has a status.namespace.
SpecServiceNamespace ==
  /\ specW.pc = "namespace"
  /\ sns' = IF snsCache = 0 /\ sns = 0 THEN 1 ELSE sns
  /\ IF Translates
     THEN SpecCall("lookup", specW.obj, specW.at, NoProvider, 0)
     ELSE SpecRetry
  /\ UNCHANGED <<objects, snsCache>>
  /\ SpecUnchanged

\* "here the upstream already exists", and the downstream object obj has the
\* finalizer: patch upstream unless its spec is the same.
SpecCompare(obj, at, up, upAt) ==
  IF SameSpec(obj, up)
  THEN SpecDone
  ELSE SpecCall("patch", obj, at, up, upAt)

\* Mutant: upstream is created without the downstream finalizer.
SpecLookupUnguarded ==
  LET obj == specW.obj
      up  == Cached(provider)
      Go(pc) == SpecCall(pc, obj, specW.at, up, provider.seen)
  IN
  /\ specW.pc = "lookup"
  /\ CASE ~up.alive /\ obj.deleting /\ obj.fin          -> Go("unfinalize")
       [] ~up.alive /\ obj.deleting /\ ~obj.fin         -> SpecDone
       [] ~up.alive /\ ~obj.deleting                    -> Go("create")
       [] up.alive /\ obj.deleting /\ up.deleting       -> SpecDone
       [] up.alive /\ obj.deleting /\ ~up.deleting      -> Go("delete")
       [] OTHER -> SpecCompare(obj, specW.at, up, provider.seen)
  /\ UNCHANGED <<objects, namespaces>>
  /\ SpecUnchanged

\* The upstream object is looked up in the cache.
SpecLookup ==
  LET obj == specW.obj
      up  == Cached(provider)
      Go(pc) == SpecCall(pc, obj, specW.at, up, provider.seen)
  IN
  /\ specW.pc = "lookup"
  /\ CASE ~up.alive /\ obj.deleting /\ obj.fin          -> Go("unfinalize")
       [] ~up.alive /\ obj.deleting /\ ~obj.fin         -> SpecDone
       [] ~up.alive /\ ~obj.deleting /\ ~obj.fin        -> Go("finalize")
       [] ~up.alive /\ ~obj.deleting /\ obj.fin         -> Go("create")
       [] up.alive /\ obj.deleting /\ up.deleting       -> SpecDone
       [] up.alive /\ obj.deleting /\ ~up.deleting      -> Go("delete")
       [] up.alive /\ ~obj.deleting /\ ~obj.fin         -> Go("finalize")
       [] OTHER -> SpecCompare(obj, specW.at, up, provider.seen)
  /\ UNCHANGED <<objects, namespaces>>
  /\ SpecUnchanged

\* Mutant: a conflict on the finalizer is ignored.
SpecFinalizeAnyway ==
  LET obj == [specW.obj EXCEPT !.fin = TRUE]
  IN
  /\ specW.pc = "finalize"
  /\ consumer' = IF specW.at = consumer.rv THEN Write(consumer, obj) ELSE consumer
  /\ IF specW.up.alive
     THEN SpecCompare(obj, specW.at, specW.up, specW.upAt)
     ELSE SpecCall("create", obj, specW.at, specW.up, specW.upAt)
  /\ UNCHANGED <<provider, namespaces>>
  /\ SpecUnchanged

\* ensureDownstreamFinalizer: an update of the cached object, so it fails
\* with a conflict if the stored one is newer.
SpecFinalize ==
  LET obj == [specW.obj EXCEPT !.fin = TRUE]
      at  == consumer.rv + 1
  IN
  /\ specW.pc = "finalize"
  /\ IF specW.at = consumer.rv
     THEN /\ consumer' = Write(consumer, obj)
          /\ IF specW.up.alive
             THEN SpecCompare(obj, at, specW.up, specW.upAt)
             ELSE SpecCall("create", obj, at, specW.up, specW.upAt)
     ELSE /\ consumer' = consumer
          /\ SpecRetry
  /\ UNCHANGED <<provider, namespaces>>
  /\ SpecUnchanged

\* createProviderObject: AlreadyExists is tolerated, "the upstream object will
\* lead to a requeue".
SpecCreate ==
  /\ specW.pc = "create"
  /\ provider' = IF Live(provider).alive
                 THEN provider
                 ELSE Write(provider, CleanCopy(specW.obj))
  /\ SpecDone
  /\ UNCHANGED <<consumer, namespaces>>
  /\ SpecUnchanged

\* Mutant: the patch sends the object as it was when it was created.
PatchedOld(obj, up) ==
  LET old == [obj EXCEPT !.spec = obj.uid]
  IN Write(provider, Apply(up, old.spec, Sent(old, up)))

\* The provider object after a patch of up for the downstream object obj; one
\* that changes nothing is not stored.
Patched(obj, up) ==
  LET new == Apply(up, obj.spec, Sent(obj, up))
  IN IF [new EXCEPT !.spec = up.spec] = up THEN provider ELSE Write(provider, new)

\* Mutant: the patch has no resource version.
SpecPatchForced ==
  /\ specW.pc = "patch"
  /\ provider' = Patched(specW.obj, specW.up)
  /\ SpecDone
  /\ UNCHANGED <<consumer, namespaces>>
  /\ SpecUnchanged

\* updateProviderObject: a server-side apply of the cached upstream object with
\* the downstream spec, at the cached resource version and uid.
SpecPatch ==
  /\ specW.pc = "patch"
  /\ IF specW.upAt = provider.rv
     THEN /\ provider' = Patched(specW.obj, specW.up)
          /\ SpecDone
     ELSE /\ provider' = provider
          /\ SpecRetry
  /\ UNCHANGED <<consumer, namespaces>>
  /\ SpecUnchanged

\* The downstream object is deleting: deleteProviderObject (NotFound is
\* tolerated), then the downstream finalizer goes.
SpecDelete ==
  /\ specW.pc = "delete"
  /\ provider' = DeleteUpstream(provider)
  /\ IF specW.obj.fin
     THEN SpecCall("unfinalize", specW.obj, specW.at, specW.up, specW.upAt)
     ELSE SpecDone
  /\ UNCHANGED <<consumer, namespaces>>
  /\ SpecUnchanged

\* removeDownstreamFinalizer: an update of the cached, deleting object.  The
\* API server removes a deleting object with its last finalizer, and consumer objects
\* have no other finalizers here; the code keeps those of others.
SpecUnfinalize ==
  /\ specW.pc = "unfinalize"
  /\ IF specW.at = consumer.rv
     THEN /\ consumer' = Write(consumer, NoConsumer)
          /\ SpecDone
     ELSE /\ consumer' = consumer
          /\ SpecRetry
  /\ UNCHANGED <<provider, namespaces>>
  /\ SpecUnchanged

\* A request of the spec controller fails and has no effect.
SpecError ==
  /\ faults < MaxFaults
  /\ specW.pc \in {"finalize", "create", "patch", "delete", "unfinalize"}
  /\ faults' = faults + 1
  /\ SpecRetry
  /\ UNCHANGED <<objects, namespaces, statusQ, statusW, edits, providerOps>>

SpecStep ==
  \/ SpecGet
  \/ SpecServiceNamespace
  \/ SpecLookup
  \/ SpecFinalize
  \/ SpecCreate
  \/ SpecPatch
  \/ SpecDelete
  \/ SpecUnfinalize

-----------------------------------------------------------------------------
(* The status controller: processNextWorkItem, process and reconcile of    *)
(* serviceexport/status.                                                   *)

StatusUnchanged == UNCHANGED <<specQ, specW, edits, providerOps, faults>>

StatusDone ==
  /\ statusW' = IdleStatus
  /\ statusQ' = statusQ

StatusRetry ==
  /\ statusW' = IdleStatus
  /\ statusQ' = TRUE

\* The key is taken off the queue and the upstream object read from the cache.
\* If it is not there, process looks for a downstream object under the
\* upstream key: that is another namespace (or another, prefixed name), where
\* this object never is.
StatusGet ==
  /\ statusQ
  /\ statusW.pc = "idle"
  /\ statusQ' = FALSE
  /\ statusW' = IF Cached(provider).alive
                THEN [IdleStatus EXCEPT !.pc = "lookup", !.up = Cached(provider)]
                ELSE IdleStatus
  /\ UNCHANGED <<objects, namespaces>>
  /\ StatusUnchanged

\* Mutant: upstream is left alone when downstream is gone.
StatusLookupKeep ==
  LET down == Cached(consumer)
      Go(pc) == /\ statusW' = [statusW EXCEPT !.pc = pc, !.down = down,
                                              !.at = consumer.seen]
                /\ statusQ' = statusQ
  IN
  /\ statusW.pc = "lookup"
  /\ IF down.alive /\ down.status # statusW.up.status THEN Go("update") ELSE StatusDone
  /\ UNCHANGED <<objects, namespaces>>
  /\ StatusUnchanged

\* The downstream object is looked up in the cache: delete upstream without
\* one, update the downstream status if it differs.
StatusLookup ==
  LET down == Cached(consumer)
      Go(pc) == /\ statusW' = [statusW EXCEPT !.pc = pc, !.down = down,
                                              !.at = consumer.seen]
                /\ statusQ' = statusQ
  IN
  /\ statusW.pc = "lookup"
  /\ CASE ~down.alive                                      -> Go("delete")
       [] down.alive /\ down.status # statusW.up.status    -> Go("update")
       [] OTHER                                            -> StatusDone
  /\ UNCHANGED <<objects, namespaces>>
  /\ StatusUnchanged

\* Mutant: the update has no resource version.
StatusUpdateForced ==
  /\ statusW.pc = "update"
  /\ consumer' = Write(consumer, [statusW.down EXCEPT !.status = statusW.up.status])
  /\ StatusDone
  /\ UNCHANGED <<provider, namespaces>>
  /\ StatusUnchanged

\* updateConsumerObjectStatus at the cached resource version.
StatusUpdate ==
  /\ statusW.pc = "update"
  /\ IF statusW.at = consumer.rv
     THEN /\ consumer' = Write(consumer, [statusW.down EXCEPT !.status = statusW.up.status])
          /\ StatusDone
     ELSE /\ consumer' = consumer
          /\ StatusRetry
  /\ UNCHANGED <<provider, namespaces>>
  /\ StatusUnchanged

\* deleteProviderObject, by name; NotFound is an error here.
StatusDelete ==
  /\ statusW.pc = "delete"
  /\ provider' = DeleteUpstream(provider)
  /\ IF Live(provider).alive THEN StatusDone ELSE StatusRetry
  /\ UNCHANGED <<consumer, namespaces>>
  /\ StatusUnchanged

\* A request of the status controller fails and has no effect.
StatusError ==
  /\ faults < MaxFaults
  /\ statusW.pc \in {"update", "delete"}
  /\ faults' = faults + 1
  /\ StatusRetry
  /\ UNCHANGED <<objects, namespaces, specQ, specW, edits, providerOps>>

StatusStep ==
  \/ StatusGet
  \/ StatusLookup
  \/ StatusUpdate
  \/ StatusDelete

-----------------------------------------------------------------------------
\* The konnector (or only the two controllers, when the generation of the
\* APIServiceExport changes) stops and starts: queues and caches are lost, the
\* new informers list what is there and deliver it as added, and the workers
\* start once the caches have synced.
Restart ==
  /\ faults < MaxFaults
  /\ faults' = faults + 1
  /\ specW' = IdleSpec
  /\ statusW' = IdleStatus
  /\ consumer' = Relist(consumer)
  /\ provider' = Relist(provider)
  /\ snsCache' = sns
  /\ specQ' = (Live(consumer).alive \/ Live(provider).alive)
  /\ statusQ' = (sns = 2 /\ (Live(consumer).alive \/ Live(provider).alive))
  /\ UNCHANGED <<sns, edits, providerOps>>

Next ==
  \/ UserCreate
  \/ UserEdit
  \/ UserDelete
  \/ ProviderStatus
  \/ ProviderHold
  \/ ProviderDelete
  \/ ProviderRelease
  \/ BackendReady
  \/ DeliverConsumer
  \/ DeliverProvider
  \/ DeliverServiceNamespace
  \/ Resync
  \/ SpecStep
  \/ SpecError
  \/ StatusStep
  \/ StatusError
  \/ Restart

Spec == Init /\ [][Next]_vars

\* The informers deliver, the workers run, the backend makes the namespace and
\* the provider's operator lets go of what is deleted.  Users, faults and
\* resyncs are not fair.
Fairness ==
  /\ WF_vars(DeliverConsumer)
  /\ WF_vars(DeliverProvider)
  /\ WF_vars(DeliverServiceNamespace)
  /\ WF_vars(SpecStep)
  /\ WF_vars(StatusStep)
  /\ WF_vars(BackendReady)
  /\ WF_vars(ProviderRelease)

FairSpec == Spec /\ Fairness

-----------------------------------------------------------------------------
\* Every variable has its type, and the informers' caches are never ahead of what
\* they watch; an APIServiceNamespace is made only once.
TypeOK ==
  /\ IsWatched(consumer, ConsumerObject)
  /\ IsWatched(provider, ProviderObject)
  /\ sns \in 0 .. 2
  /\ snsCache \in 0 .. sns
  /\ specQ \in BOOLEAN
  /\ specW \in [pc: {"idle", "namespace", "lookup", "finalize", "create",
                     "patch", "delete", "unfinalize"},
                obj: ConsumerObject, at: Nat, up: ProviderObject, upAt: Nat]
  /\ statusQ \in BOOLEAN
  /\ statusW \in [pc: {"idle", "lookup", "update", "delete"},
                  up: ProviderObject, down: ConsumerObject, at: Nat]
  /\ edits \in 0 .. MaxEdits
  /\ providerOps \in 0 .. MaxProviderOps
  /\ faults \in 0 .. MaxFaults

-----------------------------------------------------------------------------
(* Safety.                                                                 *)

\* The upstream object carries a spec of the consumer object that is there now.
OfThisConsumer ==
  /\ Live(provider).alive
  /\ Live(consumer).alive
  /\ Live(provider).spec >= Live(consumer).uid

\* A consumer object whose spec is upstream has the finalizer: a user's deletion
\* never removes it behind the konnector's back, whatever the caches showed when
\* upstream was created or patched (ensureDownstreamFinalizer before both).  (With
\* finalizers of others on the consumer object, it may outlive kube-bind's while an
\* upstream object that the provider holds is being deleted.)
UpstreamIsGuarded == OfThisConsumer => Live(consumer).fin

\* Upstream is only created for a consumer object that still exists, with the
\* finalizer, and has not been re-created since its spec was read from the cache.
CreatedForLiveConsumer ==
  [][(~Live(provider).alive /\ Live(provider)'.alive) =>
       (OfThisConsumer' /\ Live(consumer).fin)]_vars

\* The spec an upstream object carries never goes back to an earlier write of
\* the user, although it is read from a cache that lags and sent much later.
SpecNeverRegresses ==
  [][(Live(provider).alive /\ Live(provider)'.alive) =>
       Live(provider)'.spec >= Live(provider).spec]_vars

\* The konnector's updates of the consumer object (finalizer, status) are whole
\* objects from its cache; they never undo a user's edit, deletion or re-creation.
NoLostEdit ==
  [][(Live(consumer).alive /\ Live(consumer)'.alive /\ edits' = edits) =>
       /\ Live(consumer)'.spec = Live(consumer).spec
       /\ Live(consumer)'.uid = Live(consumer).uid
       /\ Live(consumer).deleting => Live(consumer)'.deleting
       /\ Live(consumer).fin => Live(consumer)'.fin]_vars

\* The konnector's patches of the upstream object start from its cache; they
\* never undo the provider's status, finalizer or the deletion of the object.
NoLostProviderWrite ==
  [][(Live(provider).alive /\ Live(provider)'.alive /\ providerOps' = providerOps) =>
       /\ Live(provider)'.status = Live(provider).status
       /\ Live(provider)'.held = Live(provider).held
       /\ Live(provider).deleting => Live(provider)'.deleting]_vars

-----------------------------------------------------------------------------
(* Why it is safe: what the workers hold and what the consumer's informer   *)
(* may still deliver, related to what is stored.                           *)

\* The consumer versions a worker can still come to read.
Versions == consumer.seen .. consumer.rv

\* A version that the spec controller would copy upstream.
Copyable(o) == o.alive /\ o.fin /\ ~o.deleting

\* The consumer object o, as read or stored earlier, is still there with the
\* finalizer on it.
StillGuarded(o) ==
  Live(consumer).alive /\ Live(consumer).uid = o.uid /\ Live(consumer).fin

\* The user's writes are numbered in order along the consumer's history.
HistoryInOrder ==
  /\ \A i \in Versions : consumer.log[i].alive =>
       /\ 1 <= consumer.log[i].uid
       /\ consumer.log[i].uid <= consumer.log[i].spec
       /\ consumer.log[i].spec <= edits
  /\ \A i, j \in Versions :
       (i <= j /\ consumer.log[i].alive /\ consumer.log[j].alive) =>
         consumer.log[i].spec <= consumer.log[j].spec

\* Nothing upstream is newer than what a worker can still come to read.
UpstreamInOrder ==
  Live(provider).alive =>
    /\ Live(provider).spec <= edits
    /\ \A i \in Versions : consumer.log[i].alive =>
         Live(provider).spec <= consumer.log[i].spec

\* The object the spec worker holds: as old as its resource version, older than
\* what it can read next, and read with the finalizer wherever it goes upstream.
SpecWorkerInv ==
  specW.pc # "idle" =>
    /\ specW.obj.alive
    /\ specW.obj.uid <= specW.obj.spec
    /\ specW.obj.spec <= edits
    /\ specW.at <= consumer.rv
    /\ specW.at = consumer.rv => specW.obj = Live(consumer)
    /\ specW.obj.deleting => specW.at <= consumer.seen
    /\ \A i \in Versions : consumer.log[i].alive => specW.obj.spec <= consumer.log[i].spec
    /\ Live(provider).alive => Live(provider).spec <= specW.obj.spec
    /\ Copyable(specW.obj) => StillGuarded(specW.obj)
    /\ specW.pc \in {"create", "patch"} => Copyable(specW.obj)
    /\ specW.pc = "finalize" => ~specW.obj.deleting
    /\ specW.pc \in {"delete", "unfinalize"} => specW.obj.deleting
    /\ specW.pc = "patch" \/ (specW.pc = "finalize" /\ specW.up.alive) =>
         /\ specW.up.alive
         /\ specW.upAt <= provider.rv
         /\ specW.upAt = provider.rv => specW.up = Live(provider)

\* The object the status worker holds is as old as its resource version.
StatusWorkerInv ==
  statusW.pc = "update" =>
    /\ statusW.down.alive
    /\ statusW.at <= consumer.rv
    /\ statusW.at = consumer.rv => statusW.down = Live(consumer)

\* The inductive invariant.
SyncInv ==
  /\ TypeOK
  /\ HistoryInOrder
  /\ UpstreamInOrder
  /\ \A i \in Versions : Copyable(consumer.log[i]) => StillGuarded(consumer.log[i])
  /\ SpecWorkerInv
  /\ StatusWorkerInv
  /\ UpstreamIsGuarded

-----------------------------------------------------------------------------
(* Liveness.                                                               *)

\* Both clusters agree: upstream is there exactly for a consumer object that is
\* not deleting, with its spec, and the consumer shows its status.
Synced ==
  LET c == Live(consumer)
      p == Live(provider)
  IN IF c.alive
     THEN /\ ~c.deleting /\ c.fin
          /\ p.alive /\ ~p.deleting
          /\ SameSpec(c, p)
          /\ c.status = p.status
     ELSE ~p.alive

\* Once users and faults stop (the bounds see to it), the clusters come to agree
\* and stay so: no lost event, conflict, failed request, restart or stale read
\* leaves a difference that nothing repairs.
Converges == <>[]Synced

-----------------------------------------------------------------------------
(* What all this implements.                                               *)

\* The user's object is the consumer's, with its uid, the copy is the provider's,
\* with the write that its spec comes from.
Abstract == INSTANCE Mirror WITH
  MaxWrites <- MaxEdits,
  writes <- edits,
  born <- IF Live(consumer).alive THEN Live(consumer).uid ELSE 0,
  copy <- IF Live(provider).alive THEN Live(provider).spec ELSE 0

\* Two controllers with stale caches, conflicts, failed requests and restarts look
\* from outside like the mirror of module Mirror: reconcile of both controllers.
MirrorsObject == Abstract!Spec

-----------------------------------------------------------------------------
(* What a comment in the code says, and the code does not keep.            *)

\* "downstream is gone. Delete upstream too.": the status controller deletes
\* no upstream object of a consumer object that is there.
StatusDeletesOrphansOnly ==
  [][StatusDelete => ~OfThisConsumer]_vars
=============================================================================
