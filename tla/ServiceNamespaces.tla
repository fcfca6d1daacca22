-------------------------- MODULE ServiceNamespaces --------------------------
(***************************************************************************)
(* One namespace of the consumer, its APIServiceNamespace and the          *)
(* namespace that the backend makes for it at the provider.                *)
(*                                                                         *)
(* In the konnector: the spec controllers create the APIServiceNamespace   *)
(* for the objects they sync (module ObjectSync has the rest of them), the *)
(* namespacelifecycle controller ties the lives of the two together, and   *)
(* the multi-namespace informer starts and stops an informer for the       *)
(* provider's namespace.  At the provider: the backend's                   *)
(* APIServiceNamespace controller makes and deletes the namespace and the  *)
(* RBAC objects in it.                                                     *)
(***************************************************************************)
EXTENDS WatchLog

CONSTANTS
  Claims,           \* the permission claims an export may have
  NoRole,           \* the Role for the permission claims is not there
  NamespacedScope,  \* the backend runs with --consumer-scope=Namespaced
  MaxOps,           \* bound on what users and providers do
  MaxLag,           \* bound on undelivered events of an object
  MaxFaults         \* bound on crashes and failed requests

ASSUME ConstantsAssumption ==
  /\ NamespacedScope \in BOOLEAN
  /\ MaxOps \in Nat /\ MaxLag \in Nat /\ MaxFaults \in Nat

VARIABLES
  ns,       \* the consumer's namespace, watched by the konnector
  obj,      \* an object in it that is synced, watched by the konnector
  snsK,     \* the APIServiceNamespace, watched by the konnector
  note,     \* an event of it waits for the multi-namespace informer's handler
  adder,    \* the simulated add event of AddDynamicEventHandler: what it has found
  inf,      \* the multi-namespace informer runs one for the provider's namespace
  lifeQ,    \* the key is in the namespacelifecycle controller's queue
  specQ,    \* the object is in the spec controller's queue
  up,       \* the konnector runs
  snsB,     \* the APIServiceNamespace, watched by the backend
  pns,      \* the provider's namespace, watched by the backend
  rbac,     \* the konnector's RoleBinding and Role in it, watched by the backend
  claims,   \* the permission claims of the export, watched by the backend
  backQ,    \* the APIServiceNamespace is in the backend's queue
  lost,     \* a deletion may be lost on the backend: it was restarted, or did not
            \* find the namespace in its cache
  ops, faults

consumer == <<ns, obj>>
local == <<note, adder, inf, lifeQ, specQ, up>>
provider == <<pns, rbac, claims, backQ, lost>>
vars == <<consumer, snsK, snsB, local, provider, ops, faults>>

\* APIServiceNamespace: owned by the provider (label), status.namespace is set.
Sns == [there: BOOLEAN, provided: BOOLEAN, ready: BOOLEAN]
NoSns == [there |-> FALSE, provided |-> FALSE, ready |-> FALSE]
NewSns(provided) == [there |-> TRUE, provided |-> provided, ready |-> FALSE]

\* What a lookup of it finds: not there, without a status.namespace, or with one.
Finding(sns) == IF sns.ready THEN "ready" ELSE IF sns.there THEN "empty" ELSE "gone"

\* A write to the APIServiceNamespace, which both sides watch.
StoreSns(c) ==
  /\ Len(snsK) <= MaxLag /\ Len(snsB) <= MaxLag
  /\ snsK' = Store(snsK, c)
  /\ snsB' = Store(snsB, c)

\* RoleBinding kube-binder, and the Role and RoleBinding of the permission claims.
Access == [bound: BOOLEAN, role: SUBSET Claims \cup {NoRole}]
NoAccess == [bound |-> FALSE, role |-> NoRole]

\* The backend's informers are at most MaxLag events behind its own writes.
Room == Len(pns) <= MaxLag /\ Len(rbac) <= MaxLag

\* The konnector starts, with the object there or not.
Init ==
  /\ \E there \in BOOLEAN : ns = <<there>> /\ obj = <<there>> /\ specQ = there
  /\ snsK = <<NoSns>> /\ snsB = <<NoSns>>
  /\ note = FALSE /\ adder = "done" /\ inf = FALSE /\ lifeQ = FALSE
  /\ up = TRUE
  /\ pns = <<"absent">> /\ rbac = <<NoAccess>> /\ claims = <<{}>>
  /\ backQ = FALSE /\ lost = FALSE
  /\ ops = 0 /\ faults = 0

-----------------------------------------------------------------------------
(* Users, providers and the API servers.                                   *)

Op == ops < MaxOps /\ ops' = ops + 1 /\ UNCHANGED faults

\* The user makes the namespace with the object, or deletes it with all it has.
UserCreates ==
  /\ Op
  /\ ~Stored(obj)
  /\ ns' = Store(ns, TRUE)
  /\ obj' = Store(obj, TRUE)
  /\ UNCHANGED <<snsK, snsB, local, provider>>

UserDeletes ==
  /\ Op
  /\ Stored(ns)
  /\ ns' = Store(ns, FALSE)
  /\ obj' = Store(obj, FALSE)
  /\ UNCHANGED <<snsK, snsB, local, provider>>

\* The provider makes an APIServiceNamespace of its own; one of any owner is
\* deleted, also by the garbage collector with the export that owns it.
ProviderCreates ==
  /\ Op
  /\ ~Stored(snsK).there
  /\ StoreSns(NewSns(TRUE))
  /\ UNCHANGED <<consumer, local, provider>>

ProviderDeletes ==
  /\ Op
  /\ Stored(snsK).there
  /\ StoreSns(NoSns)
  /\ UNCHANGED <<consumer, local, provider>>

\* The export is made with permission claims.
ExportClaims ==
  /\ Op
  /\ \E c \in Claims : claims' = Store(claims, Stored(claims) \cup {c})
  /\ UNCHANGED <<consumer, snsK, snsB, local, pns, rbac, backQ, lost>>

\* The namespace controller of the provider's cluster ends a deletion.
NamespaceGone ==
  /\ Room
  /\ Stored(pns) = "terminating"
  /\ pns' = Store(pns, "absent")
  /\ rbac' = Store(rbac, IF NamespacedScope THEN NoAccess ELSE Stored(rbac))
  /\ UNCHANGED <<consumer, snsK, snsB, local, claims, backQ, lost, ops, faults>>

-----------------------------------------------------------------------------
(* The konnector's informers.                                              *)

\* enqueueNamespace
LifecycleOnNamespace == lifeQ' = TRUE

DeliverNamespace ==
  /\ up /\ ~InSync(ns)
  /\ ns' = Event(ns)
  /\ LifecycleOnNamespace
  /\ UNCHANGED <<obj, snsK, snsB, note, adder, inf, specQ, up, provider, ops, faults>>

DeliverObject ==
  /\ up /\ ~InSync(obj)
  /\ obj' = Event(obj)
  /\ specQ' = TRUE
  /\ UNCHANGED <<ns, snsK, snsB, note, adder, inf, lifeQ, up, provider, ops, faults>>

\* Mutant: the spec controllers do not watch APIServiceNamespaces.
SpecIgnoresSns == specQ' = specQ

\* enqueueServiceNamespace of the spec controllers: the cached objects.
SpecOnSns == specQ' = (specQ \/ InStore(obj))

DeliverSns ==
  /\ up /\ ~InSync(snsK)
  /\ snsK' = Event(snsK)
  /\ note' = TRUE
  /\ lifeQ' = TRUE
  /\ SpecOnSns
  /\ UNCHANGED <<consumer, snsB, adder, inf, up, provider, ops, faults>>

\* The periodic resync of the konnector's informer of APIServiceNamespaces, every 30
\* minutes: the handlers are called for what is in the store.  Its period is far
\* longer than a call of a handler and a reconcile take.
Resync ==
  /\ up /\ ~note /\ adder = "done" /\ ~lifeQ
  /\ InStore(snsK).there
  /\ note' = TRUE
  /\ lifeQ' = TRUE
  /\ SpecOnSns
  /\ UNCHANGED <<consumer, snsK, snsB, adder, inf, up, provider, ops, faults>>

\* The process ends, and with it queues and informers.
Down ==
  /\ up' = FALSE
  /\ lifeQ' = FALSE
  /\ specQ' = FALSE
  /\ inf' = FALSE

\* enqueueServiceNamespace of the multi-namespace informer, with the lock: what was
\* looked up before decides whether the informer is started or stopped.  To stop the
\* informer of an APIServiceNamespace that was not there dereferences nil and takes
\* the process down.
StartOrStop(found) ==
  IF found = "gone" /\ inf
  THEN Down
  ELSE /\ inf' = (found = "ready")
       /\ UNCHANGED <<lifeQ, specQ, up>>

\* Called for an event.  Lookup and lock are one step: what makes the lookup old in
\* between is an event too, and this goroutine handles it next.
HandleSns ==
  /\ up /\ note
  /\ note' = FALSE
  /\ StartOrStop(Finding(InStore(snsK)))
  /\ adder' = IF up' THEN adder ELSE "done"
  /\ UNCHANGED <<consumer, snsK, snsB, provider, ops, faults>>

\* Called by AddDynamicEventHandler from another goroutine, which may take the lock
\* long after its lookup.
AdderReads ==
  /\ adder = "asked"
  /\ adder' = Finding(InStore(snsK))
  /\ UNCHANGED <<consumer, snsK, snsB, note, inf, lifeQ, specQ, up, provider, ops, faults>>

AdderActs ==
  /\ adder \in {"ready", "empty", "gone"}
  /\ adder' = "done"
  /\ StartOrStop(adder)
  /\ note' = (note /\ up')
  /\ UNCHANGED <<consumer, snsK, snsB, provider, ops, faults>>

\* The konnector stops at any point, and starts again.
Crash ==
  /\ up
  /\ faults < MaxFaults
  /\ faults' = faults + 1
  /\ Down
  /\ note' = FALSE
  /\ adder' = "done"
  /\ UNCHANGED <<consumer, snsK, snsB, provider, ops>>

Start ==
  /\ ~up
  /\ up' = TRUE
  /\ ns' = List(ns)
  /\ obj' = List(obj)
  /\ snsK' = List(snsK)
  /\ lifeQ' = TRUE
  /\ specQ' = TRUE
  /\ adder' = IF Stored(snsK).there THEN "asked" ELSE "done"
  /\ UNCHANGED <<snsB, note, inf, provider, ops, faults>>

-----------------------------------------------------------------------------
(* The konnector's workers.                                                *)

\* The spec controller creates an APIServiceNamespace that is not in the cache;
\* AlreadyExists is an error, and without a status it asks for a requeue.
SpecReconcile ==
  LET sns == InStore(snsK)
  IN
  /\ up /\ specQ
  /\ specQ' = (InStore(obj) /\ ~sns.ready)
  /\ IF InStore(obj) /\ ~sns.there /\ ~Stored(snsK).there
     THEN StoreSns(NewSns(FALSE))
     ELSE UNCHANGED <<snsK, snsB>>
  /\ UNCHANGED <<consumer, note, adder, inf, lifeQ, up, provider, ops, faults>>

\* isConsumerOwned
IsConsumerOwned(sns) == ~sns.provided

\* process of namespacelifecycle.  Deletes are by name; creating a namespace that
\* exists is an error, as is deleting an APIServiceNamespace that is gone.
LifecycleProcess ==
  LET sns == InStore(snsK)
      delete == sns.there /\ IsConsumerOwned(sns) /\ ~InStore(ns)
      create == sns.there /\ ~IsConsumerOwned(sns) /\ ~InStore(ns)
  IN
  /\ up /\ lifeQ
  /\ lifeQ' = ((delete /\ ~Stored(snsK).there) \/ (create /\ Stored(ns)))
  /\ IF delete THEN StoreSns(NoSns) ELSE UNCHANGED <<snsK, snsB>>
  /\ ns' = IF create THEN Store(ns, TRUE) ELSE ns
  /\ UNCHANGED <<obj, note, adder, inf, specQ, up, provider, ops, faults>>

-----------------------------------------------------------------------------
(* The backend.                                                            *)

DeliverSnsToBackend ==
  /\ ~InSync(snsB)
  /\ snsB' = Event(snsB)
  /\ backQ' = TRUE
  /\ UNCHANGED <<consumer, snsK, local, pns, rbac, claims, lost, ops, faults>>

\* getNamespaceMapper: the APIServiceNamespace with this status.namespace.
MapNamespace == backQ' = (backQ \/ InStore(snsB).ready)

DeliverProviderNamespace ==
  /\ ~InSync(pns)
  /\ pns' = Event(pns)
  /\ MapNamespace
  /\ UNCHANGED <<consumer, snsK, snsB, local, rbac, claims, lost, ops, faults>>

\* getServiceExportMapper
DeliverExport ==
  /\ ~InSync(claims)
  /\ claims' = Event(claims)
  /\ backQ' = (backQ \/ InStore(snsB).there)
  /\ UNCHANGED <<consumer, snsK, snsB, local, pns, rbac, lost, ops, faults>>

\* getClusterBindingMapper, for the heartbeats of the konnector.
Heartbeat ==
  /\ InStore(snsB).there
  /\ ~backQ
  /\ backQ' = TRUE
  /\ UNCHANGED <<consumer, snsK, snsB, local, pns, rbac, claims, lost, ops, faults>>

DeliverAccess ==
  /\ ~InSync(rbac)
  /\ rbac' = Event(rbac)
  /\ UNCHANGED <<consumer, snsK, snsB, local, pns, claims, backQ, lost, ops, faults>>

\* reconcile: the namespace is looked up if the status names one, and created if
\* it is not found.  AlreadyExists is tolerated, whatever the namespace's phase.
EnsureNamespace(sns) ==
  IF (sns.ready /\ InStore(pns) # "absent") \/ Stored(pns) # "absent"
  THEN pns ELSE Store(pns, "active")

\* Nothing can be created in a namespace that terminates or is gone.
Accepts(p) == Stored(p) = "active"

\* ensureRBACRoleBinding: [after, failed]
EnsureRoleBinding(p) ==
  LET makes == NamespacedScope /\ ~InStore(rbac).bound
      can   == Accepts(p) /\ ~Stored(rbac).bound
  IN [after |-> IF makes /\ can THEN Store(rbac, [Stored(rbac) EXCEPT !.bound = TRUE]) ELSE rbac,
      failed |-> makes /\ ~can]

\* The Role of the export's permission claims, with its RoleBinding: created, or
\* updated at the cached resource version.
EnsureRole(p, w) ==
  LET new == InStore(rbac).role = NoRole
      can == IF new THEN Stored(w).role = NoRole /\ (NamespacedScope => Accepts(p))
                    ELSE InSync(rbac)
  IN [after |-> IF can THEN Store(w, [Stored(w) EXCEPT !.role = InStore(claims)]) ELSE w,
      failed |-> ~can]

\* Reconcile with a cached APIServiceNamespace: the first error ends it, and
\* `cut' is where a request fails.  The status is updated at the cached version.
BackendReconcile ==
  LET sns == InStore(snsB)
      p   == EnsureNamespace(sns)
      b   == EnsureRoleBinding(p)
      r   == IF b.failed THEN b ELSE EnsureRole(p, b.after)
  IN
  /\ Room
  /\ backQ
  /\ sns.there
  /\ \E cut \in 1 .. 4 :
       /\ cut < 4 => faults < MaxFaults
       /\ faults' = IF cut < 4 THEN faults + 1 ELSE faults
       /\ pns' = IF cut > 1 THEN p ELSE pns
       /\ rbac' = IF cut > 3 THEN r.after ELSE IF cut > 2 THEN b.after ELSE rbac
       /\ IF cut = 4 /\ ~r.failed /\ ~sns.ready /\ InSync(snsB)
          THEN StoreSns([sns EXCEPT !.ready = TRUE])
          ELSE UNCHANGED <<snsK, snsB>>
       /\ backQ' = (cut < 4 \/ r.failed \/ (~sns.ready /\ ~InSync(snsB)))
  /\ UNCHANGED <<consumer, local, claims, lost, ops>>

\* Mutant: an APIServiceNamespace that is not found is ignored.
BackendIgnores ==
  /\ Room
  /\ backQ
  /\ ~InStore(snsB).there
  /\ backQ' = FALSE
  /\ UNCHANGED <<consumer, snsK, snsB, local, pns, rbac, claims, lost, ops, faults>>

\* Reconcile without one deletes the namespace of the name it would have, if the
\* cache has it: deleteNamespace gets it first, and NotFound is no error.
BackendDelete ==
  LET cached == InStore(pns) # "absent"
  IN
  /\ Room
  /\ backQ
  /\ ~InStore(snsB).there
  /\ backQ' = FALSE
  /\ pns' = IF cached /\ Stored(pns) = "active" THEN Store(pns, "terminating") ELSE pns
  /\ lost' = (lost \/ (~cached /\ Stored(pns) = "active"))
  /\ UNCHANGED <<consumer, snsK, snsB, local, rbac, claims, ops, faults>>

\* The backend restarts and lists: nothing tells it of what is gone.
BackendRestart ==
  /\ faults < MaxFaults
  /\ faults' = faults + 1
  /\ lost' = TRUE
  /\ snsB' = List(snsB)
  /\ pns' = List(pns)
  /\ rbac' = List(rbac)
  /\ claims' = List(claims)
  /\ backQ' = Stored(snsB).there
  /\ UNCHANGED <<consumer, snsK, local, ops>>

-----------------------------------------------------------------------------
Next ==
  \/ UserCreates \/ UserDeletes \/ ProviderCreates \/ ProviderDeletes \/ ExportClaims
  \/ NamespaceGone
  \/ DeliverNamespace \/ DeliverObject \/ DeliverSns
  \/ Resync
  \/ HandleSns \/ AdderReads \/ AdderActs
  \/ Crash \/ Start
  \/ SpecReconcile \/ LifecycleProcess
  \/ DeliverSnsToBackend \/ DeliverProviderNamespace \/ DeliverExport
  \/ DeliverAccess \/ Heartbeat
  \/ BackendReconcile \/ BackendDelete \/ BackendRestart

Spec == Init /\ [][Next]_vars

\* Everything but users, providers and faults; heartbeats come as long as the
\* konnector is restarted (module ClusterBinding).  The resync is needed: an adder
\* that has found no status stops the informer that the event of the status has
\* started since, and nothing else starts it again.
FairSpec ==
  /\ Spec
  /\ WF_vars(NamespaceGone)
  /\ WF_vars(DeliverNamespace) /\ WF_vars(DeliverObject) /\ WF_vars(DeliverSns)
  /\ WF_vars(Resync) /\ WF_vars(HandleSns) /\ WF_vars(AdderReads) /\ WF_vars(AdderActs)
  /\ WF_vars(Start)
  /\ WF_vars(SpecReconcile) /\ WF_vars(LifecycleProcess)
  /\ WF_vars(DeliverSnsToBackend) /\ WF_vars(DeliverProviderNamespace)
  /\ WF_vars(DeliverExport) /\ WF_vars(DeliverAccess)
  /\ WF_vars(Heartbeat) /\ WF_vars(BackendReconcile) /\ WF_vars(BackendDelete)

-----------------------------------------------------------------------------
\* An object to be synced gets its namespace at the provider for good: the
\* APIServiceNamespace is ready, the namespace is there and not on its way out,
\* the konnector may work in it and runs an informer for it.  This holds after
\* any history of deletions and re-creations of the namespaces on both sides, and
\* although the two goroutines that start and stop the informer act on lookups of
\* different times.
ObjectsGetNamespaces ==
  <>[](Stored(obj) => /\ Stored(snsK).ready
                      /\ Stored(pns) = "active"
                      /\ NamespacedScope => Stored(rbac).bound
                      /\ Stored(rbac).role = Stored(claims)
                      /\ inf)

\* What the konnector made for a namespace of the consumer goes with it: the
\* APIServiceNamespace and, unless the backend lost the deletion, the provider's
\* namespace.  It loses one when it is restarted before it has handled it, and when
\* its cache does not have the namespace yet: it deletes only what it finds there.
NamespacesGoAway ==
  <>[](~Stored(ns) => /\ ~Stored(snsK).there
                      /\ Stored(pns) = "absent" \/ lost)
=============================================================================
