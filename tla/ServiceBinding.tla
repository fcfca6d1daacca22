--------------------------- MODULE ServiceBinding ---------------------------
(***************************************************************************)
(* One APIServiceBinding and the CRD that is made for it: the check of its *)
(* kubeconfig secret (pkg/konnector/controllers/servicebinding), the start *)
(* of the cluster controller (cluster/cluster_controller.go) and the       *)
(* controller that follows the APIServiceExport (cluster/servicebinding).  *)
(* All of them write conditions of the binding.                            *)
(***************************************************************************)
EXTENDS WatchLog

CONSTANTS
  Schemas,      \* contents of the BoundSchema
  Invalid,      \* those of which the API server accepts no CRD
  Gone,         \* an object is not there
  NamedAlike,   \* the export has the name of the CRD
  MaxOps,       \* bound on what users and providers do
  MaxLag,       \* bound on undelivered events of an object
  MaxFaults     \* bound on crashes and failed requests

ASSUME ConstantsAssumption ==
  /\ Invalid \subseteq Schemas
  /\ NamedAlike \in BOOLEAN
  /\ MaxOps \in Nat /\ MaxLag \in Nat /\ MaxFaults \in Nat

VARIABLES
  binding,   \* the APIServiceBinding, watched
  secret,    \* the kubeconfig secret: absent, broken or valid, watched
  export,    \* the APIServiceExport: absent, failed (its request is) or there
  schema,    \* the BoundSchema, read from the API server
  crd,       \* the CRD, watched
  checkQ,    \* the binding is in the queue of the kubeconfig check
  bindQ,     \* the binding is in the queue of cluster/servicebinding
  worker,    \* the worker of cluster/servicebinding
  cluster,   \* the cluster controller: off, starting or on
  listed,    \* the provider's informers have listed
  uid,       \* of the next binding
  ops, faults

remote == <<secret, export, schema>>
control == <<checkQ, bindQ, cluster, listed>>
vars == <<binding, crd, remote, control, worker, uid, ops, faults>>

\* APIServiceBindingStatus: SecretValid, InformersSynced, Connected, SchemaInSync
\* and the references to schemas and claims.
Binding == [uid: Nat, valid: BOOLEAN, synced: BOOLEAN, connected: BOOLEAN,
            inSync: BOOLEAN, bound: BOOLEAN]
NewBinding(u) == [uid |-> u, valid |-> FALSE, synced |-> FALSE, connected |-> FALSE,
                  inSync |-> FALSE, bound |-> FALSE]

Foreign == -1   \* the owner of a CRD that was not made by kube-bind

\* BoundSchemaToCRD, with the owner reference.
BoundSchemaToCRD(s, owner) == [schema |-> s, owner |-> owner]

Idle == [pc |-> "idle", new |-> Gone, changed |-> FALSE, fresh |-> FALSE, failed |-> FALSE]

\* The konnector starts with a binding; a CRD of an earlier binding of that name may
\* still be there, whose deletion counts as an operation.
Init ==
  /\ binding = <<NewBinding(1)>>
  /\ secret = <<"valid">> /\ export = <<"there">>
  /\ schema \in Schemas
  /\ \/ crd = <<Gone>> /\ ops = 0
     \/ \E s \in Schemas \ Invalid : crd = <<BoundSchemaToCRD(s, 0)>> /\ ops = 1
  /\ checkQ = TRUE /\ bindQ = FALSE
  /\ worker = Idle
  /\ cluster = "off" /\ listed = FALSE
  /\ uid = 2
  /\ faults = 0

-----------------------------------------------------------------------------
(* Users, the provider and the garbage collector.                          *)

StoreCrd(c) == Len(crd) <= MaxLag /\ crd' = Store(crd, c)

\* A write to the binding outdates what the worker has read.
StoreBinding(b) ==
  /\ Len(binding) <= MaxLag
  /\ binding' = Store(binding, b)
  /\ worker' = [worker EXCEPT !.fresh = FALSE]

Op == ops < MaxOps /\ ops' = ops + 1 /\ UNCHANGED <<control, faults>>

\* The binding is deleted or made, by kubectl bind for one.
BindingWritten ==
  /\ Op
  /\ IF Stored(binding) = Gone THEN StoreBinding(NewBinding(uid)) /\ uid' = uid + 1
     ELSE StoreBinding(Gone) /\ UNCHANGED uid
  /\ UNCHANGED <<crd, remote>>

SecretWritten ==
  /\ Op
  /\ \E s \in {"absent", "broken", "valid"} \ {Stored(secret)} : secret' = Store(secret, s)
  /\ UNCHANGED <<binding, crd, export, schema, worker, uid>>

\* The provider deletes or makes the export, fails its request, or changes the schema.
ProviderWrites ==
  /\ Op
  /\ \/ /\ \E e \in {"absent", "failed", "there"} \ {Stored(export)} : export' = Store(export, e)
        /\ UNCHANGED schema
     \/ /\ \E s \in (Schemas \cup {Gone}) \ {schema} : schema' = s
        /\ UNCHANGED export
  /\ UNCHANGED <<binding, crd, secret, worker, uid>>

\* A user makes or deletes the CRD.
CrdWritten ==
  /\ Op
  /\ IF Stored(crd) = Gone
     THEN \E s \in Schemas : StoreCrd(BoundSchemaToCRD(s, Foreign))
     ELSE StoreCrd(Gone)
  /\ UNCHANGED <<binding, remote, worker, uid>>

\* Mutant: the owner is compared by name, not by UID.
OwnedByName(c, b) == b # Gone /\ c.owner # Foreign

\* IsOwnedByBinding
IsOwnedByBinding(c, b) == b # Gone /\ c.owner = b.uid

\* The CRD goes with the binding that owns it.
GarbageCollected ==
  LET c == Stored(crd)
  IN
  /\ c # Gone
  /\ c.owner # Foreign
  /\ ~IsOwnedByBinding(c, Stored(binding))
  /\ StoreCrd(Gone)
  /\ UNCHANGED <<binding, remote, control, worker, uid, ops, faults>>

-----------------------------------------------------------------------------
(* Events.                                                                 *)

On == cluster = "on"

\* enqueueServiceBinding of the kubeconfig check, and of cluster/servicebinding, which
\* adds its handler when it starts.
EnqueueForCheck == checkQ' = TRUE
EnqueueServiceBinding == bindQ' = (bindQ \/ On)

DeliverBinding ==
  /\ ~InSync(binding)
  /\ binding' = Event(binding)
  /\ EnqueueForCheck
  /\ EnqueueServiceBinding
  /\ UNCHANGED <<crd, remote, worker, cluster, listed, uid, ops, faults>>

\* enqueueConsumerSecret: the bindings that refer to the secret.
EnqueueConsumerSecret == checkQ \/ InStore(binding) # Gone

DeliverSecret ==
  /\ ~InSync(secret)
  /\ secret' = Event(secret)
  /\ checkQ' = EnqueueConsumerSecret
  /\ UNCHANGED <<binding, crd, export, schema, bindQ, worker, cluster, listed, uid, ops, faults>>

\* enqueueServiceExport: the bindings with this secret.  The handler is there
\* before the workers are.
EnqueueServiceExport == bindQ \/ InStore(binding) # Gone

DeliverExport ==
  /\ listed /\ ~InSync(export)
  /\ export' = Event(export)
  /\ bindQ' = EnqueueServiceExport
  /\ UNCHANGED <<binding, crd, secret, schema, checkQ, worker, cluster, listed, uid, ops, faults>>

\* The informers of the provider list.
ListExports ==
  /\ cluster # "off" /\ ~listed
  /\ listed' = TRUE
  /\ export' = List(export)
  /\ bindQ' = (bindQ \/ (Stored(export) = "there" /\ InStore(binding) # Gone))
  /\ UNCHANGED <<binding, crd, secret, schema, checkQ, worker, cluster, uid, ops, faults>>

\* What the lister has of the export.
CachedExport == IF listed THEN InStore(export) ELSE "absent"

\* IndexServiceExportByCustomResourceDefinition: the keys are the exports' own names.
ExportIsIndexed == NamedAlike /\ CachedExport = "there"

\* enqueueCRD, of a handler that is added when the controller starts.
EnqueueCRD == bindQ \/ (On /\ ExportIsIndexed)

DeliverCrd ==
  /\ ~InSync(crd)
  /\ crd' = Event(crd)
  /\ bindQ' = EnqueueCRD
  /\ UNCHANGED <<binding, remote, checkQ, worker, cluster, listed, uid, ops, faults>>

\* The informers resync every half hour.
Resync ==
  /\ InStore(binding) # Gone
  /\ EnqueueForCheck
  /\ EnqueueServiceBinding
  /\ UNCHANGED <<binding, crd, remote, worker, cluster, listed, uid, ops, faults>>

-----------------------------------------------------------------------------
(* The check of the kubeconfig secret.                                     *)

\* ensureValidKubeconfigSecret: the key is there, the kubeconfig loads, its
\* current context exists and has a namespace.
KubeconfigUsable(s) == s = "valid"

\* process, with a patch at the cached resource version.  A conflict is retried
\* until the cache has the stored version.
CheckSecret ==
  LET b == InStore(binding)
      new == [b EXCEPT !.valid = KubeconfigUsable(InStore(secret))]
  IN
  /\ checkQ
  /\ IF b = Gone \/ new = b
     THEN checkQ' = FALSE /\ UNCHANGED <<binding, worker, faults>>
     ELSE \/ /\ InSync(binding)
             /\ StoreBinding(new)
             /\ checkQ' = FALSE
             /\ UNCHANGED faults
          \/ /\ InSync(binding)
             /\ faults < MaxFaults
             /\ faults' = faults + 1
             /\ UNCHANGED <<binding, worker, checkQ>>
  /\ UNCHANGED <<crd, remote, bindQ, cluster, listed, uid, ops>>

-----------------------------------------------------------------------------
(* The cluster controller.                                                 *)

\* The konnector starts it for a kubeconfig that works (module Konnector).
ClusterStarts ==
  /\ cluster = "off"
  /\ KubeconfigUsable(InStore(secret)) /\ InStore(binding) # Gone
  /\ cluster' = "starting"
  /\ UNCHANGED <<binding, crd, remote, checkQ, bindQ, worker, listed, uid, ops, faults>>

\* updateServiceBindings: errors are only logged.
UpdateServiceBindings(b) ==
  \/ InSync(binding) /\ StoreBinding(b) /\ UNCHANGED faults
  \/ ~InSync(binding) /\ UNCHANGED <<binding, worker, faults>>
  \/ /\ InSync(binding) /\ faults < MaxFaults
     /\ faults' = faults + 1
     /\ UNCHANGED <<binding, worker>>

\* The end of the wait for the informers in Start, at the latest after half a
\* heartbeat interval: then the select looks at the outer context.
ClusterReady ==
  LET b == InStore(binding)
  IN
  /\ cluster = "starting"
  /\ cluster' = "on"
  /\ bindQ' = (b # Gone)
  /\ IF b = Gone THEN UNCHANGED <<binding, worker, faults>>
     ELSE UpdateServiceBindings([b EXCEPT !.synced = TRUE])
  /\ UNCHANGED <<crd, remote, checkQ, listed, uid, ops>>

\* The konnector stops: all is lost but what the API servers have.
Crash ==
  /\ faults < MaxFaults
  /\ faults' = faults + 1
  /\ cluster' = "off"
  /\ listed' = FALSE
  /\ worker' = Idle
  /\ bindQ' = FALSE
  /\ binding' = List(binding) /\ secret' = List(secret) /\ crd' = List(crd)
  /\ checkQ' = (Stored(binding) # Gone)
  /\ UNCHANGED <<export, schema, uid, ops>>

-----------------------------------------------------------------------------
(* cluster/servicebinding: process.                                        *)

\* The worker goes on to the commit.
ToCommit(new, failed) ==
  worker' = [pc |-> "commit", new |-> new, changed |-> new # InStore(binding),
             fresh |-> InSync(binding), failed |-> failed]

\* getSchemasFromExport: one that is missing is an error.
SchemasFound == schema # Gone

\* ensureValidServiceExport and ensureCRDs without an export or a schema.
NotConnected ==
  /\ ToCommit([InStore(binding) EXCEPT !.connected = FALSE],
              CachedExport = "failed" \/ CachedExport = "there")
  /\ UNCHANGED <<crd, faults>>

\* Mutant: an existing CRD is left as it is.
KeepCRD(c, s) == c

\* crd.ObjectMeta = existing.ObjectMeta
UpdatedCRD(c, s) == BoundSchemaToCRD(s, c.owner)

\* ensureCRDsFromBoundSchema with the conditions after it.  Errors of updates
\* other than Invalid are dropped.
EnsureCRD ==
  LET b == [InStore(binding) EXCEPT !.bound = TRUE]
      ok == [b EXCEPT !.connected = TRUE, !.inSync = TRUE]
      no == [b EXCEPT !.connected = FALSE]
      c == InStore(crd)
  IN
  \/ /\ c = Gone /\ schema \in Invalid
     /\ ToCommit(no, FALSE)
     /\ UNCHANGED <<crd, faults>>
  \/ /\ c = Gone /\ schema \notin Invalid /\ Stored(crd) = Gone
     /\ StoreCrd(BoundSchemaToCRD(schema, b.uid))
     /\ ToCommit(ok, FALSE)
     /\ UNCHANGED faults
  \/ /\ c = Gone /\ schema \notin Invalid /\ Stored(crd) # Gone
     /\ ToCommit([b EXCEPT !.connected = TRUE], TRUE)
     /\ UNCHANGED <<crd, faults>>
  \/ /\ c # Gone
     /\ \/ /\ ~IsOwnedByBinding(c, b) \/ schema \in Invalid
           /\ ToCommit(no, FALSE)
           /\ UNCHANGED <<crd, faults>>
        \/ /\ IsOwnedByBinding(c, b) /\ schema \notin Invalid
           /\ \/ InSync(crd) /\ StoreCrd(UpdatedCRD(c, schema)) /\ UNCHANGED faults
              \/ ~InSync(crd) /\ UNCHANGED <<crd, faults>>
              \/ /\ InSync(crd) /\ faults < MaxFaults
                 /\ faults' = faults + 1
                 /\ UNCHANGED crd
           /\ ToCommit(ok, FALSE)

\* reconcile
Reconcile ==
  /\ On /\ bindQ /\ worker.pc = "idle"
  /\ bindQ' = FALSE
  /\ IF InStore(binding) = Gone THEN UNCHANGED <<crd, worker, faults>>
     ELSE IF CachedExport # "there" \/ ~SchemasFound THEN NotConnected
     ELSE EnsureCRD
  /\ UNCHANGED <<binding, remote, checkQ, cluster, listed, uid, ops>>

\* Mutant: the patch has no resource version as a precondition.
AnyVersion(w) == TRUE

\* The patch is at the resource version that was read.
AtVersion(w) == w.fresh

\* The commit: nothing, a patch of the status, a conflict, a failed request.
Commit ==
  LET w == worker
  IN
  /\ w.pc = "commit"
  /\ \/ /\ ~w.changed
        /\ bindQ' = (bindQ \/ w.failed)
        /\ UNCHANGED <<binding, faults>>
     \/ /\ w.changed /\ AtVersion(w) /\ Stored(binding) # Gone
        /\ Len(binding) <= MaxLag
        /\ binding' = Store(binding, w.new)
        /\ bindQ' = (bindQ \/ w.failed)
        /\ UNCHANGED faults
     \/ /\ w.changed /\ (AtVersion(w) => Stored(binding) = Gone)
        /\ bindQ' = TRUE
        /\ UNCHANGED <<binding, faults>>
     \/ /\ w.changed /\ AtVersion(w)
        /\ faults < MaxFaults
        /\ faults' = faults + 1
        /\ bindQ' = TRUE
        /\ UNCHANGED binding
  /\ worker' = Idle
  /\ UNCHANGED <<crd, remote, checkQ, cluster, listed, uid, ops>>

-----------------------------------------------------------------------------
Environment == BindingWritten \/ SecretWritten \/ ProviderWrites \/ CrdWritten \/ Crash

Next ==
  \/ Environment \/ GarbageCollected
  \/ DeliverBinding \/ DeliverSecret \/ DeliverExport \/ DeliverCrd \/ ListExports \/ Resync
  \/ CheckSecret \/ ClusterStarts \/ ClusterReady
  \/ Reconcile \/ Commit

Spec == Init /\ [][Next]_vars

\* The workers of both controllers (startWorker, processNextWorkItem) take what is
\* in their queues until they are stopped.
CheckWorkers == WF_vars(CheckSecret)
BindWorkers == WF_vars(Reconcile) /\ WF_vars(Commit)

\* Watches deliver and resync, the garbage collector and the workers run.
FairSpec ==
  /\ Spec
  /\ WF_vars(GarbageCollected)
  /\ WF_vars(DeliverBinding) /\ WF_vars(DeliverSecret) /\ WF_vars(DeliverExport)
  /\ WF_vars(DeliverCrd) /\ WF_vars(ListExports) /\ WF_vars(Resync)
  /\ WF_vars(ClusterStarts) /\ WF_vars(ClusterReady)
  /\ CheckWorkers /\ BindWorkers

-----------------------------------------------------------------------------
\* The binding comes to tell the truth: SecretValid is that of the secret, and
\* with the cluster controller on it is Connected iff there is an export and the
\* CRD is its own, and then the CRD has the schema of the provider.  Bindings
\* and CRDs may be deleted and made again in any order, the index by which the
\* events of CRDs are mapped is wrong, and a conflict of the CRD is ignored.
BindingSettles ==
  LET b == Stored(binding)
      c == Stored(crd)
      ready == Stored(export) = "there" /\ schema # Gone /\ schema \notin Invalid
  IN <>[](b # Gone =>
            /\ b.valid = (Stored(secret) = "valid")
            /\ On => /\ (~ready => ~b.connected)
                     /\ (ready /\ c # Gone /\ c.owner = b.uid) =>
                          b.connected /\ b.inSync /\ b.bound /\ c.schema = schema
                     /\ (ready /\ (c = Gone \/ c.owner # b.uid)) =>
                          c # Gone /\ c.owner = Foreign /\ ~b.connected)

\* No controller undoes what another one has written to the status: SecretValid
\* only changes to what the secret says, although all patches replace the whole
\* list of conditions.
ConditionsAreKept ==
  [][(/\ Stored(binding) # Gone /\ Stored(binding)' # Gone
      /\ Stored(binding).uid = Stored(binding)'.uid
      /\ Stored(binding).valid # Stored(binding)'.valid)
       => Stored(binding)'.valid = (InStore(secret) = "valid")]_vars

\* The konnector changes an existing CRD only if the binding that it reconciles owns
\* it, by UID, and leaves the owner as it is: one that a user has made, or that an
\* earlier binding of that name still owns, is never changed, whatever the caches of
\* bindings and CRDs have.
ForeignCrdIsKept ==
  [][(ops' = ops /\ Stored(crd)' # Stored(crd) /\ Stored(crd) # Gone /\ Stored(crd)' # Gone)
       => /\ InStore(binding) # Gone
          /\ Stored(crd).owner = InStore(binding).uid
          /\ Stored(crd)'.owner = Stored(crd).owner]_vars
=============================================================================
