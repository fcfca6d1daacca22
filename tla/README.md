# kube-bind: TLA+ models, checks and proofs

kube-bind lets a *service provider* export APIs (CRDs) to *consumer* clusters. A
consumer's objects of a bound API live in the consumer cluster; the **konnector**,
which runs there, copies them to the provider cluster and copies their status
back. The provider runs the **backend**, which prepares a namespace, credentials
and RBAC for each consumer; the **`kubectl bind`** plug-in sets a binding up.

The project models the parts whose correctness depends on concurrency: client-go
controllers that read lagging caches, write to API servers with optimistic
concurrency, are retried after any failure, and share state between goroutines.

## The system

| part | state it keeps | operations | hard because of |
|---|---|---|---|
| spec controller (`serviceexport/spec`) | work queue, caches of consumer and provider objects and of `APIServiceNamespace`s | copy spec up, add and remove the finalizer, delete upstream | two caches that lag independently, conflicts, retries |
| status controller (`serviceexport/status`) | work queue, the same caches | copy status down, delete upstream objects without a consumer object | decides absence from a cache, deletes by name |
| konnector controller (`konnector_*.go`) | map binding -> context, a set of bindings in each context | start, share and stop a set of controllers per kubeconfig | kubeconfig read outside the lock, a closure that outlives what it refers to |
| cluster controller (`cluster/cluster_controller.go`) | informers for one provider | starts the controllers below | half-started state |
| service export controller, context store (`serviceexport`, `contextstore`) | contexts by key prefix, with generations | start and stop the sync controllers of each schema and claim | goroutines that delete entries of their successors, prefix collisions |
| multi-namespace informer (`multinsinformer`) | an informer per provider namespace | start, stop, get, wait for sync | informers come and go with `APIServiceNamespace`s |
| namespace lifecycle (`namespacelifecycle`), backend `servicenamespace` | `APIServiceNamespace`, provider namespace, RBAC | create, publish the name, delete | two clusters, name collisions |
| APIServiceBinding controllers (`servicebinding`, `cluster/servicebinding`) | conditions, CRDs, bound schemas | validate secret, create CRDs, report | several writers of one condition |
| claimed resources (`claimedresources`, `claimedresourcesnamespaces`) | channel of keys, caches | two-way sync of claimed objects by owner | ownership decided from caches, a bounded channel |
| ClusterBinding (`cluster/clusterbinding`, backend `clusterbinding`) | heartbeat, kubeconfig secret, RBAC | heartbeat, health, secret copy | clocks, two writers |
| backend `serviceexportrequest`, `serviceexport`, CLI | phase of a request, exports, bound schemas | request, export, wait | ages and timeouts, retries of what is done |
| backend bind handler (`http`, `kubernetes`) | namespace, secret and RBAC of an identity | authorize, callback, bind | concurrent requests |
| committer, indexers, name translation | none | pure functions | preconditions |

All controllers interact through API objects only: a controller writes an object,
the API server gives it a new resource version, informers deliver it later, and
their handlers put keys in work queues. A queue hands a key to one worker at a
time, and a failed reconcile puts the key back.

What makes each part correct:

* object sync: the clusters come to agree; no write of a user or of the provider
  is undone; nothing is created for an object that is gone; an old spec never
  replaces a newer one; nothing is left behind upstream.
* konnector: one running set of controllers per kubeconfig, as long as a binding
  uses it; every binding served with its current kubeconfig.
* service export: at most one pair of sync controllers per schema, of the current
  generation; none for what is no longer exported.
* service namespaces: an object to be synced gets a provider namespace with RBAC
  and an informer, after any deletions and re-creations; what was made for a
  namespace goes with it.
* service binding: conditions tell the truth in the end and no writer undoes those
  of another; a CRD that is somebody else's is never touched.
* claimed resources: the copies agree on the owner, the owner's object wins, and
  deletions spread.
* cluster binding: heartbeats come within the promised interval; the kubeconfig is
  copied; RBAC follows the exports.
* export requests: what is exported was validated; a phase is final; valid requests
  are served; the export's hash follows its schemas.
* bind: a kubeconfig that is handed out is complete; a reported success is bound;
  a secret that is in use keeps its remote; every run ends, if the konnector comes up.

## Modules

| module | models | built on |
|---|---|---|
| `WatchedObject` | an API object with resource versions and the undelivered part of its history | |
| `WatchLog` | the same without resource versions, as a sequence of contents | |
| `Mirror` | what the sync of an object promises, without controllers | |
| `ObjectSync` | spec and status controllers, one object; implements `Mirror` | `WatchedObject` |
| `Konnector` | registry of cluster controllers | `WatchedObject` |
| `ExportSync` | service export controller and context store | `WatchedObject` |
| `ServiceNamespaces` | `APIServiceNamespace` in spec, lifecycle and backend controllers, multi-namespace informer | `WatchLog` |
| `ServiceBinding` | kubeconfig check, start of the cluster controller, binding controller, CRD | `WatchLog` |
| `ClaimedResources` | both controllers of claimed resources | `WatchLog` |
| `ClusterBinding` | heartbeat, copy of the kubeconfig, health | `WatchLog` |
| `ProviderAccess` | RBAC objects of the backend's ClusterBinding controller | `WatchLog` |
| `ExportRequest` | backend controllers of requests and exports | `WatchLog` |
| `Bind` | `kubectl bind`, the bind handler and the resource manager | |

`X_proofs` holds the theorems about `X` and `Watch_proofs` the lemmas about
`WatchedObject` and `WatchLog`; `MCX` is the instance for TLC.

Each module is one component with the others reduced to what they do to it: to
`ObjectSync` the backend is `BackendReady`, to `ClaimedResources` an
`APIServiceNamespace` that becomes ready, to `ServiceNamespaces` and
`ProviderAccess` the heartbeat is an event that keeps coming (that it does is
`HeartbeatPromise` of `ClusterBinding`), to `Bind` a request has any outcome (which
one is in `ExportRequest`). `ServiceNamespaces` and `ServiceBinding` compose the
controllers that share an object across two clusters or within one.

In `WatchedObject`, `Live` is what the server stores, `Cached` what a lister
returns; a `Write` appends a version, `Deliver` moves the cache by one, `Relist` is
the list of a new informer. Absence is a version too. `WatchLog` has the same idea
for modules in which versions are not compared one by one: the first element of a
log is in the informer's store, the last one is stored, and an update that carries
the cached resource version succeeds iff the log has one element. Both model
Kubernetes as the code of this repository uses it.

### ObjectSync - one object, two controllers, two clusters

Keys are handled independently of one another, so one key is modelled.

* `consumer`, `provider`: the two objects, watched. A consumer object carries the
  number of the user's write its spec comes from (`spec`), the number of the write
  that created it (`uid`), its status, deletion and finalizer. A provider object
  also carries its fields (`content`) and the fields that each of the two field
  managers owns: the upstream object is made by a create request and updated by
  forced server-side applies under another manager, so what an apply leaves in
  place depends on ownership.
* `Content(n)` gives the fields after the user's n-th write. `Metadata` says which
  of them are labels and annotations.
* `sns`, `snsCache`: the `APIServiceNamespace` (absent, without a status, ready)
  and the informer's view of it. For a cluster-scoped resource it is ready from
  the start.
* `specQ`, `statusQ`, `specW`, `statusW`: the queues and the worker of each
  controller, with the copies that it holds.

`reconcile` of each controller is cut where the code reads a cache or sends a
request: `SpecGet`, `SpecServiceNamespace`, `SpecLookup`, `SpecFinalize`,
`SpecCreate`, `SpecPatch`, `SpecDelete`, `SpecUnfinalize`; `StatusGet`,
`StatusLookup`, `StatusUpdate`, `StatusDelete`. What is decided between two of
these belongs to the first. `SpecError` and `StatusError` fail a request, `Restart`
loses queues and caches. The users' and the provider's actions, `Resync`, and the
`Deliver...` actions with their handlers are the environment.

Left out: names (so the translation of cluster-scoped names, and the branch of the
status controller that looks for a downstream object under the upstream key and
finds one only if names collide); finalizers of others on the consumer object (the
konnector's counts as the last one: `SpecUnfinalize` removes the object, where the
code keeps foreign finalizers, so that a deleting consumer object may stay without
kube-bind's finalizer while the provider holds the upstream object; `UpstreamIsGuarded`
and the `fin` parts of `SyncInv` and `NoLostEdit` are about objects without foreign
finalizers); requests that take effect but whose answer is
lost (the retry meets the same states as one after a restart); the draining of
controllers whose context was cancelled, while their successors run.

### Konnector - the registry of cluster controllers

* `secrets`, `bindings`: watched; a secret holds a kubeconfig, or none.
* `controllers`, `contexts`: `reconciler.controllers` and the controllerContexts
  it points to, with the state of the cluster controller of each.
* `work`, `queue`: one entry per key, since a key is never with two workers; the
  kubeconfig that was read before the lock was taken is in `work`.
* `reconciledBy`: the provider whose controllers last reconciled a binding.

`Get`, `GetSecret`, then one of `Leave`, `Join`, `Start`, the ways through the
locked part of `reconcile`. `ClusterReconcile` is the binding controller of a
running context, for what its filter lets through; `ClusterPanic` is the nil
dereference in that filter. client-go's workers re-panic, so the process ends and
starts again (`Restarted`), as it does after a `Crash`. A list at the start is up
to date, and `cancel` is immediate.

### ExportSync - what runs for an export

* `exports`, `bindings`: watched, by the name they share. An export has the
  generation of its spec, its resources and the condition Connected; a binding has
  the permission claims of its status. `bound` is the set of BoundSchemas, which
  the code gets from the server.
* `store`, `contexts`: the context store by key, a key being an export and a schema
  or claim, and the controllers under each context: `running`, or `cancelled` while
  the goroutine of a claim has still to end.
* Keys are texts in the code. What matters of them is which are prefixes of others:
  `Longer[e]` are the exports whose names begin with the name of `e`, `ClaimNamed`
  the schemas whose names begin with `claim`, `Eponyms[s]` the exports that are
  named like the schema `s` (the key that is deleted when a BoundSchema is missing
  is built with the schema's name in place of the export's). A key itself is a pair:
  that two pairs may give the same dotted text is left out, and so is the error of a
  schema without a served version, which is retried like `SchemaError`.
* `queue`, `work`: one entry per key; the copy of the export and the claims that a
  worker read.

A reconcile is `Get`, then `Stop` without an export or a binding, otherwise
`GetBinding`, one of `MissSchema`, `EnsureSchema` and `SchemaError` per schema,
`GoToClaims`, an `EnsureClaim` per claim, `Cleanup`, and `Commit`, which patches the
conditions. `ClaimEnds` is the end of a claim's goroutine, with its deferred
deletion of whatever is under its key by then. Schema controllers are taken to end
with their cancellation; how they drain is as little modelled as in ObjectSync.

### ServiceNamespaces - a namespace on both sides

* `ns`, `obj`: the consumer's namespace and an object in it that is synced.
* `snsK`, `snsB`: the `APIServiceNamespace` as the konnector and as the backend
  watch it; both logs end in what is stored. It knows whether the provider made it.
* `pns`, `rbac`, `claims`: the provider's namespace (which may be terminating), the
  RoleBinding and the Role in it, the claims of the export.
* `note`, `adder`, `inf`: the multi-namespace informer: an event that waits for its
  handler, the goroutine of `AddDynamicEventHandler` that replays what is there, and
  whether an informer runs for the provider's namespace.

`SpecReconcile` and `LifecycleProcess` are the konnector's two reconciles as far as
they concern namespaces, `HandleSns`, `AdderReads` and `AdderActs` the informer: the
lookup is before the lock, so the goroutine that replays may start or stop the informer
on an old finding, after the handler of a later event has done the opposite.
`BackendReconcile` and `BackendDelete` are the backend's reconcile of a key that is
there or gone; the namespace is looked up in the cache before it is deleted. `Crash` is
the konnector's, also by the nil dereference of a handler that finds its
`APIServiceNamespace` gone; `BackendRestart` forgets keys that are gone. `lost` records
that a deletion was lost, by a restart or by a cache that lacked the namespace.

### ServiceBinding - conditions and the CRD

* `binding`: its conditions SecretValid, InformersSynced, Connected, SchemaInSync;
  `uid` tells one that was made again from its predecessor.
* `secret`, `export`, `schema`, `crd`: what the conditions are about. The BoundSchema
  is read from the server, the others from informers. A CRD has an owner, by uid: at
  the start there may be one that an earlier binding of the same name has left.
* `checkQ`, `bindQ`, `worker`: the queues of the two controllers and the copy of the
  status that the second one will commit; `cluster`, `listed`: the cluster
  controller, and whether its informers have listed what the provider has.

`CheckSecret` is the controller of `pkg/konnector/controllers/servicebinding`,
`ClusterStarts` and `ClusterReady` the start of the cluster controller with its
writes to the status, `Reconcile` (`NotConnected` or `EnsureCRD`) and `Commit` the
controller of `cluster/servicebinding`. `Commit` is the committer's: one patch with
the version that was read.

### ClaimedResources - one object, two possible owners

* `con`, `pro`: the consumer's and the provider's object: contents, owner label,
  deletion. The first is read from the server, the second from a cache.
* `sns`: the `APIServiceNamespace`; the provider's informer exists while it is ready.
* `queue`, `worker` of `claimedresources`; `nsQueue`, `nsWaits` of
  `claimedresourcesnamespaces`; `channel` between them, which may be full.
* `stage`: of the goroutine that starts the controllers and waits for the caches.

`Reconcile` reads both sides and determines the owner, `SetOwner` labels it,
`SyncToConsumer` and `SyncToProvider` create, update or delete the copy.

### ClusterBinding - heartbeat, secret, health

Time is counted in ticks, ages of heartbeats instead of times are stored.

* `cb`: age of the last heartbeat, SecretValid; `beating`: an APIServiceBinding with
  the condition Heartbeating, which others write too.
* `issued`, `secret`, `store`: the provider's and the consumer's secret, and the
  contents in the informer's store, which the code changes in place: after a
  conflict they differ from anything that was stored.
* `phase`: of the poll that puts the ClusterBinding in the queue.

`Reconcile`, `Commit` and `UpdateServiceBindings` are the konnector's process,
`JudgeHealth` the backend's reconcile. Requests and retries take less than a tick.

### ProviderAccess - RBAC

`role`, `grant`, `local` are the ClusterRole, ClusterRoleBinding and RoleBinding;
`exports` and `schemas` what the role is computed from. `Reconcile` is the
backend's reconcile without a failure, `RequestFails` one that stops at any of the
three objects.

### ExportRequest - from a request to an export

* `catalog`: the exported schemas, read from the server, twice per reconcile. The scope
  is part of a schema's contents (`ClusterScoped`), so a resource may be exported again
  with another scope. `given` is a history variable: all that the provider has ever
  given as the schema of a resource.
* `request`, `schemas`, `export`, `space`: the request, the BoundSchemas, the export
  and the APIServiceNamespace that the request asks for.
* `worker`: the request as it was read and as it is changed, what was listed, and
  whether the stored request is still the one that was read.
* `now`: a tick is six minutes, so that one is more than the minute and two are
  more than the ten minutes of the code.

`Reconcile`, `EnsureBoundSchemas`, `ValidateRequest`, `EnsureExports`, `Expire`,
`EnsureAPIServiceNamespaces`, `UpdateStatus` are the steps of one reconcile, with
`ReturnError` the way out of each; `ReconcileExport` is the controller
of exports. Mappers of events are operators of their names. BoundSchemas of an earlier
request may be there at the start. The isolation mode that the export of cluster-scoped
resources gets is left out.

### Bind - several runs of kubectl bind

* `objs`: what the backend has made. A read by the backend finds it, or not yet.
* `cookie`, `tab`: the session of the browser, shared by all tabs, and the handler
  that each tab has called.
* `cli`, `requests`, `secrets`, `bindings`, `konnector`: the runs of the plug-in and
  what they make in the provider's and in the consumer's cluster. `granted` is a history
  variable: where a request has succeeded, deleted or not.

The handler is `FindNamespace`, `EnsureClusterBinding`, `CreateServiceAccount`,
`EnsureBinderClusterRole`, `CreateSASecret`, `WaitForToken`, `GenerateKubeconfig`,
`Respond`; the CLI `Start`, `FindSecret`, `EnsureKubeconfigSecret`,
`CreateServiceExportRequest`, `RequestEnds`, `DeployKonnector`, `BindingsAreServed`,
`CreateKubeconfigSecret`, `GetAPIServiceBinding`, `CreateAPIServiceBinding`. Each can
fail (`HandlerFails`, `CliFails`, `NoResponse`). `ServeRequest` and `ExpireRequest` are
the backend's controller: a request is decided once and deleted after ten minutes, also
while a CLI waits, and then its name is free. `KonnectorServes` is the konnector coming
up, which nothing guarantees. Dry runs and the override of its image are not modelled.

### Mirror

Three numbers: the user's writes, the write that created the object, the write that
the copy is of. `ObjectSync` maps `edits`, the consumer object's `uid` and the
provider object's `spec` to them (`Abstract`), and 0 to absence.

## Runs

All runs set `CHECK_DEADLOCK FALSE`: a system in which nothing is left to do stops.

| run | instance | shows |
|---|---|---|
| `object_sync` | namespaced; 3 writes by user and provider (at most 1 by the provider, the user's A, B, A), 1 fault | safety properties, the invariant of the proofs, refinement of `Mirror`, convergence |
| `object_sync_orphans` | cluster-scoped; 2 writes, 1 provider operation | **violated**: `StatusDeletesOrphansOnly` |
| `konnector` | 2 bindings with own secrets; 2 good kubeconfigs, an invalid and a failing one; 2 changes or crashes, at most 1 crash | the registry is consistent, and converges |
| `export_sync` | 1 export, 1 schema, 1 claim; 2 changes, 1 fault | the store is consistent, and converges |
| `service_namespaces` | 1 namespace, 1 claim; 2 operations, 1 fault | namespaces follow on both sides, unless a deletion is lost |
| `service_binding` | 2 schemas and an invalid one, a CRD of an earlier binding or none; 2 operations, 1 fault | conditions and CRD settle; no writer undoes another |
| `claimed_resources` | 2 contents; 4 operations, 1 fault | owners agree and decide, with the invariant of the proofs; the copies converge |
| `cluster_binding` | interval of 4 ticks; 2 kubeconfigs; 2 operations, 1 fault | heartbeat and the invariant of its proof, secret, condition |
| `provider_access` | 2 resources; 3 operations, 1 fault; both scopes | RBAC converges |
| `export_request` | 2 resources, 2 contents, one of them cluster-scoped, BoundSchemas from before; 2 operations, 1 fault | requests, phases, hashes, the invariant of the proofs |
| `export_request_pending` | the same, 1 content, request and resource named differently | **violated**: `PhaseIsDecided` |
| `bind` | 2 runs, 1 user, 2 namespaces, 4 secrets; 2 clicks or failures, 1 operation in the consumer cluster | complete kubeconfigs, bound successes, the invariant of the proofs; only the wait for the konnector may last |

Type correctness is part of the inductive invariants (`SyncInv`, `RegistryInv`,
`StoreInv`, `BindInv`, `RequestInv`, `HeartbeatInv`, `OwnersInv`), which the runs
check before the proofs prove them; `RegistrationsAgree` is a part of `RegistryInv`.

Bounds. Two writes are what deletion and re-creation under a stale cache need,
three with two values what a comparison with a stale equal object needs. One
provider operation is enough for a status, a finalizer that holds the object or
a deletion to meet each step of the konnector; one fault for a restart or a
failed request at each point. Two changes let a binding leave a kubeconfig and
come back, or two bindings move after one another. Bindings that share a secret
change together in the code; with own secrets two changes do that in every order,
and the theorems hold for any `SecretOf`. In `export_sync` two changes
delete and re-create an export, or unbind and bind it, so that the goroutine of
its old claim ends after the new one has started; the initial states are all
combinations of export, binding, claims and schema that a konnector may find when
it starts. In both, `MaxContexts` is never reached, so `Start` is not disabled.
Two operations delete and re-create an object anywhere; `claimed_resources` has
four, since both sides do so. `MaxLag` lets a cache be one write behind, two where
a deletion and a re-creation have to be undelivered together; a write waits for
room in the log, which bounds the lag and loses nothing but longer delays.
In `bind`, two namespaces are what two handlers of one identity make at once, and
four secrets are one from before, one per run, and one more after the user has changed
one, so no run lacks a name.

Two constants keep known gaps out: in `claimed_resources` no contents
are `Unclaimed`, because when labels are edited both sides may come to claim the
object and nothing says what should become of it; in `export_request` the request is
named like a resource (`NamedAlike`), because events of an export lead to requests
by resource name, so that otherwise a Pending request whose export is deleted is
never looked at again. The writes of `object_sync` keep the set of fields.

### What the violated properties show

* `StatusDeletesOrphansOnly`: the status controller, on the word of a lagging cache,
  may delete the upstream object of a re-created consumer object. `Converges` shows
  that it is made again; what the provider kept for it is lost.
* `PhaseIsDecided`: the export is created and the phase written by two requests. When
  the second does not happen, the next reconcile finds the export and leaves the
  phase Pending, for ever.

### Other behaviour that the models contain

Noticed while modelling; each is in a module, and the passing properties hold in
spite of it or are stated around it.

* The finalizer is removed after the DELETE request, while a finalizer of the provider
  may keep the upstream object, or when that is not in the cache yet.
* A spec field removed downstream is never removed upstream, since the manager of
  the create request owns it; labels and annotations are not synced after creation.
* A cluster controller's filter looks up the binding that started it: after that
  binding has moved, controllers of its old provider reconcile bindings of its new
  one, or the konnector panics. Controllers of a provider whose bindings were all
  deleted run on.
* A reconcile of an export stops the controllers of every export whose name begins
  with its name. An export without a binding is reported as Connected.
* The lifecycle controller deletes an APIServiceNamespace by name on the word of its
  cache, also one that the provider has made since.
* When the label of a claimed object is removed, the event makes the konnector write
  the object, claimed no more, to the provider once more.
* A failed update of the CRD is reported as SchemaInSync; the index from CRDs to
  bindings uses the export's name, so that only a resync makes a deleted CRD again.
* The backend's condition Healthy is never stored (an update of the object, not of
  its status).
* Without cluster scope the ClusterRoleBinding is deleted and created alternately.
* The goroutine that replays APIServiceNamespaces may stop the informer that the event
  of a status has just started; only a resync starts it again.
* The backend deletes the namespace of an APIServiceNamespace only if it sees the
  deletion and has the namespace in its cache: after a restart, or right after the
  creation, the namespace stays for ever.
* BoundSchemas are never refreshed, and the validation looks at the exported schemas:
  after a resource was exported again with another scope, an export may be made of
  schemas of both scopes, of which the code takes the last one for all.
* For a request without versions no BoundSchemas are made, although the API type says
  that "a sensible default is chosen": it is retried in vain until others make them.
* `kubectl bind` polls for the APIServiceBindings without a deadline: with a konnector
  that does not come up it never ends, and its request is deleted meanwhile.
* Two handlers of one identity may create two namespaces; from then on every bind of
  that identity fails.
* State and response are encoded with the URL alphabet of base64 and decoded with the
  standard one.

### Fairness

Informers deliver every event (the reflector reconnects and lists again), workers
that have a key go on (each runs in `wait.UntilWithContext` or a controller-runtime
loop, and queues hand keys out in order), a failed reconcile is retried, and a
process that ended is started again (`Start`, a Deployment). API servers finish
deletions and collect garbage. The backend makes namespaces, and the
provider's operator lets go of what is being deleted: without that a deletion never
ends. Users, faults and crashes are not fair. The periodic resync (30 minutes, for
all informers) is not fair in `ObjectSync`, `Konnector` and `ClusterBinding`:
convergence does not depend on it there. In `ExportSync`, `ServiceNamespaces` and
`ServiceBinding` it is fair, and convergence needs it: nothing else starts a claim's controllers again once
a late goroutine has stopped them, notices a BoundSchema that appears after the
export, stops the controllers of a binding whose deletion came as a tombstone, starts
the informer of a provider namespace that a late replay has stopped, or makes a deleted
CRD again. A resync in `ExportSync` waits for cancelled goroutines,
which end in much less than its period. Heartbeats are fair where they are the only
events (`ServiceNamespaces`, `ProviderAccess`). In `ClusterBinding` time passes, and
waits for what takes less than a tick. In `Bind` the timeouts of the
code fire; that the konnector comes up, that tokens are issued and that requests are
decided is not assumed.

## Proofs

| theorem | of | says |
|---|---|---|
| `SyncInvariant`, `TypeCorrect`, `Guarded` | `ObjectSync` | `SyncInv`, `TypeOK`, `UpstreamIsGuarded` always |
| `SpecMonotone`, `CreatedForLive`, `UserWritesKept`, `ProviderWritesKept` | `ObjectSync` | the action properties of the run |
| `ImplementsMirror` | `ObjectSync` | it implements the safety part of `Mirror` |
| `RegistryInvariant`, `Agreement`, `OneController`, `StoppedExactly` | `Konnector` | `RegistryInv` and its parts always |
| `ThmStoreInv`, `ThmNoStrayControllers` | `ExportSync` | `StoreInv` and `NoStrayControllers` always |
| `BindInvariant`, `ResponsesAreComplete` | `Bind` | `BindInv` and `ResponseIsComplete` always |
| `SuccessesAreBound`, `SecretsKeepTheirRemote` | `Bind` | the action properties of the run |
| `RequestInvariant`, `ExportsValid`, `PhaseFinal` | `ExportRequest` | `RequestInv`, `ExportsAreValid` always; `PhaseIsFinal` |
| `HeartbeatInvariant`, `TypeCorrect`, `PromiseKept` | `ClusterBinding` | `HeartbeatInv`, `TypeOK`, `HeartbeatPromise` always |
| `OwnersInvariant`, `OwnersAlwaysAgree`, `OwnersAlwaysDecide` | `ClaimedResources` | `OwnersInv`, `OwnersAgree` always; `OwnersDecide` |

They hold for every number of writes, provider operations, faults, statuses,
fields, bindings, secrets, kubeconfigs, exports, schemas, claims, contexts, CLIs,
users, namespaces, resources and contents, every length of the heartbeat interval,
every lag of a cache, and for every way in which names are prefixes of one another.
What is assumed of the constants are the named assumptions of the modules
(`ConstantsAssumption`, `KonnectorAssumption`, `ExportSyncAssumption`): types, that
markers such as `None` and `Gone` are no values, that there is a namespace and a
secret name to use, and that the interval is an even number of ticks, since the code
halves it. The theorems about `ClaimedResources` have the hypothesis `Unclaimed = {}`,
a claim whose selector matches every object: with a selector and labels that are edited
`OwnersAgree` does not hold, because an informer that filters hides the owner.

ObjectSync. `UpstreamIsGuarded` is not inductive: a worker may hold an old copy of
the consumer object, and its cache may still deliver older versions. `SyncInv`
therefore speaks of every version in `consumer.seen .. consumer.rv` and of the
worker's copy: the user's writes are in order along the history
(`HistoryInOrder`), nothing upstream is newer than what a worker can still read
(`UpstreamInOrder`), a copy at the current resource version is the stored object,
and a version that would be copied upstream (it has the finalizer and is not
deleting) belongs to the object that is stored now, with its finalizer still on.
The last part is the heart of it: the finalizer is only removed from a deleting
object, by an update at a version that the informer has delivered, so no older
copyable version is left to be read. `ObjectSync_proofs` has a lemma per action;
`Watch_proofs` has what they need of writes and deliveries.

`ImplementsMirror` takes `SyncInv` along: a copy is made of an object that exists and
moves on only (`CreatedForLiveConsumer`, `SpecNeverRegresses`), the object is born by
a write of the user (`BornLemma`), and the cases of the actions are those of what
they do to consumer and provider object (`ConsumerCases`, `CopyCases`).

Konnector. `RegistryInv` adds to the three properties that ids above `count` are
unused. Each way through the locked part preserves it: leaving takes the binding
out of both map and set and cancels exactly when the set becomes empty, so the
contexts that are not cancelled are those in the map, and a new one is only made
when none of these has the kubeconfig.

ExportSync. `NoStrayControllers` relates the store and the contexts in both
directions, which makes it nearly inductive: since a context in the store knows its
key, deleting keys cancels exactly the contexts under them (`UnderLemma`), and what
is not deleted is still there and still running. `StoreInv` adds the types and that
only claims linger after their cancellation. The name collisions that break
`Converges` do not break it: they stop too much, but never lose track of a controller.

Bind. A handler goes through six objects, any of which may be there from an earlier
call that failed, and the CLI looks at a kubeconfig long after it was made. `BindInv`
says that a handler has what its earlier steps make (`Progress`), that every kubeconfig
that was issued is complete, and that those in the secrets and in the hands of the CLIs
were issued. Objects of the provider are never deleted, so only the step that issues a
kubeconfig has to be looked at for the second part, and the steps that store or read
one for the third. Requests, in contrast, are deleted. What `SuccessIsBound` needs of
them is that a CLI goes on only after it has seen one succeed under its name and in its
namespace, which the history `granted` keeps: a live request that has succeeded is in
it, and so is the key of every CLI that has left the poll.

ExportRequest. `RequestInv` makes `ExportsAreValid` a type: every version of the export
is valid, and the worker that is about to create one has validated what it holds. The
scopes that were validated are those of the exported schemas, the export stands for
BoundSchemas of another time; what holds at all times is that every schema, listed,
bound or hashed, is one that the provider has given its resource, and that the resources
of an export have had a common scope (`CommonScope`). If no resource has had both
scopes, this is the scope of all schemas in the hash. Both parts are kept when the
provider gives more (`GivesKeep`).
`PhaseIsFinal` is about two writes from one cached request: the worker has decided the
phase only of a request that it has read as Pending, and its status update succeeds only
while what it has read is stored (`WorkerInv`).

ClusterBinding. That the heartbeat is younger than the interval when nothing is left to
do is not inductive, because it says nothing of the work that is under way.
`HeartbeatInv` follows the round: a commit carries a heartbeat of at most half an
interval, and where it may meet a conflict, an event is undelivered or the key is in
the queue, so that there will be another round; a round that has failed is repeated.
Once nothing is left, the age is at most half an interval plus the phase of the poll,
and the poll comes after half an interval.

ClaimedResources. The owner is decided from an old version of the provider's object and
the live one of the consumer. `OwnersInv` therefore speaks of every version from the
cache to the API server (`InLog`): none contradicts another or the label of the
consumer's object. Three cases need more. If the cache has no object, one may be there
and labelled: no, since the label is only written at the version in the cache, so all
versions before it exist (`LabelledAfterSeen`). Between the decision and the write others
write too, but never an owner, so what the decision excluded stays excluded
(`SyncsToConsumer`, `SyncsToProvider`, lemma `NoOwnerAdded`). And a label is written to
the object that was read, because its resource version is checked (`fresh`), which is
also why `OwnersDecide` holds for it.

Only model-checked: the liveness properties, `Settles` of `Mirror` among them (the
prover does not do fairness), the two action properties of `ServiceBinding`, all of
`ServiceNamespaces` and `ProviderAccess` (they are liveness), and that the violated
properties are violated.

## Plan

1. `ConditionsAreKept` and `ForeignCrdIsKept` of `ServiceBinding`, from an invariant
   that relates the workers' copies of the binding to its undelivered versions.
2. A composition of `ExportSync` with the sync controllers it starts and stops, with
   controllers that drain after their cancellation.

## Not modelled

API types, deepcopy functions, generated clients and CRD manifests: declarations.
Flags, wiring, servers, health endpoints and bootstrap: no state. The pages of the
backend that list templates, the discovery document and the exchange with the OIDC
provider: I/O. The translation of cluster-scoped names: pure functions on texts, and
names are model values. The copies of CRD conditions to BoundSchemas and the choice
of informers by scope in the service export controller. kcp support and examples.
