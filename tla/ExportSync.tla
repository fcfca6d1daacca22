----------------------------- MODULE ExportSync -----------------------------
(***************************************************************************)
(* The konnector's APIServiceExport controller and its store of contexts   *)
(* (pkg/konnector/controllers/cluster/serviceexport/serviceexport_*.go,    *)
(* pkg/konnector/controllers/contextstore).                                *)
(*                                                                         *)
(* For every export that is bound, it runs a pair of sync controllers for  *)
(* each exported schema and a pair of controllers for each permission      *)
(* claim.  What runs is kept in a store under textual keys,                *)
(* namespace.export.schema and namespace.export.claim.resource, from which *)
(* entries are also deleted by prefix, and by the goroutines of the claims *)
(* when they end.                                                          *)
(***************************************************************************)
EXTENDS WatchedObject

CONSTANTS
  Exports,       \* names of APIServiceExports; an APIServiceBinding has the same name
  Schemas,       \* names of BoundSchemas
  Claims,        \* resources of permission claims
  Longer,        \* Longer[e]: the other exports whose names begin with e's name
  ClaimNamed,    \* the schemas whose names begin with "claim"
  Eponyms,       \* Eponyms[s]: the exports that are named like the schema s
  MaxContexts,   \* bound on the contexts that have not ended
  MaxChanges,    \* bound on what users and other controllers do
  MaxFaults      \* bound on failed requests and missed deletions

ASSUME ExportSyncAssumption ==
  /\ Exports # {}
  /\ Schemas # {}
  /\ Schemas \cap Claims = {}
  /\ Longer \in [Exports -> SUBSET Exports]
  /\ \A e \in Exports : e \notin Longer[e]
  /\ ClaimNamed \subseteq Schemas
  /\ Eponyms \in [Schemas -> SUBSET Exports]
  /\ MaxContexts \in Nat
  /\ MaxChanges \in Nat
  /\ MaxFaults \in Nat

VARIABLES
  exports,    \* the exports, watched
  bindings,   \* the bindings, watched
  bound,      \* the BoundSchemas that are there; they are not watched
  queue,      \* the keys in the work queue
  work,       \* work[e]: the worker that processes e, if one does
  store,      \* store[e][i]: the context under the key of e and i, 0 if none
  contexts,   \* the contexts of controllers that have not ended
  changes, faults

api == <<exports, bindings, bound>>
running == <<store, contexts>>
budgets == <<changes, faults>>
vars == <<exports, bindings, bound, queue, work, store, contexts, changes, faults>>

-----------------------------------------------------------------------------
Items == Schemas \cup Claims
ContextIds == 1 .. MaxContexts

\* An export.  Its resources are immutable; its generation counts the writes of
\* the rest of its spec.
Export == [alive: BOOLEAN, gen: Nat, resources: SUBSET Schemas,
           connected: BOOLEAN]   \* the condition Connected is true

\* A binding, with the permission claims in its status.  Its spec is immutable,
\* so its generation never changes.
Binding == [alive: BOOLEAN, claims: SUBSET Claims]

NoExport == [alive |-> FALSE, gen |-> 0, resources |-> {}, connected |-> FALSE]
NewExport(resources) ==
  [alive |-> TRUE, gen |-> 1, resources |-> resources, connected |-> FALSE]
NoBinding == [alive |-> FALSE, claims |-> {}]
Bound(claims) == [alive |-> TRUE, claims |-> claims]

\* A SyncContext and the controllers that run under it.  The goroutine of a claim
\* outlives the cancellation; those of a schema are taken to end with it.
Context == [state: {"none", "running", "cancelled"}, export: Exports, item: Items,
            gen: Nat]

NoContext == [state |-> "none", export |-> CHOOSE e \in Exports : TRUE,
              item |-> CHOOSE i \in Items : TRUE, gen |-> 0]

Idle == [pc |-> "idle", export |-> NoExport, at |-> 0, todo |-> {}, claims |-> {},
         processed |-> {}, failed |-> FALSE]

Init ==
  /\ \E x \in [Exports -> {NoExport} \cup {NewExport(r) : r \in SUBSET Schemas \ {{}}}] :
       exports = [e \in Exports |-> Fresh(x[e])]
  /\ \E y \in [Exports -> {NoBinding} \cup {Bound(c) : c \in SUBSET Claims}] :
       bindings = [e \in Exports |-> Fresh(y[e])]
  /\ bound \in SUBSET Schemas
  /\ queue = {e \in Exports : Live(exports[e]).alive \/ Live(bindings[e]).alive}
  /\ work = [e \in Exports |-> Idle]
  /\ store = [e \in Exports |-> [i \in Items |-> 0]]
  /\ contexts = [c \in ContextIds |-> NoContext]
  /\ changes = 0
  /\ faults = 0

-----------------------------------------------------------------------------
(* Users and other controllers.                                            *)

Change ==
  /\ changes < MaxChanges
  /\ changes' = changes + 1
  /\ UNCHANGED <<work, running, faults>>

SetExport(e, x) ==
  /\ exports' = [exports EXCEPT ![e] = Write(@, x)]
  /\ UNCHANGED <<bindings, bound, queue>>
  /\ Change

CreateExport(e, resources) ==
  /\ ~Live(exports[e]).alive
  /\ SetExport(e, NewExport(resources))

\* The isolation of cluster-scoped objects is changed.
EditExport(e) ==
  /\ Live(exports[e]).alive
  /\ SetExport(e, [Live(exports[e]) EXCEPT !.gen = @ + 1])

DeleteExport(e) ==
  /\ Live(exports[e]).alive
  /\ SetExport(e, NoExport)

SetBinding(e, b) ==
  /\ bindings' = [bindings EXCEPT ![e] = Write(@, b)]
  /\ UNCHANGED <<exports, bound, queue>>
  /\ Change

Bind(e) == ~Live(bindings[e]).alive /\ SetBinding(e, Bound({}))
Unbind(e) == Live(bindings[e]).alive /\ SetBinding(e, NoBinding)

\* The permission claims of the export are copied to the binding's status.
AcceptClaims(e) ==
  /\ Live(bindings[e]).alive
  /\ Live(bindings[e]).claims # Claims
  /\ SetBinding(e, [Live(bindings[e]) EXCEPT !.claims = Claims])

\* The backend creates a BoundSchema, or it is deleted.
SetSchema(s) ==
  /\ bound' = IF s \in bound THEN bound \ {s} ELSE bound \cup {s}
  /\ UNCHANGED <<exports, bindings, queue>>
  /\ Change

\* IndexServiceExportByBoundSchema: the exports in the cache that have the schema.
ExportsByBoundSchema(s) == {e \in Exports : s \in Cached(exports[e]).resources}

\* enqueueCRD
CRDEvent(s) ==
  /\ queue' = queue \cup ExportsByBoundSchema(s)
  /\ UNCHANGED api
  /\ Change

-----------------------------------------------------------------------------
(* The informers.                                                          *)

\* enqueueServiceExport.
DeliverExport(e) ==
  /\ Lagging(exports[e])
  /\ exports' = [exports EXCEPT ![e] = Deliver(@)]
  /\ queue' = queue \cup {e}
  /\ UNCHANGED <<bindings, bound, work, running, budgets>>

\* enqueueServiceBinding.
DeliverBinding(e) ==
  /\ Lagging(bindings[e])
  /\ bindings' = [bindings EXCEPT ![e] = Deliver(@)]
  /\ queue' = queue \cup {e}
  /\ UNCHANGED <<exports, bound, work, running, budgets>>

\* The informer finds out about the deletion of a binding from a list only; the
\* handler does not take the tombstone.
MissDeletion(e) ==
  /\ faults < MaxFaults
  /\ Lagging(bindings[e])
  /\ Cached(bindings[e]).alive
  /\ bindings' = [bindings EXCEPT ![e] = Deliver(@)]
  /\ ~Cached(bindings'[e]).alive
  /\ faults' = faults + 1
  /\ UNCHANGED <<exports, bound, queue, work, running, changes>>

\* The periodic resync replays what is in the informers' stores.  Its period of
\* half an hour is much longer than a cancelled goroutine takes to end.
Resync(e) ==
  /\ Cached(exports[e]).alive \/ Cached(bindings[e]).alive
  /\ \A c \in ContextIds : contexts[c].state # "cancelled"
  /\ queue' = queue \cup {e}
  /\ UNCHANGED <<api, work, running, budgets>>

-----------------------------------------------------------------------------
(* The store.                                                              *)

\* The ids under a set of keys <<export, item>>.
Under(keys) == {c \in ContextIds : \E k \in keys : store[k[1]][k[2]] = c}

Without(keys) ==
  [e \in Exports |-> [i \in Items |-> IF <<e, i>> \in keys THEN 0 ELSE store[e][i]]]

\* The contexts after the cancellation of the set C.
Cancelled(C) ==
  [c \in ContextIds |->
     IF c \notin C THEN contexts[c]
     ELSE IF contexts[c].item \in Claims THEN [contexts[c] EXCEPT !.state = "cancelled"]
     ELSE NoContext]

\* Delete, for each of the keys; BulkDeletePrefixed, for those with a prefix.
DeleteKeys(keys) ==
  /\ store' = Without(keys)
  /\ contexts' = Cancelled(Under(keys))

\* The keys that begin with the key of e.  (A key is an export and an item; keys are
\* dotted texts in the code, and two pairs may give the same text.)
Prefixed(e) == ({e} \cup Longer[e]) \X Items

Free == {c \in ContextIds : contexts[c].state = "none"}

\* Mutant: the context that is there is replaced and not cancelled.
SetUncancelled(e, i, x) ==
  LET c == CHOOSE d \in Free : TRUE
  IN
  /\ Free # {}
  /\ store' = [store EXCEPT ![e][i] = c]
  /\ contexts' = [contexts EXCEPT ![c] =
                    [state |-> "running", export |-> e, item |-> i, gen |-> x.gen]]

\* Delete of what is under the key, new controllers, and Set.
Set(e, i, x) ==
  LET c == CHOOSE d \in Free : TRUE
  IN
  /\ Free # {}
  /\ store' = [store EXCEPT ![e][i] = c]
  /\ contexts' = [Cancelled(Under({<<e, i>>})) EXCEPT ![c] =
                    [state |-> "running", export |-> e, item |-> i, gen |-> x.gen]]

-----------------------------------------------------------------------------
(* The workers.                                                            *)

Working == UNCHANGED <<api, queue, budgets>>

\* A worker takes the key, which no other has, and gets the export from the cache.
Get(e) ==
  /\ e \in queue
  /\ work[e].pc = "idle"
  /\ queue' = queue \ {e}
  /\ work' = [work EXCEPT ![e] = [Idle EXCEPT !.pc = "binding", !.export = Cached(exports[e]),
                                              !.at = exports[e].seen]]
  /\ UNCHANGED <<api, running, budgets>>

\* The export or its binding is gone: everything under its prefix is stopped.
Stop(e) ==
  /\ work[e].pc = "binding"
  /\ ~work[e].export.alive \/ ~Cached(bindings[e]).alive
  /\ DeleteKeys(Prefixed(e))
  /\ work' = [work EXCEPT ![e] = IF @.export.alive THEN [@ EXCEPT !.pc = "commit"] ELSE Idle]
  /\ Working

\* The binding is there: its claims and the schemas of the export are gone through.
GetBinding(e) ==
  /\ work[e].pc = "binding"
  /\ work[e].export.alive
  /\ Cached(bindings[e]).alive
  /\ work' = [work EXCEPT ![e].pc = "schemas", ![e].todo = work[e].export.resources,
                          ![e].claims = Cached(bindings[e]).claims]
  /\ UNCHANGED running
  /\ Working

Processed(e, s, ok, failed) ==
  work' = [work EXCEPT ![e].todo = @ \ {s},
                       ![e].processed = IF ok THEN @ \cup {s} ELSE @,
                       ![e].failed = @ \/ failed]

\* Mutant: whatever is under the key is taken to be of the right generation.
UpToDateAlways(e, s) == store[e][s] # 0

\* There is a context for the schema, of the generation of the export.
UpToDate(e, s) == store[e][s] # 0 /\ contexts[store[e][s]].gen = work[e].export.gen

\* getRemoteBoundSchema asks the server and finds no schema.  The key of what is
\* deleted is made from the name of the schema where that of the export is meant.
MissSchema(e, s) ==
  /\ work[e].pc = "schemas"
  /\ s \in work[e].todo
  /\ s \notin bound
  /\ Processed(e, s, FALSE, FALSE)
  /\ DeleteKeys(Eponyms[s] \X {s})
  /\ Working

\* It finds the schema: ensureControllerForSchema.
EnsureSchema(e, s) ==
  /\ work[e].pc = "schemas"
  /\ s \in work[e].todo
  /\ s \in bound
  /\ Processed(e, s, TRUE, FALSE)
  /\ IF UpToDate(e, s) THEN UNCHANGED running ELSE Set(e, s, work[e].export)
  /\ Working

\* A request fails: the get of the schema, or, with an outdated context deleted
\* already, that of the provider's namespace.
SchemaError(e, s) ==
  /\ faults < MaxFaults
  /\ faults' = faults + 1
  /\ work[e].pc = "schemas"
  /\ s \in work[e].todo
  /\ \/ /\ Processed(e, s, FALSE, TRUE)
        /\ UNCHANGED running
     \/ /\ s \in bound
        /\ ~UpToDate(e, s)
        /\ Processed(e, s, TRUE, TRUE)
        /\ DeleteKeys({<<e, s>>})
  /\ UNCHANGED <<api, queue, changes>>

GoToClaims(e) ==
  /\ work[e].pc = "schemas"
  /\ work[e].todo = {}
  /\ work' = [work EXCEPT ![e].pc = "claims", ![e].todo = work[e].claims]
  /\ UNCHANGED running
  /\ Working

\* ensureControllerForPermissionClaim, unless there is one.
EnsureClaim(e, c) ==
  /\ work[e].pc = "claims"
  /\ c \in work[e].todo
  /\ work' = [work EXCEPT ![e].todo = @ \ {c}]
  /\ IF store[e][c] # 0
     THEN UNCHANGED running
     ELSE Set(e, c, work[e].export)
  /\ Working

\* What has a claim's prefix and is no claim of the binding, and what has the
\* export's prefix and is neither a schema that was processed nor under "claim.".
NotReferenced(e) ==
  ({e} \X ((Claims \ work[e].claims) \cup ClaimNamed \cup (Schemas \ work[e].processed)))
    \cup (Longer[e] \X Items)

Cleanup(e) ==
  /\ work[e].pc = "claims"
  /\ work[e].todo = {}
  /\ DeleteKeys(NotReferenced(e))
  /\ work' = [work EXCEPT ![e].pc = "commit"]
  /\ Working

\* The conditions of the export are patched, at the version that was read.
\* Connected is false if the status of a BoundSchema could not be updated (ok is
\* false), and true otherwise, whether there is a binding or not.
Commit(e, ok) ==
  LET x == [work[e].export EXCEPT !.connected = ok]
      patch == x # work[e].export
      conflict == patch /\ work[e].at # exports[e].rv
  IN
  /\ work[e].pc = "commit"
  /\ exports' = IF patch /\ ~conflict THEN [exports EXCEPT ![e] = Write(@, x)] ELSE exports
  /\ queue' = IF conflict \/ work[e].failed \/ ~ok THEN queue \cup {e} ELSE queue
  /\ work' = [work EXCEPT ![e] = Idle]
  /\ ok \/ faults < MaxFaults
  /\ faults' = IF ok THEN faults ELSE faults + 1
  /\ UNCHANGED <<bindings, bound, running, changes>>

\* The goroutine of a cancelled claim ends and deletes what is under its key.
ClaimEnds(c) ==
  LET keys == {<<contexts[c].export, contexts[c].item>>}
  IN
  /\ contexts[c].state = "cancelled"
  /\ store' = Without(keys)
  /\ contexts' = [Cancelled(Under(keys)) EXCEPT ![c] = NoContext]
  /\ UNCHANGED <<api, queue, work, budgets>>

Worker(e) ==
  \/ Get(e)
  \/ Stop(e)
  \/ GetBinding(e)
  \/ \E s \in Schemas : MissSchema(e, s) \/ EnsureSchema(e, s)
  \/ GoToClaims(e)
  \/ \E c \in Claims : EnsureClaim(e, c)
  \/ Cleanup(e)
  \/ Commit(e, TRUE)

Next ==
  \/ \E e \in Exports :
       \/ \E r \in SUBSET Schemas \ {{}} : CreateExport(e, r)
       \/ EditExport(e)
       \/ DeleteExport(e)
       \/ Bind(e)
       \/ Unbind(e)
       \/ AcceptClaims(e)
       \/ DeliverExport(e)
       \/ DeliverBinding(e)
       \/ MissDeletion(e)
       \/ Resync(e)
       \/ Worker(e)
       \/ \E s \in Schemas : SchemaError(e, s)
       \/ Commit(e, FALSE)
  \/ \E s \in Schemas : SetSchema(s) \/ CRDEvent(s)
  \/ \E c \in ContextIds : ClaimEnds(c)

Spec == Init /\ [][Next]_vars

\* The informers deliver and resync, the workers run, goroutines whose context
\* is cancelled end.
Fairness ==
  /\ \A e \in Exports : /\ WF_vars(DeliverExport(e))
                        /\ WF_vars(DeliverBinding(e))
                        /\ WF_vars(Resync(e))
                        /\ WF_vars(Worker(e))
  /\ \A c \in ContextIds : WF_vars(ClaimEnds(c))

FairSpec == Spec /\ Fairness

-----------------------------------------------------------------------------
\* Every variable has its type.
TypeOK ==
  /\ exports = [e \in Exports |-> exports[e]]
  /\ \A e \in Exports : IsWatched(exports[e], Export)
  /\ bindings = [e \in Exports |-> bindings[e]]
  /\ \A e \in Exports : IsWatched(bindings[e], Binding)
  /\ bound \in SUBSET Schemas
  /\ queue \in SUBSET Exports
  /\ work \in [Exports -> [pc: {"idle", "binding", "schemas", "claims", "commit"},
                           export: Export, at: Nat, todo: SUBSET Items,
                           claims: SUBSET Claims, processed: SUBSET Schemas,
                           failed: BOOLEAN]]
  /\ store \in [Exports -> [Items -> 0 .. MaxContexts]]
  /\ contexts \in [ContextIds -> Context]
  /\ changes \in 0 .. MaxChanges
  /\ faults \in 0 .. MaxFaults

\* The store holds exactly the controllers that have not been told to stop, each
\* under its own key: none runs that nothing can stop any more, none that was
\* stopped is taken for running, and no two run for the same schema or claim.
NoStrayControllers ==
  /\ \A c \in ContextIds :
       contexts[c].state = "running" => store[contexts[c].export][contexts[c].item] = c
  /\ \A e \in Exports, i \in Items :
       store[e][i] # 0 =>
         /\ contexts[store[e][i]].state = "running"
         /\ contexts[store[e][i]].export = e
         /\ contexts[store[e][i]].item = i

\* The inductive invariant.
StoreInv ==
  /\ TypeOK
  /\ NoStrayControllers
  /\ \A c \in ContextIds : contexts[c].state = "cancelled" => contexts[c].item \in Claims

-----------------------------------------------------------------------------
\* What is to run, runs, and nothing else.
Settled ==
  \A e \in Exports :
    LET x == Live(exports[e])
        b == Live(bindings[e])
    IN
    /\ \A s \in Schemas :
         IF x.alive /\ b.alive /\ s \in x.resources /\ s \in bound
         THEN store[e][s] # 0 /\ contexts[store[e][s]].gen = x.gen
         ELSE store[e][s] = 0
    /\ \A c \in Claims : store[e][c] # 0 <=> x.alive /\ b.alive /\ c \in b.claims

\* "each schema runs its own gvr controller and each permissionClaim runs its own
\* controller": once nothing changes any more, controllers of the current
\* generation come to run for every schema and claim of the exports that are
\* bound, and for nothing else.
Converges == <>[]Settled
=============================================================================
