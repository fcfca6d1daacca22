---------------------------- MODULE ExportRequest ----------------------------
(***************************************************************************)
(* An APIServiceExportRequest in the provider cluster, the BoundSchemas    *)
(* and the APIServiceExport that the backend makes of it                   *)
(* (backend/controllers/serviceexportrequest), and the controller that     *)
(* keeps the export's hash and ProviderInSync condition                    *)
(* (backend/controllers/serviceexport).                                    *)
(*                                                                         *)
(* Typed objects are read from the manager's caches; the schemas that the  *)
(* provider exports are unstructured and are read from the API server.  A  *)
(* tick of the clock is six minutes.                                       *)
(***************************************************************************)
EXTENDS WatchLog

CONSTANTS
  Resources,      \* resources with a CRD in the provider cluster
  Contents,       \* contents of schemas
  ClusterScoped,  \* those of a cluster-scoped resource
  Exported,       \* what the provider may export at the start: schemas by resource
  Gone,           \* an object is not there
  NamedAlike,     \* the request has the name of one of its resources
  MaxTime,        \* bound on the clock
  MaxOps,         \* bound on what users and the provider do
  MaxLag,         \* bound on undelivered events of an object
  MaxFaults       \* bound on crashes and failed requests

ASSUME ConstantsAssumption ==
  /\ ClusterScoped \subseteq Contents
  /\ Exported \subseteq [Resources -> Contents]
  /\ Gone \notin Contents
  /\ NamedAlike \in BOOLEAN
  /\ {MaxTime, MaxOps, MaxLag, MaxFaults} \subseteq Nat

VARIABLES
  catalog,  \* the exported schemas, by resource
  given,    \* history: what the provider has ever given as the schema of a resource
  request,  \* the request, watched
  schemas,  \* the BoundSchemas, by resource, watched
  export,   \* the export, watched
  space,    \* the APIServiceNamespace that the request asks for is there
  reqQ,     \* the request is in the queue of its controller
  expQ,     \* the export is in the queue of its controller
  worker,   \* the worker of the request's controller
  now,      \* the time
  uid,      \* of the next request
  ops, faults

stored == <<catalog, given, request, schemas, export, space>>
vars == <<stored, reqQ, expQ, worker, now, uid, ops, faults>>

Phases == {"Pending", "Failed", "Succeeded"}

\* What may be wrong with a request: a permission claim is not for a claimable API
\* or is there twice, or the resources come without versions.
Flaws == {"none", "claims", "versions"}

\* APIServiceExportRequest: resources, creationTimestamp, the phase and the
\* condition ExportsReady.
NewRequest(u, res, flaw) ==
  [uid |-> u, res |-> res, flaw |-> flaw, born |-> now, phase |-> "Pending", ready |-> FALSE]

\* BoundSchemasSpecHash: of the objects as they are stored, metadata included.
BoundSchemasSpecHash(s, res) == [r \in res |-> s[r]]

\* APIServiceExport: resources, hash annotation, condition ProviderInSync.
NewExport(q, hash) == [res |-> q.res, flaw |-> q.flaw, hash |-> hash, inSync |-> "unknown"]

\* The worker: the request it works on, as it was read and as it is changed,
\* the exported schemas that it has listed and not used yet, and whether the stored request is
\* still the one that was read.
Nothing == [r \in Resources |-> Gone]
Idle == [pc |-> "idle", old |-> Gone, new |-> Gone, listed |-> Nothing, fresh |-> FALSE]

CachedSchemas == [r \in Resources |-> InStore(schemas[r])]

\* BoundSchemas of an earlier request in the namespace may be there, which counts as
\* an operation; what the provider exports may be another schema by now.
Init ==
  /\ catalog \in Exported
  /\ request = <<Gone>> /\ export = <<Gone>>
  /\ \E s \in [Resources -> Contents \cup {Gone}] :
       /\ schemas = [r \in Resources |-> <<s[r]>>]
       /\ given = [r \in Resources |-> {catalog[r], s[r]} \ {Gone}]
       /\ ops = IF \E r \in Resources : s[r] # Gone THEN 1 ELSE 0
  /\ space = FALSE
  /\ reqQ = FALSE /\ expQ = FALSE
  /\ worker = Idle
  /\ now = 0 /\ uid = 0
  /\ faults = 0

-----------------------------------------------------------------------------
(* Users, the provider and the clock.                                      *)

StoreRequest(q) ==
  /\ Len(request) <= MaxLag
  /\ request' = Store(request, q)

StoreSchema(r, c) ==
  /\ Len(schemas[r]) <= MaxLag
  /\ schemas' = [schemas EXCEPT ![r] = Store(@, c)]

StoreExport(e) ==
  /\ Len(export) <= MaxLag
  /\ export' = Store(export, e)

Outdated == worker' = [worker EXCEPT !.fresh = FALSE]

Op == ops < MaxOps /\ ops' = ops + 1 /\ UNCHANGED <<reqQ, expQ, now, faults>>

\* kubectl bind creates the request; a user deletes it.
RequestWritten ==
  /\ Op
  /\ IF Stored(request) = Gone
     THEN /\ \E res \in SUBSET Resources \ {{}}, flaw \in Flaws : StoreRequest(NewRequest(uid, res, flaw))
          /\ uid' = uid + 1
     ELSE StoreRequest(Gone) /\ UNCHANGED uid
  /\ Outdated
  /\ UNCHANGED <<catalog, given, schemas, export, space>>

\* The provider gives a resource the schema c, or takes it away.
Give(r, c) == given' = [given EXCEPT ![r] = @ \cup ({c} \ {Gone})]

\* An exported schema is edited, deleted, or made again, also with another scope.
CatalogWritten ==
  /\ Op
  /\ \E r \in Resources : \E c \in (Contents \cup {Gone}) \ {catalog[r]} :
       catalog' = [catalog EXCEPT ![r] = c] /\ Give(r, c)
  /\ UNCHANGED <<request, schemas, export, space, worker, uid>>

\* The provider edits or deletes a BoundSchema, or deletes the export.
ProviderWrites ==
  /\ Op
  /\ \/ /\ \E r \in Resources : \E c \in Contents \cup {Gone} :
             Stored(schemas[r]) # Gone /\ StoreSchema(r, c) /\ Give(r, c)
        /\ UNCHANGED export
     \/ Stored(export) # Gone /\ StoreExport(Gone) /\ UNCHANGED <<given, schemas>>
  /\ UNCHANGED <<catalog, request, space, worker, uid>>

Tick ==
  /\ now < MaxTime
  /\ now' = now + 1
  /\ UNCHANGED <<stored, reqQ, expQ, worker, uid, ops, faults>>

OverAMinute(q) == now - q.born >= 1
OverTenMinutes(q) == now - q.born >= 2

-----------------------------------------------------------------------------
(* Events.                                                                 *)

DeliverRequest ==
  /\ ~InSync(request)
  /\ request' = Event(request)
  /\ reqQ' = TRUE
  /\ UNCHANGED <<catalog, given, schemas, export, space, expQ, worker, now, uid, ops, faults>>

\* getServiceExportRequestMapper: the index has the requests under the names of
\* their resources, and the export has the name of the request.
ServiceExportRequestMapper == InStore(request) # Gone /\ NamedAlike

DeliverExport ==
  /\ ~InSync(export)
  /\ export' = Event(export)
  /\ expQ' = TRUE
  /\ reqQ' = (reqQ \/ ServiceExportRequestMapper)
  /\ UNCHANGED <<catalog, given, request, schemas, space, worker, now, uid, ops, faults>>

Refers(o, r) == o # Gone /\ r \in o.res

\* Mutant: the export's controller does not watch BoundSchemas.
MapNoExport(r) == [request |-> Refers(InStore(request), r), export |-> FALSE]

\* getBoundSchemaMapper of both controllers.
BoundSchemaMapper(r) == [request |-> Refers(InStore(request), r), export |-> Refers(InStore(export), r)]

DeliverSchema ==
  /\ \E r \in Resources :
       /\ ~InSync(schemas[r])
       /\ schemas' = [schemas EXCEPT ![r] = Event(@)]
       /\ reqQ' = (reqQ \/ BoundSchemaMapper(r).request)
       /\ expQ' = (expQ \/ BoundSchemaMapper(r).export)
  /\ UNCHANGED <<catalog, given, request, export, space, worker, now, uid, ops, faults>>

-----------------------------------------------------------------------------
(* The controller of requests.                                             *)

\* Reconcile gets the request; reconcile lists the exported schemas.
Reconcile ==
  /\ worker.pc = "idle" /\ reqQ
  /\ reqQ' = FALSE
  /\ worker' = IF InStore(request) = Gone THEN Idle
               ELSE [pc |-> "schemas", old |-> InStore(request), new |-> InStore(request),
                     listed |-> [r \in Resources |-> IF r \in InStore(request).res THEN catalog[r] ELSE Gone],
                     fresh |-> InSync(request)]
  /\ UNCHANGED <<stored, expQ, now, uid, ops, faults>>

At(pc) == worker.pc = pc /\ UNCHANGED <<expQ, now, uid, ops, faults>>
Goto(pc) == worker' = [worker EXCEPT !.pc = pc] /\ UNCHANGED reqQ

\* Mutant: an error is only logged.
LogError(new) ==
  IF new.phase = worker.old.phase THEN worker' = Idle /\ UNCHANGED reqQ
  ELSE worker' = [worker EXCEPT !.pc = "error", !.new = new] /\ UNCHANGED reqQ

\* reconcile returns an error: the request is tried again, and its status is
\* updated first if the phase has changed.
ReturnError(new) ==
  IF new.phase = worker.old.phase THEN worker' = Idle /\ reqQ' = TRUE
  ELSE worker' = [worker EXCEPT !.pc = "error", !.new = new] /\ UNCHANGED reqQ

Missing ==
  {r \in worker.new.res : /\ worker.new.flaw # "versions"
                          /\ worker.listed[r] # Gone
                          /\ InStore(schemas[r]) = Gone}

\* ensureBoundSchemas: the schemas that are not in the cache are created, and one
\* that is there all the same is an error; those that are there are not updated,
\* and resources without versions are skipped.
EnsureBoundSchemas ==
  /\ At("schemas")
  /\ IF Missing = {} THEN /\ worker' = [worker EXCEPT !.pc = "validate", !.listed = Nothing]
                         /\ UNCHANGED <<schemas, reqQ>>
     ELSE \E r \in Missing :
            IF Stored(schemas[r]) = Gone
            THEN /\ StoreSchema(r, worker.listed[r])
                 /\ worker' = [worker EXCEPT !.listed[r] = Gone]
                 /\ UNCHANGED reqQ
            ELSE ReturnError(worker.new) /\ UNCHANGED schemas
  /\ UNCHANGED <<catalog, given, request, export, space>>

\* Schemas of one scope.
OneScope(C) == C \subseteq ClusterScoped \/ C \cap ClusterScoped = {}

\* validate looks at what is exported now, not at the BoundSchemas.
SameScope(q) == OneScope({catalog[r] : r \in q.res})
SchemasFound(q) == \A r \in q.res : catalog[r] # Gone

\* Mutant: resources of different scopes are accepted.
AnyScope(q) == IF ~SchemasFound(q) THEN "retry" ELSE IF q.flaw = "claims" THEN "failed" ELSE "valid"

\* validate: schemas that are not found and different scopes are errors that are
\* tried again, invalid claims are final.
Validate(q) ==
  IF ~SchemasFound(q) \/ ~SameScope(q) THEN "retry"
  ELSE IF q.flaw = "claims" THEN "failed"
  ELSE "valid"

ValidateRequest ==
  /\ At("validate")
  /\ IF Validate(worker.new) = "valid" THEN Goto("exports")
     ELSE ReturnError(IF Validate(worker.new) = "failed" THEN [worker.new EXCEPT !.phase = "Failed"]
                      ELSE [worker.new EXCEPT !.ready = FALSE])
  /\ UNCHANGED stored

\* ensureExports, up to the creation.
EnsureExports ==
  LET q == worker.new
  IN
  /\ At("exports")
  /\ IF q.phase # "Pending" THEN Goto("expire") /\ UNCHANGED export
     ELSE IF \E r \in q.res : InStore(schemas[r]) = Gone
     THEN ReturnError([q EXCEPT !.ready = FALSE]) /\ UNCHANGED export
     ELSE IF InStore(export) # Gone
     THEN /\ worker' = [worker EXCEPT !.pc = "spaces", !.new.ready = TRUE]
          /\ UNCHANGED <<export, reqQ>>
     ELSE IF Stored(export) # Gone   \* AlreadyExists
     THEN Goto("spaces") /\ UNCHANGED export
     ELSE /\ StoreExport(NewExport(q, BoundSchemasSpecHash(CachedSchemas, q.res)))
          /\ worker' = [worker EXCEPT !.pc = "expire", !.new.ready = TRUE,
                          !.new.phase = IF OverAMinute(q) THEN "Failed" ELSE "Succeeded"]
          /\ UNCHANGED reqQ
  /\ UNCHANGED <<catalog, given, request, schemas, space>>

\* ensureExports, the end: the request is deleted after ten minutes.
Expire ==
  /\ At("expire")
  /\ IF ~OverTenMinutes(worker.new) THEN Goto("spaces") /\ UNCHANGED request
     ELSE IF Stored(request) = Gone THEN ReturnError(worker.new) /\ UNCHANGED request
     ELSE /\ StoreRequest(Gone)
          /\ worker' = [worker EXCEPT !.pc = "spaces", !.fresh = FALSE]
          /\ UNCHANGED reqQ
  /\ UNCHANGED <<catalog, given, schemas, export, space>>

\* ensureAPIServiceNamespaces: a namespace that is there is left alone.
EnsureAPIServiceNamespaces ==
  /\ At("spaces")
  /\ IF InStore(export) = Gone THEN ReturnError(worker.new) /\ UNCHANGED space
     ELSE Goto("done") /\ space' = TRUE
  /\ UNCHANGED <<catalog, given, request, schemas, export>>

\* Mutant: the status is updated whatever has been written since.
AnyVersion == Stored(request) # Gone

\* The request is stored at the resource version that was read.
AtVersion == worker.fresh /\ Stored(request) # Gone

\* Status().Update; after an error of reconcile, or of the update, the request is
\* tried again.
UpdateStatus ==
  /\ At(worker.pc)
  /\ worker.pc \in {"done", "error"}
  /\ worker' = Idle
  /\ IF worker.new = worker.old THEN reqQ' = reqQ /\ UNCHANGED request
     ELSE IF AtVersion THEN StoreRequest(worker.new) /\ reqQ' = (reqQ \/ worker.pc = "error")
     ELSE reqQ' = TRUE /\ UNCHANGED request
  /\ UNCHANGED <<catalog, given, schemas, export, space>>

Work ==
  Reconcile \/ EnsureBoundSchemas \/ ValidateRequest \/ EnsureExports
    \/ Expire \/ EnsureAPIServiceNamespaces \/ UpdateStatus

-----------------------------------------------------------------------------
(* The controller of exports.                                              *)

\* ensureSchema: the annotation and the condition.
EnsureSchema(e) ==
  IF \E r \in e.res : InStore(schemas[r]) = Gone THEN [e EXCEPT !.inSync = "false"]
  ELSE IF e.hash # BoundSchemasSpecHash(CachedSchemas, e.res) THEN [e EXCEPT !.hash = BoundSchemasSpecHash(CachedSchemas, e.res)]
  ELSE [e EXCEPT !.inSync = "true"]

\* After an update of the annotation the export is in the queue again.
Requeue(e, new) == e.hash # new.hash

\* Reconcile: a conflict is tried again.
ReconcileExport ==
  LET e == InStore(export)
      new == EnsureSchema(e)
  IN
  /\ expQ
  /\ IF e = Gone THEN expQ' = FALSE /\ UNCHANGED export
     ELSE IF new = e THEN expQ' = FALSE /\ UNCHANGED export
     ELSE IF InSync(export) THEN StoreExport(new) /\ expQ' = Requeue(e, new)
     ELSE expQ' = TRUE /\ UNCHANGED export
  /\ UNCHANGED <<catalog, given, request, schemas, space, reqQ, worker, now, uid, ops, faults>>

-----------------------------------------------------------------------------
(* Faults.                                                                 *)

Fault == faults < MaxFaults /\ faults' = faults + 1 /\ UNCHANGED <<catalog, given, space, now, uid, ops>>

\* A request to the API server fails.
RequestFails ==
  /\ Fault
  /\ worker.pc # "idle"
  /\ \/ worker.pc \in {"done", "error"} /\ worker' = Idle /\ reqQ' = TRUE
     \/ worker.pc \notin {"done", "error"} /\ ReturnError(worker.new)
  /\ UNCHANGED <<request, schemas, export, expQ>>

\* The backend restarts: the caches are listed and every object is an event.
Restart ==
  /\ Fault
  /\ request' = List(request) /\ export' = List(export)
  /\ schemas' = [r \in Resources |-> List(schemas[r])]
  /\ worker' = Idle
  /\ reqQ' = (Stored(request) # Gone) /\ expQ' = (Stored(export) # Gone)

-----------------------------------------------------------------------------

Next ==
  \/ RequestWritten \/ CatalogWritten \/ ProviderWrites \/ Tick
  \/ DeliverRequest \/ DeliverExport \/ DeliverSchema
  \/ Work \/ ReconcileExport
  \/ RequestFails \/ Restart

\* Informers deliver and the workers go on.
Fairness ==
  /\ WF_vars(DeliverRequest) /\ WF_vars(DeliverExport) /\ WF_vars(DeliverSchema)
  /\ WF_vars(Work) /\ WF_vars(ReconcileExport)

Spec == Init /\ [][Next]_vars /\ Fairness

-----------------------------------------------------------------------------
(* Properties.                                                             *)

\* The requests that there can be: one that has succeeded has been validated.
Requests ==
  {q \in [uid: Nat, res: SUBSET Resources, flaw: Flaws, born: Nat, phase: Phases, ready: BOOLEAN] :
     q.phase = "Succeeded" => q.flaw # "claims"}

\* There is a scope that each of the resources has had.
CommonScope(res) ==
  \/ \A r \in res : given[r] \cap ClusterScoped # {}
  \/ \A r \in res : given[r] \ ClusterScoped # {}

\* The exports that there can be: of a request whose claims are valid and whose
\* resources have had a common scope, with the hash of schemas the provider has given.
ValidExports ==
  {e \in [res: SUBSET Resources, flaw: Flaws, hash: UNION {[res -> Contents] : res \in SUBSET Resources},
          inSync: {"unknown", "false", "true"}] :
     /\ e.flaw # "claims"
     /\ CommonScope(e.res)
     /\ e.hash \in [e.res -> Contents]
     /\ \A r \in e.res : e.hash[r] \in given[r]}

Workers ==
  [pc: {"idle", "schemas", "validate", "exports", "expire", "spaces", "done", "error"},
   old: Requests \cup {Gone}, new: Requests \cup {Gone},
   listed: [Resources -> Contents \cup {Gone}], fresh: BOOLEAN]

TypeOK ==
  /\ catalog \in [Resources -> Contents \cup {Gone}]
  /\ given \in [Resources -> SUBSET Contents]
  /\ \A r \in Resources : catalog[r] \in given[r] \cup {Gone}
  /\ IsLog(request, Requests \cup {Gone})
  /\ schemas \in [Resources -> Seq(Contents \cup {Gone})]
  /\ \A r \in Resources : IsLog(schemas[r], given[r] \cup {Gone})
  /\ IsLog(export, ValidExports \cup {Gone})
  /\ worker \in Workers
  /\ now \in Nat /\ uid \in Nat

\* Whatever is written while the worker is between two steps: it has decided the phase
\* only of a request that it has read as Pending, it creates exports only of what it has
\* validated, and what it has read is what is stored as long as its update can succeed.
WorkerInv ==
  worker.pc # "idle" =>
    /\ worker.old \in Requests /\ worker.new \in Requests
    /\ worker.new.phase = worker.old.phase \/ worker.old.phase = "Pending"
    /\ worker.fresh => Stored(request) = worker.old
    /\ \A r \in Resources : worker.listed[r] \in given[r] \cup {Gone}
    /\ worker.pc = "exports" => CommonScope(worker.new.res) /\ worker.new.flaw # "claims"

RequestInv == TypeOK /\ WorkerInv

\* What validate accepts is what is exported: the claims of an export are of
\* claimable APIs, and the schemas that it stands for are of one scope as long as the
\* provider has given none of its resources schemas of both scopes.  Otherwise they
\* need not be, although ensureExports relies on it ("Scope is same for all crds"):
\* validate looks at the exported schemas, the export is made of BoundSchemas that
\* were copied from them earlier and are never refreshed.
ExportsAreValid ==
  LET e == Stored(export)
  IN  e # Gone =>
        /\ e.flaw # "claims"
        /\ (\A r \in e.res : OneScope(given[r])) => OneScope({e.hash[r] : r \in e.res})

\* The phase of a request is decided once (apiserviceexportrequest_types.go:
\* "It will not resume"), also when a worker goes on with what it has read before
\* the other phase was written.
PhaseIsFinal ==
  [][LET q == Stored(request)
         n == Stored(request')
     IN  q # Gone => (n # Gone => (n.uid = q.uid /\ q.phase # "Pending" => n.phase = q.phase))]_vars

Valid(q) == SchemasFound(q) /\ SameScope(q) /\ q.flaw # "claims"
Bound(q) == \A r \in q.res : Stored(schemas[r]) # Gone

\* When users and faults stop, a valid request whose schemas the provider exports
\* has its BoundSchemas if it names versions, and with its BoundSchemas it has an
\* export as long as it is Pending, and with the export the namespaces it asks for.
\* For a request without versions "a sensible default is chosen by the service
\* provider" (apiserviceexportrequest_types.go): it is not, no BoundSchema is made
\* for it, and it is served only if others have made them.  (Where the request has
\* not the name of a resource, a Pending request whose export is deleted is not
\* looked at again.)
RequestIsServed ==
  <>[](LET q == Stored(request)
       IN  q # Gone => (Valid(q) =>
             /\ q.flaw # "versions" => Bound(q)
             /\ Bound(q) /\ q.phase = "Pending" => Stored(export) # Gone
             /\ Bound(q) /\ Stored(export) # Gone => space))

\* When users and faults stop, the hash of the export is that of its BoundSchemas
\* and ProviderInSync says whether all of them are there.
ExportFollowsSchemas ==
  <>[](LET e == Stored(export)
       IN  e # Gone =>
             IF \E r \in e.res : Stored(schemas[r]) = Gone THEN e.inSync = "false"
             ELSE e.hash = [r \in e.res |-> Stored(schemas[r])] /\ e.inSync = "true")

\* "It starts in Pending and transitions to Succeeded or Failed"
\* (apiserviceexportrequest_types.go): a valid request that names versions does not stay Pending.
PhaseIsDecided ==
  <>[](LET q == Stored(request)
       IN  q # Gone => (Valid(q) /\ q.flaw = "none" => q.phase # "Pending"))
=============================================================================
