------------------------ MODULE ExportRequest_proofs ------------------------
(***************************************************************************)
(* Proofs about the controllers of APIServiceExportRequests and            *)
(* APIServiceExports, for any resources, contents and bounds.              *)
(***************************************************************************)
EXTENDS ExportRequest, Watch_proofs

-----------------------------------------------------------------------------
(* Types of what is written.                                               *)

\* A log of some contents is one of more contents.
LEMMA LogGrows ==
  ASSUME NEW C, NEW D, C \subseteq D, NEW w, IsLog(w, C)
  PROVE  IsLog(w, D)
  <1>1. Len(w) \in Nat /\ w \in [1 .. Len(w) -> C]
    BY DEF IsLog
  <1>2. w \in [1 .. Len(w) -> D]
    BY <1>1
  <1>3. w \in Seq(D)
    BY <1>1, <1>2
  <1>4. QED
    BY <1>3 DEF IsLog

\* What exports may be depends on what the provider has given only.
LEMMA SameGiven ==
  ASSUME UNCHANGED given
  PROVE  /\ ValidExports' = ValidExports
         /\ \A res : CommonScope(res)' = CommonScope(res)
  BY DEF ValidExports, CommonScope

\* The logs of the three kinds of objects after a write.
LEMMA RequestStored ==
  ASSUME TypeOK, NEW q \in Requests \cup {Gone}, StoreRequest(q)
  PROVE  IsLog(request', Requests \cup {Gone}) /\ Stored(request') = q
  BY LogStore DEF TypeOK, StoreRequest

\* The provider gives more and more.
Gives ==
  /\ given' \in [Resources -> SUBSET Contents]
  /\ \A r \in Resources : given[r] \subseteq given'[r]

LEMMA SchemaStored ==
  ASSUME TypeOK, Gives, NEW r \in Resources, NEW c \in Contents \cup {Gone},
         c \in given'[r] \cup {Gone}, StoreSchema(r, c)
  PROVE  /\ schemas' \in [Resources -> Seq(Contents \cup {Gone})]
         /\ \A s \in Resources : IsLog(schemas'[s], given'[s] \cup {Gone})
  <1>1. \A s \in Resources : IsLog(schemas[s], given'[s] \cup {Gone})
    BY LogGrows DEF TypeOK, Gives
  <1>2. IsLog(Store(schemas[r], c), given'[r] \cup {Gone})
    BY <1>1, LogStore
  <1>3. given'[r] \cup {Gone} \subseteq Contents \cup {Gone}
    BY DEF Gives
  <1>4. Store(schemas[r], c) \in Seq(Contents \cup {Gone})
    BY <1>2, <1>3, LogGrows DEF IsLog
  <1>5. QED
    BY <1>1, <1>2, <1>4 DEF TypeOK, StoreSchema

LEMMA ExportStored ==
  ASSUME TypeOK, NEW e \in ValidExports \cup {Gone}, StoreExport(e)
  PROVE  IsLog(export', ValidExports \cup {Gone})
  BY LogStore DEF TypeOK, StoreExport

\* What was valid remains so when the provider gives more.
LEMMA GivesKeep ==
  ASSUME RequestInv, Gives, UNCHANGED <<request, worker, now, uid>>,
         IsLog(export', ValidExports \cup {Gone}),
         catalog' \in [Resources -> Contents \cup {Gone}],
         \A r \in Resources : catalog'[r] \in given'[r] \cup {Gone},
         schemas' \in [Resources -> Seq(Contents \cup {Gone})],
         \A r \in Resources : IsLog(schemas'[r], given'[r] \cup {Gone})
  PROVE  RequestInv'
  <1>1. \A res \in SUBSET Resources : CommonScope(res) => CommonScope(res)'
    BY DEF CommonScope, Gives
  <1>2. ValidExports \subseteq ValidExports'
    <2>1. SUFFICES ASSUME NEW e \in ValidExports PROVE e \in ValidExports'
      OBVIOUS
    <2>2. CommonScope(e.res)' /\ \A r \in e.res : e.hash[r] \in given'[r]
      BY <1>1 DEF ValidExports, Gives
    <2>3. QED
      BY <2>2 DEF ValidExports
  <1>3. IsLog(export', (ValidExports \cup {Gone})')
    BY <1>2, LogGrows
  <1>4. WorkerInv'
    BY <1>1 DEF RequestInv, WorkerInv, Gives, Requests
  <1>5. QED
    BY <1>3, <1>4 DEF RequestInv, TypeOK, Gives

\* The hash of BoundSchemas that are all in the cache.
LEMMA HashType ==
  ASSUME TypeOK, NEW res \in SUBSET Resources, \A r \in res : InStore(schemas[r]) # Gone
  PROVE  /\ BoundSchemasSpecHash(CachedSchemas, res) \in [res -> Contents]
         /\ \A r \in res : BoundSchemasSpecHash(CachedSchemas, res)[r] \in given[r]
  <1>1. ASSUME NEW r \in res PROVE InStore(schemas[r]) \in given[r] /\ given[r] \subseteq Contents
    <2>1. IsLog(schemas[r], given[r] \cup {Gone}) /\ given[r] \subseteq Contents
      BY DEF TypeOK
    <2>2. InStore(schemas[r]) \in given[r] \cup {Gone}
      BY <2>1, LogContents
    <2>3. QED
      BY <2>1, <2>2
  <1>2. QED
    BY <1>1 DEF BoundSchemasSpecHash, CachedSchemas

\* What has been read stays what is stored while the request is not written.
LEMMA IdleType == Idle \in Workers /\ Idle.pc = "idle"
  BY DEF Idle, Nothing, Workers

\* The worker gives up, with or without an update of the status.
LEMMA ErrorStep ==
  ASSUME RequestInv, worker.pc # "idle", NEW new \in Requests, ReturnError(new),
         new.phase = worker.old.phase \/ worker.old.phase = "Pending",
         UNCHANGED <<request, given>>
  PROVE  worker' \in Workers /\ WorkerInv'
  <1>1. CASE worker' = Idle
    BY <1>1, IdleType DEF WorkerInv
  <1>2. CASE worker' = [worker EXCEPT !.pc = "error", !.new = new]
    <2>1. worker \in Workers
      BY DEF RequestInv, TypeOK
    <2>2. /\ worker' \in Workers /\ worker'.pc = "error" /\ worker'.new = new
          /\ worker'.old = worker.old /\ worker'.fresh = worker.fresh
          /\ worker'.listed = worker.listed
      BY <1>2, <2>1 DEF Workers
    <2>3. QED
      BY <2>2 DEF RequestInv, WorkerInv
  <1>3. QED
    BY <1>1, <1>2 DEF ReturnError

\* The worker goes on with what it has.
LEMMA GotoStep ==
  ASSUME RequestInv, worker.pc # "idle", NEW pc \in {"validate", "exports", "expire", "spaces", "done"},
         pc = "exports" => CommonScope(worker.new.res) /\ worker.new.flaw # "claims",
         Goto(pc), UNCHANGED <<request, given>>
  PROVE  worker' \in Workers /\ WorkerInv'
  <1>1. worker \in Workers
    BY DEF RequestInv, TypeOK
  <1>2. /\ worker' \in Workers /\ worker'.pc = pc /\ worker'.new = worker.new
        /\ worker'.old = worker.old /\ worker'.fresh = worker.fresh
        /\ worker'.listed = worker.listed
    BY <1>1 DEF Workers, Goto
  <1>3. QED
    BY <1>2, SameGiven DEF RequestInv, WorkerInv

-----------------------------------------------------------------------------
(* One lemma per group of actions.                                         *)

LEMMA InitRequest == Init => RequestInv
  <1> SUFFICES ASSUME Init PROVE RequestInv
    OBVIOUS
  <1>1. IsLog(request, Requests \cup {Gone}) /\ IsLog(export, ValidExports \cup {Gone})
    BY LogNew DEF Init
  <1>2. PICK s \in [Resources -> Contents \cup {Gone}] :
           /\ schemas = [r \in Resources |-> <<s[r]>>]
           /\ given = [r \in Resources |-> {catalog[r], s[r]} \ {Gone}]
    BY DEF Init
  <1>3. catalog \in [Resources -> Contents]
    BY ConstantsAssumption DEF Init
  <1>4. /\ given \in [Resources -> SUBSET Contents]
        /\ \A r \in Resources : catalog[r] \in given[r] \cup {Gone}
        /\ \A r \in Resources : s[r] \in given[r] \cup {Gone}
    BY <1>2, <1>3
  <1>5. \A r \in Resources : /\ schemas[r] \in Seq(Contents \cup {Gone})
                              /\ IsLog(schemas[r], given[r] \cup {Gone})
    BY <1>2, <1>4, LogNew
  <1>6. schemas \in [Resources -> Seq(Contents \cup {Gone})]
    BY <1>2, <1>5
  <1>7. QED
    BY <1>1, <1>3, <1>4, <1>5, <1>6, IdleType DEF Init, RequestInv, TypeOK, WorkerInv

\* Users, the provider and the clock.
LEMMA UsersRequest ==
  ASSUME RequestInv, RequestWritten \/ CatalogWritten \/ ProviderWrites \/ Tick
  PROVE  RequestInv'
  <1>0. TypeOK /\ worker \in Workers /\ uid \in Nat /\ now \in Nat /\ given \in [Resources -> SUBSET Contents]
    BY DEF RequestInv, TypeOK
  <1>1. CASE RequestWritten
    <2>1. PICK q \in Requests \cup {Gone} : StoreRequest(q)
      <3>1. \A res \in SUBSET Resources, flaw \in Flaws : NewRequest(uid, res, flaw) \in Requests
        BY <1>0 DEF NewRequest, Requests, Phases
      <3>2. QED
        BY <1>1, <3>1 DEF RequestWritten
    <2>2. IsLog(request', Requests \cup {Gone})
      BY <1>0, <2>1, RequestStored
    <2>3. /\ worker' \in Workers /\ worker'.fresh = FALSE /\ worker'.pc = worker.pc
          /\ worker'.old = worker.old /\ worker'.new = worker.new /\ worker'.listed = worker.listed
      BY <1>0, <1>1 DEF RequestWritten, Outdated, Workers
    <2>4. uid' \in Nat /\ UNCHANGED <<catalog, given, schemas, export, now>>
      BY <1>0, <1>1 DEF RequestWritten, Op
    <2>5. WorkerInv'
      BY <2>3, <2>4, SameGiven DEF WorkerInv, RequestInv
    <2>6. QED
      BY <2>2, <2>3, <2>4, <2>5, SameGiven DEF RequestInv, TypeOK
  <1>2. CASE CatalogWritten
    <2>1. PICK r \in Resources, c \in Contents \cup {Gone} :
             catalog' = [catalog EXCEPT ![r] = c] /\ Give(r, c)
      BY <1>2 DEF CatalogWritten
    <2>2. Gives /\ c \in given'[r] \cup {Gone}
      BY <1>0, <2>1 DEF Give, Gives
    <2>3. UNCHANGED <<request, schemas, export, worker, now, uid>>
      BY <1>2 DEF CatalogWritten, Op
    <2>4. \A s \in Resources : IsLog(schemas[s], given'[s] \cup {Gone})
      BY <1>0, <2>2, LogGrows DEF TypeOK, Gives
    <2>5. /\ catalog' \in [Resources -> Contents \cup {Gone}]
          /\ \A s \in Resources : catalog'[s] \in given'[s] \cup {Gone}
      BY <1>0, <2>1, <2>2 DEF TypeOK, Gives
    <2>6. IsLog(export', ValidExports \cup {Gone}) /\ schemas' \in [Resources -> Seq(Contents \cup {Gone})]
      BY <1>0, <2>3 DEF TypeOK
    <2>7. QED
      BY <2>2, <2>3, <2>4, <2>5, <2>6, GivesKeep
  <1>3. CASE ProviderWrites
    <2>1. UNCHANGED <<catalog, request, worker, now, uid>>
      BY <1>3 DEF ProviderWrites, Op
    <2>2. CASE StoreExport(Gone) /\ UNCHANGED <<given, schemas>>
      <3>1. IsLog(export', ValidExports \cup {Gone})
        BY <1>0, <2>2, ExportStored
      <3>2. QED
        BY <2>1, <2>2, <3>1, SameGiven DEF RequestInv, TypeOK, WorkerInv
    <2>3. ASSUME NEW r \in Resources, NEW c \in Contents \cup {Gone},
                 StoreSchema(r, c), Give(r, c), UNCHANGED export
          PROVE  RequestInv'
      <3>1. Gives /\ c \in given'[r] \cup {Gone}
        BY <1>0, <2>3 DEF Give, Gives
      <3>2. /\ schemas' \in [Resources -> Seq(Contents \cup {Gone})]
            /\ \A s \in Resources : IsLog(schemas'[s], given'[s] \cup {Gone})
        BY <1>0, <2>3, <3>1, SchemaStored
      <3>3. /\ catalog' \in [Resources -> Contents \cup {Gone}]
            /\ \A s \in Resources : catalog'[s] \in given'[s] \cup {Gone}
        BY <1>0, <2>1, <3>1 DEF TypeOK, Gives
      <3>4. IsLog(export', ValidExports \cup {Gone})
        BY <1>0, <2>3 DEF TypeOK
      <3>5. QED
        BY <2>1, <3>1, <3>2, <3>3, <3>4, GivesKeep
    <2>4. QED
      BY <1>3, <2>2, <2>3 DEF ProviderWrites
  <1>4. CASE Tick
    <2>1. now' \in Nat /\ UNCHANGED <<catalog, given, request, schemas, export, worker, uid>>
      BY <1>0, <1>4 DEF Tick, stored
    <2>2. QED
      BY <2>1, SameGiven DEF RequestInv, TypeOK, WorkerInv
  <1>5. QED
    BY <1>1, <1>2, <1>3, <1>4

\* Events.
LEMMA EventsRequest ==
  ASSUME RequestInv, DeliverRequest \/ DeliverExport \/ DeliverSchema
  PROVE  RequestInv'
  <1>0. TypeOK
    BY DEF RequestInv
  <1>1. CASE DeliverRequest
    <2>1. IsLog(request', Requests \cup {Gone}) /\ Stored(request') = Stored(request)
      BY <1>0, <1>1, LogEvent DEF DeliverRequest, TypeOK
    <2>2. UNCHANGED <<catalog, given, schemas, export, worker, now, uid>>
      BY <1>1 DEF DeliverRequest
    <2>3. QED
      BY <2>1, <2>2, SameGiven DEF RequestInv, TypeOK, WorkerInv
  <1>2. CASE DeliverExport
    <2>1. IsLog(export', ValidExports \cup {Gone})
      BY <1>0, <1>2, LogEvent DEF DeliverExport, TypeOK
    <2>2. QED
      BY <1>2, <2>1, SameGiven DEF DeliverExport, RequestInv, TypeOK, WorkerInv
  <1>3. CASE DeliverSchema
    <2>1. PICK r \in Resources : ~InSync(schemas[r]) /\ schemas' = [schemas EXCEPT ![r] = Event(@)]
      BY <1>3 DEF DeliverSchema
    <2>2. IsLog(Event(schemas[r]), given[r] \cup {Gone})
      BY <1>0, <2>1, LogEvent DEF TypeOK
    <2>3. Event(schemas[r]) \in Seq(Contents \cup {Gone})
      BY <1>0, <2>2, LogGrows DEF TypeOK, IsLog
    <2>4. /\ schemas' \in [Resources -> Seq(Contents \cup {Gone})]
          /\ \A s \in Resources : IsLog(schemas'[s], given[s] \cup {Gone})
      BY <1>0, <2>1, <2>2, <2>3 DEF TypeOK
    <2>5. QED
      BY <1>3, <2>4, SameGiven DEF DeliverSchema, RequestInv, TypeOK, WorkerInv
  <1>4. QED
    BY <1>1, <1>2, <1>3

\* The worker reads the request from its cache.
LEMMA ReconcileRequest == RequestInv /\ Reconcile => RequestInv'
  <1> SUFFICES ASSUME RequestInv, Reconcile PROVE RequestInv'
    OBVIOUS
  <1>1. TypeOK /\ UNCHANGED <<catalog, given, request, schemas, export, now, uid>>
    BY DEF RequestInv, Reconcile, stored
  <1>2. InStore(request) \in Requests \cup {Gone} /\ (InSync(request) => InStore(request) = Stored(request))
    BY <1>1, LogContents DEF TypeOK
  <1>3. worker' \in Workers /\ WorkerInv'
    <2>1. CASE InStore(request) = Gone
      BY <2>1, IdleType DEF Reconcile, WorkerInv
    <2>2. CASE InStore(request) # Gone
      BY <1>1, <1>2, <2>2 DEF Reconcile, WorkerInv, Workers, TypeOK, InSync
    <2>3. QED
      BY <2>1, <2>2
  <1>4. QED
    BY <1>1, <1>3, SameGiven DEF RequestInv, TypeOK

\* The BoundSchemas are created from what has been listed.
LEMMA SchemasRequest == RequestInv /\ EnsureBoundSchemas => RequestInv'
  <1> SUFFICES ASSUME RequestInv, EnsureBoundSchemas PROVE RequestInv'
    OBVIOUS
  <1>1. TypeOK /\ worker.pc = "schemas" /\ UNCHANGED <<catalog, given, request, export, now, uid>>
    BY DEF RequestInv, EnsureBoundSchemas, At
  <1>0. ValidExports' = ValidExports /\ Gives
    BY <1>1, SameGiven DEF TypeOK, Gives
  <1>2. worker \in Workers /\ worker.old \in Requests /\ worker.new \in Requests
        /\ (worker.new.phase = worker.old.phase \/ worker.old.phase = "Pending")
        /\ (worker.fresh => Stored(request) = worker.old)
    BY <1>1 DEF RequestInv, TypeOK, WorkerInv
  <1>3. CASE worker' = [worker EXCEPT !.pc = "validate", !.listed = Nothing] /\ UNCHANGED schemas
    <2>1. /\ worker' \in Workers /\ worker'.pc = "validate" /\ worker'.new = worker.new
          /\ worker'.old = worker.old /\ worker'.fresh = worker.fresh
          /\ \A r \in Resources : worker'.listed[r] = Gone
      BY <1>2, <1>3 DEF Workers, Nothing
    <2>2. WorkerInv'
      BY <1>1, <1>2, <2>1 DEF WorkerInv
    <2>3. QED
      BY <1>0, <1>1, <1>3, <2>1, <2>2 DEF RequestInv, TypeOK
  <1>4. CASE ReturnError(worker.new) /\ UNCHANGED schemas
    BY <1>0, <1>1, <1>2, <1>4, ErrorStep DEF RequestInv, TypeOK
  <1>5. ASSUME NEW r \in Resources, StoreSchema(r, worker.listed[r]),
               worker' = [worker EXCEPT !.listed[r] = Gone]
        PROVE  RequestInv'
    <2>1. /\ worker.listed \in [Resources -> Contents \cup {Gone}]
          /\ \A s \in Resources : worker.listed[s] \in given'[s] \cup {Gone}
      BY <1>1, <1>2 DEF Workers, RequestInv, WorkerInv
    <2>2. /\ schemas' \in [Resources -> Seq(Contents \cup {Gone})]
          /\ \A s \in Resources : IsLog(schemas'[s], given'[s] \cup {Gone})
      BY <1>0, <1>1, <1>5, <2>1, SchemaStored
    <2>3. /\ [worker.listed EXCEPT ![r] = Gone] \in [Resources -> Contents \cup {Gone}]
          /\ \A s \in Resources : [worker.listed EXCEPT ![r] = Gone][s] \in given'[s] \cup {Gone}
      BY <2>1
    <2>4. /\ worker' \in Workers /\ worker'.pc = worker.pc /\ worker'.new = worker.new
          /\ worker'.old = worker.old /\ worker'.fresh = worker.fresh
          /\ worker'.listed = [worker.listed EXCEPT ![r] = Gone]
      BY <1>2, <1>5, <2>3 DEF Workers
    <2>5. WorkerInv'
      BY <1>1, <1>2, <2>3, <2>4 DEF WorkerInv
    <2>6. QED
      BY <1>0, <1>1, <2>2, <2>4, <2>5 DEF RequestInv, TypeOK
  <1>6. Missing \subseteq Resources
    BY <1>2 DEF Missing, Requests
  <1>7. QED
    BY <1>3, <1>4, <1>5, <1>6 DEF EnsureBoundSchemas

\* The request is accepted or refused; that a request that has succeeded is refused
\* does not happen, because its claims are valid.
LEMMA ValidateRequests == RequestInv /\ ValidateRequest => RequestInv'
  <1> SUFFICES ASSUME RequestInv, ValidateRequest PROVE RequestInv'
    OBVIOUS
  <1>1. TypeOK /\ worker.pc = "validate" /\ UNCHANGED <<catalog, given, request, schemas, export, now, uid>>
    BY DEF RequestInv, ValidateRequest, At, stored
  <1>0. ValidExports' = ValidExports
    BY <1>1, SameGiven
  <1>2. worker \in Workers /\ worker.old \in Requests /\ worker.new \in Requests
        /\ (worker.new.phase = worker.old.phase \/ worker.old.phase = "Pending")
    BY <1>1 DEF RequestInv, TypeOK, WorkerInv
  <1>3. CASE Validate(worker.new) = "valid"
    <2>1. SchemasFound(worker.new) /\ SameScope(worker.new) /\ worker.new.flaw # "claims"
      BY <1>3 DEF Validate
    <2>4. \A r \in worker.new.res : catalog[r] \in given[r]
      BY <1>1, <1>2, <2>1 DEF SchemasFound, TypeOK, Requests
    <2>5. CommonScope(worker.new.res)
      <3>1. CASE {catalog[r] : r \in worker.new.res} \subseteq ClusterScoped
        BY <2>4, <3>1 DEF CommonScope
      <3>2. CASE {catalog[r] : r \in worker.new.res} \cap ClusterScoped = {}
        BY <2>4, <3>2 DEF CommonScope
      <3>3. QED
        BY <2>1, <3>1, <3>2 DEF SameScope, OneScope
    <2>2. Goto("exports")
      BY <1>3 DEF ValidateRequest
    <2>3. QED
      BY <1>0, <1>1, <2>1, <2>2, <2>5, GotoStep DEF RequestInv, TypeOK
  <1>4. CASE Validate(worker.new) = "failed"
    <2>1. PICK q : q = [worker.new EXCEPT !.phase = "Failed"]
      OBVIOUS
    <2>2. q \in Requests /\ q.phase = "Failed"
      BY <1>2, <2>1 DEF Requests, Phases
    <2>3. worker.new.flaw = "claims"
      BY <1>4 DEF Validate
    <2>4. worker.old.phase \in {"Pending", "Failed"}
      BY <1>2, <2>3 DEF Requests, Phases
    <2>5. ReturnError(q)
      BY <1>4, <2>1 DEF ValidateRequest
    <2>6. QED
      BY <1>0, <1>1, <2>2, <2>4, <2>5, ErrorStep DEF RequestInv, TypeOK
  <1>5. CASE Validate(worker.new) \notin {"valid", "failed"}
    <2>1. PICK q : q = [worker.new EXCEPT !.ready = FALSE]
      OBVIOUS
    <2>2. q \in Requests /\ q.phase = worker.new.phase
      BY <1>2, <2>1 DEF Requests
    <2>3. ReturnError(q)
      BY <1>5, <2>1 DEF ValidateRequest
    <2>4. QED
      BY <1>0, <1>1, <1>2, <2>2, <2>3, ErrorStep DEF RequestInv, TypeOK
  <1>6. QED
    BY <1>3, <1>4, <1>5

\* The export is created of a request that has been validated, and decides its phase.
LEMMA ExportsRequest == RequestInv /\ EnsureExports => RequestInv'
  <1> SUFFICES ASSUME RequestInv, EnsureExports PROVE RequestInv'
    OBVIOUS
  <1>1. TypeOK /\ worker.pc = "exports" /\ UNCHANGED <<catalog, given, request, schemas, now, uid>>
    BY DEF RequestInv, EnsureExports, At
  <1>0. ValidExports' = ValidExports
    BY <1>1, SameGiven
  <1>2. worker \in Workers /\ worker.old \in Requests /\ worker.new \in Requests
        /\ (worker.new.phase = worker.old.phase \/ worker.old.phase = "Pending")
        /\ (worker.fresh => Stored(request) = worker.old)
        /\ CommonScope(worker.new.res) /\ worker.new.flaw # "claims"
        /\ \A r \in Resources : worker.listed[r] \in given[r] \cup {Gone}
    BY <1>1 DEF RequestInv, TypeOK, WorkerInv
  <1>3. ASSUME NEW q \in Requests, NEW pc \in {"spaces", "expire"},
               worker' = [worker EXCEPT !.pc = pc, !.new = q],
               q.phase = worker.old.phase \/ worker.old.phase = "Pending"
        PROVE  worker' \in Workers /\ WorkerInv'
    <2>1. /\ worker' \in Workers /\ worker'.pc = pc /\ worker'.new = q
          /\ worker'.old = worker.old /\ worker'.fresh = worker.fresh
          /\ worker'.listed = worker.listed
      BY <1>2, <1>3 DEF Workers
    <2>2. QED
      BY <1>1, <1>2, <1>3, <2>1 DEF WorkerInv
  <1>4. CASE (Goto("expire") \/ Goto("spaces")) /\ UNCHANGED export
    BY <1>0, <1>1, <1>4, GotoStep DEF RequestInv, TypeOK
  <1>5. CASE ReturnError([worker.new EXCEPT !.ready = FALSE]) /\ UNCHANGED export
    <2>1. PICK q : q = [worker.new EXCEPT !.ready = FALSE]
      OBVIOUS
    <2>2. q \in Requests /\ q.phase = worker.new.phase
      BY <1>2, <2>1 DEF Requests
    <2>3. QED
      BY <1>0, <1>1, <1>2, <1>5, <2>1, <2>2, ErrorStep DEF RequestInv, TypeOK
  <1>6. CASE worker' = [worker EXCEPT !.pc = "spaces", !.new.ready = TRUE] /\ UNCHANGED export
    <2>1. PICK q : q = [worker.new EXCEPT !.ready = TRUE]
      OBVIOUS
    <2>2. q \in Requests /\ q.phase = worker.new.phase
      BY <1>2, <2>1 DEF Requests
    <2>3. worker' = [worker EXCEPT !.pc = "spaces", !.new = q]
      BY <1>2, <1>6, <2>1 DEF Workers
    <2>4. QED
      BY <1>0, <1>1, <1>2, <1>3, <1>6, <2>2, <2>3 DEF RequestInv, TypeOK
  <1>7. CASE /\ worker.new.phase = "Pending"
             /\ \A r \in worker.new.res : InStore(schemas[r]) # Gone
             /\ StoreExport(NewExport(worker.new, BoundSchemasSpecHash(CachedSchemas, worker.new.res)))
             /\ worker' = [worker EXCEPT !.pc = "expire", !.new.ready = TRUE,
                             !.new.phase = IF OverAMinute(worker.new) THEN "Failed" ELSE "Succeeded"]
    <2>1. PICK q, p : /\ p = IF OverAMinute(worker.new) THEN "Failed" ELSE "Succeeded"
                      /\ q = [worker.new EXCEPT !.ready = TRUE, !.phase = p]
      OBVIOUS
    <2>2. q \in Requests /\ worker.old.phase = "Pending"
      BY <1>2, <1>7, <2>1 DEF Requests, Phases
    <2>3. worker' = [worker EXCEPT !.pc = "expire", !.new = q]
      BY <1>2, <1>7, <2>1 DEF Workers
    <2>4. PICK h : h = BoundSchemasSpecHash(CachedSchemas, worker.new.res)
      OBVIOUS
    <2>5. h \in [worker.new.res -> Contents] /\ \A r \in worker.new.res : h[r] \in given[r]
      BY <1>1, <1>2, <1>7, <2>4, HashType DEF Requests
    <2>6. NewExport(worker.new, h) \in ValidExports
      BY <1>2, <2>5 DEF NewExport, ValidExports, Requests
    <2>7. IsLog(export', ValidExports \cup {Gone})
      BY <1>1, <1>7, <2>4, <2>6, ExportStored
    <2>8. QED
      BY <1>0, <1>1, <1>3, <2>2, <2>3, <2>7 DEF RequestInv, TypeOK
  <1>8. QED
    BY <1>4, <1>5, <1>6, <1>7 DEF EnsureExports

\* The end of ensureExports, and the namespaces.
LEMMA LateRequest ==
  ASSUME RequestInv, Expire \/ EnsureAPIServiceNamespaces
  PROVE  RequestInv'
  <1>1. TypeOK /\ worker.pc \in {"expire", "spaces"} /\ UNCHANGED <<catalog, given, schemas, export, now, uid>>
    BY DEF RequestInv, Expire, EnsureAPIServiceNamespaces, At
  <1>0. ValidExports' = ValidExports
    BY <1>1, SameGiven
  <1>2. worker \in Workers /\ worker.old \in Requests /\ worker.new \in Requests
        /\ (worker.new.phase = worker.old.phase \/ worker.old.phase = "Pending")
    BY <1>1 DEF RequestInv, TypeOK, WorkerInv
  <1>3. CASE (Goto("spaces") \/ Goto("done")) /\ UNCHANGED request
    BY <1>0, <1>1, <1>3, GotoStep DEF RequestInv, TypeOK
  <1>4. CASE ReturnError(worker.new) /\ UNCHANGED request
    BY <1>0, <1>1, <1>2, <1>4, ErrorStep DEF RequestInv, TypeOK
  <1>5. CASE StoreRequest(Gone) /\ worker' = [worker EXCEPT !.pc = "spaces", !.fresh = FALSE]
    <2>1. IsLog(request', Requests \cup {Gone})
      BY <1>1, <1>5, RequestStored
    <2>2. /\ worker' \in Workers /\ worker'.pc = "spaces" /\ worker'.fresh = FALSE
          /\ worker'.old = worker.old /\ worker'.new = worker.new /\ worker'.listed = worker.listed
      BY <1>2, <1>5 DEF Workers
    <2>3. QED
      BY <1>0, <1>1, <1>2, <2>1, <2>2 DEF RequestInv, TypeOK, WorkerInv
  <1>6. QED
    BY <1>3, <1>4, <1>5 DEF Expire, EnsureAPIServiceNamespaces

\* The status is written over what was read.
LEMMA StatusRequest == RequestInv /\ UpdateStatus => RequestInv'
  <1> SUFFICES ASSUME RequestInv, UpdateStatus PROVE RequestInv'
    OBVIOUS
  <1>1. TypeOK /\ worker.pc # "idle" /\ UNCHANGED <<catalog, given, schemas, export, now, uid>>
    BY DEF RequestInv, UpdateStatus, At
  <1>2. worker' \in Workers /\ WorkerInv'
    BY IdleType DEF UpdateStatus, WorkerInv
  <1>3. IsLog(request', Requests \cup {Gone})
    BY <1>1, RequestStored DEF UpdateStatus, RequestInv, WorkerInv, TypeOK
  <1>4. QED
    BY <1>1, <1>2, <1>3, SameGiven DEF RequestInv, TypeOK

\* The controller of exports leaves resources and claims alone.
LEMMA ExportRequests == RequestInv /\ ReconcileExport => RequestInv'
  <1> SUFFICES ASSUME RequestInv, ReconcileExport PROVE RequestInv'
    OBVIOUS
  <1>1. TypeOK /\ UNCHANGED <<catalog, given, request, schemas, worker, now, uid>>
    BY DEF RequestInv, ReconcileExport
  <1>2. PICK e : e = InStore(export)
    OBVIOUS
  <1>3. e \in ValidExports \cup {Gone}
    BY <1>1, <1>2, LogContents DEF TypeOK
  <1>4. e # Gone => EnsureSchema(e) \in ValidExports
    <2> SUFFICES ASSUME e # Gone PROVE EnsureSchema(e) \in ValidExports
      OBVIOUS
    <2>1. e \in ValidExports /\ \A v \in {"true", "false"} : [e EXCEPT !.inSync = v] \in ValidExports
      BY <1>3 DEF ValidExports
    <2>2. CASE \A r \in e.res : InStore(schemas[r]) # Gone
      <3>1. PICK h : h = BoundSchemasSpecHash(CachedSchemas, e.res)
        OBVIOUS
      <3>2. h \in [e.res -> Contents] /\ \A r \in e.res : h[r] \in given[r]
        BY <1>1, <2>1, <2>2, <3>1, HashType DEF ValidExports
      <3>3. [e EXCEPT !.hash = h] \in ValidExports
        BY <2>1, <3>2 DEF ValidExports
      <3>4. QED
        BY <2>1, <2>2, <3>1, <3>3 DEF EnsureSchema
    <2>3. QED
      BY <2>1, <2>2 DEF EnsureSchema
  <1>5. UNCHANGED export \/ (e # Gone /\ StoreExport(EnsureSchema(e)))
    BY <1>2 DEF ReconcileExport
  <1>6. IsLog(export', ValidExports \cup {Gone})
    BY <1>1, <1>4, <1>5, ExportStored DEF TypeOK
  <1>7. QED
    BY <1>1, <1>6, SameGiven DEF RequestInv, TypeOK, WorkerInv

\* A request to the API server fails, or the backend restarts.
LEMMA FaultsRequest ==
  ASSUME RequestInv, RequestFails \/ Restart
  PROVE  RequestInv'
  <1>1. TypeOK /\ UNCHANGED <<catalog, given, now, uid>>
    BY DEF RequestInv, RequestFails, Restart, Fault
  <1>2. CASE RequestFails
    <2>1. worker' \in Workers /\ WorkerInv'
      <3>1. CASE worker' = Idle
        BY <3>1, IdleType DEF WorkerInv
      <3>2. CASE ReturnError(worker.new)
        <4>1. worker.pc # "idle" /\ UNCHANGED request
          BY <1>2 DEF RequestFails
        <4>2. worker.new \in Requests /\ (worker.new.phase = worker.old.phase \/ worker.old.phase = "Pending")
          BY <4>1 DEF RequestInv, WorkerInv
        <4>3. QED
          BY <1>1, <3>2, <4>1, <4>2, ErrorStep
      <3>3. QED
        BY <1>2, <3>1, <3>2 DEF RequestFails
    <2>2. QED
      BY <1>1, <1>2, <2>1, SameGiven DEF RequestFails, RequestInv, TypeOK
  <1>3. CASE Restart
    <2>1. /\ IsLog(List(request), Requests \cup {Gone}) /\ IsLog(List(export), ValidExports \cup {Gone})
          /\ \A r \in Resources : IsLog(List(schemas[r]), given[r] \cup {Gone})
      BY <1>1, LogList DEF TypeOK
    <2>2. \A r \in Resources : given[r] \cup {Gone} \subseteq Contents \cup {Gone}
      BY <1>1 DEF TypeOK
    <2>3. \A r \in Resources : List(schemas[r]) \in Seq(Contents \cup {Gone})
      BY <2>1, <2>2, LogGrows DEF IsLog
    <2>4. /\ schemas' \in [Resources -> Seq(Contents \cup {Gone})]
          /\ \A r \in Resources : IsLog(schemas'[r], given[r] \cup {Gone})
      BY <1>3, <2>1, <2>3 DEF Restart
    <2>5. worker' \in Workers /\ WorkerInv'
      BY <1>3, IdleType DEF Restart, WorkerInv
    <2>6. QED
      BY <1>1, <1>3, <2>1, <2>4, <2>5, SameGiven DEF Restart, RequestInv, TypeOK
  <1>4. QED
    BY <1>2, <1>3

-----------------------------------------------------------------------------
(* The theorems.                                                           *)

\* Every step preserves the inductive invariant.
LEMMA NextRequest == RequestInv /\ [Next]_vars => RequestInv'
  <1> SUFFICES ASSUME RequestInv, [Next]_vars PROVE RequestInv'
    OBVIOUS
  <1>1. CASE Work
    BY <1>1, ReconcileRequest, SchemasRequest, ValidateRequests, ExportsRequest, LateRequest,
       StatusRequest DEF Work
  <1>2. CASE UNCHANGED vars
    BY <1>2, SameGiven DEF vars, stored, RequestInv, TypeOK, WorkerInv
  <1>3. QED
    BY <1>1, <1>2, UsersRequest, EventsRequest, ExportRequests, FaultsRequest DEF Next

\* Whatever is written, delivered, lost or restarted between two steps of the worker, it
\* decides only what it has read as Pending and exports only what it has validated.
THEOREM RequestInvariant == Spec => []RequestInv
  <1>1. QED
    BY InitRequest, NextRequest, PTL DEF Spec

\* What validate accepts is what is exported, for any resources and catalogs: the
\* resources have had a common scope, so that schemas of one scope each are of the same.
THEOREM ExportsValid == Spec => []ExportsAreValid
  <1>1. RequestInv => ExportsAreValid
    <2> SUFFICES ASSUME RequestInv, Stored(export) # Gone
                 PROVE  /\ Stored(export).flaw # "claims"
                        /\ (\A r \in Stored(export).res : OneScope(given[r]))
                             => OneScope({Stored(export).hash[r] : r \in Stored(export).res})
      BY DEF ExportsAreValid
    <2>1. PICK e : e = Stored(export)
      OBVIOUS
    <2>2. e \in ValidExports
      BY <2>1, LogContents DEF RequestInv, TypeOK
    <2>3. /\ e.flaw # "claims" /\ CommonScope(e.res)
          /\ \A r \in e.res : e.hash[r] \in given[r]
      BY <2>2 DEF ValidExports
    <2>4. ASSUME \A r \in e.res : OneScope(given[r])
          PROVE  OneScope({e.hash[r] : r \in e.res})
      <3>1. CASE \A r \in e.res : given[r] \cap ClusterScoped # {}
        <4>1. \A r \in e.res : given[r] \subseteq ClusterScoped
          BY <2>4, <3>1 DEF OneScope
        <4>2. QED
          BY <2>3, <4>1 DEF OneScope
      <3>2. CASE \A r \in e.res : given[r] \ ClusterScoped # {}
        <4>1. \A r \in e.res : given[r] \cap ClusterScoped = {}
          BY <2>4, <3>2 DEF OneScope
        <4>2. QED
          BY <2>3, <4>1 DEF OneScope
      <3>3. QED
        BY <2>3, <3>1, <3>2 DEF CommonScope
    <2>5. QED
      BY <2>1, <2>3, <2>4
  <1>2. QED
    BY <1>1, RequestInvariant, PTL

\* The phase of a request is decided once, also when the worker goes on with a request
\* that has been written since.
THEOREM PhaseFinal == Spec => PhaseIsFinal
  <1> DEFINE Final ==
        LET q == Stored(request)
            n == Stored(request')
        IN  q # Gone => (n # Gone => (n.uid = q.uid /\ q.phase # "Pending" => n.phase = q.phase))
  <1>1. RequestInv /\ [Next]_vars => [Final]_vars
    <2> SUFFICES ASSUME RequestInv, Next, Stored(request) # Gone, Stored(request') # Gone,
                        Stored(request).phase # "Pending"
                 PROVE  Stored(request').phase = Stored(request).phase
      BY DEF vars
    <2>1. TypeOK
      BY DEF RequestInv
    <2>2. CASE Stored(request') = Stored(request)
      BY <2>2
    <2>3. CASE UNCHANGED request
      BY <2>3
    <2>4. CASE DeliverRequest \/ Restart
      <3>1. request' = List(request) \/ (request' = Event(request) /\ ~InSync(request))
        BY <2>4 DEF DeliverRequest, Restart
      <3>2. Stored(request') = Stored(request)
        BY <2>1, <3>1, LogEvent, LogList DEF TypeOK
      <3>3. QED
        BY <3>2
    <2>5. CASE RequestWritten \/ Expire
      <3>1. StoreRequest(Gone) \/ UNCHANGED request
        BY <2>5 DEF RequestWritten, Expire
      <3>2. StoreRequest(Gone) => Stored(request') = Gone
        BY <2>1, RequestStored
      <3>3. QED
        BY <3>1, <3>2
    <2>6. CASE UpdateStatus
      <3>1. UNCHANGED request \/ (worker.fresh /\ StoreRequest(worker.new))
        BY <2>6 DEF UpdateStatus, AtVersion
      <3>2. CASE worker.fresh /\ StoreRequest(worker.new)
        <4>1. worker.pc # "idle"
          BY <2>6 DEF UpdateStatus
        <4>2. /\ worker.new \in Requests /\ Stored(request) = worker.old
              /\ worker.new.phase = worker.old.phase \/ worker.old.phase = "Pending"
          BY <3>2, <4>1 DEF RequestInv, WorkerInv
        <4>3. Stored(request') = worker.new
          BY <2>1, <3>2, <4>2, RequestStored
        <4>4. QED
          BY <4>2, <4>3
      <3>3. QED
        BY <2>3, <3>1, <3>2
    <2>7. QED
      BY <2>3, <2>4, <2>5, <2>6 DEF Next, Work, CatalogWritten, ProviderWrites, Tick, stored,
         DeliverExport, DeliverSchema, Reconcile, EnsureBoundSchemas, ValidateRequest,
         EnsureExports, EnsureAPIServiceNamespaces, ReconcileExport, RequestFails
  <1>2. QED
    BY <1>1, RequestInvariant, PTL DEF Spec, PhaseIsFinal
=============================================================================
