-------------------------- MODULE ExportSync_proofs --------------------------
(***************************************************************************)
(* Proofs that the store of contexts holds exactly the controllers that    *)
(* have not been told to stop, for any number of exports, schemas and      *)
(* claims, whatever the names of the exports and of the schemas are.       *)
(***************************************************************************)
EXTENDS ExportSync, Watch_proofs

\* The part of the invariant about the store and the contexts.
Registry ==
  /\ store \in [Exports -> [Items -> 0 .. MaxContexts]]
  /\ contexts \in [ContextIds -> Context]
  /\ NoStrayControllers
  /\ \A c \in ContextIds : contexts[c].state = "cancelled" => contexts[c].item \in Claims

\* The part about the API objects.
ApiTypes ==
  /\ exports = [e \in Exports |-> exports[e]]
  /\ \A e \in Exports : IsWatched(exports[e], Export)
  /\ bindings = [e \in Exports |-> bindings[e]]
  /\ \A e \in Exports : IsWatched(bindings[e], Binding)
  /\ bound \in SUBSET Schemas

WorkTypes ==
  /\ queue \in SUBSET Exports
  /\ work \in [Exports -> [pc: {"idle", "binding", "schemas", "claims", "commit"},
                           export: Export, at: Nat, todo: SUBSET Items,
                           claims: SUBSET Claims, processed: SUBSET Schemas,
                           failed: BOOLEAN]]

BudgetTypes == changes \in 0 .. MaxChanges /\ faults \in 0 .. MaxFaults

\* The inductive invariant is made of these parts.
LEMMA Parts == StoreInv <=> Registry /\ ApiTypes /\ WorkTypes /\ BudgetTypes
  BY DEF StoreInv, TypeOK, Registry, ApiTypes, WorkTypes, BudgetTypes

\* So it is after a step.
LEMMA PartsNext ==
  ASSUME Registry', ApiTypes', WorkTypes', BudgetTypes'
  PROVE  StoreInv'
  BY DEF StoreInv, TypeOK, Registry, ApiTypes, WorkTypes, BudgetTypes

-----------------------------------------------------------------------------
(* The store and the contexts.                                             *)

\* The value that stands for no context is a context.
LEMMA NoContextType == NoContext \in Context /\ NoContext.state = "none"
  <1>1. \E e \in Exports : TRUE
    BY ExportSyncAssumption
  <1>2. \E i \in Items : TRUE
    BY ExportSyncAssumption DEF Items
  <1>3. (CHOOSE e \in Exports : TRUE) \in Exports /\ (CHOOSE i \in Items : TRUE) \in Items
    BY <1>1, <1>2
  <1>4. QED
    BY <1>3 DEF NoContext, Context

\* Cancelling leaves the contexts outside of the set as they are, and none in it
\* runs any more.
LEMMA CancelledLemma ==
  ASSUME Registry, NEW C \in SUBSET ContextIds
  PROVE  /\ Cancelled(C) \in [ContextIds -> Context]
         /\ \A c \in ContextIds \ C : Cancelled(C)[c] = contexts[c]
         /\ \A c \in C : /\ Cancelled(C)[c].state # "running"
                         /\ Cancelled(C)[c].state = "cancelled" =>
                              Cancelled(C)[c].item \in Claims
  <1>1. ASSUME NEW c \in C
        PROVE  /\ Cancelled(C)[c] \in Context
               /\ Cancelled(C)[c].state # "running"
               /\ Cancelled(C)[c].state = "cancelled" => Cancelled(C)[c].item \in Claims
    <2>1. contexts[c] \in Context /\ c \in ContextIds
      BY <1>1 DEF Registry
    <2>2. CASE contexts[c].item \in Claims
      <3>1. Cancelled(C)[c] = [contexts[c] EXCEPT !.state = "cancelled"]
        BY <2>1, <2>2 DEF Cancelled
      <3>2. QED
        BY <2>1, <2>2, <3>1 DEF Context
    <2>3. CASE contexts[c].item \notin Claims
      <3>1. Cancelled(C)[c] = NoContext
        BY <2>1, <2>3 DEF Cancelled
      <3>2. QED
        BY <3>1, NoContextType
    <2>4. QED
      BY <2>2, <2>3
  <1>2. ASSUME NEW c \in ContextIds \ C
        PROVE  Cancelled(C)[c] = contexts[c]
    BY <1>2 DEF Cancelled
  <1>3. \A c \in ContextIds : Cancelled(C)[c] \in Context
    BY <1>1, <1>2 DEF Registry
  <1>4. DOMAIN Cancelled(C) = ContextIds /\ Cancelled(C) = [c \in ContextIds |-> Cancelled(C)[c]]
    BY DEF Cancelled
  <1>5. Cancelled(C) \in [ContextIds -> Context]
    BY <1>3, <1>4
  <1>6. QED
    BY <1>1, <1>2, <1>5

\* The keys of the contexts under some keys are among these keys.
LEMMA UnderLemma ==
  ASSUME Registry, NEW keys \in SUBSET (Exports \X Items)
  PROVE  /\ Under(keys) \in SUBSET ContextIds
         /\ \A e \in Exports, i \in Items :
              store[e][i] # 0 =>
                /\ store[e][i] \in ContextIds
                /\ store[e][i] \in Under(keys) <=> <<e, i>> \in keys
  <1>1. Under(keys) \in SUBSET ContextIds
    BY DEF Under
  <1>2. ASSUME NEW e \in Exports, NEW i \in Items, store[e][i] # 0
        PROVE  /\ store[e][i] \in ContextIds
               /\ store[e][i] \in Under(keys) <=> <<e, i>> \in keys
    <2>1. store[e][i] \in ContextIds
      BY <1>2, ExportSyncAssumption DEF Registry, ContextIds
    <2>2. ASSUME <<e, i>> \in keys
          PROVE  store[e][i] \in Under(keys)
      BY <2>1, <2>2 DEF Under
    <2>3. ASSUME store[e][i] \in Under(keys)
          PROVE  <<e, i>> \in keys
      <3>1. PICK k \in keys : store[k[1]][k[2]] = store[e][i]
        BY <2>3 DEF Under
      <3>2. k[1] \in Exports /\ k[2] \in Items /\ k = <<k[1], k[2]>>
        OBVIOUS
      <3>3. contexts[store[e][i]].export = e /\ contexts[store[e][i]].item = i
        BY <1>2 DEF Registry, NoStrayControllers
      <3>4. /\ contexts[store[k[1]][k[2]]].export = k[1]
            /\ contexts[store[k[1]][k[2]]].item = k[2]
        BY <1>2, <3>1, <3>2 DEF Registry, NoStrayControllers
      <3>5. QED
        BY <3>1, <3>2, <3>3, <3>4
    <2>4. QED
      BY <2>1, <2>2, <2>3
  <1>3. QED
    BY <1>1, <1>2

\* Deleting keys stops what is under them and nothing else.
LEMMA DeleteKeysStep ==
  ASSUME Registry, NEW keys \in SUBSET (Exports \X Items), DeleteKeys(keys)
  PROVE  Registry'
  <1> DEFINE C == Under(keys)
  <1>1. store' = Without(keys) /\ contexts' = Cancelled(C)
    BY DEF DeleteKeys
  <1>2. \A e \in Exports, i \in Items :
          store'[e][i] = IF <<e, i>> \in keys THEN 0 ELSE store[e][i]
    BY <1>1 DEF Without
  <1>3. store' \in [Exports -> [Items -> 0 .. MaxContexts]]
    BY <1>1, ExportSyncAssumption DEF Without, Registry
  <1>4. C \in SUBSET ContextIds
    BY UnderLemma
  <1>5. /\ contexts' \in [ContextIds -> Context]
        /\ \A c \in ContextIds \ C : contexts'[c] = contexts[c]
        /\ \A c \in C : /\ contexts'[c].state # "running"
                        /\ contexts'[c].state = "cancelled" => contexts'[c].item \in Claims
    BY <1>1, <1>4, CancelledLemma
  <1> HIDE DEF C
  <1>6. ASSUME NEW c \in ContextIds, contexts'[c].state = "running"
        PROVE  store'[contexts'[c].export][contexts'[c].item] = c
    <2>1. c \notin C /\ contexts'[c] = contexts[c]
      BY <1>5, <1>6
    <2>2. contexts[c].export \in Exports /\ contexts[c].item \in Items
      BY DEF Registry, Context
    <2>3. store[contexts[c].export][contexts[c].item] = c /\ c # 0
      BY <1>6, <2>1 DEF Registry, NoStrayControllers, ContextIds
    <2>4. <<contexts[c].export, contexts[c].item>> \notin keys
      BY <2>1, <2>2, <2>3, UnderLemma DEF C
    <2>5. QED
      BY <1>2, <2>1, <2>2, <2>3, <2>4
  <1>7. ASSUME NEW e \in Exports, NEW i \in Items, store'[e][i] # 0
        PROVE  /\ contexts'[store'[e][i]].state = "running"
               /\ contexts'[store'[e][i]].export = e
               /\ contexts'[store'[e][i]].item = i
    <2>1. <<e, i>> \notin keys /\ store'[e][i] = store[e][i]
      BY <1>2, <1>7
    <2>2. store[e][i] \in ContextIds \ C
      BY <1>7, <2>1, UnderLemma DEF C
    <2>3. QED
      BY <1>5, <1>7, <2>1, <2>2 DEF Registry, NoStrayControllers
  <1>8. NoStrayControllers'
    BY <1>6, <1>7 DEF NoStrayControllers
  <1>9. \A c \in ContextIds : contexts'[c].state = "cancelled" => contexts'[c].item \in Claims
    BY <1>5 DEF Registry
  <1>10. QED
    BY <1>3, <1>5, <1>8, <1>9 DEF Registry

\* New controllers under a key are the only ones that run for it.
LEMMA SetStep ==
  ASSUME Registry, NEW e \in Exports, NEW i \in Items, NEW x \in Export, Set(e, i, x)
  PROVE  Registry'
  <1> DEFINE keys == {<<e, i>>}
             C == Under(keys)
             f == CHOOSE d \in Free : TRUE
             new == [state |-> "running", export |-> e, item |-> i, gen |-> x.gen]
  <1>1. /\ Free # {}
        /\ store' = [store EXCEPT ![e][i] = f]
        /\ contexts' = [Cancelled(C) EXCEPT ![f] = new]
    BY DEF Set
  <1>2. f \in ContextIds /\ f # 0 /\ contexts[f].state = "none"
    <2>1. \E d \in Free : TRUE
      BY <1>1
    <2>2. f \in Free
      BY <2>1
    <2> HIDE DEF f
    <2>3. QED
      BY <2>2 DEF Free, ContextIds
  <1>3. new \in Context /\ new.state = "running" /\ new.export = e /\ new.item = i
    BY DEF Context, Export
  <1>4. keys \in SUBSET (Exports \X Items) /\ C \in SUBSET ContextIds
    BY UnderLemma
  <1>5. /\ Cancelled(C) \in [ContextIds -> Context]
        /\ \A c \in ContextIds \ C : Cancelled(C)[c] = contexts[c]
        /\ \A c \in C : /\ Cancelled(C)[c].state # "running"
                        /\ Cancelled(C)[c].state = "cancelled" =>
                             Cancelled(C)[c].item \in Claims
    BY <1>4, CancelledLemma
  <1> HIDE DEF f, new
  <1>6. /\ contexts' \in [ContextIds -> Context]
        /\ contexts'[f] = new
        /\ \A c \in ContextIds : c # f => contexts'[c] = Cancelled(C)[c]
    BY <1>1, <1>2, <1>3, <1>5
  <1>7. /\ store' \in [Exports -> [Items -> 0 .. MaxContexts]]
        /\ store'[e][i] = f
        /\ \A a \in Exports, j \in Items : <<a, j>> # <<e, i>> => store'[a][j] = store[a][j]
    BY <1>1, <1>2, ExportSyncAssumption DEF Registry, ContextIds
  <1>8. ASSUME NEW c \in ContextIds, contexts'[c].state = "running"
        PROVE  store'[contexts'[c].export][contexts'[c].item] = c
    <2>1. CASE c = f
      BY <1>3, <1>6, <1>7, <2>1
    <2>2. CASE c # f
      <3>1. c \notin C /\ contexts'[c] = contexts[c]
        BY <1>5, <1>6, <1>8, <2>2
      <3>2. contexts[c].export \in Exports /\ contexts[c].item \in Items
        BY DEF Registry, Context
      <3>3. store[contexts[c].export][contexts[c].item] = c /\ c # 0
        BY <1>8, <3>1 DEF Registry, NoStrayControllers, ContextIds
      <3>4. <<contexts[c].export, contexts[c].item>> # <<e, i>>
        BY <1>4, <3>1, <3>2, <3>3, UnderLemma
      <3>5. QED
        BY <1>7, <3>1, <3>2, <3>3, <3>4
    <2>3. QED
      BY <2>1, <2>2
  <1>9. ASSUME NEW a \in Exports, NEW j \in Items, store'[a][j] # 0
        PROVE  /\ contexts'[store'[a][j]].state = "running"
               /\ contexts'[store'[a][j]].export = a
               /\ contexts'[store'[a][j]].item = j
    <2>1. CASE <<a, j>> = <<e, i>>
      BY <1>3, <1>6, <1>7, <2>1
    <2>2. CASE <<a, j>> # <<e, i>>
      <3>1. store'[a][j] = store[a][j]
        BY <1>7, <2>2
      <3>2. store[a][j] \in ContextIds \ C
        BY <1>4, <1>9, <2>2, <3>1, UnderLemma
      <3>3. /\ contexts[store[a][j]].state = "running"
            /\ contexts[store[a][j]].export = a
            /\ contexts[store[a][j]].item = j
        BY <1>9, <3>1 DEF Registry, NoStrayControllers
      <3>4. store[a][j] # f
        BY <1>2, <3>3
      <3>5. QED
        BY <1>5, <1>6, <3>1, <3>2, <3>3, <3>4
    <2>3. QED
      BY <2>1, <2>2
  <1>10. NoStrayControllers'
    BY <1>8, <1>9 DEF NoStrayControllers
  <1>11. ASSUME NEW c \in ContextIds, contexts'[c].state = "cancelled"
         PROVE  contexts'[c].item \in Claims
    <2>1. c # f /\ contexts'[c] = Cancelled(C)[c]
      BY <1>3, <1>6, <1>11
    <2>2. CASE c \in C
      BY <1>5, <1>11, <2>1, <2>2
    <2>3. CASE c \notin C
      BY <1>5, <1>11, <2>1, <2>3 DEF Registry
    <2>4. QED
      BY <2>2, <2>3
  <1>12. QED
    BY <1>6, <1>7, <1>10, <1>11 DEF Registry

\* The goroutine of a claim that ends stops what is under its key by then.
LEMMA ClaimEndsRegistry ==
  ASSUME Registry, NEW c \in ContextIds, ClaimEnds(c)
  PROVE  Registry'
  <1> DEFINE keys == {<<contexts[c].export, contexts[c].item>>}
             C == Under(keys)
             K == Cancelled(C)
  <1>1. /\ contexts[c].state = "cancelled"
        /\ store' = Without(keys)
        /\ contexts' = [K EXCEPT ![c] = NoContext]
    BY DEF ClaimEnds
  <1>2. keys \in SUBSET (Exports \X Items)
    BY DEF Registry, Context
  <1>3. C \in SUBSET ContextIds
    BY <1>2, UnderLemma
  <1>4. /\ K \in [ContextIds -> Context]
        /\ \A d \in ContextIds \ C : K[d] = contexts[d]
        /\ \A d \in C : /\ K[d].state # "running"
                        /\ K[d].state = "cancelled" => K[d].item \in Claims
    BY <1>3, CancelledLemma
  <1>5. \A e \in Exports, i \in Items :
          store'[e][i] = IF <<e, i>> \in keys THEN 0 ELSE store[e][i]
    BY <1>1 DEF Without
  <1>6. store' \in [Exports -> [Items -> 0 .. MaxContexts]]
    BY <1>1, ExportSyncAssumption DEF Without, Registry
  <1> HIDE DEF K
  <1>7. /\ contexts' \in [ContextIds -> Context]
        /\ contexts'[c].state = "none"
        /\ \A d \in ContextIds : d # c => contexts'[d] = K[d]
    BY <1>1, <1>4, NoContextType
  <1>8. ASSUME NEW d \in ContextIds, contexts'[d].state = "running"
        PROVE  store'[contexts'[d].export][contexts'[d].item] = d
    <2>1. d # c /\ d \notin C /\ contexts'[d] = contexts[d]
      BY <1>4, <1>7, <1>8
    <2>2. contexts[d].export \in Exports /\ contexts[d].item \in Items
      BY DEF Registry, Context
    <2>3. store[contexts[d].export][contexts[d].item] = d /\ d # 0
      BY <1>8, <2>1 DEF Registry, NoStrayControllers, ContextIds
    <2>4. <<contexts[d].export, contexts[d].item>> \notin keys
      BY <1>2, <2>1, <2>2, <2>3, UnderLemma
    <2>5. QED
      BY <1>5, <2>1, <2>2, <2>3, <2>4
  <1>9. ASSUME NEW e \in Exports, NEW i \in Items, store'[e][i] # 0
        PROVE  /\ contexts'[store'[e][i]].state = "running"
               /\ contexts'[store'[e][i]].export = e
               /\ contexts'[store'[e][i]].item = i
    <2>1. <<e, i>> \notin keys /\ store'[e][i] = store[e][i]
      BY <1>5, <1>9
    <2>2. store[e][i] \in ContextIds \ C
      BY <1>2, <1>9, <2>1, UnderLemma
    <2>3. /\ contexts[store[e][i]].state = "running"
          /\ contexts[store[e][i]].export = e
          /\ contexts[store[e][i]].item = i
      BY <1>9, <2>1 DEF Registry, NoStrayControllers
    <2>4. store[e][i] # c
      BY <1>1, <2>3
    <2>5. QED
      BY <1>4, <1>7, <2>1, <2>2, <2>3, <2>4
  <1>10. NoStrayControllers'
    BY <1>8, <1>9 DEF NoStrayControllers
  <1>11. ASSUME NEW d \in ContextIds, contexts'[d].state = "cancelled"
         PROVE  contexts'[d].item \in Claims
    <2>1. d # c /\ contexts'[d] = K[d]
      BY <1>7, <1>11
    <2>2. CASE d \in C
      BY <1>4, <1>11, <2>1, <2>2
    <2>3. CASE d \notin C
      BY <1>4, <1>11, <2>1, <2>3 DEF Registry
    <2>4. QED
      BY <2>2, <2>3
  <1>12. QED
    BY <1>6, <1>7, <1>10, <1>11 DEF Registry

\* Steps that leave the store and the contexts alone.
LEMMA RegistryFrame ==
  ASSUME Registry, UNCHANGED running
  PROVE  Registry'
  BY DEF Registry, NoStrayControllers, running

-----------------------------------------------------------------------------
(* The API objects and the informers.                                      *)

\* The contents that are written have their types.
LEMMA ContentTypes ==
  /\ NoExport \in Export
  /\ \A r \in SUBSET Schemas : NewExport(r) \in Export
  /\ NoBinding \in Binding
  /\ \A c \in SUBSET Claims : Bound(c) \in Binding
  BY DEF NoExport, NewExport, NoBinding, Bound, Export, Binding

\* What users and other controllers write keeps the invariant.
LEMMA SetExportStep ==
  ASSUME StoreInv, NEW e \in Exports, NEW x \in Export, SetExport(e, x)
  PROVE  StoreInv'
  <1>1. Registry /\ ApiTypes /\ WorkTypes /\ BudgetTypes
    BY Parts
  <1>2. /\ exports' = [exports EXCEPT ![e] = Write(exports[e], x)]
        /\ UNCHANGED <<bindings, bound, queue, work, store, contexts, faults>>
        /\ changes' \in 0 .. MaxChanges
    BY <1>1, ExportSyncAssumption DEF SetExport, Change, running, BudgetTypes
  <1>3. IsWatched(Write(exports[e], x), Export)
    BY <1>1, WriteLemma DEF ApiTypes
  <1>4. ApiTypes'
    BY <1>1, <1>2, <1>3 DEF ApiTypes
  <1>5. Registry' /\ WorkTypes' /\ BudgetTypes'
    BY <1>1, <1>2, RegistryFrame DEF running, WorkTypes, BudgetTypes
  <1>6. QED
    BY <1>4, <1>5, PartsNext

LEMMA SetBindingStep ==
  ASSUME StoreInv, NEW e \in Exports, NEW b \in Binding, SetBinding(e, b)
  PROVE  StoreInv'
  <1>1. Registry /\ ApiTypes /\ WorkTypes /\ BudgetTypes
    BY Parts
  <1>2. /\ bindings' = [bindings EXCEPT ![e] = Write(bindings[e], b)]
        /\ UNCHANGED <<exports, bound, queue, work, store, contexts, faults>>
        /\ changes' \in 0 .. MaxChanges
    BY <1>1, ExportSyncAssumption DEF SetBinding, Change, running, BudgetTypes
  <1>3. IsWatched(Write(bindings[e], b), Binding)
    BY <1>1, WriteLemma DEF ApiTypes
  <1>4. ApiTypes'
    BY <1>1, <1>2, <1>3 DEF ApiTypes
  <1>5. Registry' /\ WorkTypes' /\ BudgetTypes'
    BY <1>1, <1>2, RegistryFrame DEF running, WorkTypes, BudgetTypes
  <1>6. QED
    BY <1>4, <1>5, PartsNext

\* The users' actions.
LEMMA UserStep ==
  ASSUME StoreInv, NEW e \in Exports,
         \/ \E r \in SUBSET Schemas \ {{}} : CreateExport(e, r)
         \/ EditExport(e) \/ DeleteExport(e) \/ Bind(e) \/ Unbind(e) \/ AcceptClaims(e)
  PROVE  StoreInv'
  <1>1. Live(exports[e]) \in Export /\ Live(bindings[e]) \in Binding
    BY ContentsLemma, Parts DEF ApiTypes
  <1>2. ASSUME NEW r \in SUBSET Schemas, CreateExport(e, r)
        PROVE  StoreInv'
    BY <1>2, ContentTypes, SetExportStep DEF CreateExport
  <1>3. CASE EditExport(e)
    <2>1. [Live(exports[e]) EXCEPT !.gen = @ + 1] \in Export
      BY <1>1 DEF Export
    <2>2. QED
      BY <1>3, <2>1, SetExportStep DEF EditExport
  <1>4. CASE DeleteExport(e)
    BY <1>4, ContentTypes, SetExportStep DEF DeleteExport
  <1>5. CASE Bind(e)
    BY <1>5, ContentTypes, SetBindingStep DEF Bind
  <1>6. CASE Unbind(e)
    BY <1>6, ContentTypes, SetBindingStep DEF Unbind
  <1>7. CASE AcceptClaims(e)
    <2>1. [Live(bindings[e]) EXCEPT !.claims = Claims] \in Binding
      BY <1>1 DEF Binding
    <2>2. QED
      BY <1>7, <2>1, SetBindingStep DEF AcceptClaims
  <1>8. QED
    BY <1>2, <1>3, <1>4, <1>5, <1>6, <1>7

\* A BoundSchema comes or goes; a CustomResourceDefinition changes.
LEMMA SchemaStep ==
  ASSUME StoreInv, NEW s \in Schemas, SetSchema(s) \/ CRDEvent(s)
  PROVE  StoreInv'
  <1>1. Registry /\ ApiTypes /\ WorkTypes /\ BudgetTypes
    BY Parts
  <1>2. /\ UNCHANGED <<exports, bindings, work, store, contexts, faults>>
        /\ bound' \in SUBSET Schemas /\ queue' \in SUBSET Exports
        /\ changes' \in 0 .. MaxChanges
    BY <1>1, ExportSyncAssumption
       DEF SetSchema, CRDEvent, ExportsByBoundSchema, Change, api, running, ApiTypes, WorkTypes, BudgetTypes
  <1>3. QED
    BY <1>1, <1>2, RegistryFrame, PartsNext DEF running, ApiTypes, WorkTypes, BudgetTypes

\* The informers' actions.
LEMMA InformerStep ==
  ASSUME StoreInv, NEW e \in Exports,
         DeliverExport(e) \/ DeliverBinding(e) \/ MissDeletion(e) \/ Resync(e)
  PROVE  StoreInv'
  <1>1. Registry /\ ApiTypes /\ WorkTypes /\ BudgetTypes
    BY Parts
  <1>2. /\ UNCHANGED <<bound, work, store, contexts, changes>>
        /\ queue' \in SUBSET Exports
        /\ faults' \in 0 .. MaxFaults
    BY <1>1, ExportSyncAssumption
       DEF DeliverExport, DeliverBinding, MissDeletion, Resync, api, running, budgets,
           WorkTypes, BudgetTypes
  <1>3. ApiTypes'
    <2>1. CASE DeliverExport(e)
      <3>1. IsWatched(Deliver(exports[e]), Export)
        BY <1>1, <2>1, DeliverLemma DEF ApiTypes, DeliverExport
      <3>2. QED
        BY <1>1, <2>1, <3>1 DEF ApiTypes, DeliverExport
    <2>2. CASE DeliverBinding(e) \/ MissDeletion(e)
      <3>1. IsWatched(Deliver(bindings[e]), Binding)
        BY <1>1, <2>2, DeliverLemma DEF ApiTypes, DeliverBinding, MissDeletion
      <3>2. QED
        BY <1>1, <2>2, <3>1 DEF ApiTypes, DeliverBinding, MissDeletion
    <2>3. CASE Resync(e)
      BY <1>1, <2>3 DEF ApiTypes, Resync, api
    <2>4. QED
      BY <2>1, <2>2, <2>3
  <1>4. QED
    BY <1>1, <1>2, <1>3, RegistryFrame, PartsNext DEF running, WorkTypes, BudgetTypes

-----------------------------------------------------------------------------
(* The workers.                                                            *)

\* What a worker keeps about the export that it works on.
WorkItem == [pc: {"idle", "binding", "schemas", "claims", "commit"},
             export: Export, at: Nat, todo: SUBSET Items,
             claims: SUBSET Claims, processed: SUBSET Schemas, failed: BOOLEAN]

\* A worker's step changes its own state and the store.
LEMMA WorkerFrame ==
  ASSUME StoreInv, NEW e \in Exports, NEW w \in WorkItem, work' = [work EXCEPT ![e] = w],
         UNCHANGED <<api, queue, changes>>, faults' \in 0 .. MaxFaults, Registry'
  PROVE  StoreInv'
  <1>1. ApiTypes /\ WorkTypes /\ BudgetTypes
    BY Parts
  <1>2. work' \in [Exports -> WorkItem]
    BY <1>1 DEF WorkTypes, WorkItem
  <1>3. ApiTypes' /\ WorkTypes' /\ BudgetTypes'
    BY <1>1, <1>2 DEF api, ApiTypes, WorkTypes, BudgetTypes, WorkItem
  <1>4. QED
    BY <1>3, PartsNext

\* The types of what a worker's step uses.
LEMMA WorkerTypes ==
  ASSUME StoreInv, NEW e \in Exports
  PROVE  /\ Registry
         /\ work \in [Exports -> WorkItem]
         /\ work[e] \in WorkItem
         /\ work[e].export \in Export
         /\ Cached(exports[e]) \in Export
         /\ Cached(bindings[e]) \in Binding
         /\ exports[e].seen \in Nat
         /\ faults \in 0 .. MaxFaults
  <1>1. Registry /\ ApiTypes /\ WorkTypes /\ BudgetTypes
    BY Parts
  <1>2. work \in [Exports -> WorkItem] /\ work[e] \in WorkItem
    BY <1>1 DEF WorkTypes, WorkItem
  <1>3. work[e].export \in Export
    BY <1>2 DEF WorkItem
  <1>4. QED
    BY <1>1, <1>2, <1>3, ContentsLemma DEF ApiTypes, BudgetTypes

\* A worker takes a key.
LEMMA GetStep ==
  ASSUME StoreInv, NEW e \in Exports, Get(e)
  PROVE  StoreInv'
  <1> DEFINE w == [Idle EXCEPT !.pc = "binding", !.export = Cached(exports[e]),
                               !.at = exports[e].seen]
  <1>1. /\ queue' = queue \ {e} /\ work' = [work EXCEPT ![e] = w]
        /\ UNCHANGED <<exports, bindings, bound, store, contexts, changes, faults>>
    BY DEF Get, api, running, budgets
  <1>2. w \in WorkItem
    BY WorkerTypes DEF WorkItem, Idle
  <1>3. Registry /\ ApiTypes /\ WorkTypes /\ BudgetTypes
    BY Parts
  <1> HIDE DEF w
  <1>4. work' \in [Exports -> WorkItem]
    BY <1>1, <1>2, WorkerTypes
  <1>5. WorkTypes'
    BY <1>1, <1>3, <1>4 DEF WorkTypes, WorkItem
  <1>6. Registry' /\ ApiTypes' /\ BudgetTypes'
    BY <1>1, <1>3, RegistryFrame DEF running, ApiTypes, BudgetTypes
  <1>7. QED
    BY <1>5, <1>6, PartsNext

\* Everything under an export's prefix is stopped.
LEMMA StopStep ==
  ASSUME StoreInv, NEW e \in Exports, Stop(e)
  PROVE  StoreInv'
  <1> DEFINE w == IF work[e].export.alive THEN [work[e] EXCEPT !.pc = "commit"] ELSE Idle
  <1>1. /\ DeleteKeys(Prefixed(e)) /\ work' = [work EXCEPT ![e] = w]
        /\ UNCHANGED <<api, queue, changes, faults>>
    BY DEF Stop, Working, budgets
  <1>2. Idle \in WorkItem
    BY ContentTypes DEF WorkItem, Idle
  <1>3. w \in WorkItem
    BY <1>2, WorkerTypes DEF WorkItem
  <1>4. Prefixed(e) \in SUBSET (Exports \X Items)
    BY ExportSyncAssumption DEF Prefixed
  <1>5. Registry'
    BY <1>1, <1>4, DeleteKeysStep, WorkerTypes
  <1> HIDE DEF w
  <1>6. QED
    BY <1>1, <1>3, <1>5, WorkerTypes, WorkerFrame

\* The binding is read, and the claims are come to.
LEMMA PhaseStep ==
  ASSUME StoreInv, NEW e \in Exports, GetBinding(e) \/ GoToClaims(e)
  PROVE  StoreInv'
  <1>1. Registry' /\ UNCHANGED <<api, queue, changes, faults>>
    BY RegistryFrame, WorkerTypes DEF GetBinding, GoToClaims, Working, budgets
  <1>2. CASE GetBinding(e)
    <2> DEFINE w == [work[e] EXCEPT !.pc = "schemas", !.todo = work[e].export.resources,
                                    !.claims = Cached(bindings[e]).claims]
    <2>1. w \in WorkItem
      BY WorkerTypes DEF WorkItem, Export, Binding, Items
    <2>2. work' = [work EXCEPT ![e] = w]
      BY <1>2, WorkerTypes DEF GetBinding, WorkItem
    <2> HIDE DEF w
    <2>3. QED
      BY <1>1, <2>1, <2>2, WorkerTypes, WorkerFrame
  <1>3. CASE GoToClaims(e)
    <2> DEFINE w == [work[e] EXCEPT !.pc = "claims", !.todo = work[e].claims]
    <2>1. w \in WorkItem
      BY WorkerTypes DEF WorkItem, Items
    <2>2. work' = [work EXCEPT ![e] = w]
      BY <1>3, WorkerTypes DEF GoToClaims, WorkItem
    <2> HIDE DEF w
    <2>3. QED
      BY <1>1, <2>1, <2>2, WorkerTypes, WorkerFrame
  <1>4. QED
    BY <1>2, <1>3

\* What a worker notes about a schema that it has processed.
LEMMA ProcessedLemma ==
  ASSUME StoreInv, NEW e \in Exports, NEW s \in Schemas, NEW ok \in BOOLEAN,
         NEW failed \in BOOLEAN, Processed(e, s, ok, failed)
  PROVE  \E w \in WorkItem : work' = [work EXCEPT ![e] = w]
  <1> DEFINE w == [work[e] EXCEPT !.todo = @ \ {s},
                                  !.processed = IF ok THEN @ \cup {s} ELSE @,
                                  !.failed = @ \/ failed]
  <1>1. work[e].failed \in BOOLEAN
    BY WorkerTypes DEF WorkItem
  <1>2. (work[e].failed \/ failed) \in BOOLEAN
    BY <1>1
  <1>3. w \in WorkItem
    BY <1>2, WorkerTypes DEF WorkItem
  <1>4. work' = [work EXCEPT ![e] = w]
    BY WorkerTypes DEF Processed, WorkItem
  <1>5. QED
    BY <1>3, <1>4

\* The schemas of an export.
LEMMA SchemaWorkStep ==
  ASSUME StoreInv, NEW e \in Exports, NEW s \in Schemas,
         MissSchema(e, s) \/ EnsureSchema(e, s) \/ SchemaError(e, s)
  PROVE  StoreInv'
  <1>1. UNCHANGED <<api, queue, changes>> /\ faults' \in 0 .. MaxFaults
    <2>1. CASE MissSchema(e, s) \/ EnsureSchema(e, s)
      <3>1. UNCHANGED <<api, queue, changes, faults>>
        BY <2>1 DEF MissSchema, EnsureSchema, Working, budgets
      <3>2. QED
        BY <3>1, WorkerTypes
    <2>2. CASE SchemaError(e, s)
      <3>1. /\ UNCHANGED <<api, queue, changes>>
            /\ faults < MaxFaults /\ faults' = faults + 1
        BY <2>2 DEF SchemaError
      <3>2. faults' \in 0 .. MaxFaults
        BY <3>1, WorkerTypes, ExportSyncAssumption
      <3>3. QED
        BY <3>1, <3>2
    <2>3. QED
      BY <2>1, <2>2
  <1>2. \E ok, failed \in BOOLEAN : Processed(e, s, ok, failed)
    BY DEF MissSchema, EnsureSchema, SchemaError
  <1>3. \E w \in WorkItem : work' = [work EXCEPT ![e] = w]
    BY <1>2, ProcessedLemma
  <1>4. Registry'
    <2>1. CASE MissSchema(e, s)
      <3>1. (Eponyms[s] \X {s}) \in SUBSET (Exports \X Items)
        BY ExportSyncAssumption DEF Items
      <3>2. QED
        BY <2>1, <3>1, DeleteKeysStep, WorkerTypes DEF MissSchema
    <2>2. CASE EnsureSchema(e, s)
      BY <2>2, SetStep, RegistryFrame, WorkerTypes DEF EnsureSchema, Items
    <2>3. CASE SchemaError(e, s)
      <3>1. {<<e, s>>} \in SUBSET (Exports \X Items)
        BY DEF Items
      <3>2. QED
        BY <2>3, <3>1, DeleteKeysStep, RegistryFrame, WorkerTypes DEF SchemaError
    <2>4. QED
      BY <2>1, <2>2, <2>3
  <1>5. QED
    BY <1>1, <1>3, <1>4, WorkerFrame

\* The claims of a binding, and what is no longer referenced.
LEMMA ClaimWorkStep ==
  ASSUME StoreInv, NEW e \in Exports, (\E c \in Claims : EnsureClaim(e, c)) \/ Cleanup(e)
  PROVE  StoreInv'
  <1>1. UNCHANGED <<api, queue, changes, faults>>
    BY DEF EnsureClaim, Cleanup, Working, budgets
  <1>2. ASSUME NEW c \in Claims, EnsureClaim(e, c)
        PROVE  StoreInv'
    <2> DEFINE w == [work[e] EXCEPT !.todo = @ \ {c}]
    <2>1. w \in WorkItem
      BY WorkerTypes DEF WorkItem
    <2>2. work' = [work EXCEPT ![e] = w]
      BY <1>2, WorkerTypes DEF EnsureClaim, WorkItem
    <2>3. Registry'
      BY <1>2, SetStep, RegistryFrame, WorkerTypes DEF EnsureClaim, Items
    <2> HIDE DEF w
    <2>4. QED
      BY <1>1, <2>1, <2>2, <2>3, WorkerTypes, WorkerFrame
  <1>3. CASE Cleanup(e)
    <2> DEFINE w == [work[e] EXCEPT !.pc = "commit"]
    <2>1. w \in WorkItem
      BY WorkerTypes DEF WorkItem
    <2>2. work' = [work EXCEPT ![e] = w]
      BY <1>3, WorkerTypes DEF Cleanup, WorkItem
    <2>3. NotReferenced(e) \in SUBSET (Exports \X Items)
      BY ExportSyncAssumption DEF NotReferenced, Items
    <2>4. Registry'
      BY <1>3, <2>3, DeleteKeysStep, WorkerTypes DEF Cleanup
    <2> HIDE DEF w
    <2>5. QED
      BY <1>1, <2>1, <2>2, <2>4, WorkerTypes, WorkerFrame
  <1>4. QED
    BY <1>2, <1>3

\* The conditions of the export are patched.
LEMMA CommitStep ==
  ASSUME StoreInv, NEW e \in Exports, NEW ok \in BOOLEAN, Commit(e, ok)
  PROVE  StoreInv'
  <1> DEFINE x == [work[e].export EXCEPT !.connected = ok]
  <1>1. Registry /\ ApiTypes /\ WorkTypes /\ BudgetTypes
    BY Parts
  <1>2. /\ work' = [work EXCEPT ![e] = Idle]
        /\ exports' = exports \/ exports' = [exports EXCEPT ![e] = Write(exports[e], x)]
        /\ queue' \in SUBSET Exports
        /\ faults' \in 0 .. MaxFaults
        /\ UNCHANGED <<bindings, bound, store, contexts, changes>>
    BY <1>1, ExportSyncAssumption DEF Commit, running, WorkTypes, BudgetTypes
  <1>3. x \in Export
    BY WorkerTypes DEF Export
  <1>4. IsWatched(Write(exports[e], x), Export)
    BY <1>1, <1>3, WriteLemma DEF ApiTypes
  <1> HIDE DEF x
  <1>5. ApiTypes'
    BY <1>1, <1>2, <1>4 DEF ApiTypes
  <1>6. Idle \in WorkItem
    BY ContentTypes DEF WorkItem, Idle
  <1>7. work' \in [Exports -> WorkItem]
    BY <1>2, <1>6, WorkerTypes
  <1>8. WorkTypes'
    BY <1>2, <1>7 DEF WorkTypes, WorkItem
  <1>9. Registry' /\ BudgetTypes'
    BY <1>1, <1>2, RegistryFrame DEF running, BudgetTypes
  <1>10. QED
    BY <1>5, <1>8, <1>9, PartsNext

-----------------------------------------------------------------------------
(* The theorems.                                                           *)

\* The initial states satisfy the inductive invariant.
LEMMA InitStoreInv == Init => StoreInv
  <1> SUFFICES ASSUME Init PROVE StoreInv
    OBVIOUS
  <1>1. ApiTypes
    <2>1. PICK x \in [Exports -> {NoExport} \cup {NewExport(r) : r \in SUBSET Schemas \ {{}}}] :
            exports = [e \in Exports |-> Fresh(x[e])]
      BY DEF Init
    <2>2. PICK y \in [Exports -> {NoBinding} \cup {Bound(c) : c \in SUBSET Claims}] :
            bindings = [e \in Exports |-> Fresh(y[e])]
      BY DEF Init
    <2>3. \A e \in Exports : x[e] \in Export /\ y[e] \in Binding
      BY <2>1, <2>2, ContentTypes
    <2>4. \A e \in Exports : /\ IsWatched(exports[e], Export)
                             /\ IsWatched(bindings[e], Binding)
      BY <2>1, <2>2, <2>3, FreshLemma
    <2>5. QED
      BY <2>1, <2>2, <2>4 DEF ApiTypes, Init
  <1>2. Registry
    <2>1. store \in [Exports -> [Items -> 0 .. MaxContexts]]
      BY ExportSyncAssumption DEF Init
    <2>2. contexts \in [ContextIds -> Context] /\ \A c \in ContextIds : contexts[c].state = "none"
      BY NoContextType DEF Init
    <2>3. \A e \in Exports, i \in Items : store[e][i] = 0
      BY DEF Init
    <2>4. QED
      BY <2>1, <2>2, <2>3 DEF Registry, NoStrayControllers
  <1>3. WorkTypes /\ BudgetTypes
    <2>1. Idle \in WorkItem
      BY ContentTypes DEF WorkItem, Idle
    <2>2. work \in [Exports -> WorkItem]
      BY <2>1 DEF Init
    <2>3. QED
      BY <2>2, ExportSyncAssumption DEF Init, WorkTypes, WorkItem, BudgetTypes
  <1>4. QED
    BY <1>1, <1>2, <1>3, Parts

\* Every step keeps it.
LEMMA NextStoreInv == StoreInv /\ [Next]_vars => StoreInv'
  <1> SUFFICES ASSUME StoreInv, [Next]_vars PROVE StoreInv'
    OBVIOUS
  <1>1. ASSUME NEW e \in Exports, Worker(e)
        PROVE  StoreInv'
    BY <1>1, GetStep, StopStep, PhaseStep, SchemaWorkStep, ClaimWorkStep, CommitStep
       DEF Worker
  <1>2. ASSUME NEW c \in ContextIds, ClaimEnds(c)
        PROVE  StoreInv'
    <2>1. Registry /\ ApiTypes /\ WorkTypes /\ BudgetTypes
      BY Parts
    <2>2. Registry'
      BY <1>2, <2>1, ClaimEndsRegistry
    <2>3. UNCHANGED <<exports, bindings, bound, queue, work, changes, faults>>
      BY <1>2 DEF ClaimEnds, api, budgets
    <2>4. ApiTypes' /\ WorkTypes' /\ BudgetTypes'
      BY <2>1, <2>3 DEF ApiTypes, WorkTypes, BudgetTypes
    <2>5. QED
      BY <2>2, <2>4, PartsNext
  <1>3. CASE UNCHANGED vars
    <2>1. Registry /\ ApiTypes /\ WorkTypes /\ BudgetTypes
      BY Parts
    <2>2. Registry'
      BY <1>3, <2>1, RegistryFrame DEF vars, running
    <2>3. ApiTypes' /\ WorkTypes' /\ BudgetTypes'
      BY <1>3, <2>1 DEF vars, ApiTypes, WorkTypes, BudgetTypes
    <2>4. QED
      BY <2>2, <2>3, PartsNext
  <1>4. QED
    BY <1>1, <1>2, <1>3, UserStep, SchemaStep, InformerStep, SchemaWorkStep, CommitStep
       DEF Next

\* The inductive invariant: the types, and what the store and the contexts of
\* ensureControllers and of the claims' goroutines have to do with each other.
THEOREM ThmStoreInv == Spec => []StoreInv
  BY InitStoreInv, NextStoreInv, PTL DEF Spec

\* Whatever the workers, the prefix deletions and the goroutines that end late do,
\* the store holds exactly the controllers that have not been told to stop.
THEOREM ThmNoStrayControllers == Spec => []NoStrayControllers
  <1>1. StoreInv => NoStrayControllers
    BY DEF StoreInv
  <1>2. QED
    BY <1>1, ThmStoreInv, PTL
=============================================================================
