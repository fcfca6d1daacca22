--------------------------- MODULE ProviderAccess ---------------------------
(***************************************************************************)
(* The RBAC objects with which the backend                                 *)
(* (backend/controllers/clusterbinding) gives the konnector's service      *)
(* account access to what the exports of its namespace export: a           *)
(* ClusterRole with a rule per resource, the ClusterRoleBinding that       *)
(* grants it and a RoleBinding in the namespace.                           *)
(*                                                                         *)
(* All objects are read from caches.  Of the events only those of the      *)
(* ClusterBinding, which come with each heartbeat (module ClusterBinding), *)
(* and of the exports reach the queue: the RBAC objects are watched with   *)
(* Owns, but their owner is the namespace.                                 *)
(***************************************************************************)
EXTENDS WatchLog

CONSTANTS
  Resources,     \* what exports may export
  NoRole,        \* the ClusterRole is not there
  MaxOps,        \* bound on what users and other controllers do
  MaxLag,        \* bound on undelivered events of an object
  MaxFaults      \* bound on failed requests

ASSUME ConstantsAssumption ==
  {MaxOps, MaxLag, MaxFaults} \subseteq Nat

VARIABLES
  scope,      \* --consumer-scope of the backend: "Cluster" or "Namespaced"
  exports,    \* the exported resources
  schemas,    \* the BoundSchemas
  role,       \* the rules of the ClusterRole
  grant,      \* the ClusterRoleBinding: "none", "other" subjects or "konnector"
  local,      \* the RoleBinding, likewise
  pending,    \* the ClusterBinding is in the work queue
  ops, faults

watched == <<exports, schemas>>
rbac == <<role, grant, local>>
vars == <<scope, watched, rbac, pending, ops, faults>>

Subjects == {"none", "other", "konnector"}

Init ==
  /\ scope \in {"Cluster", "Namespaced"}
  /\ exports = <<{}>> /\ schemas = <<{}>>
  /\ role = <<NoRole>> /\ grant = <<"none">> /\ local = <<"none">>
  /\ pending = TRUE
  /\ ops = 0 /\ faults = 0

-----------------------------------------------------------------------------
(* Other controllers and users.                                            *)

Toggle(S, r) == IF r \in S THEN S \ {r} ELSE S \cup {r}

Op == ops < MaxOps /\ ops' = ops + 1 /\ UNCHANGED <<scope, pending, faults>>

\* The controller of requests, or the provider, writes exports and schemas.
ExportWritten ==
  /\ Op
  /\ \E r \in Resources :
       \/ exports' = Store(exports, Toggle(Stored(exports), r)) /\ UNCHANGED schemas
       \/ schemas' = Store(schemas, Toggle(Stored(schemas), r)) /\ UNCHANGED exports
  /\ UNCHANGED rbac

\* Somebody edits or deletes an RBAC object.
RbacWritten ==
  /\ Op
  /\ \/ role' = Store(role, NoRole) /\ UNCHANGED <<grant, local>>
     \/ Stored(role) # NoRole /\ role' = Store(role, {}) /\ UNCHANGED <<grant, local>>
     \/ /\ \E s \in {"none", "other"} : Stored(grant) # "none" /\ grant' = Store(grant, s)
        /\ UNCHANGED <<role, local>>
     \/ /\ \E s \in {"none", "other"} : Stored(local) # "none" /\ local' = Store(local, s)
        /\ UNCHANGED <<role, grant>>
  /\ UNCHANGED watched

-----------------------------------------------------------------------------
(* Events.                                                                 *)

\* mapAPIResourceSchema
MapExport == pending' = TRUE

DeliverExport ==
  /\ ~InSync(exports)
  /\ exports' = Event(exports)
  /\ MapExport
  /\ UNCHANGED <<scope, schemas, rbac, ops, faults>>

Silent == UNCHANGED <<scope, exports, pending, ops, faults>>

DeliverSchema == Silent /\ ~InSync(schemas) /\ schemas' = Event(schemas) /\ UNCHANGED rbac
DeliverRole == Silent /\ ~InSync(role) /\ role' = Event(role) /\ UNCHANGED <<schemas, grant, local>>
DeliverGrant == Silent /\ ~InSync(grant) /\ grant' = Event(grant) /\ UNCHANGED <<schemas, role, local>>
DeliverLocal == Silent /\ ~InSync(local) /\ local' = Event(local) /\ UNCHANGED <<schemas, role, grant>>

\* A heartbeat changes the status of the ClusterBinding.
Heartbeat ==
  /\ ~pending
  /\ pending' = TRUE
  /\ UNCHANGED <<scope, watched, rbac, ops, faults>>

-----------------------------------------------------------------------------
(* Reconcile.  Each of the three parts reads its object and sends at most  *)
(* one request (two for the ClusterRoleBinding).  The outcome is what is   *)
(* stored then, and whether there was an error.                            *)

Outcome(after, failed) == [after |-> after, failed |-> failed]

\* Mutant: bindings are created only.
CreateOnly(w) ==
  IF InStore(w) = "none" /\ Stored(w) = "none" THEN Outcome(Store(w, "konnector"), FALSE)
  ELSE Outcome(w, InStore(w) = "none")

\* A binding that is not in the cache is created, unless it is there; one with
\* other subjects is updated at the cached resource version.
EnsureSubjects(w) ==
  IF InStore(w) = "none"
  THEN IF Stored(w) = "none" THEN Outcome(Store(w, "konnector"), FALSE) ELSE Outcome(w, TRUE)
  ELSE IF InStore(w) = "konnector" THEN Outcome(w, FALSE)
  ELSE IF InSync(w) THEN Outcome(Store(w, "konnector"), FALSE)
  ELSE Outcome(w, TRUE)

\* ensureRBACRoleBinding
EnsureRBACRoleBinding == EnsureSubjects(local)

\* ensureRBACClusterRoleBinding: without cluster scope the binding is deleted, and
\* then treated as what the cache had.
EnsureRBACClusterRoleBinding ==
  IF scope = "Cluster" THEN EnsureSubjects(grant)
  ELSE LET deleted == Store(grant, "none")
       IN  IF InStore(grant) = "none" THEN Outcome(Store(deleted, "konnector"), FALSE)
           ELSE Outcome(deleted, InStore(grant) = "other")

\* Mutant: rules are added and not taken away.
AddedRules(now) == IF now = NoRole THEN InStore(exports) ELSE now \cup InStore(exports)

\* The rules for the exported resources; those for BoundSchemas are always there.
ExpectedRules(now) == InStore(exports)

\* ensureRBACClusterRole: a resource whose BoundSchema is not in the cache is an error.
EnsureRBACClusterRole ==
  LET now == InStore(role)
      rules == ExpectedRules(now)
  IN
  IF ~(InStore(exports) \subseteq InStore(schemas)) THEN Outcome(role, TRUE)
  ELSE IF now = rules THEN Outcome(role, FALSE)
  ELSE IF (IF now = NoRole THEN Stored(role) = NoRole ELSE InSync(role))
  THEN Outcome(Store(role, rules), FALSE)
  ELSE Outcome(role, TRUE)

Bounded == Len(role) <= MaxLag /\ Len(grant) <= MaxLag /\ Len(local) <= MaxLag

\* reconcile tries all parts; an error of one is tried again.
Reconcile ==
  /\ pending
  /\ Bounded
  /\ local' = EnsureRBACRoleBinding.after
  /\ role' = EnsureRBACClusterRole.after
  /\ grant' = EnsureRBACClusterRoleBinding.after
  /\ pending' = (EnsureRBACRoleBinding.failed \/ EnsureRBACClusterRole.failed
                   \/ EnsureRBACClusterRoleBinding.failed)
  /\ UNCHANGED <<scope, watched, ops, faults>>

\* Requests of some parts fail.
RequestFails ==
  /\ faults < MaxFaults /\ faults' = faults + 1
  /\ pending
  /\ Bounded
  /\ \E failing \in SUBSET {"local", "role", "grant"} \ {{}} :
       /\ local' = IF "local" \in failing THEN local ELSE EnsureRBACRoleBinding.after
       /\ role' = IF "role" \in failing THEN role ELSE EnsureRBACClusterRole.after
       /\ grant' = IF "grant" \in failing THEN grant ELSE EnsureRBACClusterRoleBinding.after
  /\ pending' = TRUE
  /\ UNCHANGED <<scope, watched, ops>>

-----------------------------------------------------------------------------

Next ==
  \/ ExportWritten \/ RbacWritten
  \/ DeliverExport \/ DeliverSchema \/ DeliverRole \/ DeliverGrant \/ DeliverLocal
  \/ Heartbeat
  \/ Reconcile \/ RequestFails

\* Watches deliver, the worker runs and the konnector sends heartbeats.
Fairness ==
  /\ WF_vars(DeliverExport) /\ WF_vars(DeliverSchema) /\ WF_vars(DeliverRole)
  /\ WF_vars(DeliverGrant) /\ WF_vars(DeliverLocal)
  /\ WF_vars(Heartbeat) /\ WF_vars(Reconcile)

Spec == Init /\ [][Next]_vars /\ Fairness

-----------------------------------------------------------------------------
(* Properties.                                                             *)

\* When the others stop, the ClusterRole has the rules of the exported resources,
\* if the schemas of all of them are there.
RoleFollowsExports ==
  <>[](Stored(exports) \subseteq Stored(schemas) => Stored(role) = Stored(exports))

\* When the others stop, the RoleBinding, and with cluster scope the
\* ClusterRoleBinding, grant the konnector's service account its role.
AccessIsGranted ==
  <>[](Stored(local) = "konnector" /\ (scope = "Cluster" => Stored(grant) = "konnector"))
=============================================================================
