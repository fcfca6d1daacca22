------------------------------ MODULE Konnector ------------------------------
(***************************************************************************)
(* The konnector's top-level controller (pkg/konnector/konnector_*.go).    *)
(*                                                                         *)
(* For every APIServiceBinding it reads the kubeconfig in the referenced   *)
(* secret and sees to it that a set of controllers (a cluster controller)  *)
(* runs for the provider that the kubeconfig points to.  Bindings with the *)
(* same kubeconfig share one cluster controller; it is stopped when the    *)
(* last of them has left it.  Worker threads reconcile bindings from       *)
(* lagging caches; the map of controllers is guarded by a lock.            *)
(***************************************************************************)
EXTENDS WatchedObject

CONSTANTS
  Bindings,       \* names of APIServiceBindings
  Secrets,        \* names of kubeconfig secrets
  SecretOf,       \* SecretOf[b]: spec.kubeconfigSecretRef, which is immutable
  Kubeconfigs,    \* the kubeconfigs a secret may hold
  NoKubeconfig,   \* the secret, or its key, is not there
  Invalid,        \* kubeconfigs that do not parse or name no namespace
  Failing,        \* kubeconfigs from which no cluster controller can be made
  MaxContexts,    \* bound on the contexts made between two starts
  MaxChanges,     \* bound on what users do to bindings and secrets
  MaxCrashes,     \* bound on crashes from outside
  MaxEvents       \* bound on both together

ASSUME KonnectorAssumption ==
  /\ Bindings # {}
  /\ SecretOf \in [Bindings -> Secrets]
  /\ NoKubeconfig \notin Kubeconfigs
  /\ Invalid \subseteq Kubeconfigs
  /\ Failing \subseteq Kubeconfigs \ Invalid
  /\ MaxContexts \in Nat
  /\ MaxChanges \in Nat
  /\ MaxCrashes \in Nat
  /\ MaxEvents \in Nat

VARIABLES
  secrets,       \* the secrets, watched: a kubeconfig or none
  bindings,      \* the APIServiceBindings, watched: whether they are there
  queue,         \* the keys in the work queue
  work,          \* work[b]: the worker that processes b, if one does
  controllers,   \* reconciler.controllers: the context of a binding, 0 if none
  contexts,      \* the controllerContexts made since the start
  count,         \* how many
  reconciledBy,  \* the provider whose cluster controller last reconciled b
  changes, crashes

api == <<secrets, bindings>>
registry == <<controllers, contexts, count>>
budgets == <<changes, crashes>>
vars == <<secrets, bindings, queue, work, controllers, contexts, count,
          reconciledBy, changes, crashes>>

-----------------------------------------------------------------------------
ContextIds == 1 .. MaxContexts
MaybeKubeconfig == Kubeconfigs \cup {NoKubeconfig}

\* A controllerContext, the binding whose reconcile made it, and its cluster
\* controller: not made, made but never started, running, or cancelled.
Context == [kubeconfig: MaybeKubeconfig, starter: Bindings,
            serviceBindings: SUBSET Bindings,
            state: {"none", "unstarted", "running", "cancelled"}]

Unmade == [kubeconfig |-> NoKubeconfig, starter |-> CHOOSE b \in Bindings : TRUE,
           serviceBindings |-> {}, state |-> "none"]

Idle == [pc |-> "idle", kubeconfig |-> NoKubeconfig]

\* What the informers list when the process starts is queued as added.
Listed == {b \in Bindings : Live(bindings[b])}
AllIdle == [b \in Bindings |-> Idle]
NoControllers == [b \in Bindings |-> 0]
NoContexts == [c \in ContextIds |-> Unmade]

Init ==
  /\ \E k \in [Secrets -> MaybeKubeconfig] : secrets = [s \in Secrets |-> Fresh(k[s])]
  /\ \E p \in [Bindings -> BOOLEAN] : bindings = [b \in Bindings |-> Fresh(p[b])]
  /\ queue = Listed
  /\ work = AllIdle
  /\ controllers = NoControllers
  /\ contexts = NoContexts
  /\ count = 0
  /\ reconciledBy = [b \in Bindings |-> NoKubeconfig]
  /\ changes = 0
  /\ crashes = 0

-----------------------------------------------------------------------------
(* Users, and the informers.                                               *)

Change ==
  /\ changes < MaxChanges
  /\ changes + crashes < MaxEvents
  /\ changes' = changes + 1
  /\ UNCHANGED <<queue, work, registry, reconciledBy, crashes>>

\* The secret is created, updated or deleted.
SetSecret(s, k) ==
  /\ k # Live(secrets[s])
  /\ secrets' = [secrets EXCEPT ![s] = Write(@, k)]
  /\ UNCHANGED bindings
  /\ Change

\* The binding is created, or deleted.
SetBinding(b) ==
  /\ bindings' = [bindings EXCEPT ![b] = Write(@, ~Live(@))]
  /\ UNCHANGED secrets
  /\ Change

\* Mutant: events of secrets are ignored.
IgnoreSecret(s) == queue' = queue

\* enqueueSecret: the cached bindings that refer to the secret.
EnqueueSecret(s) ==
  queue' = queue \cup {b \in Bindings : SecretOf[b] = s /\ Cached(bindings[b])}

DeliverSecret(s) ==
  /\ Lagging(secrets[s])
  /\ secrets' = [secrets EXCEPT ![s] = Deliver(@)]
  /\ EnqueueSecret(s)
  /\ UNCHANGED <<bindings, work, registry, reconciledBy, budgets>>

\* enqueueServiceBinding.
DeliverBinding(b) ==
  /\ Lagging(bindings[b])
  /\ bindings' = [bindings EXCEPT ![b] = Deliver(@)]
  /\ queue' = queue \cup {b}
  /\ UNCHANGED <<secrets, work, registry, reconciledBy, budgets>>

-----------------------------------------------------------------------------
(* The workers.                                                            *)

\* A worker takes the key, which no other worker has, and gets the binding from
\* the cache.  A binding that is gone is not looked at further: it stays in the
\* map.
Get(b) ==
  /\ b \in queue
  /\ work[b].pc = "idle"
  /\ queue' = queue \ {b}
  /\ work' = [work EXCEPT ![b].pc = IF Cached(bindings[b]) THEN "secret" ELSE "idle"]
  /\ UNCHANGED <<api, registry, reconciledBy, budgets>>

\* getSecret, from the cache and before the lock is taken.
GetSecret(b) ==
  /\ work[b].pc = "secret"
  /\ work' = [work EXCEPT ![b] = [pc |-> "reconcile",
                                  kubeconfig |-> Cached(secrets[SecretOf[b]])]]
  /\ UNCHANGED <<api, queue, registry, reconciledBy, budgets>>

\* b is registered with another kubeconfig than k.
Outdated(b, k) == controllers[b] # 0 /\ contexts[controllers[b]].kubeconfig # k

\* Mutant: a context that no binding uses any more is not cancelled.
ReleasedUncancelled(b, k) ==
  [c \in ContextIds |->
     IF Outdated(b, k) /\ c = controllers[b]
     THEN [contexts[c] EXCEPT !.serviceBindings = @ \ {b}]
     ELSE contexts[c]]

\* The contexts and the map after "stop existing with old kubeconfig".
Released(b, k) ==
  [c \in ContextIds |->
     IF Outdated(b, k) /\ c = controllers[b]
     THEN [contexts[c] EXCEPT
             !.serviceBindings = @ \ {b},
             !.state = IF contexts[c].serviceBindings \ {b} = {} THEN "cancelled" ELSE @]
     ELSE contexts[c]]

\* Mutant: the binding stays in the map.
RemainingAll(b, k) == controllers

Remaining(b, k) == IF Outdated(b, k) THEN [controllers EXCEPT ![b] = 0] ELSE controllers

\* The contexts in the map with the kubeconfig k, once b has left.
Existing(b, k) ==
  {c \in ContextIds : /\ contexts[c].kubeconfig = k
                      /\ \E d \in Bindings : Remaining(b, k)[d] = c}

\* The locked part of reconcile for the binding b, with the kubeconfig k that
\* was read before.
Locked(b, k) ==
  /\ work[b].pc = "reconcile"
  /\ work[b].kubeconfig = k
  /\ work' = [work EXCEPT ![b] = Idle]
  /\ UNCHANGED <<api, reconciledBy, budgets>>

\* "no need to start a new one", or "nothing we can do here": there is no
\* kubeconfig, or none to make a client of.
Leave(b, k) ==
  /\ Locked(b, k)
  /\ k \in Invalid \cup {NoKubeconfig}
  /\ controllers' = Remaining(b, k)
  /\ contexts' = Released(b, k)
  /\ UNCHANGED <<queue, count>>

\* "adding to existing Controller".
Join(b, k) ==
  /\ Locked(b, k)
  /\ k # NoKubeconfig
  /\ \E c \in Existing(b, k) :
       /\ controllers' = [Remaining(b, k) EXCEPT ![b] = c]
       /\ contexts' = [Released(b, k) EXCEPT ![c].serviceBindings = @ \cup {b}]
  /\ UNCHANGED <<queue, count>>

\* Mutant: other bindings with the same kubeconfig are not looked for.
StartAnyway(b, k) ==
  /\ Locked(b, k)
  /\ k \in Kubeconfigs \ Invalid
  /\ count < MaxContexts
  /\ count' = count + 1
  /\ controllers' = [Remaining(b, k) EXCEPT ![b] = count + 1]
  /\ contexts' = [Released(b, k) EXCEPT ![count + 1] =
                    [kubeconfig |-> k, starter |-> b, serviceBindings |-> {b},
                     state |-> IF k \in Failing THEN "unstarted" ELSE "running"]]
  /\ queue' = IF k \in Failing THEN queue \cup {b} ELSE queue

\* "create new because there is none yet for this kubeconfig": the context is in
\* the map before the cluster controller is made, and stays there if that fails.
Start(b, k) ==
  /\ Locked(b, k)
  /\ k \in Kubeconfigs \ Invalid
  /\ Existing(b, k) = {}
  /\ count < MaxContexts
  /\ count' = count + 1
  /\ controllers' = [Remaining(b, k) EXCEPT ![b] = count + 1]
  /\ contexts' = [Released(b, k) EXCEPT ![count + 1] =
                    [kubeconfig |-> k, starter |-> b, serviceBindings |-> {b},
                     state |-> IF k \in Failing THEN "unstarted" ELSE "running"]]
  /\ queue' = IF k \in Failing THEN queue \cup {b} ELSE queue

Worker(b) ==
  \/ Get(b)
  \/ GetSecret(b)
  \/ \E k \in MaybeKubeconfig : Leave(b, k) \/ Join(b, k) \/ Start(b, k)

-----------------------------------------------------------------------------
(* The cluster controllers.  Each reconciles the bindings that pass the    *)
(* filter it was given: those of the context that is registered now for    *)
(* the binding that started it.                                            *)

FilterContext(c) == controllers[contexts[c].starter]

\* The APIServiceBinding controller of the context c reconciles b.
ClusterReconcile(c, b) ==
  /\ contexts[c].state = "running"
  /\ Cached(bindings[b])
  /\ FilterContext(c) # 0
  /\ b \in contexts[FilterContext(c)].serviceBindings
  /\ reconciledBy' = [reconciledBy EXCEPT ![b] = contexts[c].kubeconfig]
  /\ UNCHANGED <<api, queue, work, registry, budgets>>

\* The process ends and a new one starts.
Restarted ==
  /\ secrets' = [s \in Secrets |-> Relist(secrets[s])]
  /\ bindings' = [b \in Bindings |-> Relist(bindings[b])]
  /\ queue' = Listed
  /\ work' = AllIdle
  /\ controllers' = NoControllers
  /\ contexts' = NoContexts
  /\ count' = 0
  /\ UNCHANGED <<reconciledBy, changes>>

\* The filter dereferences the nil context of a starter that is not in the map:
\* the worker panics, and with it the konnector.
ClusterPanic(c, b) ==
  /\ contexts[c].state = "running"
  /\ Cached(bindings[b])
  /\ FilterContext(c) = 0
  /\ Restarted
  /\ UNCHANGED crashes

\* The konnector's pod is killed.
Crash ==
  /\ crashes < MaxCrashes
  /\ changes + crashes < MaxEvents
  /\ crashes' = crashes + 1
  /\ Restarted

Next ==
  \/ \E s \in Secrets, k \in MaybeKubeconfig : SetSecret(s, k)
  \/ \E b \in Bindings : SetBinding(b)
  \/ \E s \in Secrets : DeliverSecret(s)
  \/ \E b \in Bindings : DeliverBinding(b)
  \/ \E b \in Bindings : Worker(b)
  \/ \E c \in ContextIds, b \in Bindings : ClusterReconcile(c, b)
  \/ \E c \in ContextIds, b \in Bindings : ClusterPanic(c, b)
  \/ Crash

Spec == Init /\ [][Next]_vars

\* The informers deliver and the workers run: the queue is first in, first out,
\* so that a key in it comes to be processed.
Fairness ==
  /\ \A s \in Secrets : WF_vars(DeliverSecret(s))
  /\ \A b \in Bindings : WF_vars(DeliverBinding(b)) /\ WF_vars(Worker(b))

FairSpec == Spec /\ Fairness

-----------------------------------------------------------------------------
\* Every variable has its type.
TypeOK ==
  /\ secrets = [s \in Secrets |-> secrets[s]]
  /\ \A s \in Secrets : IsWatched(secrets[s], MaybeKubeconfig)
  /\ bindings = [b \in Bindings |-> bindings[b]]
  /\ \A b \in Bindings : IsWatched(bindings[b], BOOLEAN)
  /\ queue \subseteq Bindings
  /\ work \in [Bindings -> [pc: {"idle", "secret", "reconcile"},
                            kubeconfig: MaybeKubeconfig]]
  /\ controllers \in [Bindings -> 0 .. MaxContexts]
  /\ contexts \in [ContextIds -> Context]
  /\ count \in 0 .. MaxContexts
  /\ reconciledBy \in [Bindings -> MaybeKubeconfig]
  /\ changes \in 0 .. MaxChanges
  /\ crashes \in 0 .. MaxCrashes

\* The map and the sets of service bindings in the contexts say the same: each
\* is updated on its own, for whichever binding a worker has at hand.
RegistrationsAgree ==
  \A b \in Bindings, c \in ContextIds :
    controllers[b] = c <=> b \in contexts[c].serviceBindings

\* Bindings with the same kubeconfig share one context, although any of them may
\* be the first to come, to leave or to come back: a provider is never served by
\* two sets of controllers that have not been told to stop.
OneControllerPerKubeconfig ==
  \A c, d \in ContextIds :
    /\ contexts[c].state \in {"unstarted", "running"}
    /\ contexts[d].state \in {"unstarted", "running"}
    /\ contexts[c].kubeconfig = contexts[d].kubeconfig
    => c = d

\* "when this is empty, the Controller should be stopped by closing the context",
\* and only then: a context that runs has a binding and a context that has a
\* binding is not cancelled.
StoppedWhenEmpty ==
  \A c \in ContextIds :
    contexts[c].serviceBindings = {} <=> contexts[c].state \in {"none", "cancelled"}

\* The inductive invariant.
RegistryInv ==
  /\ TypeOK
  /\ RegistrationsAgree
  /\ OneControllerPerKubeconfig
  /\ StoppedWhenEmpty
  /\ \A c \in ContextIds : count < c => contexts[c].state = "none"

-----------------------------------------------------------------------------
\* Every binding is served with the kubeconfig that is in its secret, by cluster
\* controllers that run, unless there is none or it is of no use.
Settled ==
  \A b \in Bindings :
    LET k == Live(secrets[SecretOf[b]])
        c == controllers[b]
    IN Live(bindings[b]) =>
         IF k \in Kubeconfigs \ Invalid
         THEN /\ c # 0
              /\ contexts[c].kubeconfig = k
              /\ k \notin Failing => contexts[c].state = "running"
         ELSE c = 0

\* Once nothing changes any more, all bindings come to be served with their
\* current kubeconfig and stay so, whichever stale kubeconfig a worker had in its
\* hands and however often the konnector was restarted.
Converges == <>[]Settled
=============================================================================
