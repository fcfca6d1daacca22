--------------------------- MODULE ClusterBinding ---------------------------
(***************************************************************************)
(* The ClusterBinding of a consumer cluster: the konnector's controller    *)
(* (pkg/konnector/controllers/cluster/clusterbinding) sends heartbeats,    *)
(* copies the provider's kubeconfig secret to the consumer and reports     *)
(* Heartbeating on the APIServiceBindings; the backend's                   *)
(* (backend/controllers/clusterbinding) judges the health.  The RBAC       *)
(* objects that the backend keeps are in module ProviderAccess.            *)
(*                                                                         *)
(* Time is counted in ticks.  Requests, events and retries take less than  *)
(* a tick, so a tick waits for the konnector to be idle.                   *)
(***************************************************************************)
EXTENDS WatchLog

CONSTANTS
  Interval,      \* heartbeatInterval in ticks
  Kubeconfigs,   \* the kubeconfigs the provider issues
  NoSecret,      \* the secret is not there
  NoKey,         \* the secret lacks the key of the kubeconfigSecretRef
  MaxOps,        \* bound on what users, the provider and other controllers do
  MaxFaults      \* bound on crashes and failed requests

ASSUME ConstantsAssumption ==
  /\ Interval \in Nat /\ Interval % 2 = 0 /\ Interval > 0
  /\ {NoSecret, NoKey} \cap Kubeconfigs = {} /\ NoSecret # NoKey
  /\ MaxOps \in Nat /\ MaxFaults \in Nat

VARIABLES
  cb,         \* the ClusterBinding's status, watched by the konnector
  issued,     \* the provider's secret, watched by the konnector
  secret,     \* the consumer's secret, watched by the konnector
  store,      \* the contents of the consumer's secret in the informer's store
  beating,    \* an APIServiceBinding: Heartbeating and what others write
  queue,      \* the ClusterBinding is in the konnector's work queue
  worker,     \* the konnector's worker
  phase,      \* ticks since the last poll of the heartbeat
  up,         \* the konnector runs
  ops, faults

vars == <<cb, issued, secret, store, beating, queue, worker, phase, up, ops, faults>>

Never == -1
MaxAge == 2 * Interval + 1   \* ages beyond are not told apart
Ages == Never .. MaxAge

\* ClusterBindingStatus: the age of lastHeartbeatTime, conditions SecretValid
\* and Healthy.
Status == [age: Ages, valid: BOOLEAN, healthy: BOOLEAN]

Idle == [pc |-> "idle", new |-> [age |-> Never, valid |-> FALSE, healthy |-> FALSE],
         changed |-> FALSE, current |-> FALSE, failed |-> FALSE]

Init ==
  /\ cb = <<Idle.new>>
  /\ \E k \in Kubeconfigs : issued = <<k>> /\ secret = <<k>> /\ store = k
  /\ beating = <<[on |-> FALSE, other |-> 0]>>
  /\ queue = TRUE
  /\ worker = Idle
  /\ phase = 0
  /\ up = TRUE
  /\ ops = 0
  /\ faults = 0

-----------------------------------------------------------------------------
(* Users, the provider, and other controllers.                             *)

Op == ops < MaxOps /\ ops' = ops + 1 /\ UNCHANGED faults

\* The provider issues another kubeconfig, or breaks its secret.
Rotate ==
  /\ Op
  /\ \E k \in (Kubeconfigs \cup {NoSecret, NoKey}) \ {Stored(issued)} : issued' = Store(issued, k)
  /\ UNCHANGED <<cb, secret, store, beating, queue, worker, phase, up>>

\* The consumer's secret is overwritten, deleted or made again (kubectl bind).
Overwrite ==
  /\ Op
  /\ \E k \in (Kubeconfigs \cup {NoSecret}) \ {Stored(secret)} : secret' = Store(secret, k)
  /\ UNCHANGED <<cb, issued, store, beating, queue, worker, phase, up>>

\* Another controller writes the APIServiceBinding.
Touch ==
  /\ Op
  /\ beating' = Store(beating, [Stored(beating) EXCEPT !.other = 1 - @])
  /\ UNCHANGED <<cb, issued, secret, store, queue, worker, phase, up>>

-----------------------------------------------------------------------------
(* Time, crashes and events of the konnector.                              *)

Busy == up /\ (queue \/ worker.pc # "idle" \/ ~InSync(cb) \/ ~InSync(beating))

Older(a) == IF a = Never THEN Never ELSE IF a < MaxAge THEN a + 1 ELSE MaxAge

\* PollUntilContextCancel fires every half interval.
Poll(p) == p = 0

\* Time passes; Start's ticker enqueues the ClusterBinding.
Tick ==
  /\ ~Busy
  /\ cb' = [i \in DOMAIN cb |-> [cb[i] EXCEPT !.age = Older(@)]]
  /\ phase' = IF up /\ phase + 1 < Interval \div 2 THEN phase + 1 ELSE 0
  /\ queue' = (up /\ (queue \/ Poll(phase')))
  /\ UNCHANGED <<issued, secret, store, beating, worker, up, ops, faults>>

\* The konnector stops at any point.
Crash ==
  /\ up
  /\ faults < MaxFaults
  /\ faults' = faults + 1
  /\ up' = FALSE
  /\ queue' = FALSE
  /\ worker' = Idle
  /\ phase' = 0
  /\ UNCHANGED <<cb, issued, secret, store, beating, ops>>

\* It starts, and its informers list and enqueue what is there.
Start ==
  /\ ~up
  /\ up' = TRUE
  /\ queue' = TRUE
  /\ cb' = List(cb)
  /\ issued' = List(issued)
  /\ secret' = List(secret)
  /\ store' = Stored(secret)
  /\ beating' = List(beating)
  /\ UNCHANGED <<worker, phase, ops, faults>>

\* enqueueClusterBinding, enqueueConsumerSecret
Enqueue == queue' = TRUE

\* enqueueProviderSecret: of the secret that the ClusterBinding refers to.
EnqueueProviderSecret == queue' = TRUE

\* The konnector's informers deliver.
DeliverClusterBinding ==
  /\ up /\ ~InSync(cb)
  /\ cb' = Event(cb)
  /\ Enqueue
  /\ UNCHANGED <<issued, secret, store, beating, worker, phase, up, ops, faults>>

DeliverProviderSecret ==
  /\ up /\ ~InSync(issued)
  /\ issued' = Event(issued)
  /\ EnqueueProviderSecret
  /\ UNCHANGED <<cb, secret, store, beating, worker, phase, up, ops, faults>>

DeliverConsumerSecret ==
  /\ up /\ ~InSync(secret)
  /\ secret' = Event(secret)
  /\ store' = InStore(secret')
  /\ Enqueue
  /\ UNCHANGED <<cb, issued, beating, worker, phase, up, ops, faults>>

DeliverServiceBinding ==
  /\ up /\ ~InSync(beating)
  /\ beating' = Event(beating)
  /\ UNCHANGED <<cb, issued, secret, store, queue, worker, phase, up, ops, faults>>

\* enqueueServiceExport
EnqueueServiceExport == queue' = TRUE

\* Resyncs, and added or deleted exports (the handler for updated ones
\* compares the old object with itself and returns).
Resync ==
  /\ up
  /\ Enqueue \/ EnqueueServiceExport
  /\ UNCHANGED <<cb, issued, secret, store, beating, worker, phase, up, ops, faults>>

-----------------------------------------------------------------------------
(* The konnector's worker: process.                                        *)

\* Mutant: a heartbeat is due after the interval.
LateHeartbeat(age) == IF age = Never \/ age > Interval THEN 0 ELSE age

\* ensureHeartbeat
EnsureHeartbeat(age) == IF age = Never \/ age > Interval \div 2 THEN 0 ELSE age

\* createConsumerSecret: the name and the namespace are swapped, and there is no
\* such namespace.
CreateConsumerSecret == UNCHANGED <<secret, store>>

\* Mutant: a secret that is equal already is not updated.
UpdateChanged(k, ok) ==
  /\ store' = k
  /\ secret' = IF ok /\ store # k THEN Store(secret, k) ELSE secret

\* updateConsumerSecret of the object in the informer's store, which is changed
\* in place whether the update succeeds or not.
UpdateConsumerSecret(k, ok) ==
  /\ store' = k
  /\ secret' = IF ok THEN Store(secret, k) ELSE secret

\* The provider's secret is there and has the key.
Usable(given) == given \in Kubeconfigs

\* The worker goes on to the commit; `failed' that reconcile has an error.
ToCommit(valid, failed) ==
  LET new == [InStore(cb) EXCEPT !.age = EnsureHeartbeat(@), !.valid = valid]
  IN worker' = [pc |-> "commit", new |-> new, changed |-> new # InStore(cb),
                current |-> InSync(cb), failed |-> failed]

\* The key is taken, the ClusterBinding read from the cache and reconciled:
\* ensureConsumerSecret, ensureHeartbeat, ensureKonnectorVersion.
Reconcile ==
  LET given == InStore(issued)
      valid == InStore(cb).valid
  IN
  /\ up /\ queue /\ worker.pc = "idle"
  /\ queue' = FALSE
  /\ \/ /\ ~Usable(given)
        /\ ToCommit(FALSE, FALSE)
        /\ UNCHANGED <<secret, store, faults>>
     \/ /\ Usable(given) /\ store = NoSecret
        /\ CreateConsumerSecret
        /\ ToCommit(valid, TRUE)
        /\ UNCHANGED faults
     \/ /\ Usable(given) /\ store # NoSecret /\ InSync(secret)
        /\ UpdateConsumerSecret(given, TRUE)
        /\ ToCommit(TRUE, FALSE)
        /\ UNCHANGED faults
     \/ /\ Usable(given) /\ store # NoSecret
        /\ InSync(secret) => faults < MaxFaults
        /\ faults' = IF InSync(secret) THEN faults + 1 ELSE faults
        /\ UpdateConsumerSecret(given, FALSE)
        /\ ToCommit(valid, TRUE)
  /\ UNCHANGED <<cb, issued, beating, phase, up, ops>>

\* The commit: nothing to patch, or a patch of the status at the cached
\* resource version.  A conflict or a failed request is an error.
Commit ==
  /\ worker.pc = "commit"
  /\ \/ /\ worker.changed => worker.current
        /\ cb' = IF worker.changed THEN Store(cb, worker.new) ELSE cb
        /\ worker' = [worker EXCEPT !.pc = "alive"]
        /\ UNCHANGED faults
     \/ /\ worker.changed
        /\ worker.current => faults < MaxFaults
        /\ faults' = IF worker.current THEN faults + 1 ELSE faults
        /\ worker' = [worker EXCEPT !.pc = "dead", !.failed = TRUE]
        /\ UNCHANGED cb
  /\ UNCHANGED <<issued, secret, store, beating, queue, phase, up, ops>>

\* Mutant: only failures are reported.
MarkFailures(pc, b) == IF pc = "dead" THEN [b EXCEPT !.on = FALSE] ELSE b

\* MarkTrue or MarkFalse of Heartbeating, by the outcome of the commit.
Mark(pc, b) == [b EXCEPT !.on = pc = "alive"]

\* Mutant: an error is not tried again.
ForgetErrors ==
  /\ worker.pc \in {"alive", "dead"}
  /\ beating' = IF InSync(beating) THEN Store(beating, Mark(worker.pc, InStore(beating))) ELSE beating
  /\ worker' = Idle
  /\ UNCHANGED <<cb, issued, secret, store, queue, phase, up, ops, faults>>

\* updateServiceBindings, at the cached resource version; errors are ignored.
\* Then Forget, or AddRateLimited after an error.
UpdateServiceBindings ==
  /\ worker.pc \in {"alive", "dead"}
  /\ beating' = IF InSync(beating)
                THEN Store(beating, Mark(worker.pc, InStore(beating)))
                ELSE beating
  /\ queue' = (queue \/ worker.failed)
  /\ worker' = Idle
  /\ UNCHANGED <<cb, issued, secret, store, phase, up, ops, faults>>

-----------------------------------------------------------------------------
(* The backend's controller.                                               *)

\* ensureClusterBindingConditions.  A heartbeat of this tick is within ten seconds.
Healthy(age) == age # Never /\ age <= 2 * Interval /\ age > 0

\* client.Update of an object with a status subresource stores no status.
Updated(old, new) == [new EXCEPT !.age = old.age, !.valid = old.valid, !.healthy = old.healthy]

\* Reconcile of the backend: the conditions, and an update.
JudgeHealth ==
  /\ Stored(cb).healthy # Healthy(Stored(cb).age)
  /\ cb' = Store(cb, Updated(Stored(cb), [Stored(cb) EXCEPT !.healthy = ~@]))
  /\ UNCHANGED <<issued, secret, store, beating, queue, worker, phase, up, ops, faults>>

-----------------------------------------------------------------------------
Environment == Rotate \/ Overwrite \/ Touch \/ Crash \/ Resync

Next ==
  \/ Environment
  \/ Tick
  \/ Start
  \/ DeliverClusterBinding \/ DeliverProviderSecret
  \/ DeliverConsumerSecret \/ DeliverServiceBinding
  \/ Reconcile
  \/ Commit
  \/ UpdateServiceBindings
  \/ JudgeHealth

Spec == Init /\ [][Next]_vars

\* Time passes, the pod is restarted, watches deliver and workers run.
FairSpec ==
  /\ Spec
  /\ WF_vars(Tick) /\ WF_vars(Start)
  /\ WF_vars(DeliverClusterBinding) /\ WF_vars(DeliverProviderSecret)
  /\ WF_vars(DeliverConsumerSecret) /\ WF_vars(DeliverServiceBinding)
  /\ WF_vars(Reconcile) /\ WF_vars(Commit) /\ WF_vars(UpdateServiceBindings)
  /\ WF_vars(JudgeHealth)

-----------------------------------------------------------------------------
Beats == [on: BOOLEAN, other: {0, 1}]
Workers == [pc: {"idle", "commit", "alive", "dead"}, new: Status,
            changed: BOOLEAN, current: BOOLEAN, failed: BOOLEAN]

\* Every variable has its type.
TypeOK ==
  /\ IsLog(cb, Status)
  /\ IsLog(issued, Kubeconfigs \cup {NoSecret, NoKey})
  /\ IsLog(secret, Kubeconfigs \cup {NoSecret})
  /\ store \in Kubeconfigs \cup {NoSecret}
  /\ IsLog(beating, Beats)
  /\ queue \in BOOLEAN
  /\ worker \in Workers
  /\ phase \in 0 .. (Interval \div 2 - 1)
  /\ up \in BOOLEAN
  /\ ops \in 0 .. MaxOps
  /\ faults \in 0 .. MaxFaults

\* "heartbeatInterval is the maximal interval between heartbeats that the
\* konnector promises to send": a running konnector that has nothing left to do
\* has sent one within the interval, although it polls every half interval, a
\* heartbeat is due only after more than that, and a patch may meet a conflict.
HeartbeatPromise == (up /\ ~Busy) => Stored(cb).age \in 0 .. Interval

\* Why the promise is kept: the worker commits a heartbeat of at most half an interval,
\* over the status that it has read, or the ClusterBinding is looked at again: it is in
\* the queue, will be because an event is undelivered, or is put there because the round
\* has failed.  Between polls the heartbeat grows older with the phase.
HeartbeatInv ==
  /\ TypeOK
  /\ worker.pc # "idle" => up
  /\ worker.pc = "commit" =>
       /\ worker.new.age \in 0 .. Interval \div 2
       /\ worker.current => InSync(cb) /\ (~worker.changed => Stored(cb) = worker.new)
       /\ ~worker.current => queue \/ ~InSync(cb)
  /\ worker.pc = "alive" =>
       worker.failed \/ queue \/ ~InSync(cb) \/ Stored(cb).age \in 0 .. Interval \div 2
  /\ worker.pc = "dead" => worker.failed
  /\ worker.pc = "idle" /\ up /\ ~queue /\ InSync(cb) =>
       Stored(cb).age \in 0 .. (Interval \div 2 + phase)

\* The kubeconfig in the consumer's secret comes to be the provider's, in spite
\* of conflicts that leave the new contents in the cache and the old ones stored.
SecretConverges ==
  <>[](Stored(issued) \in Kubeconfigs /\ Stored(secret) # NoSecret
         => Stored(secret) = Stored(issued))

\* A heartbeat that meets a stale cache fails and marks the APIServiceBindings as
\* not heartbeating, and updates of them that meet a conflict are dropped: still,
\* the condition never stays false while the konnector is restarted and retried.
HeartbeatingRecovers == []<>(Stored(beating).on)
=============================================================================
