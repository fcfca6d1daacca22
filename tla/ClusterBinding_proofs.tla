----------------------- MODULE ClusterBinding_proofs -----------------------
(***************************************************************************)
(* Proofs about the heartbeats of a ClusterBinding, for any interval, any  *)
(* kubeconfigs and any number of failures.                                 *)
(***************************************************************************)
EXTENDS ClusterBinding, Watch_proofs, SequenceTheorems

\* Half of the interval, after which a heartbeat is due.
LEMMA HalfInterval ==
  /\ Interval \in Nat /\ Interval \div 2 \in Nat
  /\ Interval \div 2 >= 1 /\ Interval = 2 * (Interval \div 2)
  /\ Never = -1 /\ MaxAge = 2 * Interval + 1
  BY ConstantsAssumption DEF Never, MaxAge

\* The worker that has nothing to do.
LEMMA IdleType == Idle \in Workers /\ Idle.pc = "idle" /\ Idle.new \in Status
  BY HalfInterval DEF Idle, Workers, Status, Ages

\* A heartbeat is sent when there was none for half an interval.
LEMMA HeartbeatAge ==
  ASSUME NEW a \in Ages
  PROVE  EnsureHeartbeat(a) \in 0 .. Interval \div 2 /\ EnsureHeartbeat(a) \in Ages
  BY HalfInterval DEF EnsureHeartbeat, Ages

\* What users, the provider, other controllers and the informers do leaves the worker,
\* the ClusterBinding and the time alone; the queue only fills.
LEMMA QueueFills ==
  ASSUME HeartbeatInv, UNCHANGED <<cb, worker, phase, up>>, TypeOK', queue => queue'
  PROVE  HeartbeatInv'
  BY DEF HeartbeatInv

-----------------------------------------------------------------------------
(* Type correctness.                                                       *)

LEMMA InitType == Init => TypeOK
  <1> SUFFICES ASSUME Init PROVE TypeOK
    OBVIOUS
  <1>1. PICK k \in Kubeconfigs : issued = <<k>> /\ secret = <<k>> /\ store = k
    BY DEF Init
  <1>2. IsLog(cb, Status)
    BY IdleType, LogNew DEF Init
  <1>3. IsLog(issued, Kubeconfigs \cup {NoSecret, NoKey}) /\ IsLog(secret, Kubeconfigs \cup {NoSecret})
    BY <1>1, LogNew
  <1>4. IsLog(beating, Beats)
    <2>1. [on |-> FALSE, other |-> 0] \in Beats
      BY DEF Beats
    <2>2. QED
      BY <2>1, LogNew DEF Init
  <1>5. phase \in 0 .. (Interval \div 2 - 1) /\ ops \in 0 .. MaxOps /\ faults \in 0 .. MaxFaults
    BY HalfInterval, ConstantsAssumption DEF Init
  <1>6. QED
    BY <1>1, <1>2, <1>3, <1>4, <1>5, IdleType DEF Init, TypeOK

\* Users, the provider and other controllers.
LEMMA OpType == TypeOK /\ (Rotate \/ Overwrite \/ Touch) => TypeOK'
  <1> SUFFICES ASSUME TypeOK, Rotate \/ Overwrite \/ Touch PROVE TypeOK'
    OBVIOUS
  <1>1. ops' \in 0 .. MaxOps /\ UNCHANGED <<cb, store, queue, worker, phase, up, faults>>
    <2>1. ops \in 0 .. MaxOps /\ MaxOps \in Nat
      BY ConstantsAssumption DEF TypeOK
    <2>2. QED
      BY <2>1 DEF Rotate, Overwrite, Touch, Op
  <1>2. IsLog(issued', Kubeconfigs \cup {NoSecret, NoKey})
    BY LogStore DEF Rotate, Overwrite, Touch, TypeOK
  <1>3. IsLog(secret', Kubeconfigs \cup {NoSecret})
    BY LogStore DEF Rotate, Overwrite, Touch, TypeOK
  <1>4. IsLog(beating', Beats)
    <2>1. Stored(beating) \in Beats
      BY LogContents DEF TypeOK
    <2>2. [Stored(beating) EXCEPT !.other = 1 - @] \in Beats
      <3>1. \A n \in {0, 1} : 1 - n \in {0, 1}
        OBVIOUS
      <3>2. \A n \in {0, 1} : [Stored(beating) EXCEPT !.other = n] \in Beats
        BY <2>1 DEF Beats
      <3>3. Stored(beating).other \in {0, 1}
        BY <2>1 DEF Beats
      <3>4. QED
        BY <3>1, <3>2, <3>3
    <2>3. PICK b \in Beats : b = [Stored(beating) EXCEPT !.other = 1 - @]
      BY <2>2
    <2>4. beating' = beating \/ beating' = Store(beating, b)
      BY <2>3 DEF Rotate, Overwrite, Touch
    <2>5. QED
      BY <2>4, LogStore DEF TypeOK
  <1>5. QED
    BY <1>1, <1>2, <1>3, <1>4 DEF TypeOK

\* Time passes for every version of the ClusterBinding.
LEMMA TickLog ==
  ASSUME TypeOK, Tick
  PROVE  /\ IsLog(cb', Status)
         /\ Len(cb') = Len(cb)
         /\ Stored(cb').age = Older(Stored(cb).age)
  <1>1. cb \in Seq(Status) /\ Len(cb) \in Nat /\ Len(cb) >= 1 /\ DOMAIN cb = 1 .. Len(cb)
    BY DEF TypeOK, IsLog
  <1>2. \A a \in Ages : Older(a) \in Ages
    BY HalfInterval DEF Older, Ages
  <1>3. \A s \in Status : [s EXCEPT !.age = Older(@)] \in Status /\ [s EXCEPT !.age = Older(@)].age = Older(s.age)
    BY <1>2 DEF Status
  <1>4. \A i \in 1 .. Len(cb) : cb[i] \in Status
    BY <1>1
  <1>5. /\ cb' \in [1 .. Len(cb) -> Status]
        /\ \A i \in 1 .. Len(cb) : cb'[i].age = Older(cb[i].age)
    BY <1>1, <1>3, <1>4 DEF Tick
  <1>6. cb' \in Seq(Status) /\ Len(cb') = Len(cb)
    BY <1>1, <1>5
  <1>7. QED
    BY <1>1, <1>5, <1>6 DEF IsLog, Stored

LEMMA TickType == TypeOK /\ Tick => TypeOK'
  <1> SUFFICES ASSUME TypeOK, Tick PROVE TypeOK'
    OBVIOUS
  <1>1. phase' \in 0 .. (Interval \div 2 - 1)
    BY HalfInterval DEF TypeOK, Tick
  <1>2. queue' \in BOOLEAN
    BY DEF TypeOK, Tick
  <1>3. QED
    BY <1>1, <1>2, TickLog DEF TypeOK, Tick

\* The konnector stops and starts.
LEMMA StopType == TypeOK /\ (Crash \/ Start) => TypeOK'
  <1> SUFFICES ASSUME TypeOK, Crash \/ Start PROVE TypeOK'
    OBVIOUS
  <1>1. CASE Crash
    <2>1. faults' \in 0 .. MaxFaults /\ phase' \in 0 .. (Interval \div 2 - 1)
      BY <1>1, HalfInterval, ConstantsAssumption DEF Crash, TypeOK
    <2>2. QED
      BY <1>1, <2>1, IdleType DEF Crash, TypeOK
  <1>2. CASE Start
    <2>1. /\ IsLog(cb', Status) /\ IsLog(issued', Kubeconfigs \cup {NoSecret, NoKey})
          /\ IsLog(secret', Kubeconfigs \cup {NoSecret})
          /\ IsLog(beating', Beats)
      BY <1>2, LogList DEF Start, TypeOK
    <2>2. store' \in Kubeconfigs \cup {NoSecret}
      BY <1>2, LogContents DEF Start, TypeOK
    <2>3. QED
      BY <1>2, <2>1, <2>2 DEF Start, TypeOK
  <1>3. QED
    BY <1>1, <1>2

\* Events.
LEMMA EventType ==
  ASSUME TypeOK,
         DeliverClusterBinding \/ DeliverProviderSecret \/ DeliverConsumerSecret
           \/ DeliverServiceBinding \/ Resync
  PROVE  TypeOK'
  <1>1. CASE DeliverClusterBinding
    <2>1. IsLog(cb', Status)
      BY <1>1, LogEvent DEF DeliverClusterBinding, TypeOK
    <2>2. QED
      BY <1>1, <2>1 DEF DeliverClusterBinding, Enqueue, TypeOK
  <1>2. CASE DeliverProviderSecret
    <2>1. IsLog(issued', Kubeconfigs \cup {NoSecret, NoKey})
      BY <1>2, LogEvent DEF DeliverProviderSecret, TypeOK
    <2>2. QED
      BY <1>2, <2>1 DEF DeliverProviderSecret, EnqueueProviderSecret, TypeOK
  <1>3. CASE DeliverConsumerSecret
    <2>1. IsLog(secret', Kubeconfigs \cup {NoSecret})
      BY <1>3, LogEvent DEF DeliverConsumerSecret, TypeOK
    <2>2. store' \in Kubeconfigs \cup {NoSecret}
      BY <1>3, <2>1, LogContents DEF DeliverConsumerSecret
    <2>3. QED
      BY <1>3, <2>1, <2>2 DEF DeliverConsumerSecret, Enqueue, TypeOK
  <1>4. CASE DeliverServiceBinding
    <2>1. IsLog(beating', Beats)
      BY <1>4, LogEvent DEF DeliverServiceBinding, TypeOK
    <2>2. QED
      BY <1>4, <2>1 DEF DeliverServiceBinding, TypeOK
  <1>5. CASE Resync
    BY <1>5 DEF Resync, Enqueue, EnqueueServiceExport, TypeOK
  <1>6. QED
    BY <1>1, <1>2, <1>3, <1>4, <1>5

\* What the worker takes to the commit: a heartbeat of at most half an interval, made
\* from the status in the cache.
LEMMA CommitStarts ==
  ASSUME TypeOK, NEW valid \in BOOLEAN, NEW failed \in BOOLEAN, ToCommit(valid, failed)
  PROVE  /\ worker' \in Workers /\ worker'.pc = "commit"
         /\ worker'.new.age \in 0 .. Interval \div 2
         /\ worker'.changed = (worker'.new # InStore(cb))
         /\ worker'.current = InSync(cb)
  <1>1. PICK s : s = InStore(cb)
    OBVIOUS
  <1>2. s \in Status
    BY <1>1, LogContents DEF TypeOK
  <1>3. PICK new : new = [s EXCEPT !.age = EnsureHeartbeat(@), !.valid = valid]
    OBVIOUS
  <1>4. new \in Status /\ new.age \in 0 .. Interval \div 2
    BY <1>2, <1>3, HeartbeatAge DEF Status
  <1>5. PICK changed \in BOOLEAN, current \in BOOLEAN : changed = (new # s) /\ current = InSync(cb)
    BY DEF InSync
  <1>6. worker' = [pc |-> "commit", new |-> new, changed |-> changed,
                   current |-> current, failed |-> failed]
    BY <1>1, <1>3, <1>5 DEF ToCommit
  <1>7. worker' \in Workers
    BY <1>4, <1>6 DEF Workers
  <1>8. QED
    BY <1>1, <1>4, <1>5, <1>6, <1>7

\* The worker's round, and the backend's.
LEMMA ReconcileType == TypeOK /\ Reconcile => TypeOK'
  <1> SUFFICES ASSUME TypeOK, Reconcile PROVE TypeOK'
    OBVIOUS
  <1>1. InStore(cb).valid \in BOOLEAN
    <2>1. InStore(cb) \in Status
      BY LogContents DEF TypeOK
    <2>2. QED
      BY <2>1 DEF Status
  <1>2. PICK valid \in BOOLEAN, failed \in BOOLEAN : ToCommit(valid, failed)
    <2>1. PICK v \in BOOLEAN : v = InStore(cb).valid
      BY <1>1
    <2>2. ToCommit(FALSE, FALSE) \/ ToCommit(v, TRUE) \/ ToCommit(TRUE, FALSE)
      BY <2>1 DEF Reconcile
    <2>3. QED
      BY <2>2, Zenon
  <1>3. worker' \in Workers
    BY <1>2, CommitStarts
  <1>4. UNCHANGED <<secret, store>> \/ \E k \in Kubeconfigs, ok \in BOOLEAN : UpdateConsumerSecret(k, ok)
    BY DEF Reconcile, Usable, CreateConsumerSecret
  <1>5. IsLog(secret', Kubeconfigs \cup {NoSecret}) /\ store' \in Kubeconfigs \cup {NoSecret}
    BY <1>4, LogStore DEF UpdateConsumerSecret, TypeOK
  <1>6. faults' \in 0 .. MaxFaults
    <2>1. faults' = faults \/ (faults < MaxFaults /\ faults' = faults + 1)
      BY DEF Reconcile
    <2>2. QED
      BY <2>1, ConstantsAssumption DEF TypeOK
  <1>7. QED
    BY <1>3, <1>5, <1>6 DEF Reconcile, TypeOK

LEMMA CommitType == TypeOK /\ Commit => TypeOK'
  <1> SUFFICES ASSUME TypeOK, Commit PROVE TypeOK'
    OBVIOUS
  <1>1. worker \in Workers
    BY DEF TypeOK
  <1>2. IsLog(cb', Status)
    <2>1. worker.new \in Status
      BY <1>1 DEF Workers
    <2>2. QED
      BY <2>1, LogStore DEF Commit, TypeOK
  <1>3. worker' \in Workers
    BY <1>1 DEF Commit, Workers
  <1>4. faults' \in 0 .. MaxFaults
    BY ConstantsAssumption DEF Commit, TypeOK
  <1>5. QED
    BY <1>2, <1>3, <1>4 DEF Commit, TypeOK

LEMMA BindingsType == TypeOK /\ UpdateServiceBindings => TypeOK'
  <1> SUFFICES ASSUME TypeOK, UpdateServiceBindings PROVE TypeOK'
    OBVIOUS
  <1>1. IsLog(beating', Beats)
    <2>1. InStore(beating) \in Beats
      BY LogContents DEF TypeOK
    <2>2. Mark(worker.pc, InStore(beating)) \in Beats
      BY <2>1 DEF Mark, Beats
    <2>3. QED
      BY <2>2, LogStore DEF UpdateServiceBindings, TypeOK
  <1>2. queue' \in BOOLEAN
    BY DEF UpdateServiceBindings, TypeOK
  <1>3. QED
    BY <1>1, <1>2, IdleType DEF UpdateServiceBindings, TypeOK

\* The backend's update stores no status.
LEMMA JudgeNothing == TypeOK /\ JudgeHealth => UNCHANGED vars
  <1> SUFFICES ASSUME TypeOK, JudgeHealth PROVE UNCHANGED vars
    OBVIOUS
  <1>1. PICK s : s = Stored(cb)
    OBVIOUS
  <1>2. s \in Status
    BY <1>1, LogContents DEF TypeOK
  <1>3. Updated(s, [s EXCEPT !.healthy = ~@]) = s
    BY <1>2 DEF Updated, Status
  <1>4. cb' = cb
    BY <1>1, <1>3 DEF JudgeHealth, Store
  <1>5. QED
    BY <1>4 DEF JudgeHealth, vars

\* Every step preserves the types.
LEMMA NextType == TypeOK /\ [Next]_vars => TypeOK'
  <1> SUFFICES ASSUME TypeOK, [Next]_vars PROVE TypeOK'
    OBVIOUS
  <1>1. CASE UNCHANGED vars
    BY <1>1 DEF vars, TypeOK
  <1>2. CASE JudgeHealth
    BY <1>1, <1>2, JudgeNothing
  <1>3. QED
    BY <1>1, <1>2, OpType, TickType, StopType, EventType, ReconcileType, CommitType,
       BindingsType DEF Next, Environment

-----------------------------------------------------------------------------
(* The heartbeat.                                                          *)

\* Initially the ClusterBinding is in the queue.
LEMMA InitHeartbeat == Init => HeartbeatInv
  BY InitType, IdleType DEF Init, HeartbeatInv

\* A tick passes only when nothing is left to do: the heartbeat grows older with the
\* phase, and at the end of half an interval the ClusterBinding is in the queue.
LEMMA TickHeartbeat == HeartbeatInv /\ Tick => HeartbeatInv'
  <1> SUFFICES ASSUME HeartbeatInv, Tick PROVE HeartbeatInv'
    OBVIOUS
  <1>1. TypeOK /\ TypeOK'
    BY TickType DEF HeartbeatInv
  <1>2. worker.pc = "idle" /\ UNCHANGED <<worker, up>>
    BY DEF HeartbeatInv, Tick, Busy
  <1>3. ASSUME up, ~queue' PROVE Stored(cb').age \in 0 .. (Interval \div 2 + phase')
    <2>1. ~queue /\ InSync(cb)
      BY <1>3 DEF Tick, Busy
    <2>2. Stored(cb).age \in 0 .. (Interval \div 2 + phase)
      BY <1>2, <1>3, <2>1 DEF HeartbeatInv
    <2>3. Stored(cb').age = Older(Stored(cb).age)
      BY <1>1, TickLog
    <2>4. phase' # 0
      BY <1>3 DEF Tick, Poll
    <2>5. phase \in Nat /\ phase' = phase + 1 /\ phase + 1 < Interval \div 2
      BY <1>1, <2>4, HalfInterval DEF Tick, TypeOK
    <2>6. \A a \in 0 .. (Interval \div 2 + phase) : Older(a) \in 0 .. (Interval \div 2 + (phase + 1))
      BY <2>5, HalfInterval DEF Older
    <2>7. QED
      BY <2>2, <2>3, <2>5, <2>6
  <1>4. QED
    BY <1>1, <1>2, <1>3 DEF HeartbeatInv

\* A konnector that has stopped promises nothing, and one that starts looks at the
\* ClusterBinding.
LEMMA StopHeartbeat == HeartbeatInv /\ (Crash \/ Start) => HeartbeatInv'
  <1> SUFFICES ASSUME HeartbeatInv, Crash \/ Start PROVE HeartbeatInv'
    OBVIOUS
  <1>1. TypeOK'
    BY StopType DEF HeartbeatInv
  <1>2. CASE Crash
    BY <1>1, <1>2, IdleType DEF Crash, HeartbeatInv
  <1>3. CASE Start
    BY <1>1, <1>3 DEF Start, HeartbeatInv
  <1>4. QED
    BY <1>2, <1>3

\* An event of the ClusterBinding puts it into the queue.
LEMMA EventHeartbeat == HeartbeatInv /\ DeliverClusterBinding => HeartbeatInv'
  <1> SUFFICES ASSUME HeartbeatInv, DeliverClusterBinding PROVE HeartbeatInv'
    OBVIOUS
  <1>1. TypeOK'
    BY EventType DEF HeartbeatInv
  <1>2. queue' = TRUE /\ ~InSync(cb) /\ UNCHANGED <<worker, up>>
    BY DEF DeliverClusterBinding, Enqueue
  <1>3. QED
    BY <1>1, <1>2 DEF HeartbeatInv

\* The worker reads the ClusterBinding; what it reads may be old.
LEMMA ReconcileHeartbeat == HeartbeatInv /\ Reconcile => HeartbeatInv'
  <1> SUFFICES ASSUME HeartbeatInv, Reconcile PROVE HeartbeatInv'
    OBVIOUS
  <1>1. TypeOK /\ TypeOK' /\ UNCHANGED cb
    BY ReconcileType DEF HeartbeatInv, Reconcile
  <1>2. PICK valid \in BOOLEAN, failed \in BOOLEAN : ToCommit(valid, failed)
    <2>1. InStore(cb) \in Status
      BY <1>1, LogContents DEF TypeOK
    <2>2. PICK v \in BOOLEAN : v = InStore(cb).valid
      BY <2>1 DEF Status
    <2>3. ToCommit(FALSE, FALSE) \/ ToCommit(v, TRUE) \/ ToCommit(TRUE, FALSE)
      BY <2>2 DEF Reconcile
    <2>4. QED
      BY <2>3
  <1>3. /\ worker'.pc = "commit" /\ worker'.new.age \in 0 .. Interval \div 2
        /\ worker'.changed = (worker'.new # InStore(cb))
        /\ worker'.current = InSync(cb)
    BY <1>1, <1>2, CommitStarts
  <1>4. InSync(cb) => InStore(cb) = Stored(cb)
    BY <1>1, LogContents DEF TypeOK
  <1>5. up'
    BY DEF Reconcile
  <1>6. InSync(cb') = InSync(cb) /\ Stored(cb') = Stored(cb)
    BY <1>1
  <1>7. QED
    BY <1>1, <1>3, <1>4, <1>5, <1>6 DEF HeartbeatInv

\* The commit stores the heartbeat, has nothing to store, or fails.
LEMMA CommitHeartbeat == HeartbeatInv /\ Commit => HeartbeatInv'
  <1> SUFFICES ASSUME HeartbeatInv, Commit PROVE HeartbeatInv'
    OBVIOUS
  <1>1. TypeOK /\ TypeOK' /\ UNCHANGED <<queue, phase, up>> /\ worker.pc = "commit" /\ up
    BY CommitType DEF HeartbeatInv, Commit
  <1>2. worker \in Workers /\ worker.new \in Status
    BY <1>1 DEF TypeOK, Workers
  <1>3. CASE /\ worker.changed => worker.current
             /\ cb' = IF worker.changed THEN Store(cb, worker.new) ELSE cb
             /\ worker' = [worker EXCEPT !.pc = "alive"]
    <2>1. worker'.pc = "alive"
      BY <1>2, <1>3 DEF Workers
    <2>2. CASE worker.changed
      <3>1. Stored(cb') = worker.new
        BY <1>1, <1>2, <1>3, <2>2, LogStore DEF TypeOK
      <3>2. QED
        BY <1>1, <2>1, <3>1 DEF HeartbeatInv
    <2>3. CASE ~worker.changed
      <3>1. cb' = cb
        BY <1>3, <2>3
      <3>2. queue \/ ~InSync(cb) \/ Stored(cb).age \in 0 .. Interval \div 2
        BY <1>1, <2>3 DEF HeartbeatInv
      <3>3. QED
        BY <1>1, <2>1, <3>1, <3>2 DEF HeartbeatInv
    <2>4. QED
      BY <2>2, <2>3
  <1>4. CASE worker' = [worker EXCEPT !.pc = "dead", !.failed = TRUE]
    <2>1. worker'.pc = "dead" /\ worker'.failed
      BY <1>2, <1>4 DEF Workers
    <2>2. QED
      BY <1>1, <2>1 DEF HeartbeatInv
  <1>5. QED
    BY <1>3, <1>4 DEF Commit

\* A round that has failed is tried again.
LEMMA BindingsHeartbeat == HeartbeatInv /\ UpdateServiceBindings => HeartbeatInv'
  <1> SUFFICES ASSUME HeartbeatInv, UpdateServiceBindings PROVE HeartbeatInv'
    OBVIOUS
  <1>1. TypeOK /\ TypeOK' /\ UNCHANGED <<cb, phase, up>> /\ worker'.pc = "idle"
    BY BindingsType, IdleType DEF HeartbeatInv, UpdateServiceBindings
  <1>2. ASSUME ~queue', InSync(cb) PROVE Stored(cb).age \in 0 .. (Interval \div 2 + phase)
    <2>1. ~queue /\ ~worker.failed
      BY <1>2 DEF UpdateServiceBindings
    <2>2. worker.pc = "alive"
      BY <2>1 DEF UpdateServiceBindings, HeartbeatInv
    <2>3. Stored(cb).age \in 0 .. Interval \div 2
      BY <1>2, <2>1, <2>2 DEF HeartbeatInv
    <2>4. phase \in Nat
      BY <1>1, HalfInterval DEF TypeOK
    <2>5. QED
      BY <2>3, <2>4, HalfInterval
  <1>3. QED
    BY <1>1, <1>2 DEF HeartbeatInv

\* Every step preserves the inductive invariant.
LEMMA NextHeartbeat == HeartbeatInv /\ [Next]_vars => HeartbeatInv'
  <1> SUFFICES ASSUME HeartbeatInv, [Next]_vars PROVE HeartbeatInv'
    OBVIOUS
  <1>1. TypeOK /\ TypeOK'
    BY NextType DEF HeartbeatInv
  <1>2. CASE UNCHANGED vars \/ JudgeHealth
    <2>1. UNCHANGED vars
      BY <1>1, <1>2, JudgeNothing
    <2>2. QED
      BY <1>1, <2>1, QueueFills DEF vars
  <1>3. CASE Rotate \/ Overwrite \/ Touch \/ Resync \/ DeliverProviderSecret
               \/ DeliverConsumerSecret \/ DeliverServiceBinding
    BY <1>1, <1>3, QueueFills DEF Rotate, Overwrite, Touch, Resync, DeliverProviderSecret,
       DeliverConsumerSecret, DeliverServiceBinding, Enqueue, EnqueueProviderSecret,
       EnqueueServiceExport
  <1>4. QED
    BY <1>2, <1>3, TickHeartbeat, StopHeartbeat, EventHeartbeat, ReconcileHeartbeat,
       CommitHeartbeat, BindingsHeartbeat DEF Next, Environment

-----------------------------------------------------------------------------
(* The theorems.                                                           *)

\* Whatever conflicts, failures, crashes and stale reads the worker meets, a heartbeat
\* that is not recent enough is followed by another round.
THEOREM HeartbeatInvariant == Spec => []HeartbeatInv
  <1>1. QED
    BY InitHeartbeat, NextHeartbeat, PTL DEF Spec

\* Every variable has its type.
THEOREM TypeCorrect == Spec => []TypeOK
  <1>1. QED
    BY InitType, NextType, PTL DEF Spec

\* A running konnector that has nothing left to do has sent a heartbeat within the
\* interval that it promises (heartbeatInterval), for every interval.
THEOREM PromiseKept == Spec => []HeartbeatPromise
  <1>1. HeartbeatInv => HeartbeatPromise
    <2> SUFFICES ASSUME HeartbeatInv, up, ~Busy PROVE Stored(cb).age \in 0 .. Interval
      BY DEF HeartbeatPromise
    <2>1. Stored(cb).age \in 0 .. (Interval \div 2 + phase)
      BY DEF HeartbeatInv, Busy
    <2>2. phase \in 0 .. (Interval \div 2 - 1)
      BY DEF HeartbeatInv, TypeOK
    <2>3. QED
      BY <2>1, <2>2, HalfInterval
  <1>2. QED
    BY <1>1, HeartbeatInvariant, PTL
=============================================================================
