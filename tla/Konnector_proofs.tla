--------------------------- MODULE Konnector_proofs ---------------------------
(***************************************************************************)
(* Proofs that the konnector's map of controllers and its contexts stay    *)
(* consistent, for any number of bindings, secrets and kubeconfigs.        *)
(***************************************************************************)
EXTENDS Konnector, Watch_proofs

-----------------------------------------------------------------------------
(* What a state before the locked part of reconcile is like.               *)

\* The kubeconfig a context is for, and who started it, never change; a binding
\* that leaves its context because of the kubeconfig k leaves the rest of the
\* registry consistent.
LEMMA ReleasedLemma ==
  ASSUME RegistryInv, NEW b \in Bindings, NEW k \in MaybeKubeconfig
  PROVE  /\ Released(b, k) \in [ContextIds -> Context]
         /\ Remaining(b, k) \in [Bindings -> 0 .. MaxContexts]
         /\ \A d \in Bindings, c \in ContextIds :
              Remaining(b, k)[d] = c <=> d \in Released(b, k)[c].serviceBindings
         /\ \A c \in ContextIds :
              /\ Released(b, k)[c].kubeconfig = contexts[c].kubeconfig
              /\ Released(b, k)[c].serviceBindings = {}
                   <=> Released(b, k)[c].state \in {"none", "cancelled"}
              /\ Released(b, k)[c].state \in {"unstarted", "running"}
                   => contexts[c].state \in {"unstarted", "running"}
              /\ count < c => Released(b, k)[c].state = "none"
         /\ Remaining(b, k)[b] # 0 => contexts[Remaining(b, k)[b]].kubeconfig = k
  <1>1. /\ controllers \in [Bindings -> 0 .. MaxContexts]
        /\ contexts \in [ContextIds -> Context]
        /\ RegistrationsAgree /\ StoppedWhenEmpty
        /\ \A c \in ContextIds : count < c => contexts[c].state = "none"
    BY DEF RegistryInv, TypeOK
  <1>2. controllers[b] # 0 => controllers[b] \in ContextIds
    BY <1>1, KonnectorAssumption DEF ContextIds
  <1>3. ASSUME ~Outdated(b, k)
        PROVE  Released(b, k) = contexts /\ Remaining(b, k) = controllers
    BY <1>1, <1>3 DEF Released, Remaining
  <1>4. CASE ~Outdated(b, k)
    BY <1>1, <1>2, <1>3, <1>4
       DEF Outdated, RegistrationsAgree, StoppedWhenEmpty, Context
  <1>5. CASE Outdated(b, k)
    <2> DEFINE o == controllers[b]
               new == [contexts[o] EXCEPT
                         !.serviceBindings = @ \ {b},
                         !.state = IF contexts[o].serviceBindings \ {b} = {}
                                   THEN "cancelled" ELSE @]
    <2>1. o \in ContextIds /\ b \in contexts[o].serviceBindings /\ contexts[o] \in Context
      BY <1>1, <1>2, <1>5 DEF Outdated, RegistrationsAgree
    <2>2. /\ new \in Context
          /\ new.kubeconfig = contexts[o].kubeconfig
          /\ new.serviceBindings = contexts[o].serviceBindings \ {b}
          /\ new.state = IF contexts[o].serviceBindings \ {b} = {}
                         THEN "cancelled" ELSE contexts[o].state
      BY <2>1 DEF Context
    <2>3. contexts[o].state \in {"unstarted", "running"} /\ ~(count < o)
      BY <1>1, <2>1 DEF StoppedWhenEmpty, Context
    <2>4. Released(b, k) = [c \in ContextIds |-> IF c = o THEN new ELSE contexts[c]]
      BY <1>5 DEF Released
    <2>5. /\ Remaining(b, k) = [controllers EXCEPT ![b] = 0]
          /\ Remaining(b, k) \in [Bindings -> 0 .. MaxContexts]
      BY <1>1, <1>5, KonnectorAssumption DEF Remaining
    <2> HIDE DEF new
    <2>6. Released(b, k) \in [ContextIds -> Context]
      BY <1>1, <2>2, <2>4
    <2>7. \A d \in Bindings, c \in ContextIds :
            Remaining(b, k)[d] = c <=> d \in Released(b, k)[c].serviceBindings
      BY <1>1, <2>1, <2>2, <2>4, <2>5 DEF RegistrationsAgree, ContextIds
    <2>8. \A c \in ContextIds :
              /\ Released(b, k)[c].kubeconfig = contexts[c].kubeconfig
              /\ Released(b, k)[c].serviceBindings = {}
                   <=> Released(b, k)[c].state \in {"none", "cancelled"}
              /\ Released(b, k)[c].state \in {"unstarted", "running"}
                   => contexts[c].state \in {"unstarted", "running"}
              /\ count < c => Released(b, k)[c].state = "none"
      BY <1>1, <2>2, <2>3, <2>4 DEF StoppedWhenEmpty
    <2>9. QED
      BY <1>1, <2>5, <2>6, <2>7, <2>8
  <1>6. QED
    BY <1>4, <1>5

\* What a worker does to its own state keeps the type.
LEMMA WorkType ==
  ASSUME TypeOK, NEW b \in Bindings, NEW k \in MaybeKubeconfig,
         NEW pc \in {"idle", "secret", "reconcile"}
  PROVE  [work EXCEPT ![b] = [pc |-> pc, kubeconfig |-> k]]
           \in [Bindings -> [pc: {"idle", "secret", "reconcile"},
                             kubeconfig: MaybeKubeconfig]]
  BY DEF TypeOK

\* The locked part of reconcile leaves the rest of the state typed.
LEMMA LockedTypes ==
  ASSUME RegistryInv, NEW b \in Bindings, NEW k \in MaybeKubeconfig, Locked(b, k),
         queue' \subseteq Bindings, count' \in 0 .. MaxContexts,
         controllers' \in [Bindings -> 0 .. MaxContexts],
         contexts' \in [ContextIds -> Context]
  PROVE  TypeOK'
  <1>1. TypeOK /\ NoKubeconfig \in MaybeKubeconfig
    BY DEF RegistryInv, MaybeKubeconfig
  <1>2. /\ work' = [work EXCEPT ![b] = [pc |-> "idle", kubeconfig |-> NoKubeconfig]]
        /\ UNCHANGED <<secrets, bindings, reconciledBy, changes, crashes>>
    BY DEF Locked, Idle, api, budgets
  <1>3. work' \in [Bindings -> [pc: {"idle", "secret", "reconcile"},
                                kubeconfig: MaybeKubeconfig]]
    BY <1>1, <1>2, WorkType
  <1>4. QED
    BY <1>1, <1>2, <1>3 DEF TypeOK

-----------------------------------------------------------------------------
(* The locked part of reconcile.                                           *)

\* A binding without a usable kubeconfig leaves its context.
LEMMA LeaveStep ==
  ASSUME RegistryInv, NEW b \in Bindings, NEW k \in MaybeKubeconfig, Leave(b, k)
  PROVE  RegistryInv'
  <1>1. /\ controllers' = Remaining(b, k) /\ contexts' = Released(b, k)
        /\ UNCHANGED <<queue, count>> /\ Locked(b, k)
    BY DEF Leave
  <1>2. TypeOK'
    <2>1. queue \subseteq Bindings /\ count \in 0 .. MaxContexts
      BY DEF RegistryInv, TypeOK
    <2>2. QED
      BY <1>1, <2>1, ReleasedLemma, LockedTypes
  <1>3. RegistrationsAgree'
    BY <1>1, ReleasedLemma DEF RegistrationsAgree
  <1>4. StoppedWhenEmpty'
    BY <1>1, ReleasedLemma DEF StoppedWhenEmpty
  <1>5. OneControllerPerKubeconfig'
    BY <1>1, ReleasedLemma DEF RegistryInv, OneControllerPerKubeconfig
  <1>6. (\A c \in ContextIds : count < c => contexts[c].state = "none")'
    BY <1>1, ReleasedLemma
  <1>7. QED
    BY <1>2, <1>3, <1>4, <1>5, <1>6 DEF RegistryInv

\* A binding joins the one context that has its kubeconfig.
LEMMA JoinStep ==
  ASSUME RegistryInv, NEW b \in Bindings, NEW k \in MaybeKubeconfig, Join(b, k)
  PROVE  RegistryInv'
  <1> DEFINE R == Released(b, k)
             M == Remaining(b, k)
  <1>1. PICK c \in Existing(b, k) :
          /\ controllers' = [M EXCEPT ![b] = c]
          /\ contexts' = [R EXCEPT ![c].serviceBindings = @ \cup {b}]
    BY DEF Join
  <1>2. UNCHANGED <<queue, count>> /\ Locked(b, k)
    BY DEF Join
  <1>3. /\ R \in [ContextIds -> Context]
        /\ M \in [Bindings -> 0 .. MaxContexts]
        /\ \A d \in Bindings, e \in ContextIds : M[d] = e <=> d \in R[e].serviceBindings
        /\ \A e \in ContextIds :
              /\ R[e].kubeconfig = contexts[e].kubeconfig
              /\ R[e].serviceBindings = {} <=> R[e].state \in {"none", "cancelled"}
              /\ R[e].state \in {"unstarted", "running"}
                   => contexts[e].state \in {"unstarted", "running"}
              /\ count < e => R[e].state = "none"
        /\ M[b] # 0 => contexts[M[b]].kubeconfig = k
    BY ReleasedLemma
  <1>4. c \in ContextIds /\ contexts[c].kubeconfig = k /\ \E d \in Bindings : M[d] = c
    BY DEF Existing
  <1> HIDE DEF R, M
  <1>5. R[c].serviceBindings # {} /\ R[c].state \in {"unstarted", "running"}
    BY <1>3, <1>4 DEF Context
  <1>6. M[b] # 0 => M[b] = c
    <2> SUFFICES ASSUME M[b] # 0 PROVE M[b] = c
      OBVIOUS
    <2>1. M[b] \in ContextIds
      BY <1>3, KonnectorAssumption DEF ContextIds
    <2>2. R[M[b]].state \in {"unstarted", "running"}
      BY <1>3, <2>1 DEF Context
    <2>3. QED
      BY <1>3, <1>4, <1>5, <2>1, <2>2 DEF RegistryInv, OneControllerPerKubeconfig
  <1> DEFINE new == [R[c] EXCEPT !.serviceBindings = @ \cup {b}]
  <1>7. /\ new \in Context /\ new.kubeconfig = R[c].kubeconfig /\ new.state = R[c].state
        /\ new.serviceBindings = R[c].serviceBindings \cup {b}
    BY <1>3, <1>4 DEF Context
  <1>8. contexts' = [R EXCEPT ![c] = new]
    BY <1>1
  <1> HIDE DEF new
  <1>9. TypeOK'
    <2>1. queue' \subseteq Bindings /\ count' \in 0 .. MaxContexts
      BY <1>2 DEF RegistryInv, TypeOK
    <2>2. controllers' \in [Bindings -> 0 .. MaxContexts]
      BY <1>1, <1>3, <1>4 DEF ContextIds
    <2>3. contexts' \in [ContextIds -> Context]
      BY <1>3, <1>4, <1>7, <1>8
    <2>4. QED
      BY <1>2, <2>1, <2>2, <2>3, LockedTypes
  <1>10. RegistrationsAgree'
    BY <1>1, <1>3, <1>4, <1>6, <1>7, <1>8 DEF RegistrationsAgree, ContextIds
  <1>11. StoppedWhenEmpty'
    BY <1>3, <1>4, <1>5, <1>7, <1>8 DEF StoppedWhenEmpty
  <1>12. OneControllerPerKubeconfig'
    BY <1>3, <1>4, <1>7, <1>8 DEF RegistryInv, OneControllerPerKubeconfig
  <1>13. (\A e \in ContextIds : count < e => contexts[e].state = "none")'
    BY <1>2, <1>3, <1>4, <1>7, <1>8
  <1>14. QED
    BY <1>9, <1>10, <1>11, <1>12, <1>13 DEF RegistryInv

\* A binding starts a context: no other one in use has its kubeconfig.
LEMMA StartStep ==
  ASSUME RegistryInv, NEW b \in Bindings, NEW k \in MaybeKubeconfig, Start(b, k)
  PROVE  RegistryInv'
  <1> DEFINE R == Released(b, k)
             M == Remaining(b, k)
             c == count + 1
             new == [kubeconfig |-> k, starter |-> b, serviceBindings |-> {b},
                     state |-> IF k \in Failing THEN "unstarted" ELSE "running"]
  <1>1. /\ controllers' = [M EXCEPT ![b] = c]
        /\ contexts' = [R EXCEPT ![c] = new]
        /\ count' = c /\ count < MaxContexts /\ Existing(b, k) = {}
        /\ queue' = IF k \in Failing THEN queue \cup {b} ELSE queue
        /\ Locked(b, k)
    BY DEF Start
  <1>2. count \in 0 .. MaxContexts /\ queue \subseteq Bindings
    BY DEF RegistryInv, TypeOK
  <1>3. /\ R \in [ContextIds -> Context]
        /\ M \in [Bindings -> 0 .. MaxContexts]
        /\ \A d \in Bindings, e \in ContextIds : M[d] = e <=> d \in R[e].serviceBindings
        /\ \A e \in ContextIds :
              /\ R[e].kubeconfig = contexts[e].kubeconfig
              /\ R[e].serviceBindings = {} <=> R[e].state \in {"none", "cancelled"}
              /\ R[e].state \in {"unstarted", "running"}
                   => contexts[e].state \in {"unstarted", "running"}
              /\ count < e => R[e].state = "none"
        /\ M[b] # 0 => contexts[M[b]].kubeconfig = k
    BY ReleasedLemma
  <1>4. \A e \in ContextIds : contexts[e].kubeconfig = k => \A d \in Bindings : M[d] # e
    BY <1>1 DEF Existing
  <1>5. c \in ContextIds /\ c \in Nat /\ c # 0
    BY <1>1, <1>2, KonnectorAssumption DEF ContextIds
  <1>6. /\ new \in Context /\ new.kubeconfig = k /\ new.serviceBindings = {b}
        /\ new.state \in {"unstarted", "running"}
    BY DEF Context
  <1> HIDE DEF R, M, new
  <1>7. M[b] = 0
    BY <1>3, <1>4, KonnectorAssumption DEF ContextIds
  <1>8. R[c].serviceBindings = {}
    BY <1>2, <1>3, <1>5
  <1>9. \A e \in ContextIds : R[e].state \in {"unstarted", "running"} =>
          R[e].kubeconfig # k
    <2> SUFFICES ASSUME NEW e \in ContextIds, R[e].state \in {"unstarted", "running"}
                 PROVE  R[e].kubeconfig # k
      OBVIOUS
    <2>1. R[e].serviceBindings # {} /\ R[e].serviceBindings \subseteq Bindings
      BY <1>3 DEF Context
    <2>2. PICK d \in Bindings : d \in R[e].serviceBindings
      BY <2>1
    <2>3. QED
      BY <1>3, <1>4, <2>2
  <1>10. TypeOK'
    <2>1. queue' \subseteq Bindings /\ count' \in 0 .. MaxContexts
      BY <1>1, <1>2, <1>5 DEF ContextIds
    <2>2. controllers' \in [Bindings -> 0 .. MaxContexts]
      BY <1>1, <1>3, <1>5 DEF ContextIds
    <2>3. contexts' \in [ContextIds -> Context]
      BY <1>1, <1>3, <1>5, <1>6
    <2>4. QED
      BY <1>1, <2>1, <2>2, <2>3, LockedTypes
  <1> HIDE DEF c
  <1>11. RegistrationsAgree'
    BY <1>1, <1>3, <1>5, <1>6, <1>7, <1>8 DEF RegistrationsAgree, ContextIds
  <1>12. StoppedWhenEmpty'
    BY <1>1, <1>3, <1>5, <1>6 DEF StoppedWhenEmpty
  <1>13. OneControllerPerKubeconfig'
    BY <1>1, <1>3, <1>5, <1>6, <1>9 DEF RegistryInv, OneControllerPerKubeconfig
  <1>14. (\A e \in ContextIds : count < e => contexts[e].state = "none")'
    BY <1>1, <1>2, <1>3, <1>5 DEF ContextIds, c
  <1>15. QED
    BY <1>10, <1>11, <1>12, <1>13, <1>14 DEF RegistryInv

-----------------------------------------------------------------------------
(* The other steps.                                                        *)

\* A step that leaves the registry alone keeps what is said of it.
LEMMA RegistryKept ==
  ASSUME RegistryInv, UNCHANGED <<controllers, contexts, count>>, TypeOK'
  PROVE  RegistryInv'
  BY DEF RegistryInv, RegistrationsAgree, StoppedWhenEmpty, OneControllerPerKubeconfig

\* A registry without contexts is consistent.
LEMMA EmptyRegistry ==
  ASSUME controllers' = NoControllers, contexts' = NoContexts, count' = 0, TypeOK'
  PROVE  RegistryInv'
  <1>1. \A b \in Bindings : controllers'[b] = 0
    BY DEF NoControllers
  <1>2. \A c \in ContextIds : /\ contexts'[c].serviceBindings = {}
                              /\ contexts'[c].state = "none"
    BY DEF NoContexts, Unmade
  <1>3. RegistrationsAgree'
    BY <1>1, <1>2 DEF RegistrationsAgree, ContextIds
  <1>4. StoppedWhenEmpty' /\ OneControllerPerKubeconfig'
    BY <1>2 DEF StoppedWhenEmpty, OneControllerPerKubeconfig
  <1>5. QED
    BY <1>2, <1>3, <1>4 DEF RegistryInv

\* What the registry and the workers are when the process starts is typed.
LEMMA StartTypes ==
  /\ AllIdle \in [Bindings -> [pc: {"idle", "secret", "reconcile"},
                               kubeconfig: MaybeKubeconfig]]
  /\ NoControllers \in [Bindings -> 0 .. MaxContexts]
  /\ NoContexts \in [ContextIds -> Context]
  /\ 0 \in 0 .. MaxContexts
  <1>1. (CHOOSE b \in Bindings : TRUE) \in Bindings
    BY KonnectorAssumption
  <1>2. Unmade \in Context
    BY <1>1 DEF Unmade, Context, MaybeKubeconfig
  <1>3. QED
    BY <1>2, KonnectorAssumption
       DEF AllIdle, Idle, NoControllers, NoContexts, MaybeKubeconfig

\* Users change secrets and bindings.
LEMMA ChangeStep ==
  ASSUME RegistryInv,
         \/ \E s \in Secrets, k \in MaybeKubeconfig : SetSecret(s, k)
         \/ \E b \in Bindings : SetBinding(b)
  PROVE  RegistryInv'
  <1>1. TypeOK
    BY DEF RegistryInv
  <1>2. changes' \in 0 .. MaxChanges
    BY <1>1, KonnectorAssumption DEF TypeOK, SetSecret, SetBinding, Change
  <1>3. CASE \E s \in Secrets, k \in MaybeKubeconfig : SetSecret(s, k)
    <2>1. PICK s \in Secrets, k \in MaybeKubeconfig : SetSecret(s, k)
      BY <1>3
    <2>2. /\ secrets' = [t \in Secrets |-> IF t = s THEN Write(secrets[s], k) ELSE secrets[t]]
          /\ UNCHANGED <<bindings, queue, work, controllers, contexts, count,
                         reconciledBy, crashes>>
      BY <1>1, <2>1 DEF SetSecret, Change, registry, TypeOK
    <2>3. IsWatched(Write(secrets[s], k), MaybeKubeconfig)
      BY <1>1, WriteLemma DEF TypeOK
    <2>4. TypeOK'
      BY <1>1, <1>2, <2>2, <2>3 DEF TypeOK
    <2>5. QED
      BY <2>2, <2>4, RegistryKept
  <1>4. CASE \E b \in Bindings : SetBinding(b)
    <2>1. PICK b \in Bindings : SetBinding(b)
      BY <1>4
    <2> DEFINE w == Write(bindings[b], ~Live(bindings[b]))
    <2>2. /\ bindings' = [d \in Bindings |-> IF d = b THEN w ELSE bindings[d]]
          /\ UNCHANGED <<secrets, queue, work, controllers, contexts, count,
                         reconciledBy, crashes>>
      BY <1>1, <2>1 DEF SetBinding, Change, registry, TypeOK
    <2>3. (~Live(bindings[b])) \in BOOLEAN
      OBVIOUS
    <2>4. IsWatched(bindings[b], BOOLEAN)
      BY <1>1 DEF TypeOK
    <2>5. IsWatched(w, BOOLEAN)
      BY <2>3, <2>4, WriteLemma
    <2> HIDE DEF w
    <2>6. TypeOK'
      BY <1>1, <1>2, <2>2, <2>5 DEF TypeOK
    <2>7. QED
      BY <2>2, <2>6, RegistryKept
  <1>5. QED
    BY <1>3, <1>4

\* The informers deliver.
LEMMA DeliverStep ==
  ASSUME RegistryInv,
         \/ \E s \in Secrets : DeliverSecret(s)
         \/ \E b \in Bindings : DeliverBinding(b)
  PROVE  RegistryInv'
  <1>1. TypeOK
    BY DEF RegistryInv
  <1>2. CASE \E s \in Secrets : DeliverSecret(s)
    <2>1. PICK s \in Secrets : DeliverSecret(s)
      BY <1>2
    <2>2. /\ secrets' = [t \in Secrets |-> IF t = s THEN Deliver(secrets[s]) ELSE secrets[t]]
          /\ queue' \subseteq Bindings
          /\ UNCHANGED <<bindings, work, controllers, contexts, count,
                         reconciledBy, changes, crashes>>
      BY <1>1, <2>1 DEF DeliverSecret, EnqueueSecret, registry, budgets, TypeOK
    <2>3. IsWatched(Deliver(secrets[s]), MaybeKubeconfig)
      BY <1>1, <2>1, DeliverLemma DEF TypeOK, DeliverSecret
    <2>4. TypeOK'
      BY <1>1, <2>2, <2>3 DEF TypeOK
    <2>5. QED
      BY <2>2, <2>4, RegistryKept
  <1>3. CASE \E b \in Bindings : DeliverBinding(b)
    <2>1. PICK b \in Bindings : DeliverBinding(b)
      BY <1>3
    <2>2. /\ bindings' = [d \in Bindings |-> IF d = b THEN Deliver(bindings[b])
                                             ELSE bindings[d]]
          /\ queue' \subseteq Bindings
          /\ UNCHANGED <<secrets, work, controllers, contexts, count,
                         reconciledBy, changes, crashes>>
      BY <1>1, <2>1 DEF DeliverBinding, registry, budgets, TypeOK
    <2>3. IsWatched(bindings[b], BOOLEAN) /\ Lagging(bindings[b])
      BY <1>1, <2>1 DEF TypeOK, DeliverBinding
    <2>4. IsWatched(Deliver(bindings[b]), BOOLEAN)
      BY <2>3, DeliverLemma
    <2>5. TypeOK'
      BY <1>1, <2>2, <2>4 DEF TypeOK
    <2>6. QED
      BY <2>2, <2>5, RegistryKept
  <1>4. QED
    BY <1>2, <1>3

\* A worker reads the caches.
LEMMA ReadStep ==
  ASSUME RegistryInv, NEW b \in Bindings, Get(b) \/ GetSecret(b)
  PROVE  RegistryInv'
  <1>1. TypeOK
    BY DEF RegistryInv
  <1>2. CASE Get(b)
    <2>1. work' \in [Bindings -> [pc: {"idle", "secret", "reconcile"},
                                  kubeconfig: MaybeKubeconfig]]
      BY <1>1, <1>2 DEF Get, TypeOK
    <2>2. /\ queue' \subseteq Bindings
          /\ UNCHANGED <<secrets, bindings, controllers, contexts, count,
                         reconciledBy, changes, crashes>>
      BY <1>1, <1>2 DEF Get, api, registry, budgets, TypeOK
    <2>3. TypeOK'
      BY <1>1, <2>1, <2>2 DEF TypeOK
    <2>4. QED
      BY <2>2, <2>3, RegistryKept
  <1>3. CASE GetSecret(b)
    <2>1. Cached(secrets[SecretOf[b]]) \in MaybeKubeconfig
      BY <1>1, ContentsLemma, KonnectorAssumption DEF TypeOK
    <2>2. work' \in [Bindings -> [pc: {"idle", "secret", "reconcile"},
                                  kubeconfig: MaybeKubeconfig]]
      BY <1>1, <1>3, <2>1, WorkType DEF GetSecret
    <2>3. UNCHANGED <<secrets, bindings, queue, controllers, contexts, count,
                      reconciledBy, changes, crashes>>
      BY <1>3 DEF GetSecret, api, registry, budgets
    <2>4. TypeOK'
      BY <1>1, <2>2, <2>3 DEF TypeOK
    <2>5. QED
      BY <2>3, <2>4, RegistryKept
  <1>4. QED
    BY <1>2, <1>3

\* A cluster controller reconciles a binding.
LEMMA ClusterReconcileStep ==
  ASSUME RegistryInv, NEW c \in ContextIds, NEW b \in Bindings, ClusterReconcile(c, b)
  PROVE  RegistryInv'
  <1>1. TypeOK
    BY DEF RegistryInv
  <1>2. contexts[c].kubeconfig \in MaybeKubeconfig
    BY <1>1 DEF TypeOK, Context
  <1>3. /\ reconciledBy' \in [Bindings -> MaybeKubeconfig]
        /\ UNCHANGED <<secrets, bindings, queue, work, controllers, contexts, count,
                       changes, crashes>>
    BY <1>1, <1>2 DEF ClusterReconcile, TypeOK, api, registry, budgets
  <1>4. TypeOK'
    BY <1>1, <1>3 DEF TypeOK
  <1>5. QED
    BY <1>3, <1>4, RegistryKept

\* The process starts again.
LEMMA RestartedStep ==
  ASSUME RegistryInv, Restarted, crashes' \in 0 .. MaxCrashes
  PROVE  RegistryInv'
  <1>1. TypeOK
    BY DEF RegistryInv
  <1>2. \A s \in Secrets : IsWatched(Relist(secrets[s]), MaybeKubeconfig)
    BY <1>1, RelistLemma DEF TypeOK
  <1>3. \A b \in Bindings : IsWatched(bindings[b], BOOLEAN)
    BY <1>1 DEF TypeOK
  <1>4. \A b \in Bindings : IsWatched(Relist(bindings[b]), BOOLEAN)
    BY <1>3, RelistLemma
  <1>5. /\ secrets' = [s \in Secrets |-> Relist(secrets[s])]
        /\ bindings' = [b \in Bindings |-> Relist(bindings[b])]
        /\ queue' \subseteq Bindings /\ work' = AllIdle
        /\ controllers' = NoControllers /\ contexts' = NoContexts /\ count' = 0
        /\ UNCHANGED <<reconciledBy, changes>>
    BY DEF Restarted, Listed
  <1>6. TypeOK'
    BY <1>1, <1>2, <1>4, <1>5, StartTypes DEF TypeOK
  <1>7. QED
    BY <1>5, <1>6, EmptyRegistry

-----------------------------------------------------------------------------
(* The theorems.                                                           *)

\* The registry is consistent when the konnector has started.
LEMMA RegistryInit == Init => RegistryInv
  <1> SUFFICES ASSUME Init PROVE RegistryInv
    OBVIOUS
  <1>1. /\ secrets = [s \in Secrets |-> secrets[s]]
        /\ \A s \in Secrets : IsWatched(secrets[s], MaybeKubeconfig)
    <2>1. PICK k \in [Secrets -> MaybeKubeconfig] : secrets = [s \in Secrets |-> Fresh(k[s])]
      BY DEF Init
    <2>2. QED
      BY <2>1, FreshLemma
  <1>2. /\ bindings = [b \in Bindings |-> bindings[b]]
        /\ \A b \in Bindings : IsWatched(bindings[b], BOOLEAN)
    <2>1. PICK p \in [Bindings -> BOOLEAN] : bindings = [b \in Bindings |-> Fresh(p[b])]
      BY DEF Init
    <2>2. \A b \in Bindings : IsWatched(Fresh(p[b]), BOOLEAN)
      BY <2>1, FreshLemma
    <2>3. QED
      BY <2>1, <2>2
  <1>3. /\ queue \subseteq Bindings /\ work = AllIdle
        /\ controllers = NoControllers /\ contexts = NoContexts /\ count = 0
        /\ changes \in 0 .. MaxChanges /\ crashes \in 0 .. MaxCrashes
        /\ reconciledBy \in [Bindings -> MaybeKubeconfig]
    BY KonnectorAssumption DEF Init, Listed, MaybeKubeconfig
  <1>4. TypeOK
    BY <1>1, <1>2, <1>3, StartTypes DEF TypeOK
  <1>5. \A c \in ContextIds : /\ contexts[c].serviceBindings = {}
                              /\ contexts[c].state = "none"
    BY <1>3 DEF NoContexts, Unmade
  <1>6. RegistrationsAgree
    BY <1>3, <1>5 DEF RegistrationsAgree, NoControllers, ContextIds
  <1>7. QED
    BY <1>4, <1>5, <1>6 DEF RegistryInv, StoppedWhenEmpty, OneControllerPerKubeconfig

\* Every step of the specification keeps the registry consistent.
LEMMA RegistryStep == RegistryInv /\ [Next]_vars => RegistryInv'
  <1> SUFFICES ASSUME RegistryInv, [Next]_vars PROVE RegistryInv'
    OBVIOUS
  <1>1. CASE UNCHANGED vars
    <2>1. TypeOK'
      BY <1>1 DEF vars, RegistryInv, TypeOK
    <2>2. QED
      BY <1>1, <2>1, RegistryKept DEF vars
  <1>2. CASE \E b \in Bindings : Worker(b)
    BY <1>2, ReadStep, LeaveStep, JoinStep, StartStep DEF Worker
  <1>3. CASE \E c \in ContextIds, b \in Bindings : ClusterPanic(c, b)
    BY <1>3, RestartedStep DEF ClusterPanic, RegistryInv, TypeOK
  <1>4. CASE Crash
    <2>1. crashes' \in 0 .. MaxCrashes
      BY <1>4, KonnectorAssumption DEF Crash, RegistryInv, TypeOK
    <2>2. QED
      BY <1>4, <2>1, RestartedStep DEF Crash
  <1>5. CASE \E c \in ContextIds, b \in Bindings : ClusterReconcile(c, b)
    BY <1>5, ClusterReconcileStep
  <1>6. QED
    BY <1>1, <1>2, <1>3, <1>4, <1>5, ChangeStep, DeliverStep DEF Next

\* The inductive invariant of the registry.
THEOREM RegistryInvariant == Spec => []RegistryInv
  BY RegistryInit, RegistryStep, PTL DEF Spec

\* The map of controllers and the contexts' sets of bindings always agree.
THEOREM Agreement == Spec => []RegistrationsAgree
  <1>1. RegistryInv => RegistrationsAgree
    BY DEF RegistryInv
  <1>2. QED
    BY <1>1, RegistryInvariant, PTL

\* A kubeconfig never has two sets of controllers that were not told to stop.
THEOREM OneController == Spec => []OneControllerPerKubeconfig
  <1>1. RegistryInv => OneControllerPerKubeconfig
    BY DEF RegistryInv
  <1>2. QED
    BY <1>1, RegistryInvariant, PTL

\* A context is stopped exactly when the last of its bindings has left it.
THEOREM StoppedExactly == Spec => []StoppedWhenEmpty
  <1>1. RegistryInv => StoppedWhenEmpty
    BY DEF RegistryInv
  <1>2. QED
    BY <1>1, RegistryInvariant, PTL
===============================================================================
