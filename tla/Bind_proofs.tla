---------------------------- MODULE Bind_proofs ----------------------------
(***************************************************************************)
(* Proofs about kubectl bind and the backend's handlers, for any number of *)
(* CLIs, users, namespaces and secrets and without the bounds on clicks    *)
(* and failures.                                                           *)
(***************************************************************************)
EXTENDS Bind, TLAPS

-----------------------------------------------------------------------------
(* The conjuncts of BindInv that the backend's steps and those that the    *)
(* CLI's steps leave alone.                                                *)

\* What handlers, kubeconfigs, secrets and CLIs refer to stays while the provider's
\* objects grow, and neither the tabs nor the consumer's side change.
LEMMA ObjectsGrow ==
  ASSUME BindInv, objs \subseteq objs', \A n \in Issued' : Complete(n) \subseteq objs',
         UNCHANGED <<cli, requests, granted, secrets>>
  PROVE  /\ \A n \in Issued' : Complete(n) \subseteq objs'
         /\ \A s \in Secrets : secrets'[s] # None => secrets'[s] \in Issued'
         /\ \A c \in Clis : cli'[c].ns # None => cli'[c].ns \in Issued'
         /\ \A c \in Clis : cli'[c].pc \in {"update", "request"} => cli'[c].secret \in Secrets
         /\ \A q \in requests' : q.phase = "Succeeded" => q.key \in granted'
         /\ \A c \in Clis : cli'[c].pc \in PastRequest => cli'[c].name \in Names
         /\ \A c \in Clis : cli'[c].pc \in PastPoll => Key(cli'[c].ns, cli'[c].name) \in granted'
  BY DEF BindInv, Issued, Key

\* A handler keeps its progress while the provider's objects grow.
LEMMA ProgressGrows ==
  ASSUME objs \subseteq objs', NEW t, Progress(t)
  PROVE  Progress(t)'
  BY DEF Progress, PastToken, PastSecret, PastRole, PastAccount, PastBinding, PastNamespace

-----------------------------------------------------------------------------
(* One lemma per group of actions.                                         *)

LEMMA InitBind == Init => BindInv
  <1> SUFFICES ASSUME Init PROVE BindInv
    OBVIOUS
  <1>1. /\ cookie = [session |-> None, user |-> None]
        /\ tab = [c \in Clis |-> NoCall] /\ cli = [c \in Clis |-> NewRun]
        /\ bindings = [n \in Names |-> None] /\ ops = 0 /\ requests = {}
    BY DEF Init
  <1>2. /\ secrets \in [Secrets -> Namespaces \cup {None}]
        /\ \A n \in Issued : Complete(n) \subseteq objs
        /\ \A s \in Secrets : secrets[s] # None => secrets[s] \in Issued
    <2>1. CASE objs = {} /\ secrets = [s \in Secrets |-> None]
      BY <2>1 DEF Issued
    <2>2. CASE ~(objs = {} /\ secrets = [s \in Secrets |-> None])
      <3> DEFINE n == CHOOSE n \in Namespaces : TRUE
                 s == CHOOSE s \in Secrets : TRUE
      <3>1. n \in Namespaces /\ s \in Secrets
        BY ConstantsAssumption
      <3>2. PICK u \in Users : objs = {Namespace(n, u)} \cup Complete(n)
        BY <2>2 DEF Init
      <3>3. secrets = [t \in Secrets |-> IF t = s THEN n ELSE None]
        BY <2>2 DEF Init
      <3> HIDE DEF n, s
      <3>4. \A m \in Issued : m = n
        BY <3>2 DEF Issued, Obj, Namespace, Complete
      <3>5. n \in Issued
        BY <3>1, <3>2 DEF Issued, Complete
      <3>6. QED
        BY <3>1, <3>2, <3>3, <3>4, <3>5
    <2>3. QED
      BY <2>1, <2>2
  <1>3. TypeOK
    BY <1>1, <1>2 DEF TypeOK, Calls, Runs, NoCall, NewRun, UpToRequest
  <1>4. /\ \A c \in Clis : Progress(tab[c])
        /\ \A c \in Clis : cli[c].ns = None /\ cli[c].pc \notin PastPoll \cup PastRequest \cup {"update", "request"}
    BY <1>1 DEF Progress, NoCall, NewRun, PastPoll, PastRequest, PastToken, PastSecret, PastRole,
                PastAccount, PastBinding, PastNamespace
  <1>5. QED
    BY <1>1, <1>2, <1>3, <1>4 DEF BindInv

\* The token controller.
LEMMA TokenBind == BindInv /\ IssueToken => BindInv'
  <1> SUFFICES ASSUME BindInv, IssueToken PROVE BindInv'
    OBVIOUS
  <1>1. PICK n \in Namespaces : objs' = objs \cup {Obj("Token", n)}
    BY DEF IssueToken
  <1>2. UNCHANGED <<cookie, tab, cli, requests, granted, secrets, bindings, ops>>
    BY DEF IssueToken, consumer, bounds
  <1>3. \A m \in Issued' : Complete(m) \subseteq objs'
    BY <1>1 DEF BindInv, Issued, Obj
  <1>4. \A c \in Clis : Progress(tab[c])'
    BY <1>1, <1>2, ProgressGrows DEF BindInv, Progress
  <1>5. TypeOK'
    BY <1>2 DEF BindInv, TypeOK
  <1>6. QED
    BY <1>1, <1>2, <1>3, <1>4, <1>5, ObjectsGrow DEF BindInv

\* A step of the handler of c's tab, to a call t with the progress that it claims.
LEMMA CallStep ==
  ASSUME BindInv, NEW c \in Clis, NEW t \in Calls, tab' = [tab EXCEPT ![c] = t],
         objs \subseteq objs', \A n \in Issued' : Complete(n) \subseteq objs', Progress(t)',
         UNCHANGED <<cookie, cli, requests, granted, secrets, bindings, ops>>
  PROVE  BindInv'
  <1>1. TypeOK'
    BY DEF BindInv, TypeOK
  <1>2. \A d \in Clis : Progress(tab[d])'
    <2> SUFFICES ASSUME NEW d \in Clis PROVE Progress(tab[d])'
      OBVIOUS
    <2>1. CASE d = c
      <3>1. tab'[d] = t
        BY <2>1 DEF BindInv, TypeOK
      <3>2. QED
        BY <3>1 DEF Progress
    <2>2. CASE d # c
      <3>1. tab'[d] = tab[d]
        BY <2>2 DEF BindInv, TypeOK
      <3>2. Progress(tab[d])
        BY DEF BindInv
      <3>3. QED
        BY <3>1, <3>2, ProgressGrows DEF Progress
    <2>3. QED
      BY <2>1, <2>2
  <1>3. QED
    BY <1>1, <1>2, ObjectsGrow DEF BindInv

\* A handler that fails.
LEMMA FailBind ==
  ASSUME BindInv, NEW c \in Clis, Fail(c),
         UNCHANGED <<objs, cookie, cli, requests, granted, secrets, bindings, ops>>
  PROVE  BindInv'
  <1>1. NoCall \in Calls /\ Progress(NoCall)'
    BY DEF NoCall, Calls, Progress, PastToken, PastSecret, PastRole, PastAccount, PastBinding,
           PastNamespace
  <1>2. \A n \in Issued' : Complete(n) \subseteq objs'
    BY DEF BindInv, Issued
  <1>3. QED
    BY <1>1, <1>2, CallStep DEF Fail

\* A click starts a handler with the session in the cookie.
LEMMA ClickBind == ASSUME BindInv, NEW c \in Clis, Click(c) PROVE BindInv'
  <1>0. PICK t : t = [pc |-> "namespace", session |-> cookie.session, user |-> cookie.user, ns |-> None]
    OBVIOUS
  <1>1. t \in Calls /\ t.session \in Clis /\ t.pc = "namespace"
    BY <1>0 DEF Click, BindInv, TypeOK, Calls
  <1>2. tab' = [tab EXCEPT ![c] = t]
        /\ UNCHANGED <<objs, cookie, cli, requests, granted, secrets, bindings, ops>>
    BY <1>0 DEF Click, consumer
  <1>3. \A n \in Issued' : Complete(n) \subseteq objs'
    BY <1>2 DEF BindInv, Issued
  <1>4. Progress(t)'
    BY <1>1 DEF Progress, PastToken, PastSecret, PastRole, PastAccount, PastBinding, PastNamespace
  <1>5. QED
    BY <1>1, <1>2, <1>3, <1>4, CallStep

\* The handler finds the namespace of its identity or makes one.
LEMMA NamespaceBind == ASSUME BindInv, NEW c \in Clis, FindNamespace(c) PROVE BindInv'
  <1>1. UNCHANGED <<cookie, cli, requests, granted, secrets, bindings, ops>> /\ tab[c].pc = "namespace"
    BY DEF FindNamespace, At, consumer, bounds
  <1>2. ASSUME NEW n \in Namespaces, objs \subseteq objs', \A m \in Issued' : m \in Issued,
               tab' = [tab EXCEPT ![c].pc = "ClusterBinding", ![c].ns = n]
        PROVE  BindInv'
    <2>0. PICK t : t = [tab[c] EXCEPT !.pc = "ClusterBinding", !.ns = n]
      OBVIOUS
    <2>1. t \in Calls /\ t.pc = "ClusterBinding" /\ t.ns = n /\ t.session = tab[c].session
      BY <2>0 DEF BindInv, TypeOK, Calls, PastNamespace
    <2>2. tab' = [tab EXCEPT ![c] = t]
      BY <1>2, <2>0 DEF BindInv, TypeOK
    <2>3. tab[c].session \in Clis
      BY <1>1 DEF BindInv, Progress
    <2>4. Progress(t)'
      BY <2>1, <2>3 DEF Progress, PastToken, PastSecret, PastRole, PastAccount, PastBinding
    <2>5. \A m \in Issued' : Complete(m) \subseteq objs'
      BY <1>2 DEF BindInv
    <2>6. QED
      BY <1>1, <1>2, <2>1, <2>2, <2>4, <2>5, CallStep
  <1> DEFINE new == CHOOSE n \in Unnamed : TRUE
  <1>3. PICK found \in SUBSET NamespacesByIdentity(tab[c].user) :
          \/ Cardinality(found) > 1 /\ Fail(c) /\ UNCHANGED objs
          \/ /\ \E n \in found : found = {n} /\ tab' = [tab EXCEPT ![c].pc = "ClusterBinding", ![c].ns = n]
             /\ UNCHANGED objs
          \/ /\ found = {} /\ Unnamed # {}
             /\ objs' = objs \cup {Namespace(new, tab[c].user)}
             /\ tab' = [tab EXCEPT ![c].pc = "ClusterBinding", ![c].ns = new]
    BY DEF FindNamespace
  <1>4. CASE Fail(c) /\ UNCHANGED objs
    BY <1>1, <1>4, FailBind
  <1>5. CASE /\ \E n \in found : found = {n} /\ tab' = [tab EXCEPT ![c].pc = "ClusterBinding", ![c].ns = n]
             /\ UNCHANGED objs
    BY <1>2, <1>5 DEF NamespacesByIdentity, Issued
  <1>6. CASE /\ Unnamed # {}
             /\ objs' = objs \cup {Namespace(new, tab[c].user)}
             /\ tab' = [tab EXCEPT ![c].pc = "ClusterBinding", ![c].ns = new]
    <2>1. new \in Namespaces
      BY <1>6 DEF Unnamed
    <2> HIDE DEF new
    <2>2. \A m \in Issued' : m \in Issued
      BY <1>6 DEF Issued, Obj, Namespace
    <2>3. QED
      BY <1>2, <1>6, <2>1, <2>2
  <1>7. QED
    BY <1>3, <1>4, <1>5, <1>6

\* A step of the handler that makes the object o, or finds it, or fails.
LEMMA EnsureBind ==
  ASSUME BindInv, NEW c \in Clis, NEW o, NEW next, Ensure(c, o, next),
         NEW t \in Calls, t = [tab[c] EXCEPT !.pc = next],
         \A n \in Namespaces : o # Obj("Kubeconfig", n),
         objs \subseteq objs' /\ o \in objs' => Progress(t)',
         UNCHANGED <<cookie, cli, requests, granted, secrets, bindings, ops>>
  PROVE  BindInv'
  <1>1. CASE Fail(c) /\ UNCHANGED objs
    BY <1>1, FailBind
  <1>2. CASE Goto(c, next) /\ objs \subseteq objs' /\ objs' \subseteq objs \cup {o} /\ o \in objs'
    <2>1. tab' = [tab EXCEPT ![c] = t]
      BY <1>2 DEF Goto, BindInv, TypeOK
    <2>2. \A n \in Issued' : Complete(n) \subseteq objs'
      BY <1>2 DEF Issued, BindInv
    <2>3. QED
      BY <1>2, <2>1, <2>2, CallStep
  <1>3. QED
    BY <1>1, <1>2 DEF Ensure

\* The four objects that are made like this.
LEMMA MakeBind ==
  ASSUME BindInv, NEW c \in Clis,
         EnsureClusterBinding(c) \/ CreateServiceAccount(c)
           \/ EnsureBinderClusterRole(c) \/ CreateSASecret(c)
  PROVE  BindInv'
  <1> USE DEF PastToken, PastSecret, PastRole, PastAccount, PastBinding, PastNamespace
  <1>1. UNCHANGED <<cookie, cli, requests, granted, secrets, bindings, ops>>
    BY DEF EnsureClusterBinding, CreateServiceAccount, EnsureBinderClusterRole, CreateSASecret,
           At, consumer, bounds
  <1>2. Progress(tab[c])
    BY DEF BindInv
  <1>3. \A n, m : \A k \in {"ClusterBinding", "ServiceAccount", "ClusterRole", "ServiceAccountSecret"} :
          Obj(k, m) # Obj("Kubeconfig", n)
    BY DEF Obj
  <1>4. CASE EnsureClusterBinding(c)
    <2>1. PICK o, t : o = Obj("ClusterBinding", tab[c].ns) /\ t = [tab[c] EXCEPT !.pc = "ServiceAccount"]
      OBVIOUS
    <2>2. tab[c].pc = "ClusterBinding" /\ Ensure(c, o, "ServiceAccount") /\ \A n \in Namespaces : o # Obj("Kubeconfig", n)
      BY <1>3, <1>4, <2>1 DEF EnsureClusterBinding, At
    <2>3. t \in Calls /\ t.pc = "ServiceAccount" /\ t.session = tab[c].session /\ t.ns = tab[c].ns
      BY <2>1 DEF BindInv, TypeOK, Calls
    <2>4. objs \subseteq objs' /\ o \in objs' => Progress(t)'
      BY <1>2, <2>1, <2>2, <2>3 DEF Progress
    <2>5. QED
      BY <1>1, <2>1, <2>2, <2>3, <2>4, EnsureBind
  <1>5. CASE CreateServiceAccount(c)
    <2>1. PICK o, t : o = Obj("ServiceAccount", tab[c].ns) /\ t = [tab[c] EXCEPT !.pc = "ClusterRole"]
      OBVIOUS
    <2>2. tab[c].pc = "ServiceAccount" /\ Ensure(c, o, "ClusterRole") /\ \A n \in Namespaces : o # Obj("Kubeconfig", n)
      BY <1>3, <1>5, <2>1 DEF CreateServiceAccount, At
    <2>3. t \in Calls /\ t.pc = "ClusterRole" /\ t.session = tab[c].session /\ t.ns = tab[c].ns
      BY <2>1 DEF BindInv, TypeOK, Calls
    <2>4. objs \subseteq objs' /\ o \in objs' => Progress(t)'
      BY <1>2, <2>1, <2>2, <2>3 DEF Progress
    <2>5. QED
      BY <1>1, <2>1, <2>2, <2>3, <2>4, EnsureBind
  <1>6. CASE EnsureBinderClusterRole(c)
    <2>1. PICK o, t : o = Obj("ClusterRole", None) /\ t = [tab[c] EXCEPT !.pc = "ServiceAccountSecret"]
      OBVIOUS
    <2>2. tab[c].pc = "ClusterRole" /\ Ensure(c, o, "ServiceAccountSecret") /\ \A n \in Namespaces : o # Obj("Kubeconfig", n)
      BY <1>3, <1>6, <2>1 DEF EnsureBinderClusterRole, At
    <2>3. t \in Calls /\ t.pc = "ServiceAccountSecret" /\ t.session = tab[c].session /\ t.ns = tab[c].ns
      BY <2>1 DEF BindInv, TypeOK, Calls
    <2>4. objs \subseteq objs' /\ o \in objs' => Progress(t)'
      BY <1>2, <2>1, <2>2, <2>3 DEF Progress
    <2>5. QED
      BY <1>1, <2>1, <2>2, <2>3, <2>4, EnsureBind
  <1>7. CASE CreateSASecret(c)
    <2>1. PICK o, t : o = Obj("ServiceAccountSecret", tab[c].ns) /\ t = [tab[c] EXCEPT !.pc = "Token"]
      OBVIOUS
    <2>2. tab[c].pc = "ServiceAccountSecret" /\ Ensure(c, o, "Token") /\ \A n \in Namespaces : o # Obj("Kubeconfig", n)
      BY <1>3, <1>7, <2>1 DEF CreateSASecret, At
    <2>3. t \in Calls /\ t.pc = "Token" /\ t.session = tab[c].session /\ t.ns = tab[c].ns
      BY <2>1 DEF BindInv, TypeOK, Calls
    <2>4. objs \subseteq objs' /\ o \in objs' => Progress(t)'
      BY <1>2, <2>1, <2>2, <2>3 DEF Progress
    <2>5. QED
      BY <1>1, <2>1, <2>2, <2>3, <2>4, EnsureBind
  <1>8. QED
    BY <1>4, <1>5, <1>6, <1>7

\* The token is there, or the handler gives up.
LEMMA WaitBind == ASSUME BindInv, NEW c \in Clis, WaitForToken(c) PROVE BindInv'
  <1>1. UNCHANGED <<objs, cookie, cli, requests, granted, secrets, bindings, ops>> /\ tab[c].pc = "Token"
    BY DEF WaitForToken, At, consumer, bounds
  <1>2. CASE Fail(c)
    BY <1>1, <1>2, FailBind
  <1>3. CASE Obj("Token", tab[c].ns) \in objs /\ Goto(c, "Kubeconfig")
    <2> USE DEF PastToken, PastSecret, PastRole, PastAccount, PastBinding, PastNamespace
    <2>1. PICK t : t = [tab[c] EXCEPT !.pc = "Kubeconfig"]
      OBVIOUS
    <2>2. t \in Calls /\ t.pc = "Kubeconfig" /\ t.session = tab[c].session /\ t.ns = tab[c].ns
      BY <2>1 DEF BindInv, TypeOK, Calls
    <2>3. tab' = [tab EXCEPT ![c] = t]
      BY <1>3, <2>1 DEF Goto, BindInv, TypeOK
    <2>4. Progress(tab[c])
      BY DEF BindInv
    <2>5. Progress(t)'
      BY <1>1, <1>3, <2>2, <2>4 DEF Progress
    <2>6. \A n \in Issued' : Complete(n) \subseteq objs'
      BY <1>1 DEF Issued, BindInv
    <2>7. QED
      BY <1>1, <2>2, <2>3, <2>5, <2>6, CallStep
  <1>4. QED
    BY <1>2, <1>3 DEF WaitForToken

\* The kubeconfig is made when all else is there.
LEMMA KubeconfigBind == ASSUME BindInv, NEW c \in Clis, GenerateKubeconfig(c) PROVE BindInv'
  <1>1. UNCHANGED <<cookie, cli, requests, granted, secrets, bindings, ops>> /\ tab[c].pc = "Kubeconfig"
    BY DEF GenerateKubeconfig, At, consumer, bounds
  <1>2. CASE Fail(c) /\ UNCHANGED objs
    BY <1>1, <1>2, FailBind
  <1>3. CASE Goto(c, "respond") /\ objs' = objs \cup {Obj("Kubeconfig", tab[c].ns)}
    <2> USE DEF PastToken, PastSecret, PastRole, PastAccount, PastBinding, PastNamespace
    <2>1. PICK t : t = [tab[c] EXCEPT !.pc = "respond"]
      OBVIOUS
    <2>2. t \in Calls /\ t.pc = "respond" /\ t.session = tab[c].session /\ t.ns = tab[c].ns
      BY <2>1 DEF BindInv, TypeOK, Calls
    <2>3. tab' = [tab EXCEPT ![c] = t]
      BY <1>3, <2>1 DEF Goto, BindInv, TypeOK
    <2>4. Progress(tab[c])
      BY DEF BindInv
    <2>5. Progress(t)'
      BY <1>1, <1>3, <2>2, <2>4 DEF Progress
    <2>6. Complete(tab[c].ns) \subseteq objs'
      BY <1>1, <1>3, <2>4 DEF Progress, Complete
    <2>7. ASSUME NEW n \in Issued' PROVE Complete(n) \subseteq objs'
      <3>1. CASE n \in Issued
        BY <1>3, <3>1 DEF BindInv
      <3>2. CASE n \notin Issued
        <4>1. n = tab[c].ns
          BY <1>3, <3>2 DEF Issued, Obj
        <4>2. QED
          BY <2>6, <4>1
      <3>3. QED
        BY <3>1, <3>2
    <2>8. QED
      BY <1>1, <1>3, <2>2, <2>3, <2>5, <2>7, CallStep
  <1>4. QED
    <2>1. objs = objs \cup {o \in {Obj("Kubeconfig", tab[c].ns)} : o \in objs}
      OBVIOUS
    <2>2. QED
      BY <1>2, <1>3, <2>1 DEF GenerateKubeconfig

\* A step of the CLI c, to a run r, that may also write to the consumer cluster.
LEMMA CliStep ==
  ASSUME BindInv, NEW c \in Clis, NEW r \in Runs, cli' = [cli EXCEPT ![c] = r],
         r.ns # None => r.ns \in Issued,
         r.pc \in {"update", "request"} => r.secret \in Secrets,
         r.pc \in PastRequest => r.name \in Names,
         r.pc \in PastPoll => Key(r.ns, r.name) \in granted,
         \A q \in requests' : q.phase = "Succeeded" => q.key \in granted,
         secrets' \in [Secrets -> Namespaces \cup {None}],
         \A s \in Secrets : secrets'[s] # None => secrets'[s] \in Issued,
         bindings' \in [Names -> Secrets \cup {None}], ops' \in Nat,
         UNCHANGED <<objs, cookie, tab, granted>>
  PROVE  BindInv'
  <1>1. TypeOK'
    BY DEF BindInv, TypeOK
  <1>2. \A d \in Clis : Progress(tab[d])'
    BY DEF BindInv, Progress
  <1>3. Issued' = Issued
    BY DEF Issued
  <1>4. \A d \in Clis : cli'[d] = IF d = c THEN r ELSE cli[d]
    BY DEF BindInv, TypeOK
  <1>5. /\ \A d \in Clis : cli'[d].ns # None => cli'[d].ns \in Issued'
        /\ \A d \in Clis : cli'[d].pc \in {"update", "request"} => cli'[d].secret \in Secrets
        /\ \A d \in Clis : cli'[d].pc \in PastRequest => cli'[d].name \in Names
        /\ \A d \in Clis : cli'[d].pc \in PastPoll => Key(cli'[d].ns, cli'[d].name) \in granted'
    BY <1>3, <1>4 DEF BindInv
  <1>6. QED
    BY <1>1, <1>2, <1>3, <1>5 DEF BindInv

\* A step of the CLI c that only takes it further, before its request or after it.
LEMMA MoveBind ==
  ASSUME BindInv, NEW c \in Clis, NEW pc, Move(c, pc),
         \/ pc \in UpToRequest
         \/ pc \in PastPoll /\ cli[c].pc \in PastRequest /\ Key(cli[c].ns, cli[c].name) \in granted,
         pc \in {"update", "request"} => cli[c].secret \in Secrets,
         ops' \in Nat, bindings' \in [Names -> Secrets \cup {None}],
         UNCHANGED <<objs, cookie, tab, requests, granted, secrets>>
  PROVE  BindInv'
  <1>1. PICK r : r = [cli[c] EXCEPT !.pc = pc]
    OBVIOUS
  <1>2. /\ r \in Runs
        /\ r.pc = pc /\ r.ns = cli[c].ns /\ r.name = cli[c].name /\ r.secret = cli[c].secret
        /\ cli' = [cli EXCEPT ![c] = r]
    BY <1>1 DEF BindInv, TypeOK, Runs, Move, PastRequest
  <1>3. /\ pc \in PastRequest => cli[c].pc \in PastRequest
        /\ pc \in PastPoll => Key(cli[c].ns, cli[c].name) \in granted
    BY DEF UpToRequest, PastRequest, PastPoll
  <1>4. /\ r.ns # None => r.ns \in Issued
        /\ r.pc \in PastRequest => r.name \in Names
        /\ r.pc \in PastPoll => Key(r.ns, r.name) \in granted
        /\ \A q \in requests' : q.phase = "Succeeded" => q.key \in granted
    BY <1>2, <1>3 DEF BindInv
  <1>5. /\ secrets' \in [Secrets -> Namespaces \cup {None}]
        /\ \A s \in Secrets : secrets'[s] # None => secrets'[s] \in Issued
    BY DEF BindInv, TypeOK
  <1>6. QED
    BY <1>2, <1>4, <1>5, CliStep

\* The response of a handler is taken by the CLI of its session.
LEMMA RespondBind == ASSUME BindInv, NEW c \in Clis, Respond(c) PROVE BindInv'
  <1>1. /\ Fail(c) /\ tab[c].pc = "respond"
        /\ UNCHANGED <<objs, cookie, requests, granted, secrets, bindings, ops>>
    BY DEF Respond, consumer, bounds
  <1>2. Progress(tab[c])
    BY DEF BindInv
  <1>3. PICK d, n : d = tab[c].session /\ n = tab[c].ns
    OBVIOUS
  <1>4. d \in Clis /\ n \in Namespaces /\ n \in Issued
    BY <1>1, <1>2, <1>3 DEF Progress, Issued, PastToken, PastSecret, PastRole, PastAccount,
                           PastBinding, PastNamespace
  <1>5. /\ tab' \in [Clis -> Calls] /\ \A e \in Clis : Progress(tab[e])'
    <2>1. NoCall \in Calls /\ Progress(NoCall)'
      BY DEF NoCall, Calls, Progress, PastToken, PastSecret, PastRole, PastAccount, PastBinding,
             PastNamespace
    <2>2. tab' = [tab EXCEPT ![c] = NoCall]
      BY <1>1 DEF Fail
    <2>3. \A e \in Clis : tab'[e] = IF e = c THEN NoCall ELSE tab[e]
      BY <2>2 DEF BindInv, TypeOK
    <2>4. \A e \in Clis : Progress(tab[e])
      BY DEF BindInv
    <2>5. QED
      BY <1>1, <2>1, <2>2, <2>3, <2>4 DEF BindInv, TypeOK, Progress
  <1>6. CASE cli' = cli
    BY <1>1, <1>5, <1>6 DEF BindInv, TypeOK, Issued
  <1>7. CASE cli' = [cli EXCEPT ![d].pc = "secret", ![d].ns = n]
    <2>1. /\ cli' \in [Clis -> Runs]
          /\ cli'[d].ns = n /\ cli'[d].pc = "secret"
          /\ \A e \in Clis \ {d} : cli'[e] = cli[e]
      BY <1>4, <1>7 DEF BindInv, TypeOK, Runs, UpToRequest
    <2>2. Issued' = Issued
      BY <1>1 DEF Issued
    <2>3. /\ \A e \in Clis : cli'[e].ns # None => cli'[e].ns \in Issued'
          /\ \A e \in Clis : cli'[e].pc \in {"update", "request"} => cli'[e].secret \in Secrets
          /\ \A e \in Clis : cli'[e].pc \in PastRequest => cli'[e].name \in Names
          /\ \A e \in Clis : cli'[e].pc \in PastPoll => Key(cli'[e].ns, cli'[e].name) \in granted'
      BY <1>1, <1>4, <2>1, <2>2 DEF BindInv, PastRequest, PastPoll
    <2>4. TypeOK'
      BY <1>1, <1>5, <2>1 DEF BindInv, TypeOK
    <2>5. QED
      BY <1>1, <1>5, <2>2, <2>3, <2>4 DEF BindInv
  <1>8. QED
    BY <1>3, <1>6, <1>7 DEF Respond, Callback

\* The steps of the CLI that write nothing but its own state.
LEMMA ReadBind ==
  ASSUME BindInv, NEW c \in Clis,
         \/ Start(c) \/ NoResponse(c) \/ RequestEnds(c) \/ BindingsAreServed(c)
         \/ GetAPIServiceBinding(c) \/ DeployKonnector(c) \/ CliFails(c)
  PROVE  BindInv'
  <1> USE DEF UpToRequest, PastRequest, PastPoll
  <1>0. ops \in Nat /\ bindings \in [Names -> Secrets \cup {None}]
    BY DEF BindInv, TypeOK
  <1>1. /\ UNCHANGED <<objs, cookie, tab, requests, granted, secrets, bindings>>
        /\ ops' \in Nat
    BY <1>0 DEF Start, NoResponse, RequestEnds, BindingsAreServed, GetAPIServiceBinding,
                DeployKonnector, CliFails, Is, consumer, bounds
  <1>2. cli[c].pc \in PastPoll => Key(cli[c].ns, cli[c].name) \in granted
    BY DEF BindInv
  <1>3. RequestEnds(c) => Move(c, "failed") \/ Key(cli[c].ns, cli[c].name) \in granted
    BY DEF RequestEnds, Find, BindInv
  <1>4. \E pc \in (UpToRequest \cup PastPoll) \ {"update", "request"} :
          /\ Move(c, pc)
          /\ \/ pc \in UpToRequest
             \/ cli[c].pc \in PastRequest /\ Key(cli[c].ns, cli[c].name) \in granted
    BY <1>2, <1>3 DEF Start, NoResponse, RequestEnds, BindingsAreServed, GetAPIServiceBinding,
           DeployKonnector, CliFails, Is
  <1>5. QED
    BY <1>0, <1>1, <1>4, MoveBind

\* A secret that is found has the namespace of the response.
LEMMA FindBind == ASSUME BindInv, NEW c \in Clis, FindSecret(c) PROVE BindInv'
  <1>1. UNCHANGED <<objs, cookie, tab, requests, granted, secrets, bindings, ops>> /\ cli[c].pc = "secret"
    BY DEF FindSecret, Is, consumer, bounds
  <1>2. ops' \in Nat /\ bindings' \in [Names -> Secrets \cup {None}]
        /\ secrets' \in [Secrets -> Namespaces \cup {None}]
        /\ \A s \in Secrets : secrets'[s] # None => secrets'[s] \in Issued
    BY <1>1 DEF BindInv, TypeOK
  <1>3. CASE Move(c, "create")
    BY <1>1, <1>2, <1>3, MoveBind DEF UpToRequest
  <1>4. ASSUME NEW s \in Secrets, cli' = [cli EXCEPT ![c].pc = "update", ![c].secret = s]
        PROVE  BindInv'
    <2>1. PICK r : r = [cli[c] EXCEPT !.pc = "update", !.secret = s]
      OBVIOUS
    <2>2. /\ r \in Runs /\ r.pc = "update" /\ r.ns = cli[c].ns /\ r.secret = s
          /\ cli' = [cli EXCEPT ![c] = r]
      BY <1>4, <2>1 DEF BindInv, TypeOK, Runs, UpToRequest
    <2>3. r.ns # None => r.ns \in Issued
      BY <2>2 DEF BindInv
    <2>4. QED
      BY <1>1, <1>2, <2>2, <2>3, CliStep DEF PastRequest, PastPoll, BindInv
  <1>5. QED
    BY <1>3, <1>4 DEF FindSecret, FindRemoteKubeconfig

\* A new secret is one that has not been used.
LEMMA NewSecretUnused == Unused # {} => NewSecret \in Secrets /\ secrets[NewSecret] = None
  BY DEF Unused, NewSecret

\* A secret is created with the namespace of the response, or the one found is updated.
LEMMA EnsureSecretBind == ASSUME BindInv, NEW c \in Clis, EnsureKubeconfigSecret(c) PROVE BindInv'
  <1>1. UNCHANGED <<objs, cookie, tab, requests, granted, bindings, ops>> /\ cli[c].pc \in {"create", "update"}
    BY DEF EnsureKubeconfigSecret, Is, bounds
  <1>2. ops' \in Nat /\ bindings' \in [Names -> Secrets \cup {None}]
    BY <1>1 DEF BindInv, TypeOK
  <1>3. cli[c].ns \in Namespaces \cup {None} /\ (cli[c].ns # None => cli[c].ns \in Issued)
    BY DEF BindInv, TypeOK, Runs
  <1>4. ASSUME NEW s \in Secrets, secrets' = [secrets EXCEPT ![s] = cli[c].ns]
        PROVE  /\ secrets' \in [Secrets -> Namespaces \cup {None}]
               /\ \A t \in Secrets : secrets'[t] # None => secrets'[t] \in Issued
    BY <1>3, <1>4 DEF BindInv, TypeOK
  <1>5. CASE /\ cli[c].pc = "create" /\ Unused # {}
             /\ secrets' = [secrets EXCEPT ![NewSecret] = cli[c].ns]
             /\ cli' = [cli EXCEPT ![c].pc = "request", ![c].secret = NewSecret]
    <2>1. PICK s \in Secrets : s = NewSecret
      BY <1>5, NewSecretUnused
    <2>2. PICK r : r = [cli[c] EXCEPT !.pc = "request", !.secret = s]
      OBVIOUS
    <2>3. /\ r \in Runs /\ r.pc = "request" /\ r.ns = cli[c].ns /\ r.secret = s
          /\ cli' = [cli EXCEPT ![c] = r]
      BY <1>5, <2>1, <2>2 DEF BindInv, TypeOK, Runs, UpToRequest
    <2>4. /\ secrets' \in [Secrets -> Namespaces \cup {None}]
          /\ \A t \in Secrets : secrets'[t] # None => secrets'[t] \in Issued
      BY <1>4, <1>5, <2>1
    <2>5. QED
      BY <1>1, <1>2, <1>3, <2>3, <2>4, CliStep DEF PastRequest, PastPoll, BindInv
  <1>6. CASE /\ cli[c].pc = "update" /\ Move(c, "request") /\ SameRemote(c, cli[c].secret)
             /\ secrets' = [secrets EXCEPT ![cli[c].secret] = cli[c].ns]
    <2>1. cli[c].secret \in Secrets
      BY <1>6 DEF BindInv
    <2>2. UNCHANGED secrets
      BY <1>6, <2>1 DEF SameRemote, BindInv, TypeOK
    <2>3. QED
      BY <1>1, <1>2, <1>6, <2>1, <2>2, MoveBind DEF UpToRequest
  <1>7. CASE Move(c, "failed") /\ UNCHANGED secrets
    BY <1>1, <1>2, <1>7, MoveBind DEF UpToRequest
  <1>8. QED
    BY <1>5, <1>6, <1>7 DEF EnsureKubeconfigSecret

\* The request is made in the namespace of the secret.
LEMMA RequestBind == ASSUME BindInv, NEW c \in Clis, CreateServiceExportRequest(c) PROVE BindInv'
  <1>1. UNCHANGED <<objs, cookie, tab, granted, secrets, bindings, ops>> /\ cli[c].pc = "request"
    BY DEF CreateServiceExportRequest, Is, bounds, consumer
  <1>2. ops' \in Nat /\ bindings' \in [Names -> Secrets \cup {None}]
        /\ secrets' \in [Secrets -> Namespaces \cup {None}]
        /\ \A s \in Secrets : secrets'[s] # None => secrets'[s] \in Issued
    BY <1>1 DEF BindInv, TypeOK
  <1>3. PICK ns, name : /\ ns = secrets[cli[c].secret]
                        /\ name = IF Find(Key(ns, Template)) = {} THEN Template ELSE c
    OBVIOUS
  <1>4. name \in Names
    BY <1>3 DEF Names
  <1>5. ns \in Namespaces \cup {None} /\ (ns # None => ns \in Issued)
    BY <1>1, <1>3 DEF BindInv, TypeOK
  <1>6. CASE Move(c, "failed") /\ UNCHANGED requests
    BY <1>1, <1>2, <1>6, MoveBind DEF UpToRequest
  <1>7. CASE /\ requests' = requests \cup {Request(Key(ns, name), "Pending")}
             /\ cli' = [cli EXCEPT ![c].pc = "poll", ![c].name = name, ![c].ns = ns]
    <2>1. PICK r : r = [cli[c] EXCEPT !.pc = "poll", !.name = name, !.ns = ns]
      OBVIOUS
    <2>2. /\ r \in Runs /\ r.pc = "poll" /\ r.ns = ns /\ r.name = name
          /\ cli' = [cli EXCEPT ![c] = r]
      BY <1>4, <1>5, <1>7, <2>1 DEF BindInv, TypeOK, Runs, PastRequest
    <2>3. \A q \in requests' : q.phase = "Succeeded" => q.key \in granted
      BY <1>7 DEF BindInv, Request
    <2>4. QED
      BY <1>1, <1>2, <1>4, <1>5, <2>2, <2>3, CliStep DEF PastPoll
  <1>8. QED
    BY <1>3, <1>6, <1>7 DEF CreateServiceExportRequest, Remote

\* The backend decides a request, which is on record if it succeeds, or deletes it, which
\* takes nothing off the record.
LEMMA ServeBind == ASSUME BindInv, ServeRequest \/ ExpireRequest PROVE BindInv'
  <1>1. UNCHANGED <<objs, cookie, tab, cli, secrets, bindings, ops>>
    BY DEF ServeRequest, ExpireRequest, consumer, bounds
  <1>2. granted \subseteq granted' /\ \A q \in requests' : q.phase = "Succeeded" => q.key \in granted'
    BY DEF ServeRequest, ExpireRequest, BindInv, Request
  <1>3. TypeOK' /\ Issued' = Issued
    BY <1>1 DEF BindInv, TypeOK, Issued
  <1>4. \A c \in Clis : Progress(tab[c])'
    BY <1>1 DEF BindInv, Progress
  <1>5. QED
    BY <1>1, <1>2, <1>3, <1>4 DEF BindInv

\* The secret for the binding, which has the namespace of the request.
LEMMA BindingSecretBind == ASSUME BindInv, NEW c \in Clis, CreateKubeconfigSecret(c) PROVE BindInv'
  <1>1. UNCHANGED <<objs, cookie, tab, requests, granted, bindings, ops>> /\ cli[c].pc = "find"
    BY DEF CreateKubeconfigSecret, Is, bounds
  <1>2. ops' \in Nat /\ bindings' \in [Names -> Secrets \cup {None}]
    BY <1>1 DEF BindInv, TypeOK
  <1>3. /\ cli[c].ns \in Namespaces \cup {None} /\ (cli[c].ns # None => cli[c].ns \in Issued)
        /\ cli[c].name \in Names /\ Key(cli[c].ns, cli[c].name) \in granted
        /\ \A q \in requests : q.phase = "Succeeded" => q.key \in granted
    BY <1>1 DEF BindInv, TypeOK, Runs, PastRequest, PastPoll
  <1>4. PICK s \in Secrets : /\ cli' = [cli EXCEPT ![c].pc = "binding", ![c].secret = s]
                             /\ UNCHANGED secrets \/ secrets' = [secrets EXCEPT ![s] = cli[c].ns]
    BY NewSecretUnused DEF CreateKubeconfigSecret, FindRemoteKubeconfig
  <1>5. /\ secrets' \in [Secrets -> Namespaces \cup {None}]
        /\ \A t \in Secrets : secrets'[t] # None => secrets'[t] \in Issued
    BY <1>3, <1>4 DEF BindInv, TypeOK
  <1>6. PICK r : r = [cli[c] EXCEPT !.pc = "binding", !.secret = s]
    OBVIOUS
  <1>7. r \in Runs /\ r.pc = "binding" /\ r.ns = cli[c].ns /\ r.name = cli[c].name
    BY <1>6 DEF BindInv, TypeOK, Runs, PastRequest, PastPoll
  <1>8. cli' = [cli EXCEPT ![c] = r]
    BY <1>4, <1>6 DEF BindInv, TypeOK
  <1>9. QED
    BY <1>1, <1>2, <1>3, <1>5, <1>7, <1>8, CliStep

\* The binding is created under the name of the request.
LEMMA CreateBindingBind == ASSUME BindInv, NEW c \in Clis, CreateAPIServiceBinding(c) PROVE BindInv'
  <1>1. UNCHANGED <<objs, cookie, tab, requests, granted, secrets, ops>> /\ cli[c].pc = "bind"
    BY DEF CreateAPIServiceBinding, Is, bounds
  <1>2. ops' \in Nat /\ bindings' \in [Names -> Secrets \cup {None}]
    BY <1>1 DEF BindInv, TypeOK, Runs, CreateAPIServiceBinding
  <1>3. Move(c, "done") \/ Move(c, "failed")
    BY DEF CreateAPIServiceBinding
  <1>4. Key(cli[c].ns, cli[c].name) \in granted
    BY <1>1 DEF BindInv, PastPoll
  <1>5. QED
    BY <1>1, <1>2, <1>3, <1>4, MoveBind DEF UpToRequest, PastRequest, PastPoll

\* What neither a handler nor a CLI does: a login, the konnector, users.
LEMMA OthersBind ==
  ASSUME BindInv, KonnectorServes \/ UserWrites \/ (\E c \in Clis : Login(c))
  PROVE  BindInv'
  <1>1. UNCHANGED <<objs, tab, cli, requests, granted>>
    BY DEF KonnectorServes, UserWrites, Login
  <1>2. Issued' = Issued
    BY <1>1 DEF Issued
  <1>3. /\ cookie' \in [session: Clis \cup {None}, user: Users \cup {None}]
        /\ secrets' \in [Secrets -> Namespaces \cup {None}]
        /\ \A s \in Secrets : secrets'[s] # None => secrets'[s] \in Issued
        /\ bindings' \in [Names -> Secrets \cup {None}]
        /\ ops' \in Nat
    <2>1. CASE KonnectorServes
      BY <2>1 DEF KonnectorServes, bounds, BindInv, TypeOK
    <2>2. CASE UserWrites
      BY <2>2 DEF UserWrites, BindInv, TypeOK, Issued
    <2>3. CASE \E c \in Clis : Login(c)
      BY <2>3 DEF Login, consumer, bounds, BindInv, TypeOK
    <2>4. QED
      BY <2>1, <2>2, <2>3
  <1>4. TypeOK'
    BY <1>1, <1>3 DEF BindInv, TypeOK
  <1>5. \A c \in Clis : Progress(tab[c])'
    BY <1>1 DEF BindInv, Progress
  <1>6. QED
    BY <1>1, <1>2, <1>3, <1>4, <1>5 DEF BindInv

-----------------------------------------------------------------------------
(* The theorems.                                                           *)

\* Every step preserves the inductive invariant.
LEMMA NextBind == BindInv /\ [Next]_vars => BindInv'
  <1> SUFFICES ASSUME BindInv, [Next]_vars PROVE BindInv'
    OBVIOUS
  <1>1. CASE IssueToken
    BY <1>1, TokenBind
  <1>2. CASE KonnectorServes \/ UserWrites \/ (\E c \in Clis : Login(c))
    BY <1>2, OthersBind
  <1>3. ASSUME NEW c \in Clis, Handle(c) PROVE BindInv'
    BY <1>3, NamespaceBind, MakeBind, WaitBind, KubeconfigBind, RespondBind DEF Handle
  <1>4. ASSUME NEW c \in Clis, Click(c) \/ HandlerFails(c) PROVE BindInv'
    <2>1. CASE Click(c)
      BY <2>1, ClickBind
    <2>2. CASE HandlerFails(c)
      BY <2>2, FailBind DEF HandlerFails, consumer
    <2>3. QED
      BY <1>4, <2>1, <2>2
  <1>5. ASSUME NEW c \in Clis, RunCli(c) \/ NoResponse(c) \/ CliFails(c) PROVE BindInv'
    BY <1>5, ReadBind, FindBind, EnsureSecretBind, RequestBind, BindingSecretBind,
       CreateBindingBind DEF RunCli
  <1>6. CASE UNCHANGED vars
    BY <1>6 DEF vars, consumer, bounds, BindInv, TypeOK, Progress, Issued
  <1>7. QED
    BY <1>1, <1>2, <1>3, <1>4, <1>5, <1>6, ServeBind DEF Next

\* Whatever handlers fail half-way, answer the wrong tab or find of each other's objects,
\* and whatever CLIs and users do to the secrets meanwhile: a handler has what its earlier
\* steps make, a kubeconfig is only in a complete namespace, and a CLI goes on only after a
\* request in its namespace has succeeded, also when the request has been deleted since.
THEOREM BindInvariant == Spec => []BindInv
  <1>1. QED
    BY InitBind, NextBind, PTL DEF Spec

\* A CLI that has a kubeconfig has one whose namespace has all that a konnector needs
\* (HandleResources makes the kubeconfig last, and only the response carries it).
THEOREM ResponsesAreComplete == Spec => []ResponseIsComplete
  <1>1. BindInv => ResponseIsComplete
    BY DEF BindInv, ResponseIsComplete
  <1>2. QED
    BY <1>1, BindInvariant, PTL

\* Only the last two steps end in success, they leave or find the binding of the CLI's own
\* secret, and the provider has granted a request of that name, deleted or not.
THEOREM SuccessesAreBound == Spec => SuccessIsBound
  <1> DEFINE Bound == \A c \in Clis :
       cli'[c].pc = "done" /\ cli[c].pc # "done" =>
         /\ bindings'[cli'[c].name] = cli'[c].secret
         /\ Key(cli'[c].ns, cli'[c].name) \in granted'
  <1>1. BindInv /\ BindInv' /\ [Next]_vars => [Bound]_vars
    <2> SUFFICES ASSUME BindInv, BindInv', Next, NEW c \in Clis,
                        cli'[c].pc = "done", cli[c].pc # "done"
                 PROVE  bindings'[cli'[c].name] = cli'[c].secret
                        /\ Key(cli'[c].ns, cli'[c].name) \in granted'
      BY DEF vars
    <2>1. Key(cli'[c].ns, cli'[c].name) \in granted'
      BY DEF BindInv, PastPoll, Key
    <2>2. cli \in [Clis -> Runs] /\ bindings \in [Names -> Secrets \cup {None}]
      BY DEF BindInv, TypeOK
    <2>3. GetAPIServiceBinding(c) \/ CreateAPIServiceBinding(c)
      <3>1. ~UNCHANGED cli
        OBVIOUS
      <3>2. PICK d \in Clis : Respond(d) \/ RunCli(d) \/ NoResponse(d) \/ CliFails(d)
        BY <3>1 DEF Next, IssueToken, ServeRequest, ExpireRequest, KonnectorServes, UserWrites, Login, Click, Handle,
                    HandlerFails, FindNamespace, EnsureClusterBinding, CreateServiceAccount,
                    EnsureBinderClusterRole, CreateSASecret, WaitForToken, GenerateKubeconfig, At
      <3>3. \A e \in Clis : \A n : cli' = [cli EXCEPT ![e].pc = "secret", ![e].ns = n] => cli'[c].pc \in {"secret", cli[c].pc}
        BY <2>2 DEF Runs
      <3>4. ~Respond(d)
        BY <3>1, <3>3 DEF Respond, Callback, BindInv, Progress
      <3>5. \A e \in Clis : \A pc : Move(e, pc) => e = c /\ pc = "done"
        BY <2>2 DEF Move, Runs
      <3>6. \A e \in Clis : \A pc, x : cli' = [cli EXCEPT ![e].pc = pc, ![e].secret = x] => pc = "done"
        BY <2>2 DEF Runs
      <3>7. \A e \in Clis : \A pc, y, z :
              cli' = [cli EXCEPT ![e].pc = pc, ![e].name = y, ![e].ns = z] => pc = "done"
        BY <2>2 DEF Runs
      <3>8. \A pc \in {"wait", "failed", "create", "request", "konnector", "serving", "find"} : ~Move(d, pc)
        BY <3>5
      <3>9. ~FindSecret(d) /\ ~EnsureKubeconfigSecret(d) /\ ~CreateKubeconfigSecret(d)
        BY <3>6, <3>8 DEF FindSecret, EnsureKubeconfigSecret, CreateKubeconfigSecret
      <3>10. ~CreateServiceExportRequest(d)
        BY <3>7, <3>8 DEF CreateServiceExportRequest
      <3>11. /\ ~Start(d) /\ ~NoResponse(d) /\ ~CliFails(d) /\ ~RequestEnds(d)
             /\ ~DeployKonnector(d) /\ ~BindingsAreServed(d)
        BY <3>8 DEF Start, NoResponse, CliFails, DeployKonnector, BindingsAreServed, RequestEnds
      <3>12. GetAPIServiceBinding(d) \/ CreateAPIServiceBinding(d) => d = c
        BY <3>5 DEF GetAPIServiceBinding, CreateAPIServiceBinding
      <3>13. QED
        BY <3>2, <3>4, <3>9, <3>10, <3>11, <3>12 DEF RunCli
    <2>4. Move(c, "done") \/ Move(c, "failed") \/ Move(c, "bind")
      BY <2>3 DEF GetAPIServiceBinding, CreateAPIServiceBinding
    <2>5. cli'[c].name = cli[c].name /\ cli'[c].secret = cli[c].secret
      BY <2>2, <2>4 DEF Move, Runs
    <2>6. cli[c].name \in Names
      BY <2>5 DEF BindInv, PastRequest, PastPoll
    <2>7. Move(c, "done")
      BY <2>2, <2>4 DEF Move, Runs
    <2>8. ~Move(c, "failed") /\ ~Move(c, "bind")
      BY <2>2 DEF Move, Runs
    <2>9. CASE GetAPIServiceBinding(c)
      BY <2>1, <2>5, <2>8, <2>9 DEF GetAPIServiceBinding, Reusable, consumer
    <2>10. CASE CreateAPIServiceBinding(c)
      BY <2>1, <2>2, <2>5, <2>6, <2>8, <2>10 DEF CreateAPIServiceBinding
    <2>11. QED
      BY <2>3, <2>9, <2>10
  <1>2. QED
    BY <1>1, BindInvariant, PTL DEF Spec, SuccessIsBound

\* A CLI writes to a secret that has a remote namespace only what it has: the check in
\* updateSecret is on the secret that it has just read.
THEOREM SecretsKeepTheirRemote == Spec => SecretKeepsItsRemote
  <1> DEFINE Kept == ops' = ops => \A s \in Secrets : secrets[s] # None => secrets'[s] = secrets[s]
  <1>1. BindInv /\ [Next]_vars => [Kept]_vars
    <2> SUFFICES ASSUME BindInv, Next, ops' = ops, NEW s \in Secrets, secrets[s] # None
                 PROVE  secrets'[s] = secrets[s]
      BY DEF vars
    <2>1. ops \in Nat /\ secrets \in [Secrets -> Namespaces \cup {None}]
      BY DEF BindInv, TypeOK
    <2>2. CASE UNCHANGED secrets
      BY <2>2
    <2>3. CASE ~UNCHANGED secrets
      <3>1. PICK c \in Clis : EnsureKubeconfigSecret(c) \/ CreateKubeconfigSecret(c)
        <4>1. ~UserWrites
          BY <2>1 DEF UserWrites
        <4>2. ASSUME NEW c \in Clis, RunCli(c) \/ NoResponse(c) \/ CliFails(c)
              PROVE  EnsureKubeconfigSecret(c) \/ CreateKubeconfigSecret(c)
          BY <2>3, <4>2 DEF consumer, RunCli, NoResponse, CliFails, Start, FindSecret,
                    CreateServiceExportRequest, RequestEnds, DeployKonnector,
                    BindingsAreServed, GetAPIServiceBinding, CreateAPIServiceBinding
        <4>3. QED
          BY <2>3, <4>1, <4>2 DEF Next, IssueToken, ServeRequest, ExpireRequest, KonnectorServes, UserWrites, Login, Click, Handle,
                    HandlerFails, FindNamespace, EnsureClusterBinding, CreateServiceAccount,
                    EnsureBinderClusterRole, CreateSASecret, WaitForToken, GenerateKubeconfig,
                    Respond, At, consumer
      <3>2. PICK t \in Secrets : /\ secrets' = [secrets EXCEPT ![t] = cli[c].ns]
                                 /\ secrets[t] \in {None, cli[c].ns}
        BY <2>3, <3>1, NewSecretUnused DEF EnsureKubeconfigSecret, CreateKubeconfigSecret,
           SameRemote, BindInv
      <3>3. QED
        BY <2>1, <3>2
    <2>4. QED
      BY <2>2, <2>3
  <1>2. QED
    BY <1>1, BindInvariant, PTL DEF Spec, SecretKeepsItsRemote
=============================================================================
