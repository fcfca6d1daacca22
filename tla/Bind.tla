-------------------------------- MODULE Bind --------------------------------
(***************************************************************************)
(* kubectl bind against the backend: the browser logs in (backend/http),   *)
(* the backend makes the consumer's namespace, ClusterBinding, service     *)
(* account and kubeconfig (backend/kubernetes), the CLI takes the response *)
(* at its callback (cli/pkg/kubectl/bind) and makes the request, the       *)
(* kubeconfig secret and the APIServiceBinding                             *)
(* (cli/pkg/kubectl/bind-apiservice).                                      *)
(*                                                                         *)
(* Several CLIs run in one consumer cluster, with one browser and one      *)
(* template.  The backend reads its objects from caches that lag by any    *)
(* amount: a read finds an object that is stored, or not yet.  What the    *)
(* backend makes of a request is in module ExportRequest; here it has any  *)
(* outcome, and is deleted at any time.                                    *)
(***************************************************************************)
EXTENDS Integers, FiniteSets

CONSTANTS
  Clis,         \* runs of kubectl bind
  Users,        \* subjects of the OIDC provider
  Namespaces,   \* that the provider can generate
  Secrets,      \* names that the consumer can generate
  None,
  MaxTries,     \* bound on clicks in the browser and failed requests of the backend
  MaxOps        \* bound on what users and failures do in the consumer cluster

ASSUME ConstantsAssumption ==
  /\ None \notin Clis \cup Users \cup Namespaces \cup Secrets
  /\ Namespaces # {} /\ Secrets # {}
  /\ {MaxTries, MaxOps} \subseteq Nat

VARIABLES
  objs,      \* the provider's objects, which are never deleted
  cookie,    \* the session in the browser: its CLI and its user
  tab,       \* the bind handler that a CLI's tab has called
  cli,       \* the state of the CLIs
  requests,  \* the APIServiceExportRequests
  granted,   \* history: where a request has succeeded
  secrets,   \* the kubeconfig secrets: the provider namespace in their context
  bindings,  \* the APIServiceBindings: the secret that they refer to
  konnector, \* the konnector in the consumer cluster: outdated (or none), starting, serving
  tries, ops

consumer == <<secrets, bindings, konnector>>
bounds == <<tries, ops>>
vars == <<objs, cookie, tab, cli, requests, granted, consumer, bounds>>

\* The handler of handleBind: its session and the namespace of the identity.
NoCall == [pc |-> "idle", session |-> None, user |-> None, ns |-> None]

\* A run of kubectl bind: the namespace in the response, the secret it uses, the
\* name of its request.
NewRun == [pc |-> "start", ns |-> None, secret |-> None, name |-> None]

\* The request has the template's name, or one generated from it.
Template == "template"
Names == {Template} \cup Clis

\* An APIServiceExportRequest: where it is, and its phase.
Key(ns, name) == [ns |-> ns, name |-> name]
Request(key, phase) == [key |-> key, phase |-> phase]
Find(key) == {q \in requests : q.key = key}

-----------------------------------------------------------------------------
(* The objects of the provider.                                            *)

Obj(kind, ns) == [kind |-> kind, ns |-> ns, user |-> None]

\* A namespace has the identity of its consumer: the user, and the consumer cluster.
Namespace(n, u) == [kind |-> "Namespace", ns |-> n, user |-> u]

\* What the konnector needs in its namespace of the provider.
Complete(n) ==
  {Obj("ClusterBinding", n), Obj("ServiceAccount", n), Obj("ClusterRole", None),
   Obj("ServiceAccountSecret", n), Obj("Token", n), Obj("Kubeconfig", n)}

\* Nothing has been bound yet, or a user has bound before, and has the secret.
Init ==
  /\ \/ objs = {} /\ secrets = [s \in Secrets |-> None] /\ konnector = "outdated"
     \/ LET n == CHOOSE n \in Namespaces : TRUE
            s == CHOOSE s \in Secrets : TRUE
        IN
        /\ \E u \in Users : objs = {Namespace(n, u)} \cup Complete(n)
        /\ secrets = [t \in Secrets |-> IF t = s THEN n ELSE None]
        /\ konnector = "serving"
  /\ cookie = [session |-> None, user |-> None]
  /\ tab = [c \in Clis |-> NoCall]
  /\ cli = [c \in Clis |-> NewRun]
  /\ requests = {} /\ granted = {}
  /\ bindings = [n \in Names |-> None]
  /\ tries = 0 /\ ops = 0

\* The token controller fills the secret of the service account.
IssueToken ==
  /\ \E n \in Namespaces :
       /\ {Obj("ServiceAccount", n), Obj("ServiceAccountSecret", n)} \subseteq objs
       /\ Obj("Token", n) \notin objs
       /\ objs' = objs \cup {Obj("Token", n)}
  /\ UNCHANGED <<cookie, tab, cli, requests, granted, consumer, bounds>>

-----------------------------------------------------------------------------
(* The browser and the backend.                                            *)

At(c, pc) == tab[c].pc = pc /\ UNCHANGED <<cookie, cli, requests, granted, consumer, bounds>>
Goto(c, pc) == tab' = [tab EXCEPT ![c].pc = pc]

\* handleAuthorize, handleCallback: the cookie has the name of the consumer cluster,
\* so that the last login is the one that counts for all tabs.
Login(c) ==
  /\ cli[c].pc = "wait"
  /\ \E u \in Users : cookie' = [session |-> c, user |-> u]
  /\ UNCHANGED <<objs, tab, cli, requests, granted, consumer, bounds>>

\* handleBind: a click in the tab, with the session in the cookie.
Click(c) ==
  /\ tab[c].pc = "idle" /\ cli[c].pc # "start"
  /\ tries < MaxTries /\ tries' = tries + 1
  /\ cookie.session # None
  /\ tab' = [tab EXCEPT ![c] = [pc |-> "namespace", session |-> cookie.session,
                                user |-> cookie.user, ns |-> None]]
  /\ UNCHANGED <<objs, cookie, cli, requests, granted, consumer, ops>>

\* "internal error"
Fail(c) == tab' = [tab EXCEPT ![c] = NoCall]

\* IndexNamespacesByIdentity
NamespacesByIdentity(u) == {n \in Namespaces : Namespace(n, u) \in objs}

Unnamed == {n \in Namespaces : \A u \in Users : Namespace(n, u) \notin objs}

\* HandleResources: the namespace with the identity is used, or one is generated;
\* more than one is an error.
FindNamespace(c) ==
  LET new == CHOOSE n \in Unnamed : TRUE
  IN
  /\ At(c, "namespace")
  /\ \E found \in SUBSET NamespacesByIdentity(tab[c].user) :
       \/ Cardinality(found) > 1 /\ Fail(c) /\ UNCHANGED objs
       \/ /\ \E n \in found : found = {n} /\ tab' = [tab EXCEPT ![c].pc = "ClusterBinding", ![c].ns = n]
          /\ UNCHANGED objs
       \/ /\ found = {} /\ Unnamed # {}
          /\ objs' = objs \cup {Namespace(new, tab[c].user)}
          /\ tab' = [tab EXCEPT ![c].pc = "ClusterBinding", ![c].ns = new]

\* Mutant: the creation fails and the error is dropped.
EnsureUnchecked(c, o, next) == Goto(c, next) /\ (objs' = objs \cup {o} \/ UNCHANGED objs)

\* An object that is not in the cache is created; that it is there is an error.
Ensure(c, o, next) ==
  \/ o \in objs /\ (Goto(c, next) \/ Fail(c)) /\ UNCHANGED objs
  \/ o \notin objs /\ Goto(c, next) /\ objs' = objs \cup {o}

\* CreateClusterBinding
EnsureClusterBinding(c) ==
  At(c, "ClusterBinding") /\ Ensure(c, Obj("ClusterBinding", tab[c].ns), "ServiceAccount")

CreateServiceAccount(c) ==
  At(c, "ServiceAccount") /\ Ensure(c, Obj("ServiceAccount", tab[c].ns), "ClusterRole")

\* The ClusterRole is the same for all consumers.
EnsureBinderClusterRole(c) ==
  At(c, "ClusterRole") /\ Ensure(c, Obj("ClusterRole", None), "ServiceAccountSecret")

CreateSASecret(c) ==
  At(c, "ServiceAccountSecret") /\ Ensure(c, Obj("ServiceAccountSecret", tab[c].ns), "Token")

\* Mutant: the kubeconfig is made without a token.
NoToken(c) == At(c, "Token") /\ Goto(c, "Kubeconfig") /\ UNCHANGED objs

\* GenerateKubeconfig, the wait for the token, which is given up after ten seconds.
WaitForToken(c) ==
  /\ At(c, "Token")
  /\ (Obj("Token", tab[c].ns) \in objs /\ Goto(c, "Kubeconfig")) \/ Fail(c)
  /\ UNCHANGED objs

\* GenerateKubeconfig: a secret that is there is got from the cache and updated.
GenerateKubeconfig(c) ==
  LET o == Obj("Kubeconfig", tab[c].ns)
  IN
  /\ At(c, "Kubeconfig")
  /\ \/ o \notin objs /\ objs' = objs \cup {o} /\ Goto(c, "respond")
     \/ o \in objs /\ (Goto(c, "respond") \/ Fail(c)) /\ UNCHANGED objs

\* callback: the CLI takes the first response; one that has ended does not listen.
Callback(session, ns) ==
  cli' = IF cli[session].pc = "wait"
         THEN [cli EXCEPT ![session].pc = "secret", ![session].ns = ns]
         ELSE cli

\* The end of handleBind: the browser is sent to the callback of the session's CLI.
Respond(c) ==
  /\ tab[c].pc = "respond"
  /\ Fail(c)
  /\ Callback(tab[c].session, tab[c].ns)
  /\ UNCHANGED <<objs, cookie, requests, granted, consumer, bounds>>

\* Any step fails, GetTemplates too.
HandlerFails(c) ==
  /\ tries < MaxTries /\ tries' = tries + 1
  /\ tab[c].pc # "idle"
  /\ Fail(c)
  /\ UNCHANGED <<objs, cookie, cli, requests, granted, consumer, ops>>

Handle(c) ==
  \/ FindNamespace(c) \/ EnsureClusterBinding(c) \/ CreateServiceAccount(c)
  \/ EnsureBinderClusterRole(c) \/ CreateSASecret(c) \/ WaitForToken(c)
  \/ GenerateKubeconfig(c) \/ Respond(c)

-----------------------------------------------------------------------------
(* The CLI.                                                                *)

Is(c, pc) == cli[c].pc = pc /\ UNCHANGED <<objs, cookie, tab, bounds>>
Move(c, pc) == cli' = [cli EXCEPT ![c].pc = pc]
Remote(s) == secrets[s]

\* Run: the provider is asked, the namespace kube-bind made, the callback started.
Start(c) ==
  /\ Is(c, "start")
  /\ Move(c, "wait")
  /\ UNCHANGED <<requests, granted, consumer>>

\* Mutant: the wait has no end.
WaitOn(c) == FALSE

\* WaitForResponse: after ten minutes.
TimedOut(c) == cli[c].pc = "wait"

NoResponse(c) ==
  /\ TimedOut(c)
  /\ Is(c, "wait")
  /\ Move(c, "failed")
  /\ UNCHANGED <<requests, granted, consumer>>

\* FindRemoteKubeconfig: the first one of the list.
FindRemoteKubeconfig(ns) == {s \in Secrets : secrets[s] = ns}

Unused == {s \in Secrets : secrets[s] = None}
NewSecret == CHOOSE s \in Unused : TRUE

\* Run after the response: a secret of the same provider namespace is looked for.
FindSecret(c) ==
  /\ Is(c, "secret")
  /\ \/ \E s \in FindRemoteKubeconfig(cli[c].ns) :
          cli' = [cli EXCEPT ![c].pc = "update", ![c].secret = s]
     \/ FindRemoteKubeconfig(cli[c].ns) = {} /\ Move(c, "create")
  /\ UNCHANGED <<requests, granted, consumer>>

\* Mutant: the secret is updated whatever it has become.
UpdateAny(c, s) == TRUE

\* "It does special checking that only kubeconfigs with the same host and default
\* namespace are updated."
SameRemote(c, s) == secrets[s] = cli[c].ns

\* EnsureKubeconfigSecret: a secret is created, or the one that was found is updated.
EnsureKubeconfigSecret(c) ==
  /\ cli[c].pc \in {"create", "update"}
  /\ Is(c, cli[c].pc)
  /\ \/ /\ cli[c].pc = "create"
        /\ Unused # {}
        /\ secrets' = [secrets EXCEPT ![NewSecret] = cli[c].ns]
        /\ cli' = [cli EXCEPT ![c].pc = "request", ![c].secret = NewSecret]
     \/ /\ cli[c].pc = "update"
        /\ IF SameRemote(c, cli[c].secret)
           THEN secrets' = [secrets EXCEPT ![cli[c].secret] = cli[c].ns] /\ Move(c, "request")
           ELSE Move(c, "failed") /\ UNCHANGED secrets
  /\ UNCHANGED <<requests, granted, bindings, konnector>>

\* kubectl bind apiservice: getRemoteKubeconfig reads the namespace from the secret,
\* createServiceExportRequest makes the request, under a generated name if there is
\* one with the template's name.
CreateServiceExportRequest(c) ==
  LET ns == Remote(cli[c].secret)
      name == IF Find(Key(ns, Template)) = {} THEN Template ELSE c
  IN
  /\ Is(c, "request")
  /\ IF ns = None THEN Move(c, "failed") /\ UNCHANGED requests
     ELSE /\ requests' = requests \cup {Request(Key(ns, name), "Pending")}
          /\ cli' = [cli EXCEPT ![c].pc = "poll", ![c].name = name, ![c].ns = ns]
  /\ UNCHANGED <<granted, consumer>>

\* The backend decides the phase of a request.
ServeRequest ==
  /\ \E q \in requests, phase \in {"Succeeded", "Failed"} :
       /\ q.phase = "Pending"
       /\ requests' = (requests \ {q}) \cup {Request(q.key, phase)}
       /\ granted' = IF phase = "Succeeded" THEN granted \cup {q.key} ELSE granted
  /\ UNCHANGED <<objs, cookie, tab, cli, consumer, bounds>>

\* The backend deletes a request after ten minutes, whatever its phase and whoever waits;
\* its name is free again.
ExpireRequest ==
  /\ \E q \in requests : requests' = requests \ {q}
  /\ UNCHANGED <<objs, cookie, tab, cli, granted, consumer, bounds>>

\* createServiceExportRequest polls the request of that name until it has succeeded, has
\* failed, is deleted, or ten minutes are over.
RequestEnds(c) ==
  LET found == Find(Key(cli[c].ns, cli[c].name))
  IN
  /\ Is(c, "poll")
  /\ \/ (\E q \in found : q.phase = "Succeeded") /\ Move(c, "konnector")
     \/ (\A q \in found : q.phase # "Succeeded") /\ Move(c, "failed")
  /\ UNCHANGED <<requests, granted, consumer>>

\* deployKonnector: one that is not there or older is installed, unless that is to be
\* skipped.
DeployKonnector(c) ==
  /\ Is(c, "konnector")
  /\ konnector' \in {konnector, IF konnector = "outdated" THEN "starting" ELSE konnector}
  /\ Move(c, "serving")
  /\ UNCHANGED <<requests, granted, secrets, bindings>>

\* The konnector installs the CRDs, if it ever gets to run.
KonnectorServes ==
  /\ konnector = "starting"
  /\ konnector' = "serving"
  /\ UNCHANGED <<objs, cookie, tab, cli, requests, granted, secrets, bindings, bounds>>

\* deployKonnector waits until APIServiceBindings are served.
BindingsAreServed(c) ==
  /\ Is(c, "serving")
  /\ konnector = "serving"
  /\ Move(c, "find")
  /\ UNCHANGED <<requests, granted, consumer>>

\* createKubeconfigSecret: the secret of the namespace that the CLI has worked with,
\* which need not be the one it was called with, or a new one.
CreateKubeconfigSecret(c) ==
  /\ Is(c, "find")
  /\ \/ /\ \E s \in FindRemoteKubeconfig(cli[c].ns) :
             cli' = [cli EXCEPT ![c].pc = "binding", ![c].secret = s]
        /\ UNCHANGED secrets
     \/ /\ FindRemoteKubeconfig(cli[c].ns) = {}
        /\ Unused # {}
        /\ secrets' = [secrets EXCEPT ![NewSecret] = cli[c].ns]
        /\ cli' = [cli EXCEPT ![c].pc = "binding", ![c].secret = NewSecret]
  /\ UNCHANGED <<requests, granted, bindings, konnector>>

\* Mutant: any binding of that name is reused.
ReuseAny(c) == bindings[cli[c].name] # None

\* The existing binding is of this service provider.
Reusable(c) == bindings[cli[c].name] = cli[c].secret

\* createAPIServiceBindings, first the lookup.  A binding is reused unless it is of
\* another provider or a CRD belongs to something else.
GetAPIServiceBinding(c) ==
  /\ Is(c, "binding")
  /\ IF bindings[cli[c].name] = None THEN Move(c, "bind")
     ELSE (Reusable(c) /\ Move(c, "done")) \/ Move(c, "failed")
  /\ UNCHANGED <<requests, granted, consumer>>

\* createAPIServiceBindings, then the creation; a binding that is there by now is an
\* error, which the poll returns.
CreateAPIServiceBinding(c) ==
  /\ Is(c, "bind")
  /\ IF bindings[cli[c].name] = None
     THEN bindings' = [bindings EXCEPT ![cli[c].name] = cli[c].secret] /\ Move(c, "done")
     ELSE Move(c, "failed") /\ UNCHANGED bindings
  /\ UNCHANGED <<requests, granted, secrets, konnector>>

RunCli(c) ==
  \/ Start(c) \/ FindSecret(c) \/ EnsureKubeconfigSecret(c) \/ CreateServiceExportRequest(c)
  \/ RequestEnds(c) \/ DeployKonnector(c) \/ BindingsAreServed(c)
  \/ CreateKubeconfigSecret(c) \/ GetAPIServiceBinding(c) \/ CreateAPIServiceBinding(c)

\* A request of the CLI fails.
CliFails(c) ==
  /\ ops < MaxOps /\ ops' = ops + 1
  /\ cli[c].pc \notin {"done", "failed"}
  /\ Move(c, "failed")
  /\ UNCHANGED <<objs, cookie, tab, requests, granted, consumer, tries>>

Issued == {n \in Namespaces : Obj("Kubeconfig", n) \in objs}

\* A user puts another kubeconfig into a secret, or deletes it, or deletes a binding.
UserWrites ==
  /\ ops < MaxOps /\ ops' = ops + 1
  /\ \/ /\ \E s \in Secrets, n \in Issued \cup {None} :
             secrets[s] \notin {None, n} /\ secrets' = [secrets EXCEPT ![s] = n]
        /\ UNCHANGED bindings
     \/ /\ \E n \in Names : bindings[n] # None /\ bindings' = [bindings EXCEPT ![n] = None]
        /\ UNCHANGED secrets
  /\ UNCHANGED <<objs, cookie, tab, cli, requests, granted, konnector, tries>>

-----------------------------------------------------------------------------

Next ==
  \/ IssueToken \/ ServeRequest \/ ExpireRequest \/ KonnectorServes \/ UserWrites
  \/ \E c \in Clis : Login(c) \/ Click(c) \/ Handle(c) \/ HandlerFails(c) \/ RunCli(c) \/ NoResponse(c) \/ CliFails(c)

\* Timeouts fire, handlers and CLIs go on; users and the backend need not do anything,
\* and the konnector that was deployed need not run.
Fairness == \A c \in Clis : WF_vars(Handle(c)) /\ WF_vars(RunCli(c)) /\ WF_vars(NoResponse(c))

Spec == Init /\ [][Next]_vars /\ Fairness

-----------------------------------------------------------------------------
(* Properties.                                                             *)

\* The steps of a handler after which it has the object of that kind.
PastToken == {"Kubeconfig", "respond"}
PastSecret == PastToken \cup {"Token"}
PastRole == PastSecret \cup {"ServiceAccountSecret"}
PastAccount == PastRole \cup {"ClusterRole"}
PastBinding == PastAccount \cup {"ServiceAccount"}
PastNamespace == PastBinding \cup {"ClusterBinding"}

\* What a handler has found or made by the step that it is in.
Progress(t) ==
  /\ t.pc # "idle" => t.session \in Clis
  /\ t.pc \in PastNamespace => t.ns \in Namespaces
  /\ t.pc \in PastBinding => Obj("ClusterBinding", t.ns) \in objs
  /\ t.pc \in PastAccount => Obj("ServiceAccount", t.ns) \in objs
  /\ t.pc \in PastRole => Obj("ClusterRole", None) \in objs
  /\ t.pc \in PastSecret => Obj("ServiceAccountSecret", t.ns) \in objs
  /\ t.pc \in PastToken => Obj("Token", t.ns) \in objs
  /\ t.pc = "respond" => Obj("Kubeconfig", t.ns) \in objs

\* The steps of a CLI before and after it has made its request.
UpToRequest == {"start", "wait", "secret", "create", "update", "request", "failed"}
PastPoll == {"konnector", "serving", "find", "binding", "bind", "done"}
PastRequest == PastPoll \cup {"poll"}

Calls == [pc: {"idle", "namespace"} \cup PastNamespace, session: Clis \cup {None},
          user: Users \cup {None}, ns: Namespaces \cup {None}]
Runs == [pc: UpToRequest \cup PastRequest, ns: Namespaces \cup {None},
         secret: Secrets \cup {None}, name: Names \cup {None}]

TypeOK ==
  /\ cookie \in [session: Clis \cup {None}, user: Users \cup {None}]
  /\ tab \in [Clis -> Calls]
  /\ cli \in [Clis -> Runs]
  /\ secrets \in [Secrets -> Namespaces \cup {None}]
  /\ bindings \in [Names -> Secrets \cup {None}]
  /\ ops \in Nat

\* Whatever handlers have failed half-way or have found of each other's: a handler has
\* all that the earlier steps make, a kubeconfig is made last, so that the namespaces
\* in the secrets of the consumer are complete, and a CLI that has gone on to the
\* konnector has seen a request succeed in the namespace that it has read from the
\* secret, which may be gone by now.
BindInv ==
  /\ TypeOK
  /\ \A c \in Clis : Progress(tab[c])
  /\ \A n \in Issued : Complete(n) \subseteq objs
  /\ \A s \in Secrets : secrets[s] # None => secrets[s] \in Issued
  /\ \A c \in Clis : cli[c].ns # None => cli[c].ns \in Issued
  /\ \A c \in Clis : cli[c].pc \in {"update", "request"} => cli[c].secret \in Secrets
  /\ \A q \in requests : q.phase = "Succeeded" => q.key \in granted
  /\ \A c \in Clis : cli[c].pc \in PastRequest => cli[c].name \in Names
  /\ \A c \in Clis : cli[c].pc \in PastPoll => Key(cli[c].ns, cli[c].name) \in granted

\* A CLI that has a kubeconfig has one whose namespace is complete, however many
\* handlers of the same identity have failed half-way before or work at the same time.
ResponseIsComplete ==
  \A c \in Clis : cli[c].ns # None => Complete(cli[c].ns) \subseteq objs

\* A CLI that reports success leaves a binding that refers to its secret, whatever other
\* CLIs have done since it looked, under a name for which the provider has granted a
\* request in the namespace of its kubeconfig.  (The request need not be there any more:
\* the backend deletes it after ten minutes, and the CLI may have waited longer for the
\* konnector, while others have bound under the same name again.)
SuccessIsBound ==
  [][\A c \in Clis :
       cli'[c].pc = "done" /\ cli[c].pc # "done" =>
         /\ bindings'[cli'[c].name] = cli'[c].secret
         /\ Key(cli'[c].ns, cli'[c].name) \in granted']_vars

\* "only kubeconfigs with the same host and default namespace are updated"
\* (base/kubeconfig.go): a CLI gives no secret, to which bindings may refer, another
\* remote namespace, also when a user changes the secret after the CLI has found it.
SecretKeepsItsRemote ==
  [][ops' = ops => \A s \in Secrets : secrets[s] # None => secrets'[s] = secrets[s]]_vars

\* Every CLI ends, whatever the user and the provider do, or it waits for ever for a
\* konnector that never serves APIServiceBindings (deployKonnector polls without a
\* deadline): no other of its waits lasts.
CliEnds ==
  \A c \in Clis : \/ <>(cli[c].pc \in {"done", "failed"})
                   \/ <>[](cli[c].pc = "serving" /\ konnector # "serving")
=============================================================================
