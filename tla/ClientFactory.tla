--------------------------- MODULE ClientFactory ---------------------------
(***************************************************************************)
(* The client factories of api/repositories (UnprivilegedClientFactory    *)
(* and PrivilegedClientFactory).  Every inbound request that needs to talk *)
(* to the Kubernetes API builds a client that must authenticate as the     *)
(* caller and as nobody else.  Requests are served concurrently, and all   *)
(* of them start from the same process-wide base rest.Config, so the model *)
(* keeps the configs in a small heap: the base config, the service-account *)
(* config the privileged factory holds, and one slot per request for the   *)
(* copy that rest.CopyConfig makes.  A request is one worker going through *)
(* BuildClient (or BuildK8sClient) one store-visible step at a time:       *)
(*   copy the base config, attach the caller's credentials, construct.     *)
(***************************************************************************)
EXTENDS Naturals

CONSTANTS
    Requests,        \* concurrent request workers (also their config slots)
    Users,           \* identities a caller can present
    ServiceAccount,  \* the identity of the in-cluster service account
    NoCred,          \* an unset credential field of a rest.Config
    BasePtr,         \* heap slot of UnprivilegedClientFactory.config
    SvcPtr           \* heap slot of PrivilegedClientFactory.config

ASSUME ConstantsAssumption ==
    /\ Users # {}
    /\ ServiceAccount \notin Users
    /\ NoCred \notin Users \cup {ServiceAccount}
    /\ BasePtr # SvcPtr
    /\ {BasePtr, SvcPtr} \cap Requests = {}

VARIABLES
    heap,   \* heap[p]: the rest.Config stored at slot p
    req     \* req[r]: the state of request worker r

vars == <<heap, req>>

(***************************************************************************)
(* Data.  An Authorization header is abstracted to its scheme word, the    *)
(* user whose token or certificate it carries, and, for the client-cert    *)
(* scheme, what pem.Decode finds in CertData: a certificate block followed *)
(* by a key block, no certificate block, or a certificate block and no key *)
(* block after it.                                                         *)
(***************************************************************************)
Idents == Users \cup {ServiceAccount}
BearerScheme == "bearer"
CertScheme == "clientcert"
Schemes == {"Bearer", "bearer", "ClientCert", "clientcert", "Basic"}
PemContents == {"certAndKey", "noCert", "certNoKey"}
AuthInfos == [scheme : Schemes, user : Users, pem : PemContents]

\* strings.ToLower applied to the header schemes above
ToLower(s) ==
    IF s \in {"Bearer", "bearer"} THEN "bearer"
    ELSE IF s \in {"ClientCert", "clientcert"} THEN "clientcert"
    ELSE "basic"

\* the credential fields of a rest.Config: BearerToken, CertData, KeyData
Configs == [bearer : Idents \cup {NoCred},
            cert   : Idents \cup {NoCred},
            key    : Idents \cup {NoCred}]

\* rest.AnonymousClientConfig: a copy without any credentials
AnonymousClientConfig(c) == [c EXCEPT !.bearer = NoCred, !.cert = NoCred,
                                      !.key = NoCred]

\* the identities a client built from config c presents to the API server:
\* the bearer token, and the client certificate when its key matches it
CredsOf(c) ==
    ({c.bearer} \cup (IF c.cert = c.key THEN {c.cert} ELSE {})) \ {NoCred}

ErrKinds == {"none", "NotAuthenticated", "Unknown"}
Results == [ok : BOOLEAN, creds : SUBSET Idents, err : ErrKinds]
NoResult == [ok |-> FALSE, creds |-> {}, err |-> "none"]
Failed(kind) == [ok |-> FALSE, creds |-> {}, err |-> kind]

Ops == {"BuildClient", "BuildK8sClient", "Privileged"}
Pcs == {"idle", "called", "copied", "configured", "done"}
ReqStates == [pc : Pcs, op : Ops, auth : AuthInfos, cfg : Requests \cup {BasePtr},
              result : Results, dialled : BOOLEAN]

TypeOK ==
    /\ heap \in [Requests \cup {BasePtr, SvcPtr} -> Configs]
    /\ req \in [Requests -> ReqStates]

(***************************************************************************)
(* Initially the privileged factory holds the in-cluster config, which     *)
(* authenticates as the service account, and NewUnprivilegedClientFactory  *)
(* has stored AnonymousClientConfig(CopyConfig(config)) as its base.       *)
(***************************************************************************)
InClusterConfig == [bearer |-> ServiceAccount, cert |-> NoCred, key |-> NoCred]

NewUnprivilegedClientFactory == AnonymousClientConfig(InClusterConfig)

Init ==
    /\ heap = [p \in Requests \cup {BasePtr, SvcPtr} |->
                 IF p = SvcPtr THEN InClusterConfig
                 ELSE NewUnprivilegedClientFactory]
    /\ req = [r \in Requests |->
                 [pc |-> "idle", op |-> "BuildClient",
                  auth |-> CHOOSE a \in AuthInfos : TRUE, cfg |-> r,
                  result |-> NoResult, dialled |-> FALSE]]

(***************************************************************************)
(* A handler calls BuildClient or BuildK8sClient with the caller's         *)
(* authorization.Info.  The worker takes a new request once it is done     *)
(* with the previous one.                                                  *)
(***************************************************************************)
Call(r) ==
    /\ req[r].pc \in {"idle", "done"}
    /\ \E a \in AuthInfos, op \in {"BuildClient", "BuildK8sClient"} :
         req' = [req EXCEPT ![r] = [pc |-> "called", op |-> op, auth |-> a,
                                    cfg |-> r, result |-> NoResult,
                                    dialled |-> FALSE]]
    /\ UNCHANGED heap

\* Faulty variant: the worker configures the shared base config in place
\* instead of a copy of it.
CopyConfigShared(r) ==
    /\ req[r].pc = "called"
    /\ req' = [req EXCEPT ![r].pc = "copied", ![r].cfg = BasePtr]
    /\ UNCHANGED heap

\* config := rest.CopyConfig(f.config): a fresh config in the worker's slot
CopyConfig(r) ==
    /\ req[r].pc = "called"
    /\ heap' = [heap EXCEPT ![r] = heap[BasePtr]]
    /\ req' = [req EXCEPT ![r].pc = "copied", ![r].cfg = r]

\* Faulty variant: the keyBlock == nil check is missing, so a certificate
\* without a key is installed with empty KeyData.
ApplyCredentialsNoKeyCheck(r) ==
    LET a == req[r].auth
        p == req[r].cfg
    IN  /\ req[r].pc = "copied"
        /\ \/ /\ ToLower(a.scheme) = BearerScheme
              /\ heap' = [heap EXCEPT ![p].bearer = a.user]
              /\ req' = [req EXCEPT ![r].pc = "configured"]
           \/ /\ ToLower(a.scheme) = CertScheme
              /\ a.pem # "noCert"
              /\ heap' = [heap EXCEPT ![p].cert = a.user,
                   ![p].key = IF a.pem = "certAndKey" THEN a.user ELSE NoCred]
              /\ req' = [req EXCEPT ![r].pc = "configured"]
           \/ /\ ToLower(a.scheme) = CertScheme
              /\ a.pem = "noCert"
              /\ req' = [req EXCEPT ![r].pc = "done", ![r].result = Failed("Unknown")]
              /\ UNCHANGED heap
           \/ /\ ToLower(a.scheme) \notin {BearerScheme, CertScheme}
              /\ req' = [req EXCEPT ![r].pc = "done",
                                    ![r].result = Failed("NotAuthenticated")]
              /\ UNCHANGED heap

\* the switch on strings.ToLower(authInfo.Scheme())
ApplyCredentials(r) ==
    LET a == req[r].auth
        p == req[r].cfg
    IN  /\ req[r].pc = "copied"
        /\ \/ /\ ToLower(a.scheme) = BearerScheme
              /\ heap' = [heap EXCEPT ![p].bearer = a.user]
              /\ req' = [req EXCEPT ![r].pc = "configured"]
           \/ /\ ToLower(a.scheme) = CertScheme
              /\ a.pem = "certAndKey"
              /\ heap' = [heap EXCEPT ![p].cert = a.user, ![p].key = a.user]
              /\ req' = [req EXCEPT ![r].pc = "configured"]
           \/ \* "failed to decode cert PEM" / "failed to decode key PEM"
              /\ ToLower(a.scheme) = CertScheme
              /\ a.pem # "certAndKey"
              /\ req' = [req EXCEPT ![r].pc = "done", ![r].result = Failed("Unknown")]
              /\ UNCHANGED heap
           \/ \* apierrors.NewNotAuthenticatedError
              /\ ToLower(a.scheme) \notin {BearerScheme, CertScheme}
              /\ req' = [req EXCEPT ![r].pc = "done",
                                    ![r].result = Failed("NotAuthenticated")]
              /\ UNCHANGED heap

\* client.NewWithWatch / k8sclient.NewForConfig, which may fail (discovery,
\* unreachable server); the error goes through apierrors.FromK8sError
Construct(r) ==
    /\ req[r].pc = "configured"
    /\ \E ok \in BOOLEAN :
         req' = [req EXCEPT ![r].pc = "done", ![r].dialled = TRUE,
                   ![r].result = IF ok THEN [ok |-> TRUE,
                                             creds |-> CredsOf(heap[req[r].cfg]),
                                             err |-> "none"]
                                 ELSE Failed("Unknown")]
    /\ UNCHANGED heap

\* Faulty variant: the privileged factory is wired with the unprivileged
\* factory's base config instead of the in-cluster one.
PrivilegedBuildClientFromBase(r) ==
    /\ req[r].pc \in {"idle", "done"}
    /\ \E a \in AuthInfos, ok \in BOOLEAN :
         req' = [req EXCEPT ![r] = [pc |-> "done", op |-> "Privileged",
                   auth |-> a, cfg |-> r, dialled |-> TRUE,
                   result |-> IF ok THEN [ok |-> TRUE,
                                          creds |-> CredsOf(heap[BasePtr]),
                                          err |-> "none"]
                              ELSE Failed("Unknown")]]
    /\ UNCHANGED heap

\* PrivilegedClientFactory.BuildClient ignores the authorization.Info and
\* builds from the config it was given, without copying it
PrivilegedBuildClient(r) ==
    /\ req[r].pc \in {"idle", "done"}
    /\ \E a \in AuthInfos, ok \in BOOLEAN :
         req' = [req EXCEPT ![r] = [pc |-> "done", op |-> "Privileged",
                   auth |-> a, cfg |-> r, dialled |-> TRUE,
                   result |-> IF ok THEN [ok |-> TRUE,
                                          creds |-> CredsOf(heap[SvcPtr]),
                                          err |-> "none"]
                              ELSE Failed("Unknown")]]
    /\ UNCHANGED heap

Next ==
    \E r \in Requests :
        \/ Call(r)
        \/ CopyConfig(r)
        \/ ApplyCredentials(r)
        \/ Construct(r)
        \/ PrivilegedBuildClient(r)

Spec == Init /\ [][Next]_vars

-----------------------------------------------------------------------------
(***************************************************************************)
(* Properties.                                                             *)
(***************************************************************************)

(* A client that BuildClient or BuildK8sClient hands back authenticates as *)
(* the caller named in the request's authorization.Info and as no one else *)
(* -- neither as the service account whose in-cluster config the base was  *)
(* made from, nor as a caller of a concurrent request (which could happen  *)
(* if requests shared the config they mutate).                             *)
ClientActsAsCaller ==
    \A r \in Requests :
        /\ req[r].pc = "done"
        /\ req[r].op # "Privileged"
        /\ req[r].result.ok
        => req[r].result.creds = {req[r].auth.user}

(* An unsupported Authorization scheme ends in NotAuthenticated, and a     *)
(* client-cert header whose certificate or key PEM block does not decode   *)
(* ends in an Unknown error; in both cases no client is constructed and so *)
(* nothing is sent to the API server.                                      *)
AuthFailuresNeverDial ==
    \A r \in Requests :
        LET a == req[r].auth IN
        /\ req[r].pc \in {"configured", "done"}
        /\ req[r].op # "Privileged"
        /\ ToLower(a.scheme) # BearerScheme
        /\ ToLower(a.scheme) # CertScheme \/ a.pem # "certAndKey"
        => /\ req[r].pc = "done"
           /\ ~req[r].dialled
           /\ req[r].result = Failed(IF ToLower(a.scheme) = CertScheme
                                     THEN "Unknown" ELSE "NotAuthenticated")

-----------------------------------------------------------------------------
(***************************************************************************)
(* Refinement.  Seen from the handler that calls it, BuildClient is one    *)
(* step: the copy and the configuring of a worker's own config are hidden *)
(* (they map to stuttering steps), and the request is busy from Call to   *)
(* its return.                                                             *)
(***************************************************************************)

\* the headers the switch in BuildClient turns into credentials
Usable ==
    {a \in AuthInfos : \/ ToLower(a.scheme) = BearerScheme
                      \/ /\ ToLower(a.scheme) = CertScheme
                         /\ a.pem = "certAndKey"}

\* the error BuildClient returns for a header it cannot use
AuthError ==
    [a \in AuthInfos |-> IF ToLower(a.scheme) = CertScheme THEN "Unknown"
                         ELSE "NotAuthenticated"]

\* the phase of a call as its caller sees it
Phase(pc) == IF pc \in {"called", "copied", "configured"} THEN "busy" ELSE pc

clientBar == [r \in Requests |-> [pc |-> Phase(req[r].pc), op |-> req[r].op,
                                  auth |-> req[r].auth, result |-> req[r].result]]

Abstract == INSTANCE ClientFactorySpec WITH client <- clientBar, Refusal <- AuthError

(* The factories implement ClientFactorySpec: every call of BuildClient or *)
(* BuildK8sClient returns, as one step, a client that acts as exactly its  *)
(* caller or the error the header calls for, and the privileged factory's  *)
(* clients act as the service account, however the steps of concurrent     *)
(* requests interleave.                                                    *)
ImplementsClientFactorySpec == Abstract!Spec

=============================================================================
