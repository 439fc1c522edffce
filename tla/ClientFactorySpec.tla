------------------------- MODULE ClientFactorySpec -------------------------
(***************************************************************************)
(* What the client factories of api/repositories promise the handlers      *)
(* that call them, with the steps of BuildClient hidden: a call returns in *)
(* one step, and hands back either a client that authenticates as exactly  *)
(* the caller of that request, or an error -- the error that the caller's *)
(* Authorization header calls for when the header cannot be used, and      *)
(* possibly an unknown error (an unreachable API server) when it can.  The *)
(* privileged factory hands back a client acting as the service account.  *)
(* ClientFactory is shown to implement this specification.                 *)
(***************************************************************************)
CONSTANTS
    Requests,        \* concurrent request workers
    Users,           \* identities a caller can present
    ServiceAccount,  \* the identity of the in-cluster service account
    AuthInfos,       \* the authorization.Info values a caller can present
    Usable,          \* those of them from which credentials can be built
    Refusal          \* Refusal[a]: the error for an unusable header a

VARIABLE client      \* client[r]: the call request worker r is making

NoResult == [ok |-> FALSE, creds |-> {}, err |-> "none"]
Failed(kind) == [ok |-> FALSE, creds |-> {}, err |-> kind]
ActsAs(u) == [ok |-> TRUE, creds |-> {u}, err |-> "none"]

Init ==
    client \in [Requests -> [pc : {"idle"}, op : {"BuildClient"},
                             auth : AuthInfos, result : {NoResult}]]

\* the call of worker r, and only it, changes, to one of the calls in S
Becomes(r, S) ==
    /\ client'[r] \in S
    /\ client' = [client EXCEPT ![r] = client'[r]]

\* a handler calls BuildClient or BuildK8sClient with the caller's header
Calls == [pc : {"busy"}, op : {"BuildClient", "BuildK8sClient"},
          auth : AuthInfos, result : {NoResult}]

Call(r) ==
    /\ client[r].pc \in {"idle", "done"}
    /\ Becomes(r, Calls)

\* what a call with header a may return: a client acting as the caller, or
\* an error
Outcomes(a) == IF a \in Usable THEN {ActsAs(a.user), Failed("Unknown")}
               ELSE {Failed(Refusal[a])}

Return(r) ==
    /\ client[r].pc = "busy"
    /\ Becomes(r, {[pc |-> "done", op |-> client[r].op, auth |-> client[r].auth,
                     result |-> res] : res \in Outcomes(client[r].auth)})

\* PrivilegedClientFactory.BuildClient, whatever the caller's header
PrivilegedCalls == [pc : {"done"}, op : {"Privileged"}, auth : AuthInfos,
                    result : {ActsAs(ServiceAccount), Failed("Unknown")}]

Privileged(r) ==
    /\ client[r].pc \in {"idle", "done"}
    /\ Becomes(r, PrivilegedCalls)

Next == \E r \in Requests : Call(r) \/ Return(r) \/ Privileged(r)

Spec == Init /\ [][Next]_client

=============================================================================
