------------------------ MODULE ClientFactoryProofs ------------------------
(***************************************************************************)
(* Proofs about ClientFactory for all sets of requests and users: the      *)
(* model is type-correct, and a client built for a caller authenticates as *)
(* that caller only.                                                       *)
(***************************************************************************)
EXTENDS ClientFactory, TLAPS

-----------------------------------------------------------------------------
(* Type correctness.                                                       *)

LEMMA ResultsType ==
    /\ NoResult \in Results
    /\ \A k \in ErrKinds : Failed(k) \in Results
    /\ \A c \in Configs : CredsOf(c) \in SUBSET Idents
BY DEF NoResult, Failed, Results, ErrKinds, CredsOf, Configs

LEMMA AuthInfosNonEmpty == (CHOOSE a \in AuthInfos : TRUE) \in AuthInfos
<1>1. PICK u \in Users : TRUE
    BY ConstantsAssumption
<1>2. [scheme |-> "Basic", user |-> u, pem |-> "noCert"] \in AuthInfos
    BY <1>1 DEF AuthInfos, Schemes, PemContents
<1> QED BY <1>2

LEMMA InitTypeOK == Init => TypeOK
<1> SUFFICES ASSUME Init PROVE TypeOK
    OBVIOUS
<1>1. (CHOOSE a \in AuthInfos : TRUE) \in AuthInfos
    BY AuthInfosNonEmpty
<1>2. heap \in [Requests \cup {BasePtr, SvcPtr} -> Configs]
    BY DEF Init, Configs, InClusterConfig, NewUnprivilegedClientFactory,
           AnonymousClientConfig, Idents
<1>3. req \in [Requests -> ReqStates]
    BY <1>1, ResultsType DEF Init, ReqStates, Pcs, Ops
<1> QED BY <1>2, <1>3 DEF TypeOK

LEMMA NextTypeOK == TypeOK /\ [Next]_vars => TypeOK'
<1> SUFFICES ASSUME TypeOK, [Next]_vars PROVE TypeOK'
    OBVIOUS
<1> USE DEF TypeOK
<1>1. ASSUME NEW r \in Requests, Call(r) PROVE TypeOK'
    BY <1>1, ResultsType DEF Call, ReqStates, Pcs, Ops
<1>2. ASSUME NEW r \in Requests, CopyConfig(r) PROVE TypeOK'
    BY <1>2 DEF CopyConfig, ReqStates, Pcs
<1>3. ASSUME NEW r \in Requests, ApplyCredentials(r) PROVE TypeOK'
    <2> DEFINE a == req[r].auth
               p == req[r].cfg
    <2>1. a \in AuthInfos /\ p \in Requests \cup {BasePtr}
        BY DEF ReqStates
    <2>2. a.user \in Idents
        BY <2>1 DEF AuthInfos, Idents
    <2>3. \/ /\ heap' = [heap EXCEPT ![p].bearer = a.user]
             /\ req' = [req EXCEPT ![r].pc = "configured"]
          \/ /\ heap' = [heap EXCEPT ![p].cert = a.user, ![p].key = a.user]
             /\ req' = [req EXCEPT ![r].pc = "configured"]
          \/ /\ UNCHANGED heap
             /\ \E k \in ErrKinds :
                   req' = [req EXCEPT ![r].pc = "done", ![r].result = Failed(k)]
        BY <1>3 DEF ApplyCredentials, ErrKinds
    <2>4. heap' \in [Requests \cup {BasePtr, SvcPtr} -> Configs]
        BY <2>1, <2>2, <2>3 DEF Configs
    <2>5. req' \in [Requests -> ReqStates]
        BY <2>3, ResultsType DEF ReqStates, Pcs
    <2> QED BY <2>4, <2>5
<1>4. ASSUME NEW r \in Requests, Construct(r) PROVE TypeOK'
    <2>1. CredsOf(heap[req[r].cfg]) \in SUBSET Idents
        BY ResultsType DEF ReqStates
    <2>2. Failed("Unknown") \in Results
        BY ResultsType DEF ErrKinds
    <2>3. [ok |-> TRUE, creds |-> CredsOf(heap[req[r].cfg]), err |-> "none"] \in Results
        BY <2>1 DEF Results, ErrKinds
    <2>4. PICK ok \in BOOLEAN :
            /\ req' = [req EXCEPT ![r].pc = "done", ![r].dialled = TRUE,
                   ![r].result = IF ok THEN [ok |-> TRUE,
                                             creds |-> CredsOf(heap[req[r].cfg]),
                                             err |-> "none"]
                                 ELSE Failed("Unknown")]
            /\ UNCHANGED heap
        BY <1>4 DEF Construct
    <2> DEFINE res == IF ok THEN [ok |-> TRUE, creds |-> CredsOf(heap[req[r].cfg]),
                                  err |-> "none"]
                      ELSE Failed("Unknown")
    <2>5. res \in Results
        BY <2>2, <2>3
    <2>6. [req[r] EXCEPT !.pc = "done", !.dialled = TRUE, !.result = res] \in ReqStates
        BY <2>5 DEF ReqStates, Pcs
    <2>7. req' = [req EXCEPT ![r] = [req[r] EXCEPT !.pc = "done", !.dialled = TRUE,
                                                 !.result = res]]
        BY <2>4
    <2> QED BY <2>4, <2>6, <2>7
<1>5. ASSUME NEW r \in Requests, PrivilegedBuildClient(r) PROVE TypeOK'
    <2>1. CredsOf(heap[SvcPtr]) \in SUBSET Idents
        BY ResultsType
    <2>2. Failed("Unknown") \in Results
        BY ResultsType DEF ErrKinds
    <2>3. [ok |-> TRUE, creds |-> CredsOf(heap[SvcPtr]), err |-> "none"] \in Results
        BY <2>1 DEF Results, ErrKinds
    <2> QED BY <1>5, <2>2, <2>3, AuthInfosNonEmpty
        DEF PrivilegedBuildClient, ReqStates, Pcs, Ops
<1>6. CASE UNCHANGED vars
    BY <1>6 DEF vars
<1> QED BY <1>1, <1>2, <1>3, <1>4, <1>5, <1>6 DEF Next

THEOREM TypeCorrect == Spec => []TypeOK
BY InitTypeOK, NextTypeOK, PTL DEF Spec

-----------------------------------------------------------------------------
(* Clients act as their caller.  ClientActsAsCaller is not inductive by     *)
(* itself: it also needs that the base config is never written, that every *)
(* worker configures its own slot, and what that slot holds between the    *)
(* steps of BuildClient.                                                   *)

\* the credentials in a worker's slot at each point of BuildClient
SlotInv ==
    \A r \in Requests :
        /\ req[r].cfg = r
        /\ req[r].pc = "copied" => heap[r] = NewUnprivilegedClientFactory
        /\ req[r].pc = "configured" => CredsOf(heap[r]) = {req[r].auth.user}

IInv ==
    /\ TypeOK
    /\ heap[BasePtr] = NewUnprivilegedClientFactory
    /\ SlotInv
    /\ ClientActsAsCaller

LEMMA AnonymousHasNoCreds ==
    /\ CredsOf(NewUnprivilegedClientFactory) = {}
    /\ \A u \in Users :
         /\ CredsOf([NewUnprivilegedClientFactory EXCEPT !.bearer = u]) = {u}
         /\ CredsOf([NewUnprivilegedClientFactory EXCEPT !.cert = u, !.key = u]) = {u}
BY ConstantsAssumption DEF CredsOf, NewUnprivilegedClientFactory,
   AnonymousClientConfig, InClusterConfig

LEMMA InitIInv == Init => IInv
<1> SUFFICES ASSUME Init PROVE IInv
    OBVIOUS
<1>1. TypeOK
    BY InitTypeOK
<1>2. heap[BasePtr] = NewUnprivilegedClientFactory
    BY ConstantsAssumption DEF Init
<1>3. SlotInv
    BY ConstantsAssumption DEF Init, SlotInv
<1>4. ClientActsAsCaller
    BY DEF Init, ClientActsAsCaller
<1> QED BY <1>1, <1>2, <1>3, <1>4 DEF IInv

LEMMA NextIInv == IInv /\ [Next]_vars => IInv'
<1> SUFFICES ASSUME IInv, [Next]_vars PROVE IInv'
    OBVIOUS
<1>0. TypeOK'
    BY NextTypeOK DEF IInv
<1> USE DEF IInv, TypeOK
<1>1. ASSUME NEW r \in Requests, Call(r) PROVE IInv'
    <2>1. heap[BasePtr]' = NewUnprivilegedClientFactory
        BY <1>1 DEF Call
    <2>2. SlotInv'
        BY <1>1 DEF Call, SlotInv
    <2>3. ClientActsAsCaller'
        BY <1>1 DEF Call, ClientActsAsCaller
    <2> QED BY <1>0, <2>1, <2>2, <2>3
<1>2. ASSUME NEW r \in Requests, CopyConfig(r) PROVE IInv'
    <2>1. heap[BasePtr]' = NewUnprivilegedClientFactory
        BY <1>2, ConstantsAssumption DEF CopyConfig
    <2>2. SlotInv'
        BY <1>2, ConstantsAssumption DEF CopyConfig, SlotInv
    <2>3. ClientActsAsCaller'
        BY <1>2 DEF CopyConfig, ClientActsAsCaller
    <2> QED BY <1>0, <2>1, <2>2, <2>3
<1>3. ASSUME NEW r \in Requests, ApplyCredentials(r) PROVE IInv'
    <2> DEFINE a == req[r].auth
    <2>0. /\ req[r].pc = "copied"
          /\ req[r].cfg = r
          /\ heap[r] = NewUnprivilegedClientFactory
          /\ a.user \in Users
        BY <1>3 DEF ApplyCredentials, SlotInv, ReqStates, AuthInfos
    <2>1. CASE /\ heap' = [heap EXCEPT ![r].bearer = a.user]
               /\ req' = [req EXCEPT ![r].pc = "configured"]
        <3>1. heap[BasePtr]' = NewUnprivilegedClientFactory
            BY <2>1, ConstantsAssumption
        <3>2. CredsOf(heap'[r]) = {a.user}
            BY <2>0, <2>1, AnonymousHasNoCreds
        <3>3. SlotInv'
            BY <2>0, <2>1, <3>2 DEF SlotInv
        <3>4. ClientActsAsCaller'
            BY <2>1 DEF ClientActsAsCaller
        <3> QED BY <1>0, <3>1, <3>3, <3>4
    <2>2. CASE /\ heap' = [heap EXCEPT ![r].cert = a.user, ![r].key = a.user]
               /\ req' = [req EXCEPT ![r].pc = "configured"]
        <3>1. heap[BasePtr]' = NewUnprivilegedClientFactory
            BY <2>2, ConstantsAssumption
        <3>2. CredsOf(heap'[r]) = {a.user}
            BY <2>0, <2>2, AnonymousHasNoCreds
        <3>3. SlotInv'
            BY <2>0, <2>2, <3>2 DEF SlotInv
        <3>4. ClientActsAsCaller'
            BY <2>2 DEF ClientActsAsCaller
        <3> QED BY <1>0, <3>1, <3>3, <3>4
    <2>3. CASE /\ UNCHANGED heap
               /\ \E k \in ErrKinds :
                     req' = [req EXCEPT ![r].pc = "done", ![r].result = Failed(k)]
        <3>1. PICK k \in ErrKinds :
                req' = [req EXCEPT ![r].pc = "done", ![r].result = Failed(k)]
            BY <2>3
        <3>2. SlotInv'
            BY <2>3, <3>1 DEF SlotInv
        <3>3. ClientActsAsCaller'
            BY <3>1 DEF ClientActsAsCaller, Failed
        <3> QED BY <1>0, <2>3, <3>2, <3>3
    <2> QED BY <1>3, <2>0, <2>1, <2>2, <2>3 DEF ApplyCredentials, ErrKinds
<1>4. ASSUME NEW r \in Requests, Construct(r) PROVE IInv'
    <2>0. /\ req[r].pc = "configured"
          /\ req[r].cfg = r
          /\ CredsOf(heap[r]) = {req[r].auth.user}
        BY <1>4 DEF Construct, SlotInv
    <2>1. PICK ok \in BOOLEAN :
            /\ req' = [req EXCEPT ![r].pc = "done", ![r].dialled = TRUE,
                   ![r].result = IF ok THEN [ok |-> TRUE,
                                             creds |-> CredsOf(heap[req[r].cfg]),
                                             err |-> "none"]
                                 ELSE Failed("Unknown")]
            /\ UNCHANGED heap
        BY <1>4 DEF Construct
    <2>2. SlotInv'
        BY <2>1 DEF SlotInv
    <2>3. ClientActsAsCaller'
        BY <2>0, <2>1 DEF ClientActsAsCaller, Failed
    <2> QED BY <1>0, <2>1, <2>2, <2>3
<1>5. ASSUME NEW r \in Requests, PrivilegedBuildClient(r) PROVE IInv'
    <2>1. PICK a \in AuthInfos, ok \in BOOLEAN :
            /\ req' = [req EXCEPT ![r] = [pc |-> "done", op |-> "Privileged",
                   auth |-> a, cfg |-> r, dialled |-> TRUE,
                   result |-> IF ok THEN [ok |-> TRUE,
                                          creds |-> CredsOf(heap[SvcPtr]),
                                          err |-> "none"]
                              ELSE Failed("Unknown")]]
            /\ UNCHANGED heap
        BY <1>5 DEF PrivilegedBuildClient
    <2>2. SlotInv'
        BY <2>1 DEF SlotInv
    <2>3. ClientActsAsCaller'
        BY <2>1 DEF ClientActsAsCaller
    <2> QED BY <1>0, <2>1, <2>2, <2>3
<1>6. CASE UNCHANGED vars
    BY <1>6 DEF vars, SlotInv, ClientActsAsCaller
<1> QED BY <1>1, <1>2, <1>3, <1>4, <1>5, <1>6 DEF Next

(* Every client that BuildClient or BuildK8sClient returns authenticates   *)
(* as the caller of that request and as no one else, for any number of    *)
(* concurrent requests and callers.                                        *)
THEOREM ClientsActAsCaller == Spec => []ClientActsAsCaller
<1>1. IInv => ClientActsAsCaller
    BY DEF IInv
<1> QED BY InitIInv, NextIInv, <1>1, PTL DEF Spec

-----------------------------------------------------------------------------
(* Authentication failures never reach the API server.  AuthFailures-      *)
(* NeverDial needs one more fact to be inductive: a request that has not   *)
(* yet been configured has not constructed a client.                       *)

NotDialledYet ==
    \A r \in Requests : req[r].pc \in {"idle", "called", "copied"} => ~req[r].dialled

AInv ==
    /\ TypeOK
    /\ NotDialledYet
    /\ AuthFailuresNeverDial

LEMMA InitAInv == Init => AInv
<1> SUFFICES ASSUME Init PROVE AInv
    OBVIOUS
<1>1. TypeOK
    BY InitTypeOK
<1>2. NotDialledYet /\ AuthFailuresNeverDial
    BY DEF Init, NotDialledYet, AuthFailuresNeverDial
<1> QED BY <1>1, <1>2 DEF AInv

LEMMA NextAInv == AInv /\ [Next]_vars => AInv'
<1> SUFFICES ASSUME AInv, [Next]_vars PROVE AInv'
    OBVIOUS
<1>0. TypeOK'
    BY NextTypeOK DEF AInv
<1> USE DEF AInv, TypeOK
<1>1. ASSUME NEW r \in Requests, Call(r) PROVE AInv'
    <2>1. NotDialledYet'
        BY <1>1 DEF Call, NotDialledYet
    <2>2. AuthFailuresNeverDial'
        BY <1>1 DEF Call, AuthFailuresNeverDial
    <2> QED BY <1>0, <2>1, <2>2
<1>2. ASSUME NEW r \in Requests, CopyConfig(r) PROVE AInv'
    <2>1. NotDialledYet'
        BY <1>2 DEF CopyConfig, NotDialledYet
    <2>2. AuthFailuresNeverDial'
        BY <1>2 DEF CopyConfig, AuthFailuresNeverDial
    <2> QED BY <1>0, <2>1, <2>2
<1>3. ASSUME NEW r \in Requests, ApplyCredentials(r) PROVE AInv'
    <2> DEFINE a == req[r].auth
               p == req[r].cfg
    <2>0. req[r].pc = "copied" /\ ~req[r].dialled
        BY <1>3 DEF ApplyCredentials, NotDialledYet
    <2>1. CASE /\ ToLower(a.scheme) = BearerScheme
               /\ req' = [req EXCEPT ![r].pc = "configured"]
        <3>1. NotDialledYet'
            BY <2>1 DEF NotDialledYet
        <3>2. AuthFailuresNeverDial'
            BY <2>1 DEF AuthFailuresNeverDial
        <3> QED BY <1>0, <3>1, <3>2
    <2>2. CASE /\ ToLower(a.scheme) = CertScheme
               /\ a.pem = "certAndKey"
               /\ req' = [req EXCEPT ![r].pc = "configured"]
        <3>1. NotDialledYet'
            BY <2>2 DEF NotDialledYet
        <3>2. AuthFailuresNeverDial'
            BY <2>2 DEF AuthFailuresNeverDial
        <3> QED BY <1>0, <3>1, <3>2
    <2>3. CASE /\ ToLower(a.scheme) = CertScheme
               /\ req' = [req EXCEPT ![r].pc = "done", ![r].result = Failed("Unknown")]
        <3>1. NotDialledYet'
            BY <2>3 DEF NotDialledYet
        <3>2. AuthFailuresNeverDial'
            BY <2>0, <2>3 DEF AuthFailuresNeverDial
        <3> QED BY <1>0, <3>1, <3>2
    <2>4. CASE /\ ToLower(a.scheme) \notin {BearerScheme, CertScheme}
               /\ req' = [req EXCEPT ![r].pc = "done",
                                     ![r].result = Failed("NotAuthenticated")]
        <3>1. NotDialledYet'
            BY <2>4 DEF NotDialledYet
        <3>2. AuthFailuresNeverDial'
            BY <2>0, <2>4 DEF AuthFailuresNeverDial
        <3> QED BY <1>0, <3>1, <3>2
    <2> QED BY <1>3, <2>1, <2>2, <2>3, <2>4 DEF ApplyCredentials
<1>4. ASSUME NEW r \in Requests, Construct(r) PROVE AInv'
    <2> DEFINE a == req[r].auth
    <2>1. req[r].pc = "configured"
        BY <1>4 DEF Construct
    <2>2. \/ req[r].op = "Privileged"
          \/ ToLower(a.scheme) = BearerScheme
          \/ ToLower(a.scheme) = CertScheme /\ a.pem = "certAndKey"
        BY <2>1 DEF AuthFailuresNeverDial
    <2>3. PICK ok \in BOOLEAN :
            req' = [req EXCEPT ![r].pc = "done", ![r].dialled = TRUE,
                   ![r].result = IF ok THEN [ok |-> TRUE,
                                             creds |-> CredsOf(heap[req[r].cfg]),
                                             err |-> "none"]
                                 ELSE Failed("Unknown")]
        BY <1>4 DEF Construct
    <2>4. NotDialledYet'
        BY <2>3 DEF NotDialledYet
    <2>5. AuthFailuresNeverDial'
        BY <2>2, <2>3 DEF AuthFailuresNeverDial
    <2> QED BY <1>0, <2>4, <2>5
<1>5. ASSUME NEW r \in Requests, PrivilegedBuildClient(r) PROVE AInv'
    <2>1. NotDialledYet'
        BY <1>5 DEF PrivilegedBuildClient, NotDialledYet
    <2>2. AuthFailuresNeverDial'
        BY <1>5 DEF PrivilegedBuildClient, AuthFailuresNeverDial
    <2> QED BY <1>0, <2>1, <2>2
<1>6. CASE UNCHANGED vars
    BY <1>6 DEF vars, NotDialledYet, AuthFailuresNeverDial
<1> QED BY <1>1, <1>2, <1>3, <1>4, <1>5, <1>6 DEF Next

(* An unsupported Authorization scheme, or a client-cert header whose PEM  *)
(* does not decode to a certificate and a key, ends the request with       *)
(* NotAuthenticated or an unknown error before any client is constructed, *)
(* for any number of concurrent requests and callers.                      *)
THEOREM AuthFailuresDoNotDial == Spec => []AuthFailuresNeverDial
<1>1. AInv => AuthFailuresNeverDial
    BY DEF AInv
<1> QED BY InitAInv, NextAInv, <1>1, PTL DEF Spec


-----------------------------------------------------------------------------
(* Refinement.  The step from a request's point of view needs, besides     *)
(* IInv, that the privileged factory's config is never written and that a *)
(* request only gets to "configured" with a header BuildClient can use.    *)

ConfiguredUsable ==
    \A r \in Requests : req[r].pc = "configured" => req[r].auth \in Usable

RInv ==
    /\ IInv
    /\ heap[SvcPtr] = InClusterConfig
    /\ ConfiguredUsable

LEMMA InitRInv == Init => RInv
<1> SUFFICES ASSUME Init PROVE RInv
    OBVIOUS
<1>1. IInv
    BY InitIInv
<1>2. heap[SvcPtr] = InClusterConfig
    BY DEF Init
<1>3. ConfiguredUsable
    BY DEF Init, ConfiguredUsable
<1> QED BY <1>1, <1>2, <1>3 DEF RInv

LEMMA NextRInv == RInv /\ [Next]_vars => RInv'
<1> SUFFICES ASSUME RInv, [Next]_vars PROVE RInv'
    OBVIOUS
<1>0. IInv'
    BY NextIInv DEF RInv
<1> USE DEF RInv, IInv, TypeOK
<1>1. ASSUME NEW r \in Requests, Call(r) PROVE RInv'
    BY <1>0, <1>1 DEF Call, ConfiguredUsable
<1>2. ASSUME NEW r \in Requests, CopyConfig(r) PROVE RInv'
    BY <1>0, <1>2, ConstantsAssumption DEF CopyConfig, ConfiguredUsable
<1>3. ASSUME NEW r \in Requests, ApplyCredentials(r) PROVE RInv'
    <2> DEFINE a == req[r].auth
    <2>0. req[r].cfg = r /\ a \in AuthInfos
        BY DEF SlotInv, ReqStates
    <2>1. heap'[SvcPtr] = InClusterConfig
        BY <1>3, <2>0, ConstantsAssumption DEF ApplyCredentials
    <2>2. ConfiguredUsable'
        <3>1. CASE /\ \/ ToLower(a.scheme) = BearerScheme
                      \/ ToLower(a.scheme) = CertScheme /\ a.pem = "certAndKey"
                   /\ req' = [req EXCEPT ![r].pc = "configured"]
            <4>1. a \in Usable
                BY <2>0, <3>1 DEF Usable
            <4> QED BY <3>1, <4>1 DEF ConfiguredUsable
        <3>2. CASE \E k \in ErrKinds :
                     req' = [req EXCEPT ![r].pc = "done", ![r].result = Failed(k)]
            BY <3>2 DEF ConfiguredUsable
        <3> QED BY <1>3, <3>1, <3>2 DEF ApplyCredentials, ErrKinds
    <2> QED BY <1>0, <2>1, <2>2
<1>4. ASSUME NEW r \in Requests, Construct(r) PROVE RInv'
    BY <1>0, <1>4 DEF Construct, ConfiguredUsable
<1>5. ASSUME NEW r \in Requests, PrivilegedBuildClient(r) PROVE RInv'
    BY <1>0, <1>5 DEF PrivilegedBuildClient, ConfiguredUsable
<1>6. CASE UNCHANGED vars
    BY <1>0, <1>6 DEF vars, ConfiguredUsable
<1> QED BY <1>1, <1>2, <1>3, <1>4, <1>5, <1>6 DEF Next


\* a step that changes only request r's entry changes only r's call
LEMMA BarFrame ==
    ASSUME NEW r \in Requests,
           \A s \in Requests \ {r} : req'[s] = req[s]
    PROVE  clientBar' = [clientBar EXCEPT ![r] = clientBar'[r]]
BY DEF clientBar

\* a step inside BuildClient that neither ends the call nor changes its
\* header or result is invisible to the caller
LEMMA BarStutter ==
    ASSUME NEW r \in Requests,
           \A s \in Requests \ {r} : req'[s] = req[s],
           Phase(req'[r].pc) = Phase(req[r].pc),
           req'[r].op = req[r].op,
           req'[r].auth = req[r].auth,
           req'[r].result = req[r].result
    PROVE  clientBar' = clientBar
BY DEF clientBar

LEMMA InClusterActsAsServiceAccount == CredsOf(InClusterConfig) = {ServiceAccount}
BY ConstantsAssumption DEF CredsOf, InClusterConfig

LEMMA InitRefines == Init => Abstract!Init
<1> SUFFICES ASSUME Init PROVE Abstract!Init
    OBVIOUS
<1>1. (CHOOSE a \in AuthInfos : TRUE) \in AuthInfos
    BY AuthInfosNonEmpty
<1> QED BY <1>1 DEF Init, Abstract!Init, clientBar, Phase, NoResult, Abstract!NoResult

LEMMA NextRefines == RInv /\ [Next]_vars => [Abstract!Next]_clientBar
<1> SUFFICES ASSUME RInv, [Next]_vars PROVE [Abstract!Next]_clientBar
    OBVIOUS
<1> USE DEF RInv, IInv, TypeOK
<1>1. ASSUME NEW r \in Requests, Call(r) PROVE Abstract!Call(r)
    <2>1. PICK a \in AuthInfos, op \in {"BuildClient", "BuildK8sClient"} :
            req' = [req EXCEPT ![r] = [pc |-> "called", op |-> op, auth |-> a,
                                       cfg |-> r, result |-> NoResult,
                                       dialled |-> FALSE]]
        BY <1>1 DEF Call
    <2>2. clientBar[r].pc \in {"idle", "done"}
        BY <1>1 DEF Call, clientBar, Phase
    <2>3. clientBar'[r] \in Abstract!Calls
        BY <2>1 DEF clientBar, Phase, Abstract!Calls, NoResult, Abstract!NoResult
    <2>4. clientBar' = [clientBar EXCEPT ![r] = clientBar'[r]]
        BY <2>1, BarFrame
    <2> QED BY <2>2, <2>3, <2>4 DEF Abstract!Call, Abstract!Becomes
<1>2. ASSUME NEW r \in Requests, CopyConfig(r) PROVE UNCHANGED clientBar
    BY <1>2, BarStutter DEF CopyConfig, Phase
<1>3. ASSUME NEW r \in Requests, ApplyCredentials(r)
      PROVE  Abstract!Return(r) \/ UNCHANGED clientBar
    <2> DEFINE a == req[r].auth
    <2>0. req[r].pc = "copied" /\ a \in AuthInfos
        BY <1>3 DEF ApplyCredentials, ReqStates
    <2>1. CASE req' = [req EXCEPT ![r].pc = "configured"]
        BY <2>0, <2>1, BarStutter DEF Phase
    <2>2. ASSUME NEW k \in ErrKinds,
                 a \notin Usable,
                 AuthError[a] = k,
                 req' = [req EXCEPT ![r].pc = "done", ![r].result = Failed(k)]
          PROVE  Abstract!Return(r)
        <3>1. clientBar[r].pc = "busy" /\ clientBar[r].auth = a
            BY <2>0 DEF clientBar, Phase
        <3>2. Abstract!Outcomes(a) = {Abstract!Failed(k)}
            BY <2>2 DEF Abstract!Outcomes
        <3>3. clientBar'[r] = [pc |-> "done", op |-> clientBar[r].op, auth |-> a,
                               result |-> Abstract!Failed(k)]
            BY <2>2 DEF clientBar, Phase, ReqStates, Failed, Abstract!Failed
        <3>4. clientBar' = [clientBar EXCEPT ![r] = clientBar'[r]]
            BY <2>2, BarFrame
        <3> QED BY <3>1, <3>2, <3>3, <3>4 DEF Abstract!Return, Abstract!Becomes
    <2>3. CASE /\ ToLower(a.scheme) = CertScheme
               /\ a.pem # "certAndKey"
               /\ req' = [req EXCEPT ![r].pc = "done", ![r].result = Failed("Unknown")]
        <3>1. a \notin Usable /\ AuthError[a] = "Unknown"
            BY <2>0, <2>3 DEF Usable, AuthError, BearerScheme, CertScheme
        <3> QED BY <2>2, <2>3, <3>1 DEF ErrKinds
    <2>4. CASE /\ ToLower(a.scheme) \notin {BearerScheme, CertScheme}
               /\ req' = [req EXCEPT ![r].pc = "done",
                                     ![r].result = Failed("NotAuthenticated")]
        <3>1. a \notin Usable /\ AuthError[a] = "NotAuthenticated"
            BY <2>0, <2>4 DEF Usable, AuthError
        <3> QED BY <2>2, <2>4, <3>1 DEF ErrKinds
    <2> QED BY <1>3, <2>1, <2>3, <2>4 DEF ApplyCredentials
<1>4. ASSUME NEW r \in Requests, Construct(r) PROVE Abstract!Return(r)
    <2> DEFINE a == req[r].auth
    <2>0. /\ req[r].pc = "configured"
          /\ a \in Usable
          /\ CredsOf(heap[req[r].cfg]) = {a.user}
        BY <1>4 DEF Construct, ConfiguredUsable, SlotInv
    <2>1. PICK ok \in BOOLEAN :
            req' = [req EXCEPT ![r].pc = "done", ![r].dialled = TRUE,
                   ![r].result = IF ok THEN [ok |-> TRUE,
                                             creds |-> CredsOf(heap[req[r].cfg]),
                                             err |-> "none"]
                                 ELSE Failed("Unknown")]
        BY <1>4 DEF Construct
    <2> DEFINE res == IF ok THEN Abstract!ActsAs(a.user) ELSE Abstract!Failed("Unknown")
    <2>2. res \in Abstract!Outcomes(a)
        BY <2>0 DEF Abstract!Outcomes
    <2>3. clientBar[r].pc = "busy" /\ clientBar[r].auth = a
        BY <2>0 DEF clientBar, Phase
    <2>4. clientBar'[r] = [pc |-> "done", op |-> clientBar[r].op, auth |-> a,
                           result |-> res]
        BY <2>0, <2>1 DEF clientBar, Phase, ReqStates, Failed, Abstract!Failed,
                          Abstract!ActsAs
    <2>5. clientBar' = [clientBar EXCEPT ![r] = clientBar'[r]]
        BY <2>1, BarFrame
    <2> QED BY <2>2, <2>3, <2>4, <2>5 DEF Abstract!Return, Abstract!Becomes
<1>5. ASSUME NEW r \in Requests, PrivilegedBuildClient(r) PROVE Abstract!Privileged(r)
    <2>1. PICK a \in AuthInfos, ok \in BOOLEAN :
            req' = [req EXCEPT ![r] = [pc |-> "done", op |-> "Privileged",
                   auth |-> a, cfg |-> r, dialled |-> TRUE,
                   result |-> IF ok THEN [ok |-> TRUE,
                                          creds |-> CredsOf(heap[SvcPtr]),
                                          err |-> "none"]
                              ELSE Failed("Unknown")]]
        BY <1>5 DEF PrivilegedBuildClient
    <2>2. clientBar[r].pc \in {"idle", "done"}
        BY <1>5 DEF PrivilegedBuildClient, clientBar, Phase
    <2>3. clientBar'[r] \in Abstract!PrivilegedCalls
        BY <2>1, InClusterActsAsServiceAccount
        DEF clientBar, Phase, Abstract!PrivilegedCalls, Failed, Abstract!Failed,
            Abstract!ActsAs
    <2>4. clientBar' = [clientBar EXCEPT ![r] = clientBar'[r]]
        BY <2>1, BarFrame
    <2> QED BY <2>2, <2>3, <2>4 DEF Abstract!Privileged, Abstract!Becomes
<1>6. CASE UNCHANGED vars
    BY <1>6 DEF vars, clientBar
<1> QED BY <1>1, <1>2, <1>3, <1>4, <1>5, <1>6 DEF Next, Abstract!Next

(* The client factories implement ClientFactorySpec, for any number of     *)
(* concurrent requests and callers: to the handler that calls it, every    *)
(* BuildClient or BuildK8sClient returns in one step a client that acts as *)
(* exactly its caller, or the error its header calls for, and the          *)
(* privileged factory's clients act as the service account.                *)
THEOREM Refinement == Spec => ImplementsClientFactorySpec
<1>1. Spec => []RInv
    BY InitRInv, NextRInv, PTL DEF Spec
<1> QED BY <1>1, InitRefines, NextRefines, PTL
        DEF Spec, ImplementsClientFactorySpec, Abstract!Spec

=============================================================================
