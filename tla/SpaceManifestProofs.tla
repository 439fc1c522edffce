------------------------ MODULE SpaceManifestProofs ------------------------
(***************************************************************************)
(* Proofs about SpaceManifest for any sets of requests, callers, spaces,   *)
(* apps and roles: apply_manifest answers 202 only after this request      *)
(* wrote every app of its manifest with a role in the space.               *)
(***************************************************************************)
EXTENDS SpaceManifest, TLAPS

-----------------------------------------------------------------------------
(* Type correctness.                                                       *)

\* setting a field of a request record to a value of its type keeps the
\* record well typed
LEMMA SetPcType ==
    ASSUME NEW r \in ReqStates, NEW v \in Pcs PROVE [r EXCEPT !.pc = v] \in ReqStates
BY DEF ReqStates

LEMMA SetCauseType ==
    ASSUME NEW r \in ReqStates, NEW v \in StoreReasons
    PROVE  [r EXCEPT !.cause = v] \in ReqStates
BY DEF ReqStates

LEMMA SetPendingType ==
    ASSUME NEW r \in ReqStates, NEW v \in SUBSET Apps
    PROVE  [r EXCEPT !.pending = v] \in ReqStates
BY DEF ReqStates

LEMMA SetAppliedType ==
    ASSUME NEW r \in ReqStates, NEW v \in SUBSET Apps
    PROVE  [r EXCEPT !.applied = v] \in ReqStates
BY DEF ReqStates

LEMMA SetStatusType ==
    ASSUME NEW r \in ReqStates, NEW v \in Statuses
    PROVE  [r EXCEPT !.status = v] \in ReqStates
BY DEF ReqStates

\* setting a field of one request of hreq to a value of its type keeps the
\* type of hreq
LEMMA SetReqPcType ==
    ASSUME NEW f \in [Requests -> ReqStates], NEW q \in Requests, NEW v \in Pcs
    PROVE  [f EXCEPT ![q].pc = v] \in [Requests -> ReqStates]
BY DEF ReqStates

LEMMA SetReqCauseType ==
    ASSUME NEW f \in [Requests -> ReqStates], NEW q \in Requests,
           NEW v \in StoreReasons
    PROVE  [f EXCEPT ![q].cause = v] \in [Requests -> ReqStates]
BY DEF ReqStates

LEMMA SetReqStatusType ==
    ASSUME NEW f \in [Requests -> ReqStates], NEW q \in Requests, NEW v \in Statuses
    PROVE  [f EXCEPT ![q].status = v] \in [Requests -> ReqStates]
BY DEF ReqStates

\* the three field updates of a store refusal, done at once or one by one
LEMMA RefusalIsChained ==
    ASSUME NEW f, NEW q, NEW a, NEW b, NEW c
    PROVE  [f EXCEPT ![q].pc = a, ![q].cause = b, ![q].status = c] =
           [[[f EXCEPT ![q].pc = a] EXCEPT ![q].cause = b] EXCEPT ![q].status = c]
OBVIOUS

\* what Respond(q, code) leaves in hreq: request q done with the status code
DoneAt(q, code) == [hreq EXCEPT ![q] = [hreq[q] EXCEPT !.pc = "done", !.status = code]]

LEMMA RespondIsDoneAt ==
    ASSUME NEW q, NEW code, Respond(q, code) PROVE hreq' = DoneAt(q, code)
BY DEF Respond, DoneAt

LEMMA DoneAtType ==
    ASSUME TypeOK, NEW q \in Requests, NEW code \in Statuses
    PROVE  DoneAt(q, code) \in [Requests -> ReqStates]
<1>1. [hreq[q] EXCEPT !.pc = "done", !.status = code] \in ReqStates
    BY DEF TypeOK, ReqStates, Pcs
<1> QED BY <1>1 DEF DoneAt, TypeOK

LEMMA InitTypeOK == Init => TypeOK
BY SpaceManifestAssumption DEF Init, TypeOK, ReqStates, Pcs, Endpoints,
    StoreReasons, Statuses

LEMMA NextTypeOK == TypeOK /\ [Next]_vars => TypeOK'
<1> SUFFICES ASSUME TypeOK, [Next]_vars PROVE TypeOK'
    OBVIOUS
<1>1. ASSUME NEW q \in Requests, Arrive(q) PROVE TypeOK'
    BY <1>1 DEF Arrive, TypeOK, ReqStates, Pcs, Statuses, StoreReasons
<1>2. ASSUME NEW q \in Requests, DecodeManifest(q) PROVE TypeOK'
    <2>1. CASE hreq' = [hreq EXCEPT ![q].pc = "building"]
        BY <1>2, <2>1 DEF DecodeManifest, TypeOK, ReqStates, Pcs
    <2>2. CASE Respond(q, 400)
        <3>1. hreq' \in [Requests -> ReqStates]
            <4>1. hreq' = DoneAt(q, 400)
                BY <2>2, RespondIsDoneAt
            <4>2. 400 \in Statuses
                BY DEF Statuses
            <4> QED BY <4>1, <4>2, DoneAtType
        <3> QED BY <1>2, <3>1 DEF DecodeManifest, TypeOK
    <2> QED BY <1>2, <2>1, <2>2 DEF DecodeManifest
<1>3. ASSUME NEW q \in Requests, BuildClient(q) PROVE TypeOK'
    <2>1. CASE hreq' = [hreq EXCEPT ![q].pc = "applying"]
        BY <1>3, <2>1 DEF BuildClient, TypeOK, ReqStates, Pcs
    <2>2. CASE Respond(q, 500)
        <3>1. hreq' \in [Requests -> ReqStates]
            <4>1. hreq' = DoneAt(q, 500)
                BY <2>2, RespondIsDoneAt
            <4>2. 500 \in Statuses
                BY DEF Statuses
            <4> QED BY <4>1, <4>2, DoneAtType
        <3> QED BY <1>3, <3>1 DEF BuildClient, TypeOK
    <2> QED BY <1>3, <2>1, <2>2 DEF BuildClient
<1>4. ASSUME NEW q \in Requests, ApplyApp(q) PROVE TypeOK'
    <2>1. Refusals(q) \subseteq StoreReasons
        BY DEF Refusals, StoreReasons
    <2>2. hreq[q].pending \subseteq Apps /\ hreq[q].applied \subseteq Apps
          /\ hreq[q].space \in Spaces
        BY DEF TypeOK, ReqStates
    <2>3. PICK a \in hreq[q].pending :
            \/ /\ hreq[q].space \in spaces
               /\ <<hreq[q].caller, hreq[q].space>> \in Roles
               /\ apps' = apps \cup {<<hreq[q].space, a>>}
               /\ hreq' = [hreq EXCEPT ![q].pending = @ \ {a}, ![q].applied = @ \cup {a}]
            \/ \E why \in Refusals(q) :
                 /\ hreq' = [hreq EXCEPT ![q].pc = "done", ![q].cause = why,
                                         ![q].status = 500]
                 /\ UNCHANGED apps
        BY <1>4 DEF ApplyApp
    <2>4. a \in Apps
        BY <2>2
    <2>5. CASE /\ hreq[q].space \in spaces
               /\ apps' = apps \cup {<<hreq[q].space, a>>}
               /\ hreq' = [hreq EXCEPT ![q].pending = @ \ {a}, ![q].applied = @ \cup {a}]
        <3>1. hreq' \in [Requests -> ReqStates]
            <4> DEFINE moved == [[hreq[q] EXCEPT !.pending = hreq[q].pending \ {a}]
                                          EXCEPT !.applied = hreq[q].applied \cup {a}]
            <4>1. hreq[q] \in ReqStates
                BY DEF TypeOK
            <4>2. hreq[q].pending \ {a} \in SUBSET Apps
                  /\ hreq[q].applied \cup {a} \in SUBSET Apps
                BY <2>4, <4>1 DEF ReqStates
            <4>3. [hreq[q] EXCEPT !.pending = hreq[q].pending \ {a}] \in ReqStates
                BY <4>1, <4>2, SetPendingType
            <4>4. moved \in ReqStates
                BY <4>2, <4>3, SetAppliedType
            <4>5. hreq' = [hreq EXCEPT ![q] = moved]
                BY <2>5
            <4> QED BY <4>4, <4>5 DEF TypeOK
        <3>2. apps' \subseteq Spaces \X Apps
            BY <2>2, <2>4, <2>5 DEF TypeOK
        <3> QED BY <1>4, <3>1, <3>2 DEF ApplyApp, TypeOK
    <2>6. CASE \E why \in Refusals(q) :
                 /\ hreq' = [hreq EXCEPT ![q].pc = "done", ![q].cause = why,
                                         ![q].status = 500]
                 /\ UNCHANGED apps
        <3>1. PICK why \in StoreReasons :
                 /\ hreq' = [hreq EXCEPT ![q].pc = "done", ![q].cause = why,
                                         ![q].status = 500]
                 /\ UNCHANGED apps
            BY <2>1, <2>6
        <3>2. [hreq EXCEPT ![q].pc = "done"] \in [Requests -> ReqStates]
            BY SetReqPcType DEF TypeOK, Pcs
        <3>3. [[hreq EXCEPT ![q].pc = "done"] EXCEPT ![q].cause = why]
                \in [Requests -> ReqStates]
            BY <3>1, <3>2, SetReqCauseType
        <3>4. [[[hreq EXCEPT ![q].pc = "done"] EXCEPT ![q].cause = why]
                 EXCEPT ![q].status = 500] \in [Requests -> ReqStates]
            <4> DEFINE g == [[hreq EXCEPT ![q].pc = "done"] EXCEPT ![q].cause = why]
            <4>1. 500 \in Statuses
                BY DEF Statuses
            <4>2. \A v \in Statuses : [g EXCEPT ![q].status = v] \in [Requests -> ReqStates]
                BY <3>3, SetReqStatusType DEF g
            <4> HIDE DEF g
            <4>3. [g EXCEPT ![q].status = 500] \in [Requests -> ReqStates]
                BY <4>1, <4>2
            <4> QED BY <4>3 DEF g
        <3>5. hreq' \in [Requests -> ReqStates]
            BY <3>1, <3>4, RefusalIsChained
        <3> QED BY <1>4, <3>1, <3>5 DEF ApplyApp, TypeOK
    <2> QED BY <2>3, <2>5, <2>6
<1>5. ASSUME NEW q \in Requests, ApplyAccepted(q) PROVE TypeOK'
    <2>1. hreq' \in [Requests -> ReqStates]
        <3>1. hreq' = DoneAt(q, 202)
            BY <1>5, RespondIsDoneAt DEF ApplyAccepted
        <3>2. 202 \in Statuses
            BY DEF Statuses
        <3> QED BY <3>1, <3>2, DoneAtType
    <2> QED BY <1>5, <2>1 DEF ApplyAccepted, TypeOK
<1>6. ASSUME NEW q \in Requests, DiffManifest(q) PROVE TypeOK'
    <2>1. PICK code \in Statuses : Respond(q, code)
        BY <1>6 DEF DiffManifest, diffManifestHandler, Statuses
    <2>2. hreq' \in [Requests -> ReqStates]
        BY <2>1, RespondIsDoneAt, DoneAtType
    <2> QED BY <1>6, <2>2 DEF DiffManifest, TypeOK
<1>7. CASE DeleteSpace
    BY <1>7 DEF DeleteSpace, TypeOK
<1>8. CASE CreateSpace
    BY <1>8 DEF CreateSpace, TypeOK
<1>9. CASE UNCHANGED vars
    BY <1>9 DEF vars, TypeOK
<1> QED BY <1>1, <1>2, <1>3, <1>4, <1>5, <1>6, <1>7, <1>8, <1>9 DEF Next

(* Every state of the SpaceManifest model is well typed: the spaces, the  *)
(* apps written into them and each request record of apply_manifest and   *)
(* diff_manifest stay in their sets, for any requests, callers and spaces. *)
THEOREM TypeCorrect == Spec => []TypeOK
BY InitTypeOK, NextTypeOK, PTL DEF Spec

-----------------------------------------------------------------------------
(* What an apply request carries between its steps: the apps of the       *)
(* manifest are split between those still to write and those written, the  *)
(* manifest is not empty, and a request that has written an app holds a   *)
(* role in its space (the store accepted that write).                     *)
Carried(q) ==
    hreq[q].pc \in {"received", "building", "applying"} =>
        /\ hreq[q].applied \cup hreq[q].pending = hreq[q].manifest
        /\ hreq[q].manifest # {}
        /\ hreq[q].pc # "received" => hreq[q].ep = "apply"
        /\ hreq[q].applied # {} => <<hreq[q].caller, hreq[q].space>> \in Roles

ApplyInv ==
    /\ TypeOK
    /\ \A q \in Requests : Carried(q)

LEMMA InitApplyInv == Init => ApplyInv
BY InitTypeOK DEF Init, ApplyInv, Carried

\* a step that ends request q and leaves the others alone keeps ApplyInv
LEMMA EndKeepsApplyInv ==
    ASSUME ApplyInv, NEW q \in Requests, hreq'[q].pc = "done",
           \A p \in Requests \ {q} : hreq'[p] = hreq[p]
    PROVE  \A p \in Requests : Carried(p)'
BY DEF ApplyInv, Carried

LEMMA RespondKeepsApplyInv ==
    ASSUME ApplyInv, NEW q \in Requests, NEW code, Respond(q, code)
    PROVE  \A p \in Requests : Carried(p)'
<1>1. hreq' = DoneAt(q, code)
    BY RespondIsDoneAt
<1>2. hreq'[q].pc = "done" /\ \A p \in Requests \ {q} : hreq'[p] = hreq[p]
    BY <1>1 DEF DoneAt, ApplyInv, TypeOK
<1> QED BY <1>2, EndKeepsApplyInv

LEMMA NextApplyInv == ApplyInv /\ [Next]_vars => ApplyInv'
<1> SUFFICES ASSUME ApplyInv, [Next]_vars PROVE ApplyInv'
    OBVIOUS
<1>0. TypeOK'
    BY NextTypeOK DEF ApplyInv
<1>a. TypeOK
    BY DEF ApplyInv
<1> SUFFICES \A p \in Requests : Carried(p)'
    BY <1>0 DEF ApplyInv
<1>1. ASSUME NEW q \in Requests, Arrive(q) PROVE \A p \in Requests : Carried(p)'
    <2>1. PICK ep \in Endpoints, c \in Callers, s \in Spaces,
               m \in (SUBSET Apps) \ {{}}, ok \in BOOLEAN :
            hreq' = [hreq EXCEPT ![q] = [pc |-> "received", ep |-> ep, caller |-> c,
                       space |-> s, manifest |-> m, valid |-> ok, pending |-> m,
                       applied |-> {}, cause |-> "none", status |-> 0]]
        BY <1>1 DEF Arrive
    <2> SUFFICES ASSUME NEW p \in Requests PROVE Carried(p)'
        OBVIOUS
    <2>2. CASE p = q
        <3>0. hreq'[q] = [pc |-> "received", ep |-> ep, caller |-> c,
                       space |-> s, manifest |-> m, valid |-> ok, pending |-> m,
                       applied |-> {}, cause |-> "none", status |-> 0]
            BY <2>1, <1>a DEF TypeOK
        <3>1. hreq'[q].pc = "received" /\ hreq'[q].applied = {}
              /\ hreq'[q].pending = hreq'[q].manifest /\ hreq'[q].manifest # {}
            BY <3>0
        <3> QED BY <2>2, <3>1 DEF Carried
    <2>3. CASE p # q
        <3>1. hreq'[p] = hreq[p]
            BY <2>1, <2>3, <1>a DEF TypeOK
        <3>2. Carried(p)
            BY DEF ApplyInv
        <3> QED BY <3>1, <3>2 DEF Carried
    <2> QED BY <2>2, <2>3
<1>2. ASSUME NEW q \in Requests, DecodeManifest(q) PROVE \A p \in Requests : Carried(p)'
    <2>1. CASE hreq' = [hreq EXCEPT ![q].pc = "building"]
        BY <1>2, <2>1, <1>a DEF DecodeManifest, ApplyInv, Carried, TypeOK, ReqStates
    <2>2. CASE Respond(q, 400)
        BY <2>2, RespondKeepsApplyInv
    <2> QED BY <1>2, <2>1, <2>2 DEF DecodeManifest
<1>3. ASSUME NEW q \in Requests, BuildClient(q) PROVE \A p \in Requests : Carried(p)'
    <2>1. CASE hreq' = [hreq EXCEPT ![q].pc = "applying"]
        BY <1>3, <2>1, <1>a DEF BuildClient, ApplyInv, Carried, TypeOK, ReqStates
    <2>2. CASE Respond(q, 500)
        BY <2>2, RespondKeepsApplyInv
    <2> QED BY <1>3, <2>1, <2>2 DEF BuildClient
<1>4. ASSUME NEW q \in Requests, ApplyApp(q) PROVE \A p \in Requests : Carried(p)'
    <2>1. hreq[q].pc = "applying"
        BY <1>4 DEF ApplyApp
    <2>2. PICK a \in hreq[q].pending :
            \/ /\ <<hreq[q].caller, hreq[q].space>> \in Roles
               /\ hreq' = [hreq EXCEPT ![q].pending = @ \ {a},
                                       ![q].applied = @ \cup {a}]
            \/ \E why \in Refusals(q) :
                 hreq' = [hreq EXCEPT ![q].pc = "done", ![q].cause = why,
                                      ![q].status = 500]
        BY <1>4 DEF ApplyApp
    <2>3. CASE /\ <<hreq[q].caller, hreq[q].space>> \in Roles
               /\ hreq' = [hreq EXCEPT ![q].pending = @ \ {a},
                                       ![q].applied = @ \cup {a}]
        BY <2>1, <2>3, <1>a DEF ApplyInv, Carried, TypeOK, ReqStates
    <2>4. CASE \E why \in Refusals(q) :
                 hreq' = [hreq EXCEPT ![q].pc = "done", ![q].cause = why,
                                      ![q].status = 500]
        <3>1. hreq'[q].pc = "done" /\ \A p \in Requests \ {q} : hreq'[p] = hreq[p]
            BY <2>4, <1>a DEF TypeOK
        <3> QED BY <3>1, EndKeepsApplyInv
    <2> QED BY <2>2, <2>3, <2>4
<1>5. ASSUME NEW q \in Requests, ApplyAccepted(q) PROVE \A p \in Requests : Carried(p)'
    BY <1>5, RespondKeepsApplyInv DEF ApplyAccepted
<1>6. ASSUME NEW q \in Requests, DiffManifest(q) PROVE \A p \in Requests : Carried(p)'
    <2>1. \E code \in Statuses : Respond(q, code)
        BY <1>6 DEF DiffManifest, diffManifestHandler, Statuses
    <2> QED BY <2>1, RespondKeepsApplyInv
<1>7. CASE DeleteSpace \/ CreateSpace
    BY <1>7 DEF DeleteSpace, CreateSpace, ApplyInv, Carried
<1>8. CASE UNCHANGED vars
    BY <1>8 DEF vars, ApplyInv, Carried
<1> QED BY <1>1, <1>2, <1>3, <1>4, <1>5, <1>6, <1>7, <1>8 DEF Next

(* While apply_manifest works through a manifest, the apps it has applied *)
(* and those still pending make up the whole non-empty manifest, and it   *)
(* has applied an app only if its caller holds a role in the space.       *)
THEOREM ApplyInvHolds == Spec => []ApplyInv
BY InitApplyInv, NextApplyInv, PTL DEF Spec

\* the step formula of AcceptedManifestWasApplied
Accepted ==
    \A q \in Requests :
        hreq'[q].status = 202 /\ hreq[q].status # 202 /\ hreq'[q].ep = "apply" =>
            /\ hreq'[q].applied = hreq'[q].manifest
            /\ <<hreq'[q].caller, hreq'[q].space>> \in Roles

\* the fields a finished request q keeps, and the other requests untouched
LEMMA DoneAtFacts ==
    ASSUME TypeOK, NEW q \in Requests, NEW code
    PROVE  /\ DoneAt(q, code)[q].status = code
           /\ DoneAt(q, code)[q].ep = hreq[q].ep
           /\ \A p \in Requests \ {q} : DoneAt(q, code)[p] = hreq[p]
BY DEF DoneAt, TypeOK, ReqStates

LEMMA NextAccepted == ApplyInv /\ [Next]_vars => [Accepted]_vars
<1> SUFFICES ASSUME ApplyInv, [Next]_vars,
                    NEW p \in Requests,
                    hreq'[p].status = 202, hreq[p].status # 202, hreq'[p].ep = "apply"
             PROVE  /\ hreq'[p].applied = hreq'[p].manifest
                    /\ <<hreq'[p].caller, hreq'[p].space>> \in Roles
    BY DEF Accepted
<1>a. TypeOK
    BY DEF ApplyInv
\* a step that writes 202 for p only if this is the request that takes it
<1>b. ASSUME NEW q \in Requests, NEW code, Respond(q, code) PROVE p = q /\ code = 202
    BY <1>a, <1>b, RespondIsDoneAt, DoneAtFacts
<1>1. ASSUME NEW q \in Requests, Arrive(q) PROVE FALSE
    BY <1>1, <1>a DEF Arrive, TypeOK, ReqStates
<1>2. ASSUME NEW q \in Requests, DecodeManifest(q) PROVE FALSE
    <2>1. CASE hreq' = [hreq EXCEPT ![q].pc = "building"]
        BY <2>1, <1>a DEF TypeOK, ReqStates
    <2>2. CASE Respond(q, 400)
        BY <2>2, <1>b
    <2> QED BY <1>2, <2>1, <2>2 DEF DecodeManifest
<1>3. ASSUME NEW q \in Requests, BuildClient(q) PROVE FALSE
    <2>1. CASE hreq' = [hreq EXCEPT ![q].pc = "applying"]
        BY <2>1, <1>a DEF TypeOK, ReqStates
    <2>2. CASE Respond(q, 500)
        BY <2>2, <1>b
    <2> QED BY <1>3, <2>1, <2>2 DEF BuildClient
<1>4. ASSUME NEW q \in Requests, ApplyApp(q) PROVE FALSE
    <2>1. PICK a \in hreq[q].pending :
            \/ /\ hreq[q].space \in spaces
               /\ <<hreq[q].caller, hreq[q].space>> \in Roles
               /\ apps' = apps \cup {<<hreq[q].space, a>>}
               /\ hreq' = [hreq EXCEPT ![q].pending = @ \ {a},
                                       ![q].applied = @ \cup {a}]
            \/ \E why \in Refusals(q) :
                 /\ hreq' = [hreq EXCEPT ![q].pc = "done", ![q].cause = why,
                                         ![q].status = 500]
                 /\ UNCHANGED apps
        BY <1>4 DEF ApplyApp
    <2>2. CASE hreq' = [hreq EXCEPT ![q].pending = @ \ {a},
                                    ![q].applied = @ \cup {a}]
        BY <2>2, <1>a DEF TypeOK, ReqStates
    <2>3. CASE \E why \in Refusals(q) :
                 hreq' = [hreq EXCEPT ![q].pc = "done", ![q].cause = why,
                                      ![q].status = 500]
        BY <2>3, <1>a DEF TypeOK, ReqStates
    <2> QED BY <2>1, <2>2, <2>3
<1>5. ASSUME NEW q \in Requests, ApplyAccepted(q)
      PROVE  /\ hreq'[p].applied = hreq'[p].manifest
             /\ <<hreq'[p].caller, hreq'[p].space>> \in Roles
    <2>1. p = q
        BY <1>5, <1>b DEF ApplyAccepted
    <2>2. /\ hreq[q].pc = "applying"
          /\ hreq[q].pending = {}
          /\ hreq' = [hreq EXCEPT ![q].pc = "done", ![q].status = 202]
        BY <1>5 DEF ApplyAccepted, Respond
    <2>3. /\ hreq[q].applied = hreq[q].manifest
          /\ <<hreq[q].caller, hreq[q].space>> \in Roles
        <3>1. Carried(q)
            BY DEF ApplyInv
        <3>2. hreq[q].applied = hreq[q].manifest /\ hreq[q].manifest # {}
            BY <2>2, <3>1 DEF Carried
        <3> QED BY <2>2, <3>1, <3>2 DEF Carried
    <2> QED BY <2>1, <2>2, <2>3, <1>a DEF TypeOK, ReqStates
<1>6. ASSUME NEW q \in Requests, DiffManifest(q) PROVE FALSE
    <2>1. PICK code : Respond(q, code)
        BY <1>6 DEF DiffManifest, diffManifestHandler
    <2>2. p = q
        BY <2>1, <1>b
    <2>3. hreq[q].ep = "diff" /\ hreq' = DoneAt(q, code)
        BY <1>6, <2>1, RespondIsDoneAt DEF DiffManifest
    <2> QED BY <2>2, <2>3, <1>a, DoneAtFacts
<1>7. CASE DeleteSpace \/ CreateSpace
    BY <1>7 DEF DeleteSpace, CreateSpace
<1>8. CASE UNCHANGED vars
    BY <1>8 DEF vars
<1> QED BY <1>1, <1>2, <1>3, <1>4, <1>5, <1>6, <1>7, <1>8 DEF Next

(* apply_manifest answers 202 only when the request itself wrote every app *)
(* of its manifest, into a space where its caller holds a role, whatever   *)
(* other requests and space deletions did meanwhile: for every number of   *)
(* requests, callers, spaces and apps, and every set of roles.             *)
THEOREM AcceptedMeansApplied == Spec => AcceptedManifestWasApplied
<1>1. [][Accepted]_vars => AcceptedManifestWasApplied
    BY DEF Accepted, AcceptedManifestWasApplied
<1> QED BY ApplyInvHolds, NextAccepted, <1>1, PTL DEF Spec

=============================================================================
