--------------------------- MODULE SpaceManifest ---------------------------
(***************************************************************************)
(* SpaceManifestHandler (api/apis/space_manifest_handler.go).  POST        *)
(* apply_manifest decodes the manifest, builds a client from the caller's  *)
(* Authorization header and hands it to the manifest action, which writes  *)
(* the manifest's apps into the space one store call at a time with that   *)
(* client, so the store's RBAC decides each write.  POST manifest_diff is  *)
(* wrapped by validateSpaceVisible, which lists the spaces (a repository   *)
(* call that takes no authInfo) and answers 404 unless the space is among  *)
(* them.  Spaces are created and deleted by other requests meanwhile.      *)
(***************************************************************************)
EXTENDS Naturals, FiniteSets

CONSTANTS
    Requests,   \* concurrent request workers
    Callers,    \* identities in Authorization headers
    Spaces,
    Apps,       \* application names a manifest may list
    Roles       \* <<caller, space>>: the caller may write into the space

ASSUME SpaceManifestAssumption ==
    /\ Callers # {}
    /\ Spaces # {}
    /\ Roles \subseteq Callers \X Spaces
    /\ Apps # {}

VARIABLES
    spaces,  \* the spaces (namespaces) that exist
    apps,    \* <<space, app>>: the apps in the store
    hreq     \* hreq[q]: the request worker q

vars == <<spaces, apps, hreq>>

Endpoints == {"apply", "diff"}
Statuses == {0, 202, 400, 404, 500}  \* 0: no response written yet
\* why the store refused the last write ("none": it did not)
StoreReasons == {"none", "NotFound", "Forbidden", "Unknown"}
Pcs == {"idle", "received", "building", "applying", "done"}
ReqStates == [pc : Pcs, ep : Endpoints, caller : Callers, space : Spaces,
              manifest : SUBSET Apps, valid : BOOLEAN, pending : SUBSET Apps,
              applied : SUBSET Apps, cause : StoreReasons, status : Statuses]

TypeOK ==
    /\ spaces \subseteq Spaces
    /\ apps \subseteq Spaces \X Apps
    /\ hreq \in [Requests -> ReqStates]

Init ==
    /\ spaces = Spaces
    /\ apps = {}
    /\ hreq = [q \in Requests |->
                 [pc |-> "idle", ep |-> "apply", caller |-> CHOOSE c \in Callers : TRUE,
                  space |-> CHOOSE s \in Spaces : TRUE, manifest |-> {},
                  valid |-> TRUE, pending |-> {}, applied |-> {}, cause |-> "none",
                  status |-> 0]]

\* the worker writes the response and is free again
Respond(q, code) == hreq' = [hreq EXCEPT ![q].pc = "done", ![q].status = code]

(***************************************************************************)
(* RegisterRoutes: a request to one of the two endpoints arrives, with a   *)
(* caller, a space GUID and a body that decodes and validates or not.      *)
(***************************************************************************)
Arrive(q) ==
    /\ hreq[q].pc \in {"idle", "done"}
    /\ \E ep \in Endpoints, c \in Callers, s \in Spaces,
          m \in (SUBSET Apps) \ {{}}, ok \in BOOLEAN :
         hreq' = [hreq EXCEPT ![q] = [pc |-> "received", ep |-> ep, caller |-> c,
                    space |-> s, manifest |-> m, valid |-> ok, pending |-> m,
                    applied |-> {}, cause |-> "none", status |-> 0]]
    /\ UNCHANGED <<spaces, apps>>

\* decodeAndValidateYAMLPayload: whether the body decodes as YAML and the
\* manifest validates (the body is abstracted to that outcome)
decodeAndValidateYAMLPayload(q) == hreq[q].valid

\* applyManifestHandler: a malformed body is answered 400
DecodeManifest(q) ==
    /\ hreq[q].pc = "received"
    /\ hreq[q].ep = "apply"
    /\ \/ /\ decodeAndValidateYAMLPayload(q)
          /\ hreq' = [hreq EXCEPT ![q].pc = "building"]
       \/ /\ ~decodeAndValidateYAMLPayload(q)
          /\ Respond(q, 400)
    /\ UNCHANGED <<spaces, apps>>

\* h.buildClient(h.k8sConfig, Authorization header): may fail (bad header,
\* unreachable API server), which is answered with an unknown error
BuildClient(q) ==
    /\ hreq[q].pc = "building"
    /\ \/ hreq' = [hreq EXCEPT ![q].pc = "applying"]
       \/ Respond(q, 500)
    /\ UNCHANGED <<spaces, apps>>

\* Faulty variant: a failed write is logged and the action goes on.
ApplyAppIgnoringError(q) ==
    /\ hreq[q].pc = "applying"
    /\ \E a \in hreq[q].pending :
         \/ /\ hreq[q].space \in spaces
            /\ <<hreq[q].caller, hreq[q].space>> \in Roles
            /\ apps' = apps \cup {<<hreq[q].space, a>>}
            /\ hreq' = [hreq EXCEPT ![q].pending = @ \ {a}, ![q].applied = @ \cup {a}]
         \/ /\ ~(hreq[q].space \in spaces /\ <<hreq[q].caller, hreq[q].space>> \in Roles)
            /\ hreq' = [hreq EXCEPT ![q].pending = @ \ {a}]
            /\ UNCHANGED apps
    /\ UNCHANGED spaces

\* the reasons the store can give for refusing the write of an app of
\* request q into its space
Refusals(q) ==
    {"Unknown"}
    \cup (IF hreq[q].space \notin spaces THEN {"NotFound"} ELSE {})
    \cup (IF <<hreq[q].caller, hreq[q].space>> \notin Roles THEN {"Forbidden"} ELSE {})

\* applyManifestAction with the caller's client: one create-or-patch per app
\* of the manifest; the store refuses a write into a space that is gone
\* (NotFound) or where the caller has no role (Forbidden), or fails; any
\* error ends the handler with writeUnknownErrorResponse, the apps written
\* before it staying written
ApplyApp(q) ==
    /\ hreq[q].pc = "applying"
    /\ \E a \in hreq[q].pending :
         \/ /\ hreq[q].space \in spaces
            /\ <<hreq[q].caller, hreq[q].space>> \in Roles
            /\ apps' = apps \cup {<<hreq[q].space, a>>}
            /\ hreq' = [hreq EXCEPT ![q].pending = @ \ {a}, ![q].applied = @ \cup {a}]
         \/ \E why \in Refusals(q) :
              /\ hreq' = [hreq EXCEPT ![q].pc = "done", ![q].cause = why,
                                      ![q].status = 500]
              /\ UNCHANGED apps
    /\ UNCHANGED spaces

\* the manifest action returned nil: 202 with the job's Location
ApplyAccepted(q) ==
    /\ hreq[q].pc = "applying"
    /\ hreq[q].pending = {}
    /\ Respond(q, 202)
    /\ UNCHANGED <<spaces, apps>>

\* diffManifestHandler: 202 with an empty diff
diffManifestHandler(q) == Respond(q, 202)

\* validateSpaceVisible(diffManifestHandler): FetchSpaces fails (500); it
\* lists every existing space, so the space GUID is among them or the
\* answer is 404; otherwise the diff handler runs
DiffManifest(q) ==
    /\ hreq[q].pc = "received"
    /\ hreq[q].ep = "diff"
    /\ \/ Respond(q, 500)
       \/ /\ hreq[q].space \notin spaces
          /\ Respond(q, 404)
       \/ /\ hreq[q].space \in spaces
          /\ diffManifestHandler(q)
    /\ UNCHANGED <<spaces, apps>>

(***************************************************************************)
(* Environment: spaces are deleted (with their apps) and created again.    *)
(***************************************************************************)
DeleteSpace ==
    \E s \in spaces :
        /\ spaces' = spaces \ {s}
        /\ apps' = {x \in apps : x[1] # s}
        /\ UNCHANGED hreq

CreateSpace ==
    \E s \in Spaces \ spaces :
        /\ spaces' = spaces \cup {s}
        /\ UNCHANGED <<apps, hreq>>

Next ==
    \/ \E q \in Requests :
         \/ Arrive(q)
         \/ DecodeManifest(q)
         \/ BuildClient(q)
         \/ ApplyApp(q)
         \/ ApplyAccepted(q)
         \/ DiffManifest(q)
    \/ DeleteSpace
    \/ CreateSpace

Spec == Init /\ [][Next]_vars

-----------------------------------------------------------------------------
(***************************************************************************)
(* Properties.                                                             *)
(***************************************************************************)

(* apply_manifest answers 202 only when every app of the manifest was      *)
(* written into the requested space by this very request, through the     *)
(* caller's own client -- so into a space that existed at the write and in *)
(* which the caller holds a role -- however the space and other requests   *)
(* changed meanwhile.                                                      *)
AcceptedManifestWasApplied ==
    [][\A q \in Requests :
         hreq'[q].status = 202 /\ hreq[q].status # 202 /\ hreq'[q].ep = "apply" =>
            /\ hreq'[q].applied = hreq'[q].manifest
            /\ <<hreq'[q].caller, hreq'[q].space>> \in Roles]_vars

(* Section 4.2 of the spec: a store NotFound surfaces as the not-found     *)
(* kind.  When the manifest action fails because the space no longer (or   *)
(* never) exists, apply_manifest answers 404.                              *)
ApplyToMissingSpaceIsNotFound ==
    \A q \in Requests :
        hreq[q].pc = "done" /\ hreq[q].cause = "NotFound" => hreq[q].status = 404

(* Section 4.2 of the spec: a caller without access to an object observes  *)
(* the same outcome as if it did not exist.  manifest_diff for a space in  *)
(* which the caller holds no role is answered 404, as for a missing space. *)
DiffHidesInaccessibleSpaces ==
    \A q \in Requests :
        hreq[q].ep = "diff" /\ hreq[q].pc = "done" /\ hreq[q].status # 500
        /\ <<hreq[q].caller, hreq[q].space>> \notin Roles
        => hreq[q].status = 404

=============================================================================
