# TLA+ models of the korifi API repositories

This directory holds TLA+ models of the API layer of korifi. That layer translates
Cloud Foundry requests into calls against Kubernetes custom resources. The models cover:

- the client factories, which build one Kubernetes client per request;
- the package repository;
- the domain repository;
- the `ReadAppLogs` action;
- the space manifest handler.

Each model comes with TLC runs on small instances. The client factory also has TLAPS proofs.

## The system and how its parts interact

An inbound request carries an `authorization.Info`: an Authorization scheme plus
a token, or a certificate and key as PEM.

- A handler asks the **client factory** (`src/unnamed/part_002`, lines 1-122) for a client.
  - `UnprivilegedClientFactory.BuildClient` and `BuildK8sClient` copy a shared base `rest.Config`.
  - The base config was anonymized once, at start-up.
  - They attach the caller's credentials according to `strings.ToLower(scheme)` and construct the client.
  - `PrivilegedClientFactory.BuildClient` ignores the caller. It builds a client from the service-account config, without copying it.
- The **repositories** turn each operation into one store call, then filter, order and map to records in memory:
  - PackageRepo: `part_002`, lines 123-361 (`package_repository.go`).
  - DomainRepo: `src/api/repositories/domain_repository.go`.
  - Both hold the privileged client and ignore the `authInfo` they are given.
- The **store** is the Kubernetes API. Other writers, operators or other API instances, change it between calls.
- `ReadAppLogs` (`src/api/actions/read_app_logs.go`) makes four store reads in sequence with the caller's authInfo:
  - the app;
  - its latest build;
  - that build's logs;
  - the runtime logs of the app revision it read first.
- The **space manifest handler** (`src/api/apis/space_manifest_handler.go`) has two endpoints:
  - `apply_manifest` builds a client from the caller's Authorization header. It hands that client to the manifest action, which writes the apps into the space under the store's RBAC.
  - `manifest_diff` sits behind `validateSpaceVisible`. That check lists spaces without authInfo.

## Modules

| module | models | state | actions |
|---|---|---|---|
| `ClientFactory` | client factories | `heap` holds the configs by slot: the base config, the service-account config, and one copy per request. `req[r]` is a request worker's pc, operation, authInfo, config slot, result, and whether a client was constructed. | `Call`, `CopyConfig`, `ApplyCredentials` (the scheme switch with both PEM checks), `Construct` (may fail), `PrivilegedBuildClient` |
| `ClientFactorySpec` | what the factories promise their callers | `client[r]`: a call as the handler sees it (idle, busy or done; operation; header; result) | `Call`, `Return` (a client acting as the caller, or an error), `Privileged` |
| `PackageRepo` | PackageRepo | `pkgs` (CFPackage objects: name, namespace, app, image, creation second), `clock`, `resp` (the last answer) | `CreatePackage`, `GetPackage`, `ListPackages`, `UpdatePackageSource` (each may also fail at the store); environment: `OtherWriterCreates`, `Tick` |
| `ReadAppLogs` | ReadAppLogs.Invoke | `app` (exists, revision, latest build), `rd[r]` per concurrent invocation: pc, limit, what each read returned, and the ghost `startRev`/`startBuild` (the app when the call began) | `Invoke`, `GetApp`, `GetLatestBuild`, `GetBuildLogs`, `GetRuntimeLogs` (each with its error paths and error classification); environment: `Restart`, `Restage`, `DeleteApp` |
| `SpaceManifest` | SpaceManifestHandler | `spaces`, `apps` (<<space, app>> in the store), `hreq[q]` per request worker: pc, endpoint, caller, space, manifest, apps still to write and written, the refusal cause, the status written | `Arrive`, `DecodeManifest`, `BuildClient`, `ApplyApp` (one write per app; a refusal ends the handler), `ApplyAccepted`, `DiffManifest` (validateSpaceVisible); environment: `DeleteSpace`, `CreateSpace` |
| `DomainRepo` | DomainRepo | `domains` (CFDomain: name, spec.name, creation second), `clock`, `resp` | `GetDomain` (every StatusError reason), `ListDomains`, `GetDomainByName`, `GetDefaultDomain`; environment: `OperatorCreatesDomain`, `OperatorDeletesDomain`, `Tick` |

`ReadAppLogs` makes each store read its own step, so an app change can fall between any two reads. A read of the build logs of a deleted app fails with NotFound. The manifest action (not under `src/`) is modelled as it is used here: one create-or-patch per app, with the caller's client. The store refuses a write:

- into a space that is gone, with NotFound;
- into a space where the caller has no role, with Forbidden;
- at any time, with an unknown error.

`FetchSpaces` (not under `src/`) is modelled as listing every existing space, because it is given no authInfo.

Modules whose names start with `MC_` hold the constants of the TLC runs. `ClientFactoryProofs`, `ReadAppLogsProofs` and `SpaceManifestProofs` hold the proofs.

How the models correspond to the code:

- **Configs in a heap.** `ClientFactory` keeps configs in slots because the danger in `BuildClient` is aliasing. Several requests run concurrently, and each must mutate a *copy* of the one base config (line 37).
- **One step per repository operation.** Each repository operation makes one store call, and what follows it is pure. The model therefore makes each operation one step, whose answer is computed from the state in which the call happens.
- **The sort.** `sort.Slice` is modelled by what it does: any ordering of the listed objects that is sorted by creation second. It is unstable, and timestamps have whole-second granularity, so ties may come out in any order.
- **The filters.** They are translated loop by loop.
  - `applyPackageFilter` breaks after the first match.
  - `applyDomainListFilterAndOrder` does not, so a domain is appended once per matching name. The model reproduces this with `FlattenSeq`.

## Runs

| run | checks | result |
|---|---|---|
| `client_factory` | `ClientActsAsCaller`, `AuthFailuresNeverDial` | pass |
| `client_factory_refines` | `ImplementsClientFactorySpec` | pass |
| `package_repo` | `GetPackageUnique`, `ListPackagesMatchesQuery` | pass |
| `package_scope` | `CallerSeesOnlyPermittedSpaces` | violation |
| `package_ties` | `ListTiesOrderedByGUID` | violation |
| `domain_repo` | `ListDomainsMatchesQuery`, `DefaultDomainIsOldest` | pass |
| `domain_dups` | `ListDomainsNoDuplicates` | violation |
| `read_app_logs` | `AnswerFromCallWindow` | pass |
| `space_manifest` | `AcceptedManifestWasApplied` | pass |
| `space_notfound` | `ApplyToMissingSpaceIsNotFound` | violation |
| `space_diff` | `DiffHidesInaccessibleSpaces` | violation |

### client_factory

- **Bounds:** two concurrent requests and two users. Every scheme spelling is enumerated (`Bearer`, `bearer`, `ClientCert`, `clientcert`, `Basic`), and so is every PEM case (cert and key, no cert, cert without key). Each worker serves any number of requests in turn.
- **`ClientActsAsCaller`:** a client handed back authenticates as its caller only. It never authenticates as the service account, and never as the caller of the other request.
- **`AuthFailuresNeverDial`:** an unsupported scheme ends in NotAuthenticated, and a bad PEM ends in an unknown error. In both cases no client is constructed.
- **Mutants:**
  - Configuring the shared base config in place, instead of the copy, breaks `ClientActsAsCaller`. Two requests are enough to show it.
  - Dropping the key-block check breaks `AuthFailuresNeverDial`.

### client_factory_refines

- **What it checks:** `ClientFactory` implements `ClientFactorySpec` under the refinement mapping `clientBar`, which `Abstract == INSTANCE ClientFactorySpec WITH client <- clientBar, Refusal <- AuthError` uses.
- **The mapping:**
  - `clientBar` shows each request's pc as idle, busy (called, copied or configured) or done, with its operation, header and result.
  - The heap, the config slot and `dialled` are hidden.
  - `CopyConfig` and the success branches of `ApplyCredentials` are stuttering steps.
  - A failure branch of `ApplyCredentials` and `Construct` are `Return`.
  - `PrivilegedBuildClient` is `Privileged`.
- **What the abstract spec says:** `Return` hands back `ActsAs(user)` or an unknown error for a header in `Usable` (a bearer header, or a client-cert header whose PEM holds a cert and a key). For any other header it hands back `Failed(AuthError[a])`. Privileged clients act as `ServiceAccount`.
- **Bounds:** as `client_factory`, except that the scheme words are cut to one of each kind (`Bearer`, `clientcert`, `Basic`). `Bearer` is in mixed case, so case folding is still exercised. The full set of five took close to five minutes, because each step checks one abstract step per request and header.
- **Mutant:** building the privileged factory's client from the unprivileged base config breaks it. Such a client has no credentials at all. `ClientActsAsCaller` does not see this, because it leaves privileged requests out.

### package_repo

- **Bounds:** two spaces, two apps, two GUIDs, three objects and two clock values. The bounds are enough for:
  - the same GUID to exist in both spaces, made by another writer;
  - two packages to share a creation second;
  - a filter to select some packages and not others.
- **`GetPackageUnique`:**
  - GetPackage answers with a record only when exactly one package has that name across all namespaces.
  - It answers "duplicate" when there are several, and not-found only when there is none.
- **`ListPackagesMatchesQuery`:** ListPackages returns every selected package exactly once, in creation order, descending only when asked.
- **Mutants:**
  - `returnPackage` without the duplicate check breaks `GetPackageUnique`.
  - A filter without the `break` breaks `ListPackagesMatchesQuery`.
- **Violation runs (both are findings):**
  - `package_scope`: a caller with a role in one space only gets records of the other space, because PackageRepo uses the privileged client. The spec's sections 1 and 6 say calls use the caller's scoped client.
  - `package_ties`: two packages created in the same second are listed in either order. The spec's section 4.3 asks for ties broken by GUID.

### domain_repo

- **Bounds:** three GUIDs, two names, three domains, three clock values. The bounds are enough for ties, for repeated names in a filter, and for an empty store after deletes.
- **`ListDomainsMatchesQuery`:** ListDomains returns the domains whose name is requested, or all of them when the filter is empty, in ascending creation order.
- **`DefaultDomainIsOldest`:** GetDefaultDomain returns a domain created no later than any other. It answers not-found only when there are no domains.
- **Mutants:**
  - An unsorted list breaks `ListDomainsMatchesQuery`.
  - Taking the last element breaks `DefaultDomainIsOldest`.
- **Violation run (a code bug):** `domain_dups` shows that `names=a,a` returns the same domain twice.

### read_app_logs

- **Bounds:** two concurrent invocations, two restarts (revisions 0 to 2), two restages (builds 0 to 2), a deletion, and a limit given or not. Each reader is invoked any number of times in turn. `GetLatestBuild` succeeds only once there is a build, so a second restage is what lets a new build appear after a call has read the latest one. With these bounds a restart, a restage or the deletion can fall between any two reads of a call.
- **`AnswerFromCallWindow`:** a successful answer holds only data from the app as it was during the call:
  - the build logs are of a build no older than the latest build at the start and no newer than the latest build now;
  - the runtime logs are of a revision between the one at the start and the current one;
  - if the app was neither restarted nor deleted, the running revision's logs are there.
- **What it does not catch:** after a restart midway, the code asks for the logs of the revision it read first and gets none. `AnswerFromCallWindow` accepts this empty runtime log, as the code does. The first three clauses hold because revisions and builds only grow. The last clause is the one a faulty handler breaks.
- **No fairness, no liveness property:** `Invoke` is straight-line code. Each of its four reads returns or fails, and every failure returns at once, with no retry or wait. So termination would follow from the shape of the steps alone, and checking it would say nothing about the code.
- **Mutant:** dropping the runtime logs breaks `AnswerFromCallWindow`.

### space_manifest, space_notfound, space_diff

- **Bounds:** two request workers, two callers, two spaces and two apps. One caller has a role in both spaces and the other in one. Spaces can be deleted and recreated. A manifest has one or two apps. Symmetry is used over requests and over apps (the properties do not name either). The bounds give:
  - two apply requests into the same space;
  - a delete between two writes of one manifest;
  - a caller without a role.
- **`AcceptedManifestWasApplied`:** a 202 from apply_manifest means that this request wrote every app of the manifest into the space with a role there.
- **Mutant:** a write error that is logged and skipped breaks it.
- **Violation runs (both are findings):**
  - `space_notfound`: a space deleted before the apply (or never created) makes the store refuse with NotFound. The handler answers 500 for every error of the manifest action. Spec section 4.2 maps not-found to the not-found kind.
  - `space_diff`: `validateSpaceVisible` does not scope the list to the caller. A caller without a role gets 202 for an existing space and 404 for a missing one, so it learns which spaces exist. Spec section 4.2 says an inaccessible object must look missing.

### How the action properties are stated

The repository properties are action properties over the step that produces an answer. They are guarded by "the store did not change in this step", which is exactly a repository call or a stutter. An answer is therefore judged against the store it was computed from, and is not blamed for later writes. No guard reads `resp`, so `MC_PackageRepo` uses a VIEW that leaves `resp` out. This VIEW does not hide any violation, because the properties do not compare `resp` with its previous value.

No module assumes fairness. Every property is a safety property: an invariant or an action property.

## Proofs (TLAPS)

Three modules hold proofs, and `tlapm` checks every one of them to the last leaf. Each safety theorem follows the same pattern:

- an inductive invariant `X` with `Init => X`;
- `X /\ [Next]_vars => X'`, with one step per action and, under it, one step per conjunct the action can disturb;
- `Spec => []P` by `PTL`.

Each strengthening was checked with TLC as an invariant, on the run's bounds, before its proof was written.

### ClientFactoryProofs

These hold for every value of the constants allowed by `ConstantsAssumption`.

- `TypeCorrect`: `Spec => []TypeOK`.
- `ClientsActAsCaller`: `Spec => []ClientActsAsCaller` (run `client_factory`).
- `AuthFailuresDoNotDial`: `Spec => []AuthFailuresNeverDial` (run `client_factory`).
- `Refinement`: `Spec => ImplementsClientFactorySpec` (run `client_factory_refines`), i.e. `Spec => Abstract!Spec`.

`ClientActsAsCaller` is not inductive by itself, so it is strengthened to `IInv`. `IInv` says:

- the base slot always holds the anonymized config;
- each request works on its own slot;
- a request that has copied holds the anonymized config in its slot;
- a request that has been configured holds a slot whose credentials are exactly its caller.

The argument runs as follows:

- `CopyConfig` writes only the request's own slot.
- `ApplyCredentials` writes only that slot, and sets both the certificate and the key, or only the bearer token.
- No action writes the base slot.

`AuthFailuresNeverDial` is strengthened to `AInv`, which adds `NotDialledYet`: a request that has not yet been configured has not constructed a client. With that fact:

- the failure branches of `ApplyCredentials` leave `dialled` false;
- `Construct` is reached only through the success branches.

The refinement proof uses `RInv`, which is `IInv` plus two facts:

- the privileged factory's config is never written;
- a configured request carries a `Usable` header.

The proof has two parts:

- `InitRefines`: `Init => Abstract!Init`.
- `NextRefines`: `RInv /\ [Next]_vars => [Abstract!Next]_clientBar`, with one step per action:
  - `Call` is the abstract `Call`;
  - `CopyConfig` and the success branches of `ApplyCredentials` leave `clientBar` unchanged (lemma `BarStutter`);
  - the failure branches of `ApplyCredentials` are `Return`, with `Failed(AuthError[a])`;
  - `Construct` is `Return`, with `ActsAs(user)` because `SlotInv` fixes the slot's credentials;
  - `PrivilegedBuildClient` is `Privileged`, because `CredsOf(InClusterConfig) = {ServiceAccount}`.

  The lemma `BarFrame` shows that a step of one request changes only that request's abstract call.

The abstract steps are written with explicit records rather than `EXCEPT` on a record. The provers do not find record extensionality through `EXCEPT`.

### ReadAppLogsProofs

These hold for every value allowed by `ReadAppLogsAssumption` (`MaxRevision \in Nat`, `MaxBuild \in Nat \ {0}`, integer limits).

- `TypeCorrect`: `Spec => []TypeOK`.
- `AnswersFromCallWindow`: `Spec => []AnswerFromCallWindow` (run `read_app_logs`).

The strengthening is `WindowInv`. For each invocation, it says:

- the revision and the latest build at the call are no larger than now;
- a revision or build the invocation has read lies between its value at the call and its value now;
- the build logs read are those of the build read.

It is needed because the answer is assembled over four reads, while `Restart`, `Restage` and `DeleteApp` change the app between them. `AnswerFromCallWindow` only speaks of the final answer, so it gives no handle on the values read midway. The environment steps preserve `WindowInv` because revisions and builds only grow.

### SpaceManifestProofs

These hold for every value allowed by `SpaceManifestAssumption`:

- at least one caller and one space;
- the roles are pairs of a caller and a space;
- at least one app.

The theorems are:

- `TypeCorrect`: `Spec => []TypeOK`.
- `ApplyInvHolds`: `Spec => []ApplyInv`.
- `AcceptedMeansApplied`: `Spec => AcceptedManifestWasApplied` (run `space_manifest`). This is the action property `[][Accepted]_vars => ...`.

`ApplyInv` says that while a request is in flight:

- its applied and pending apps partition the non-empty manifest;
- it is an apply request once past `received`;
- it has applied an app only if its caller holds a role in the space.

`NextAccepted` proves `ApplyInv /\ [Next]_vars => [Accepted]_vars`. The only step that writes status 202 on an apply request is `ApplyAccepted`. It fires when nothing is pending, so `applied` is the whole manifest, and the manifest is non-empty, so the role was checked.

Helper lemmas used throughout:

- `SetPcType`, `SetCauseType` and `SetStatusType` give the type of a one-field update of a request record.
- `SetPendingType` and `SetAppliedType` do the same for the app sets that `ApplyApp` moves between. `SetReqPcType`, `SetReqCauseType` and `SetReqStatusType` lift the one-field updates to `hreq`.
- `RefusalIsChained` rewrites the three-field update of a store refusal (`pc`, `cause`, `status`) as three one-field updates. tlapm 1.4.5 cannot type that update in one step: its SMT translation fails on a multi-field `EXCEPT` with literal values. So `NextTypeOK` types the refusal one field at a time.
- `DoneAt`, with `RespondIsDoneAt` and `DoneAtFacts`, describes `Respond` without primes, so that it can be cited from an `ASSUME ... PROVE`.

The proof found a slip in the model: `SUBSET Apps \ {{}}` is read as `SUBSET (Apps \ {{}})` by the prover's parser, which would allow an empty manifest. TLC reads it as intended. The manifest set in `Arrive` is now written `(SUBSET Apps) \ {{}}`.

## Only model-checked, or not modelled

- The package and domain properties are checked by TLC only, on the bounds above. `PackageRepo` and `DomainRepo` reach RECURSIVE operators through `SequencesExt` and `Folds` (for example `FlattenSeq` and the sorting folds). A module that reaches one cannot hold a theorem here.
- The two violation runs of `SpaceManifest` are findings, so there is nothing to prove.
- Not modelled:
  - the manifest action's and `FetchSpaces`' own code (not under `src/`); they are modelled only as used;
  - `ClientBuilder`, which the handler's shared `k8sConfig` is passed to (line 31, a TODO). Its code is not under `src/`, so whether it configures that config in place is not checked. `ClientActsAsCaller` checks the same kind of aliasing in `UnprivilegedClientFactory` only;
  - RouteRepo, whose code is not under `src/` (only its tests are);
  - lost replies and caller retries of `CreatePackage`. The code does no retry of its own, and spec section 4.3 leaves a retry to the caller.
- The yaml configuration, the OpenAPI reference and the test files have no state to model.
