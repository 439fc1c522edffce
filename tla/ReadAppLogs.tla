---------------------------- MODULE ReadAppLogs ----------------------------
(***************************************************************************)
(* ReadAppLogs.Invoke (api/actions/read_app_logs.go): four store reads in  *)
(* sequence -- the app, its latest build, that build's logs, and the       *)
(* runtime logs of the pods of the app revision read first -- while the    *)
(* app is restarted (a new revision), restaged (a new latest build) or     *)
(* deleted by other requests.  Each read is one step of a reader, so the   *)
(* environment can act between any two of them.  Builds and revisions are *)
(* numbered in the order they are made; a log is abstracted to the build   *)
(* or the revision it comes from.                                          *)
(***************************************************************************)
EXTENDS Integers

CONSTANTS
    Readers,      \* concurrent invocations (one per request worker)
    MaxRevision,  \* bound on the number of restarts
    MaxBuild,     \* bound on the number of builds
    Limits,       \* values a caller may give as LogRead.Limit
    NoLimit       \* LogRead.Limit == nil

ASSUME ReadAppLogsAssumption ==
    /\ MaxRevision \in Nat
    /\ MaxBuild \in Nat \ {0}
    /\ Limits \subseteq Int
    /\ NoLimit \notin Limits

VARIABLES
    app,  \* the CFApp: whether it exists, its revision, its latest build
    rd    \* rd[r]: the state of invocation r

vars == <<app, rd>>

\* the outcomes of a store call other than success
StoreErrors == {"Forbidden", "Unknown"}
Errs == {"none", "NotFound"} \cup StoreErrors
Pcs == {"idle", "invoked", "gotApp", "gotBuild", "gotBuildLogs", "done"}
Revisions == 0..MaxRevision
Builds == 0..MaxBuild  \* 0: the app has no build yet
Answers == [err : Errs, buildLogs : Builds, runtimeLogs : SUBSET Revisions,
            limit : Limits \cup {100}]
NoAnswer == [err |-> "none", buildLogs |-> 0, runtimeLogs |-> {}, limit |-> 100]
Failed(e) == [NoAnswer EXCEPT !.err = e]
ReaderStates == [pc : Pcs, limit : Limits \cup {NoLimit},
                 appRev : Revisions, build : Builds, buildLogs : Builds,
                 startRev : Revisions, startBuild : Builds, answer : Answers]

TypeOK ==
    /\ app \in [exists : BOOLEAN, rev : Revisions, latestBuild : Builds]
    /\ rd \in [Readers -> ReaderStates]

\* apierrors.ForbiddenAsNotFound: Forbidden becomes NotFound, others unchanged
ForbiddenAsNotFound(e) == IF e = "Forbidden" THEN "NotFound" ELSE e

\* logLimit: defaultLogLimit unless the caller gave a limit
LogLimit(l) == IF l = NoLimit THEN 100 ELSE l

Init ==
    /\ app = [exists |-> TRUE, rev |-> 0, latestBuild |-> 0]
    /\ rd = [r \in Readers |->
               [pc |-> "idle", limit |-> NoLimit, appRev |-> 0, build |-> 0,
                buildLogs |-> 0, startRev |-> 0, startBuild |-> 0,
                answer |-> NoAnswer]]

\* a step of invocation r that returns err to the caller
Fail(r, e) == rd' = [rd EXCEPT ![r].pc = "done", ![r].answer = Failed(e)]

(***************************************************************************)
(* The invocation.  startRev and startBuild record what the app was when   *)
(* the call began; nothing in the code reads them.                         *)
(***************************************************************************)
Invoke(r) ==
    /\ rd[r].pc \in {"idle", "done"}
    /\ \E l \in Limits \cup {NoLimit} :
         rd' = [rd EXCEPT ![r] = [pc |-> "invoked", limit |-> l,
                                  appRev |-> 0, build |-> 0, buildLogs |-> 0,
                                  startRev |-> app.rev,
                                  startBuild |-> app.latestBuild,
                                  answer |-> NoAnswer]]
    /\ UNCHANGED app

\* appRepo.GetApp
GetApp(r) ==
    /\ rd[r].pc = "invoked"
    /\ \/ /\ app.exists
          /\ rd' = [rd EXCEPT ![r].pc = "gotApp", ![r].appRev = app.rev]
       \/ /\ ~app.exists
          /\ Fail(r, "NotFound")
       \/ \E e \in StoreErrors : Fail(r, ForbiddenAsNotFound(e))
    /\ UNCHANGED app

\* buildRepo.GetLatestBuildByAppGUID: the builds go with the app
GetLatestBuild(r) ==
    /\ rd[r].pc = "gotApp"
    /\ \/ /\ app.exists
          /\ app.latestBuild # 0
          /\ rd' = [rd EXCEPT ![r].pc = "gotBuild", ![r].build = app.latestBuild]
       \/ /\ ~app.exists \/ app.latestBuild = 0
          /\ Fail(r, "NotFound")
       \/ \E e \in StoreErrors : Fail(r, ForbiddenAsNotFound(e))
    /\ UNCHANGED app

\* buildRepo.GetBuildLogs of the build read before; its errors go up as is
GetBuildLogs(r) ==
    /\ rd[r].pc = "gotBuild"
    /\ \/ /\ app.exists
          /\ rd' = [rd EXCEPT ![r].pc = "gotBuildLogs", ![r].buildLogs = rd[r].build]
       \/ /\ ~app.exists
          /\ Fail(r, "NotFound")
       \/ \E e \in StoreErrors : Fail(r, e)
    /\ UNCHANGED app

\* Faulty variant: the build logs alone are returned.
GetRuntimeLogsDropped(r) ==
    /\ rd[r].pc = "gotBuildLogs"
    /\ \/ rd' = [rd EXCEPT ![r].pc = "done",
                   ![r].answer = [err |-> "none",
                                  buildLogs |-> rd[r].buildLogs,
                                  runtimeLogs |-> {},
                                  limit |-> LogLimit(rd[r].limit)]]
       \/ \E e \in StoreErrors : Fail(r, e)
    /\ UNCHANGED app

\* podRepo.GetRuntimeLogsForApp for the revision read by GetApp: the logs of
\* the pods labelled with that revision, which are the running ones only if
\* the app has not been restarted or deleted since; then buildLogs ++
\* runtimeLogs is returned
GetRuntimeLogs(r) ==
    /\ rd[r].pc = "gotBuildLogs"
    /\ \/ rd' = [rd EXCEPT ![r].pc = "done",
                   ![r].answer = [err |-> "none",
                                  buildLogs |-> rd[r].buildLogs,
                                  runtimeLogs |-> IF app.exists /\ app.rev = rd[r].appRev
                                                  THEN {rd[r].appRev} ELSE {},
                                  limit |-> LogLimit(rd[r].limit)]]
       \/ \E e \in StoreErrors : Fail(r, e)
    /\ UNCHANGED app

(***************************************************************************)
(* Environment: the app is restarted, restaged or deleted.                 *)
(***************************************************************************)
Restart ==
    /\ app.exists
    /\ app.rev < MaxRevision
    /\ app' = [app EXCEPT !.rev = app.rev + 1]
    /\ UNCHANGED rd

Restage ==
    /\ app.exists
    /\ app.latestBuild < MaxBuild
    /\ app' = [app EXCEPT !.latestBuild = app.latestBuild + 1]
    /\ UNCHANGED rd

DeleteApp ==
    /\ app.exists
    /\ app' = [app EXCEPT !.exists = FALSE]
    /\ UNCHANGED rd

\* the store calls of invocation r: each returns, with a result or an error
Step(r) ==
    \/ GetApp(r)
    \/ GetLatestBuild(r)
    \/ GetBuildLogs(r)
    \/ GetRuntimeLogs(r)

Next ==
    \/ \E r \in Readers : Invoke(r) \/ Step(r)
    \/ Restart
    \/ Restage
    \/ DeleteApp

Spec == Init /\ [][Next]_vars

-----------------------------------------------------------------------------
(***************************************************************************)
(* Properties.                                                             *)
(***************************************************************************)

(* What a successful ReadAppLogs returns comes from the app as it was      *)
(* while the call ran: the build logs are of a build that was the latest   *)
(* one at some moment of the call, the runtime logs only of a revision the *)
(* app had during the call, and, if the app was neither restarted nor      *)
(* deleted since the call began, the runtime logs of the running revision  *)
(* are there.                                                             *)
AnswerFromCallWindow ==
    \A r \in Readers :
        LET a == rd[r].answer IN
        rd[r].pc = "done" /\ a.err = "none" =>
            /\ rd[r].startBuild <= a.buildLogs
            /\ a.buildLogs <= app.latestBuild
            /\ \A v \in a.runtimeLogs : rd[r].startRev <= v /\ v <= app.rev
            /\ app.exists /\ app.rev = rd[r].startRev => a.runtimeLogs = {app.rev}

=============================================================================
