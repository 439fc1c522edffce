------------------------- MODULE ReadAppLogsProofs -------------------------
(***************************************************************************)
(* Proofs about ReadAppLogs for any number of concurrent invocations and   *)
(* any bounds: the model is type-correct, and what a successful invocation *)
(* returns comes from the app as it was during the call.                   *)
(***************************************************************************)
EXTENDS ReadAppLogs, TLAPS

-----------------------------------------------------------------------------
(* Type correctness.                                                       *)

LEMMA AnswersType ==
    /\ NoAnswer \in Answers
    /\ \A e \in Errs : Failed(e) \in Answers
    /\ \A e \in StoreErrors : ForbiddenAsNotFound(e) \in Errs
    /\ \A l \in Limits \cup {NoLimit} : LogLimit(l) \in Limits \cup {100}
<1>1. NoAnswer \in Answers
    BY ReadAppLogsAssumption DEF NoAnswer, Answers, Errs, Builds, Revisions
<1>2. \A e \in Errs : Failed(e) \in Answers
    BY <1>1 DEF Failed, Answers
<1>3. \A e \in StoreErrors : ForbiddenAsNotFound(e) \in Errs
    BY DEF ForbiddenAsNotFound, Errs, StoreErrors
<1>4. \A l \in Limits \cup {NoLimit} : LogLimit(l) \in Limits \cup {100}
    BY DEF LogLimit
<1> QED BY <1>1, <1>2, <1>3, <1>4

LEMMA InitTypeOK == Init => TypeOK
BY ReadAppLogsAssumption, AnswersType
    DEF Init, TypeOK, ReaderStates, Pcs, Revisions, Builds

LEMMA NextTypeOK == TypeOK /\ [Next]_vars => TypeOK'
<1> SUFFICES ASSUME TypeOK, [Next]_vars PROVE TypeOK'
    OBVIOUS
<1> USE ReadAppLogsAssumption DEF TypeOK
<1>1. ASSUME NEW r \in Readers, Invoke(r) PROVE TypeOK'
    BY <1>1, AnswersType DEF Invoke, ReaderStates, Pcs, Revisions, Builds
<1>2. ASSUME NEW r \in Readers, GetApp(r) PROVE TypeOK'
    BY <1>2, AnswersType DEF GetApp, Fail, ReaderStates, Pcs, Errs
<1>3. ASSUME NEW r \in Readers, GetLatestBuild(r) PROVE TypeOK'
    BY <1>3, AnswersType DEF GetLatestBuild, Fail, ReaderStates, Pcs, Errs
<1>4. ASSUME NEW r \in Readers, GetBuildLogs(r) PROVE TypeOK'
    BY <1>4, AnswersType DEF GetBuildLogs, Fail, ReaderStates, Pcs, Errs
<1>5. ASSUME NEW r \in Readers, GetRuntimeLogs(r) PROVE TypeOK'
    <2>1. rd[r] \in ReaderStates
        OBVIOUS
    <2>2. [err |-> "none", buildLogs |-> rd[r].buildLogs,
           runtimeLogs |-> IF app.exists /\ app.rev = rd[r].appRev
                           THEN {rd[r].appRev} ELSE {},
           limit |-> LogLimit(rd[r].limit)] \in Answers
        BY <2>1, AnswersType DEF ReaderStates, Answers, Errs
    <2> QED BY <1>5, <2>2, AnswersType
        DEF GetRuntimeLogs, Fail, ReaderStates, Pcs, Errs
<1>6. CASE Restart
    BY <1>6 DEF Restart, Revisions
<1>8. CASE Restage
    BY <1>8 DEF Restage, Builds
<1>9. CASE DeleteApp
    BY <1>9 DEF DeleteApp
<1>7. CASE UNCHANGED vars
    BY <1>7 DEF vars
<1> QED BY <1>1, <1>2, <1>3, <1>4, <1>5, <1>6, <1>7, <1>8, <1>9 DEF Next, Step

(* Every state of the ReadAppLogs model is well typed: request records,  *)
(* the app's revision and build counters and the answers built from them *)
(* stay in their sets, for any requests, apps and revision bounds.        *)
THEOREM TypeCorrect == Spec => []TypeOK
BY InitTypeOK, NextTypeOK, PTL DEF Spec

-----------------------------------------------------------------------------
(* Answers come from the call window.  AnswerFromCallWindow speaks of done *)
(* invocations only; to be inductive it needs what an unfinished one has   *)
(* read so far: the revision and the build it read lie between the app at *)
(* the start of the call and the app now, and the build logs are of that   *)
(* build.  All of it rests on the app only moving forward: revisions and   *)
(* builds only grow, and a deleted app stays deleted.                      *)

WindowInv ==
    \A r \in Readers :
        /\ rd[r].startRev <= app.rev
        /\ rd[r].startBuild <= app.latestBuild
        /\ rd[r].pc \in {"gotApp", "gotBuild", "gotBuildLogs"} =>
              rd[r].startRev <= rd[r].appRev /\ rd[r].appRev <= app.rev
        /\ rd[r].pc \in {"gotBuild", "gotBuildLogs"} =>
              rd[r].startBuild <= rd[r].build /\ rd[r].build <= app.latestBuild
        /\ rd[r].pc = "gotBuildLogs" => rd[r].buildLogs = rd[r].build

IInv ==
    /\ TypeOK
    /\ WindowInv
    /\ AnswerFromCallWindow

LEMMA InitIInv == Init => IInv
<1> SUFFICES ASSUME Init PROVE IInv
    OBVIOUS
<1>1. TypeOK
    BY InitTypeOK
<1>2. WindowInv /\ AnswerFromCallWindow
    BY DEF Init, WindowInv, AnswerFromCallWindow
<1> QED BY <1>1, <1>2 DEF IInv

\* the errors a failed read returns are never "none"
LEMMA FailedIsError ==
    \A e \in StoreErrors : ForbiddenAsNotFound(e) # "none" /\ e # "none"
BY DEF StoreErrors, ForbiddenAsNotFound

LEMMA FailedErr == \A e : Failed(e).err = e
BY DEF Failed, NoAnswer

LEMMA NextIInv == IInv /\ [Next]_vars => IInv'
<1> SUFFICES ASSUME IInv, [Next]_vars PROVE IInv'
    OBVIOUS
<1>0. TypeOK'
    BY NextTypeOK DEF IInv
<1> USE ReadAppLogsAssumption, FailedIsError DEF IInv, TypeOK, ReaderStates,
        Revisions, Builds
<1>1. ASSUME NEW r \in Readers, Invoke(r) PROVE IInv'
    <2>1. WindowInv'
        BY <1>1 DEF Invoke, WindowInv
    <2>2. AnswerFromCallWindow'
        BY <1>1 DEF Invoke, AnswerFromCallWindow
    <2> QED BY <1>0, <2>1, <2>2
<1>2. ASSUME NEW r \in Readers, GetApp(r) PROVE IInv'
    <2>1. WindowInv'
        BY <1>2 DEF GetApp, Fail, WindowInv
    <2>2. AnswerFromCallWindow'
        BY <1>2 DEF GetApp, Fail, Failed, NoAnswer, AnswerFromCallWindow
    <2> QED BY <1>0, <2>1, <2>2
<1>3. ASSUME NEW r \in Readers, GetLatestBuild(r) PROVE IInv'
    <2>1. WindowInv'
        BY <1>3 DEF GetLatestBuild, Fail, WindowInv
    <2>2. AnswerFromCallWindow'
        BY <1>3 DEF GetLatestBuild, Fail, Failed, NoAnswer, AnswerFromCallWindow
    <2> QED BY <1>0, <2>1, <2>2
<1>4. ASSUME NEW r \in Readers, GetBuildLogs(r) PROVE IInv'
    <2>1. WindowInv'
        BY <1>4 DEF GetBuildLogs, Fail, WindowInv
    <2>2. AnswerFromCallWindow'
        BY <1>4 DEF GetBuildLogs, Fail, Failed, NoAnswer, AnswerFromCallWindow
    <2> QED BY <1>0, <2>1, <2>2
<1>5. ASSUME NEW r \in Readers, GetRuntimeLogs(r) PROVE IInv'
    <2>0. /\ UNCHANGED app
          /\ rd[r].pc = "gotBuildLogs"
          /\ rd[r].startRev <= rd[r].appRev /\ rd[r].appRev <= app.rev
          /\ rd[r].startBuild <= rd[r].buildLogs
          /\ rd[r].buildLogs <= app.latestBuild
        BY <1>5 DEF GetRuntimeLogs, WindowInv
    <2> DEFINE ans == [err |-> "none", buildLogs |-> rd[r].buildLogs,
                       runtimeLogs |-> IF app.exists /\ app.rev = rd[r].appRev
                                       THEN {rd[r].appRev} ELSE {},
                       limit |-> LogLimit(rd[r].limit)]
               done(x) == [rd EXCEPT ![r].pc = "done", ![r].answer = x]
    <2>1. \A x : WindowInv /\ rd' = done(x) => WindowInv'
        BY <2>0 DEF WindowInv
    <2>2. CASE \E e \in StoreErrors : Fail(r, e)
        <3>1. PICK e \in StoreErrors : rd' = done(Failed(e))
            BY <2>2 DEF Fail
        <3>2. AnswerFromCallWindow'
            BY <2>0, <3>1, FailedErr DEF AnswerFromCallWindow
        <3> QED BY <1>0, <2>1, <3>1, <3>2
    <2>3. CASE rd' = done(ans)
        <3>1. AnswerFromCallWindow'
            <4> SUFFICES ASSUME NEW s \in Readers,
                                rd'[s].pc = "done", rd'[s].answer.err = "none"
                         PROVE  LET a == rd'[s].answer IN
                                /\ rd'[s].startBuild <= a.buildLogs
                                /\ a.buildLogs <= app'.latestBuild
                                /\ \A v \in a.runtimeLogs :
                                      rd'[s].startRev <= v /\ v <= app'.rev
                                /\ app'.exists /\ app'.rev = rd'[s].startRev
                                   => a.runtimeLogs = {app'.rev}
                BY DEF AnswerFromCallWindow
            <4>1. CASE s = r
                BY <2>0, <2>3, <4>1
            <4>2. CASE s # r
                BY <2>0, <2>3, <4>2 DEF AnswerFromCallWindow
            <4> QED BY <4>1, <4>2
        <3> QED BY <1>0, <2>1, <2>3, <3>1
    <2> QED BY <1>5, <2>2, <2>3 DEF GetRuntimeLogs
<1>6. CASE Restart
    <2>0. /\ app'.rev = app.rev + 1
          /\ app'.latestBuild = app.latestBuild
          /\ app'.exists = app.exists
          /\ rd' = rd
        BY <1>6 DEF Restart
    <2>1. WindowInv'
        BY <2>0 DEF WindowInv
    <2>2. AnswerFromCallWindow'
        <3> SUFFICES ASSUME NEW r \in Readers,
                            rd[r].pc = "done", rd[r].answer.err = "none"
                     PROVE  LET a == rd[r].answer IN
                            /\ rd[r].startBuild <= a.buildLogs
                            /\ a.buildLogs <= app'.latestBuild
                            /\ \A v \in a.runtimeLogs :
                                  rd[r].startRev <= v /\ v <= app'.rev
                            /\ app'.exists /\ app'.rev = rd[r].startRev
                               => a.runtimeLogs = {app'.rev}
            BY <2>0 DEF AnswerFromCallWindow
        <3>1. rd[r].startRev <= app.rev
            BY DEF WindowInv
        <3>2. \A v \in rd[r].answer.runtimeLogs : v \in Nat
            BY DEF Answers
        <3> QED BY <2>0, <3>1, <3>2 DEF AnswerFromCallWindow
    <2> QED BY <1>0, <2>1, <2>2
<1>7. CASE Restage
    <2>0. /\ app'.rev = app.rev
          /\ app'.latestBuild = app.latestBuild + 1
          /\ app'.exists = app.exists
          /\ rd' = rd
        BY <1>7 DEF Restage
    <2>1. WindowInv'
        BY <2>0 DEF WindowInv
    <2>2. AnswerFromCallWindow'
        <3> SUFFICES ASSUME NEW r \in Readers,
                            rd[r].pc = "done", rd[r].answer.err = "none"
                     PROVE  LET a == rd[r].answer IN
                            /\ rd[r].startBuild <= a.buildLogs
                            /\ a.buildLogs <= app'.latestBuild
                            /\ \A v \in a.runtimeLogs :
                                  rd[r].startRev <= v /\ v <= app'.rev
                            /\ app'.exists /\ app'.rev = rd[r].startRev
                               => a.runtimeLogs = {app'.rev}
            BY <2>0 DEF AnswerFromCallWindow
        <3>1. rd[r].answer.buildLogs \in Nat /\ app.latestBuild \in Nat
            BY DEF Answers
        <3> QED BY <2>0, <3>1 DEF AnswerFromCallWindow
    <2> QED BY <1>0, <2>1, <2>2
<1>8. CASE DeleteApp
    <2>1. WindowInv'
        BY <1>8 DEF DeleteApp, WindowInv
    <2>2. AnswerFromCallWindow'
        BY <1>8 DEF DeleteApp, AnswerFromCallWindow
    <2> QED BY <1>0, <2>1, <2>2
<1>9. CASE UNCHANGED vars
    BY <1>9 DEF vars, WindowInv, AnswerFromCallWindow
<1> QED BY <1>1, <1>2, <1>3, <1>4, <1>5, <1>6, <1>7, <1>8, <1>9 DEF Next, Step

(* A successful ReadAppLogs returns build logs of a build that was the     *)
(* latest one at some moment of the call and runtime logs only of a        *)
(* revision the app had during the call, and the running revision's logs  *)
(* when the app was not restarted or deleted meanwhile: for any number of  *)
(* concurrent invocations and however the app changes between the reads.  *)
THEOREM AnswersFromCallWindow == Spec => []AnswerFromCallWindow
<1>1. IInv => AnswerFromCallWindow
    BY DEF IInv
<1> QED BY InitIInv, NextIInv, <1>1, PTL DEF Spec

=============================================================================
