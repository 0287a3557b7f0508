-------------------------- MODULE AssessmentService --------------------------
(***************************************************************************)
(* The lifecycle of Security Assessments as SecurityAssuranceService       *)
(* (src/src/index.ts) drives it over SecurityPersistence                   *)
(* (src/src/internal/persistence.ts).                                      *)
(*                                                                         *)
(* Every SecurityPersistence operation is one synchronous SQLite           *)
(* transaction, so one commit is one atomic step.  The service is a single *)
(* JavaScript thread: between two awaits nothing else of this process      *)
(* runs, but the process can still die between two commits of the same     *)
(* synchronous stretch.  The variable turn holds what the current stretch  *)
(* has yet to do; every other action of the process waits for it to empty, *)
(* Crash does not.                                                         *)
(*                                                                         *)
(* Subject, policy, findings content, timestamps, reasons and digests are  *)
(* abstracted: a request is identified by its key (standing for principal, *)
(* authority kind and idempotency key), an attempt by the revision its     *)
(* beginning committed, a publication by its random sealId.                *)
(***************************************************************************)
EXTENDS Integers, Sequences, FiniteSets

CONSTANTS
    Assessments,  \* assessments, each standing for the start request creating it
    Windowed,     \* those whose contract requests the Risk Decision Window control
    Findings,     \* finding identities an evaluation may establish
    Keys,         \* idempotency keys of resume, cancel and decision requests
    SealIds,      \* the values of randomUUID() a run may draw for seals
    NoSeal,       \* the null publication
    Calls,        \* concurrent recordRiskDecision calls past their commit
    MaxRevision,  \* bound: an assessment is resumed only below this revision
    MaxCrashes    \* bound on abrupt process deaths

ASSUME WindowedAssumption == Windowed \subseteq Assessments
ASSUME SealAssumption == NoSeal \notin SealIds
ASSUME BoundAssumption == MaxRevision \in Nat /\ MaxCrashes \in Nat

VARIABLES
    (* durable: the SQLite store *)
    record,       \* assessments table: the current InternalAssessmentRecordV1
    journal,      \* assessment_revisions table: event kinds in revision order
    receipts,     \* idempotency_records table of resume, cancel and decision
    (* durable: the private artifact directories *)
    evidence,     \* evidence/<assessment>: attempts whose Evidence is published
    bundles,      \* bundles/<assessment>: published seal identities
    (* volatile: the process *)
    process,      \* lifecycle of the service process
    turn,         \* what the current synchronous stretch has yet to do
    admitted,     \* calls past their admission check, inside a later await
    runner,       \* runningAssessments: the evaluation task of each assessment
    cancelling,   \* cancelAssessment calls awaiting the running task
    finalizer,    \* recordRiskDecision calls inside finalizeResolvedRiskDecision
    crashes       \* abrupt process deaths so far

store == <<record, journal, receipts>>
disk == <<evidence, bundles>>
volatile == <<turn, admitted, runner, cancelling, finalizer>>
vars == <<record, journal, receipts, evidence, bundles,
          process, turn, admitted, runner, cancelling, finalizer, crashes>>

-----------------------------------------------------------------------------
(* State. *)

States == {"ABSENT", "CREATED", "RUNNING", "BLOCKED", "SEALED", "CANCELED"}
Terminal == {"SEALED", "CANCELED"}
FailureCodes == {"null", "ASSESSMENT_EXECUTION_FAILED",
                 "HOST_RESTART_DURING_EVALUATION", "RISK_DECISION_WINDOW"}
Resolutions == {"NOT_RECORDED", "PENDING_DUAL_AUTHORITY", "ACCEPTED", "DENIED"}
Events == {"assessment_created", "assessment_begun", "assessment_resume_admitted",
           "assessment_cancellation_requested", "assessment_canceled",
           "assessment_sealed", "risk_decision_window_opened",
           "risk_decision_recorded", "assessment_blocked"}
Operations == {"resume_assessment", "cancel_assessment", "record_risk_decision"}

(* The record's null values are "null", 0, {} and NoSeal.  The fields       *)
(* coverage, findings, evaluationTrace, verdict, seal, bundleManifest,      *)
(* submission and publicationDigest are set and cleared together: one field *)
(* publication stands for them, with the window's findings kept apart.      *)
Records ==
    [state: States, revision: Nat, pendingCancellation: Nat,
     failureCode: FailureCodes, window: {"null", "OPEN", "RESOLVED"},
     windowFindings: SUBSET Findings, windowEvidence: Nat,
     decisions: [Findings -> Resolutions], publication: SealIds \cup {NoSeal}]

AbsentRecord ==
    [state |-> "ABSENT", revision |-> 0, pendingCancellation |-> 0,
     failureCode |-> "null", window |-> "null", windowFindings |-> {},
     windowEvidence |-> 0, decisions |-> [f \in Findings |-> "NOT_RECORDED"],
     publication |-> NoSeal]

Receipts == [operation: Operations, target: Assessments, key: Keys, revision: Nat]

RunnerSteps == {"none", "analyzing", "evaluated", "sealing", "settled"}
Runners == [pc: RunnerSteps, revision: Nat, aborted: BOOLEAN,
            seal: SealIds \cup {NoSeal}]
NoRunner == [pc |-> "none", revision |-> 0, aborted |-> FALSE, seal |-> NoSeal]
Live == {"analyzing", "evaluated", "sealing"}

IdleFinalizer ==
    [pc |-> "idle", target |-> "nobody", revision |-> 0, seal |-> NoSeal]
Finalizers ==
    {IdleFinalizer} \cup
    [pc: {"reading", "sealing"}, target: Assessments, revision: Nat,
     seal: SealIds \cup {NoSeal}]

TurnSteps == [step: {"launch", "complete"}, target: Assessments, revision: Nat]
LaunchOf(a) == [step |-> "launch", target |-> a, revision |-> 0]
CompletionOf(a, r) == [step |-> "complete", target |-> a, revision |-> r]

Init ==
    /\ record = [a \in Assessments |-> AbsentRecord]
    /\ journal = [a \in Assessments |-> <<>>]
    /\ receipts = {}
    /\ evidence = [a \in Assessments |-> {}]
    /\ bundles = [a \in Assessments |-> {}]
    /\ process = "ACTIVE"
    /\ turn = {}
    /\ admitted = {}
    /\ runner = [a \in Assessments |-> NoRunner]
    /\ cancelling = {}
    /\ finalizer = [c \in Calls |-> IdleFinalizer]
    /\ crashes = 0

-----------------------------------------------------------------------------
(* Helpers shared by the transactions. *)

\* admitsMutations, evaluated by a call that starts now.
Admits == process = "ACTIVE" /\ turn = {}
\* The store is open and the event loop is free: a pending await may continue.
Continues == process \in {"ACTIVE", "QUIESCING"} /\ turn = {}

\* commitAssessmentRevision: the new snapshot at the next revision and its
\* journal row, in one transaction.
Commit(a, snapshot, event) ==
    /\ record' = [record EXCEPT
                    ![a] = [snapshot EXCEPT !.revision = record[a].revision + 1]]
    /\ journal' = [journal EXCEPT ![a] = Append(@, event)]

\* Mutant: the idempotency lookup compares another column and never finds a row.
BugReplayLookup(op, a, k) == {r \in receipts : r.key = op}

ReceiptsOf(op, a, k) ==
    {r \in receipts : r.operation = op /\ r.target = a /\ r.key = k}

\* recordIdempotency: the receipt carries the revision the request committed.
Receive(op, a, k) ==
    receipts' = receipts \cup
        {[operation |-> op, target |-> a, key |-> k,
          revision |-> record[a].revision + 1]}

Fresh(s) == \A a \in Assessments : s \notin bundles[a]

\* blockAssessment: a no-op unless RUNNING at exactly this revision with no
\* cancellation accepted.
Blockable(a, r) ==
    /\ record[a].state = "RUNNING"
    /\ record[a].revision = r
    /\ record[a].pendingCancellation = 0

\* Mutant: the failure code and the event kind are passed in each other's place.
BugSwappedBlock(a, r, code) ==
    IF Blockable(a, r)
    THEN Commit(a, [record[a] EXCEPT !.state = "BLOCKED",
                                     !.failureCode = "assessment_blocked"],
                "assessment_blocked")
    ELSE UNCHANGED <<record, journal>>

Block(a, r, code) ==
    IF Blockable(a, r)
    THEN Commit(a, [record[a] EXCEPT !.state = "BLOCKED", !.failureCode = code],
                "assessment_blocked")
    ELSE UNCHANGED <<record, journal>>

\* Mutant: the seal does not look for an accepted cancellation, and compares no
\* revision because the request has just moved it.
BugSealIgnoresCancellation(a, r) ==
    \/ record[a].state = "RUNNING"
    \/ record[a].state = "BLOCKED" /\ record[a].window = "RESOLVED"

\* sealAssessment: the guard of the terminal commit.
Sealable(a, r) ==
    /\ \/ record[a].state = "RUNNING"
       \/ record[a].state = "BLOCKED" /\ record[a].window = "RESOLVED"
    /\ record[a].revision = r
    /\ record[a].pendingCancellation = 0

Seal(a, s) ==
    Commit(a, [record[a] EXCEPT !.state = "SEALED", !.failureCode = "null",
                                !.publication = s],
           "assessment_sealed")

\* completeAssessmentCancellation.  Repeating it after CANCELED is a no-op; a
\* request that does not match the pending one is a conflict without effect.
CompleteCancellation(a, r) ==
    IF /\ record[a].state \notin Terminal
       /\ record[a].revision >= r
       /\ record[a].pendingCancellation = r
    THEN Commit(a, [record[a] EXCEPT !.state = "CANCELED", !.failureCode = "null",
                                     !.publication = NoSeal],
                "assessment_canceled")
    ELSE UNCHANGED <<record, journal>>

-----------------------------------------------------------------------------
(* startAssessment. *)

\* The call is admitted, finds no replay, and awaits the Subject Freeze.
AdmitStart(a) ==
    /\ Admits
    /\ record[a].state = "ABSENT"
    /\ admitted' = admitted \cup {<<"start", a>>}
    /\ UNCHANGED <<store, disk, process, turn, runner, cancelling, finalizer, crashes>>

\* The freeze fails, the caller gives up, or the Repository changed meanwhile.
AbandonStart(a) ==
    /\ Continues
    /\ <<"start", a>> \in admitted
    /\ admitted' = admitted \ {<<"start", a>>}
    /\ UNCHANGED <<store, disk, process, turn, runner, cancelling, finalizer, crashes>>

\* createAssessment commits revision 1, then the same stretch launches.
CreateAssessment(a) ==
    /\ Continues
    /\ <<"start", a>> \in admitted
    /\ record[a].state = "ABSENT"
    /\ Commit(a, [record[a] EXCEPT !.state = "CREATED"], "assessment_created")
    /\ turn' = {LaunchOf(a)}
    /\ admitted' = admitted \ {<<"start", a>>}
    /\ UNCHANGED <<receipts, disk, process, runner, cancelling, finalizer, crashes>>

\* The same start again: the stored receipt, and a launch.
ReplayStart(a) ==
    /\ Admits
    /\ record[a].state # "ABSENT"
    /\ turn' = {LaunchOf(a)}
    /\ UNCHANGED <<store, disk, process, admitted, runner, cancelling, finalizer, crashes>>

\* launchAssessment: nothing while runningAssessments has an entry; otherwise
\* runAssessment starts, and its first synchronous act is beginAssessment.
Launch(a) ==
    /\ LaunchOf(a) \in turn
    /\ turn' = turn \ {LaunchOf(a)}
    /\ IF runner[a].pc # "none"
       THEN UNCHANGED <<record, journal, runner>>
       ELSE IF record[a].state = "CREATED" /\ record[a].pendingCancellation = 0
       THEN /\ Commit(a, [record[a] EXCEPT !.state = "RUNNING"], "assessment_begun")
            /\ runner' = [runner EXCEPT
                 ![a] = [NoRunner EXCEPT !.pc = "analyzing",
                                         !.revision = record[a].revision + 1]]
       ELSE /\ runner' = [runner EXCEPT ![a] = [NoRunner EXCEPT !.pc = "settled"]]
            /\ UNCHANGED <<record, journal>>
    /\ UNCHANGED <<receipts, disk, process, admitted, cancelling, finalizer, crashes>>

-----------------------------------------------------------------------------
(* resumeAssessment. *)

\* Mutant: resume forgets that a cancellation may have been accepted.
BugResumeCanceling(a, k) ==
    /\ Admits
    /\ ReceiptsOf("resume_assessment", a, k) = {}
    /\ record[a].state = "BLOCKED"
    /\ record[a].window = "null"
    /\ Commit(a, [record[a] EXCEPT !.state = "CREATED", !.failureCode = "null",
                                   !.publication = NoSeal],
              "assessment_resume_admitted")
    /\ Receive("resume_assessment", a, k)
    /\ turn' = {LaunchOf(a)}
    /\ UNCHANGED <<disk, process, admitted, runner, cancelling, finalizer, crashes>>

\* The caller names the current revision; the commit clears the earlier outcome
\* and the same stretch launches.
ResumeAssessment(a, k) ==
    /\ Admits
    /\ ReceiptsOf("resume_assessment", a, k) = {}
    /\ record[a].state = "BLOCKED"
    /\ record[a].window = "null"
    /\ record[a].pendingCancellation = 0
    /\ Commit(a, [record[a] EXCEPT !.state = "CREATED", !.failureCode = "null",
                                   !.publication = NoSeal],
              "assessment_resume_admitted")
    /\ Receive("resume_assessment", a, k)
    /\ turn' = {LaunchOf(a)}
    /\ UNCHANGED <<disk, process, admitted, runner, cancelling, finalizer, crashes>>

ReplayResume(a, k) ==
    /\ Admits
    /\ ReceiptsOf("resume_assessment", a, k) # {}
    /\ turn' = {LaunchOf(a)}
    /\ UNCHANGED <<store, disk, process, admitted, runner, cancelling, finalizer, crashes>>

-----------------------------------------------------------------------------
(* cancelAssessment. *)

\* Mutant: the running task is aborted but not awaited.
BugCompleteAtOnce(a, r) ==
    /\ turn' = {CompletionOf(a, r)}
    /\ runner' = [runner EXCEPT ![a].aborted = runner[a].pc # "none"]
    /\ UNCHANGED cancelling

\* After the request is durable: abort and await the running task if there is
\* one, otherwise complete in the same stretch.
Quell(a, r) ==
    IF runner[a].pc = "none"
    THEN /\ turn' = {CompletionOf(a, r)}
         /\ UNCHANGED <<runner, cancelling>>
    ELSE /\ runner' = [runner EXCEPT ![a].aborted = TRUE]
         /\ cancelling' = cancelling \cup {[target |-> a, revision |-> r]}
         /\ UNCHANGED turn

\* Mutant: the request does not look at the state.
BugCancelAnyState(a, k) ==
    /\ Admits
    /\ ReceiptsOf("cancel_assessment", a, k) = {}
    /\ record[a].state # "ABSENT"
    /\ record[a].pendingCancellation = 0
    /\ Commit(a, [record[a] EXCEPT !.pendingCancellation = record[a].revision + 1],
              "assessment_cancellation_requested")
    /\ Receive("cancel_assessment", a, k)
    /\ Quell(a, record[a].revision + 1)
    /\ UNCHANGED <<disk, process, admitted, finalizer, crashes>>

RequestCancellation(a, k) ==
    /\ Admits
    /\ ReceiptsOf("cancel_assessment", a, k) = {}
    /\ record[a].state \in {"CREATED", "RUNNING", "BLOCKED"}
    /\ record[a].pendingCancellation = 0
    /\ Commit(a, [record[a] EXCEPT !.pendingCancellation = record[a].revision + 1],
              "assessment_cancellation_requested")
    /\ Receive("cancel_assessment", a, k)
    /\ Quell(a, record[a].revision + 1)
    /\ UNCHANGED <<disk, process, admitted, finalizer, crashes>>

ReplayCancellation(a, k) ==
    /\ Admits
    /\ \E r \in ReceiptsOf("cancel_assessment", a, k) : Quell(a, r.revision)
    /\ UNCHANGED <<store, disk, process, admitted, finalizer, crashes>>

\* No task was running: completion follows the request without an await.
CompleteCancellationNow(a) ==
    /\ \E t \in turn :
         /\ t = CompletionOf(a, t.revision)
         /\ turn' = turn \ {t}
         /\ CompleteCancellation(a, t.revision)
    /\ UNCHANGED <<receipts, disk, process, admitted, runner, cancelling, finalizer, crashes>>

\* The awaited task has settled and the call continues.
CompleteCancellationAfterTask(a) ==
    /\ Continues
    /\ runner[a].pc \notin Live
    /\ \E call \in cancelling :
         /\ call.target = a
         /\ cancelling' = cancelling \ {call}
         /\ CompleteCancellation(a, call.revision)
    /\ UNCHANGED <<receipts, disk, process, turn, admitted, runner, finalizer, crashes>>

-----------------------------------------------------------------------------
(* runAssessment, after beginAssessment. *)

\* Mutant: the publication of the Evidence is not awaited.
BugEvidenceNotAwaited(a) ==
    /\ Continues
    /\ runner[a].pc = "analyzing"
    /\ runner' = [runner EXCEPT ![a].pc = "evaluated"]
    /\ UNCHANGED <<store, disk, process, turn, admitted, cancelling, finalizer, crashes>>

\* Slices are read, analyzers run, the kernel evaluates, and publishEvidenceSet
\* has renamed the attempt's Evidence into place.
EvaluateAndPublishEvidence(a) ==
    /\ Continues
    /\ runner[a].pc = "analyzing"
    /\ evidence' = [evidence EXCEPT ![a] = @ \cup {runner[a].revision}]
    /\ runner' = [runner EXCEPT ![a].pc = "evaluated"]
    /\ UNCHANGED <<store, bundles, process, turn, admitted, cancelling, finalizer, crashes>>

\* openRiskDecisionWindow; a conflict is caught and ends in blockAssessment.
OpenRiskDecisionWindow(a) ==
    /\ Continues
    /\ runner[a].pc = "evaluated"
    /\ a \in Windowed
    /\ \E found \in SUBSET Findings \ {{}} :
         IF Blockable(a, runner[a].revision) /\ record[a].window = "null"
         THEN Commit(a, [record[a] EXCEPT !.state = "BLOCKED",
                                          !.failureCode = "RISK_DECISION_WINDOW",
                                          !.window = "OPEN",
                                          !.windowFindings = found,
                                          !.windowEvidence = runner[a].revision],
                     "risk_decision_window_opened")
         ELSE Block(a, runner[a].revision, "ASSESSMENT_EXECUTION_FAILED")
    /\ runner' = [runner EXCEPT ![a].pc = "settled"]
    /\ UNCHANGED <<receipts, disk, process, turn, admitted, cancelling, finalizer, crashes>>

\* Mutant: the staged files are never renamed into place.
BugStagedOnly(a) ==
    /\ Continues
    /\ runner[a].pc = "evaluated"
    /\ \E s \in SealIds :
         /\ Fresh(s)
         /\ runner' = [runner EXCEPT ![a].pc = "sealing", ![a].seal = s]
    /\ UNCHANGED <<store, disk, process, turn, admitted, cancelling, finalizer, crashes>>

\* No window is needed: publishSealedArtifacts renames a fresh publication into
\* place before anything is committed.
PublishSealedArtifacts(a) ==
    /\ Continues
    /\ runner[a].pc = "evaluated"
    /\ \E s \in SealIds :
         /\ Fresh(s)
         /\ bundles' = [bundles EXCEPT ![a] = @ \cup {s}]
         /\ runner' = [runner EXCEPT ![a].pc = "sealing", ![a].seal = s]
    /\ UNCHANGED <<store, evidence, process, turn, admitted, cancelling, finalizer, crashes>>

\* The abort check and sealAssessment; abort or conflict ends in blockAssessment.
SealAssessment(a) ==
    /\ Continues
    /\ runner[a].pc = "sealing"
    /\ IF ~runner[a].aborted /\ Sealable(a, runner[a].revision)
       THEN Seal(a, runner[a].seal)
       ELSE Block(a, runner[a].revision, "ASSESSMENT_EXECUTION_FAILED")
    /\ runner' = [runner EXCEPT ![a].pc = "settled"]
    /\ UNCHANGED <<receipts, disk, process, turn, admitted, cancelling, finalizer, crashes>>

\* Mutant: the failure of the task is swallowed without blocking.
BugSwallowFailure(a) ==
    /\ Continues
    /\ runner[a].pc \in Live
    /\ runner' = [runner EXCEPT ![a].pc = "settled"]
    /\ UNCHANGED <<store, disk, process, turn, admitted, cancelling, finalizer, crashes>>

\* An analyzer, a read, a readiness check, a publication or the abort throws.
FailAssessment(a) ==
    /\ Continues
    /\ runner[a].pc \in Live
    /\ Block(a, runner[a].revision, "ASSESSMENT_EXECUTION_FAILED")
    /\ runner' = [runner EXCEPT ![a].pc = "settled"]
    /\ UNCHANGED <<receipts, disk, process, turn, admitted, cancelling, finalizer, crashes>>

\* task.finally removes the entry one microtask after the task has settled.
ReapTask(a) ==
    /\ Continues
    /\ runner[a].pc = "settled"
    /\ runner' = [runner EXCEPT ![a] = NoRunner]
    /\ UNCHANGED <<store, disk, process, turn, admitted, cancelling, finalizer, crashes>>

-----------------------------------------------------------------------------
(* recordRiskDecision. *)

WindowOpen(a) ==
    /\ record[a].state = "BLOCKED"
    /\ record[a].failureCode = "RISK_DECISION_WINDOW"
    /\ record[a].window = "OPEN"

\* The call is admitted and awaits the Finding it decides.
AdmitDecision(a) ==
    /\ Admits
    /\ WindowOpen(a)
    /\ admitted' = admitted \cup {<<"decide", a>>}
    /\ UNCHANGED <<store, disk, process, turn, runner, cancelling, finalizer, crashes>>

\* The Finding changed, the caller lacks the authority, or the policy refuses.
AbandonDecision(a) ==
    /\ Continues
    /\ <<"decide", a>> \in admitted
    /\ admitted' = admitted \ {<<"decide", a>>}
    /\ UNCHANGED <<store, disk, process, turn, runner, cancelling, finalizer, crashes>>

\* What a decision leaves: a first one denies, accepts, or waits for a second
\* authority; a waiting one can only become accepted.
Decides(current, next) ==
    \/ current = "NOT_RECORDED" /\ next # "NOT_RECORDED"
    \/ current = "PENDING_DUAL_AUTHORITY" /\ next = "ACCEPTED"

Undecided == {"NOT_RECORDED", "PENDING_DUAL_AUTHORITY"}

\* finalizeResolvedRiskDecision reads the record synchronously; an unresolved
\* window ends the call at once.
Finalize(c, a, state, window, revision) ==
    IF state = "BLOCKED" /\ window = "RESOLVED"
    THEN finalizer' = [finalizer EXCEPT
           ![c] = [IdleFinalizer EXCEPT !.pc = "reading", !.target = a,
                                        !.revision = revision]]
    ELSE UNCHANGED finalizer

RecordRiskDecision(a, k, c) ==
    /\ Continues
    /\ <<"decide", a>> \in admitted
    /\ admitted' = admitted \ {<<"decide", a>>}
    /\ finalizer[c].pc = "idle"
    /\ ReceiptsOf("record_risk_decision", a, k) = {}
    /\ WindowOpen(a)
    /\ record[a].pendingCancellation = 0
    /\ \E f \in record[a].windowFindings, resolution \in Resolutions :
         /\ Decides(record[a].decisions[f], resolution)
         /\ LET decisions == [record[a].decisions EXCEPT ![f] = resolution]
                resolved == \A g \in record[a].windowFindings :
                               decisions[g] \notin Undecided
                window == IF resolved THEN "RESOLVED" ELSE "OPEN"
            IN  /\ Commit(a, [record[a] EXCEPT !.decisions = decisions,
                                               !.window = window],
                          "risk_decision_recorded")
                /\ Finalize(c, a, "BLOCKED", window, record[a].revision + 1)
    /\ Receive("record_risk_decision", a, k)
    /\ UNCHANGED <<disk, process, turn, runner, cancelling, crashes>>

\* The same decision again: the stored receipt, then another finalization.
ReplayRiskDecision(a, k, c) ==
    /\ Admits
    /\ finalizer[c].pc = "idle"
    /\ ReceiptsOf("record_risk_decision", a, k) # {}
    /\ Finalize(c, a, record[a].state, record[a].window, record[a].revision)
    /\ UNCHANGED <<store, disk, process, turn, admitted, runner, cancelling, crashes>>

\* The window's Evidence is re-read, the outcome is finalized and published.
PublishFinalizedOutcome(c) ==
    /\ Continues
    /\ finalizer[c].pc = "reading"
    /\ LET a == finalizer[c].target
       IN  /\ record[a].windowEvidence \in evidence[a]
           /\ \E s \in SealIds :
                /\ Fresh(s)
                /\ bundles' = [bundles EXCEPT ![a] = @ \cup {s}]
                /\ finalizer' = [finalizer EXCEPT ![c].pc = "sealing", ![c].seal = s]
    /\ UNCHANGED <<store, evidence, process, turn, admitted, runner, cancelling, crashes>>

\* sealAssessment at the revision the call read; a conflict is swallowed.
SealFinalizedOutcome(c) ==
    /\ Continues
    /\ finalizer[c].pc = "sealing"
    /\ LET a == finalizer[c].target
       IN  IF Sealable(a, finalizer[c].revision)
           THEN Seal(a, finalizer[c].seal)
           ELSE UNCHANGED <<record, journal>>
    /\ finalizer' = [finalizer EXCEPT ![c] = IdleFinalizer]
    /\ UNCHANGED <<receipts, disk, process, turn, admitted, runner, cancelling, crashes>>

\* Reading, readiness or publication throws; the decision stays recorded.
FailFinalization(c) ==
    /\ Continues
    /\ finalizer[c].pc # "idle"
    /\ finalizer' = [finalizer EXCEPT ![c] = IdleFinalizer]
    /\ UNCHANGED <<store, disk, process, turn, admitted, runner, cancelling, crashes>>

-----------------------------------------------------------------------------
(* The process. *)

\* Everything the process held is gone.
Forget ==
    /\ turn' = {}
    /\ admitted' = {}
    /\ runner' = [a \in Assessments |-> NoRunner]
    /\ cancelling' = {}
    /\ finalizer' = [c \in Calls |-> IdleFinalizer]

\* Teardown closes admission and aborts every running task.
Quiesce ==
    /\ Admits
    /\ process' = "QUIESCING"
    /\ runner' = [a \in Assessments |->
                    IF runner[a].pc = "none" THEN NoRunner
                    ELSE [runner[a] EXCEPT !.aborted = TRUE]]
    /\ UNCHANGED <<store, disk, turn, admitted, cancelling, finalizer, crashes>>

\* Mutant: teardown waits for every assessment to have its outcome.
BugCloseAwaitsOutcomes ==
    /\ process = "QUIESCING"
    /\ turn = {}
    /\ \A a \in Assessments : record[a].state \in Terminal \cup {"ABSENT"}
    /\ process' = "STOPPED"
    /\ Forget
    /\ UNCHANGED <<store, disk, crashes>>

\* Once the aborted tasks have settled the store closes; later calls into it
\* throw, so what is still awaiting can no longer commit.
CloseStore ==
    /\ process = "QUIESCING"
    /\ turn = {}
    /\ \A a \in Assessments : runner[a].aborted => runner[a].pc \notin Live
    /\ process' = "STOPPED"
    /\ Forget
    /\ UNCHANGED <<store, disk, crashes>>

Crash ==
    /\ process # "STOPPED"
    /\ crashes < MaxCrashes
    /\ crashes' = crashes + 1
    /\ process' = "STOPPED"
    /\ Forget
    /\ UNCHANGED <<store, disk>>

\* A new service opens the store and begins recoverInterruptedAssessments.
Boot ==
    /\ process = "STOPPED"
    /\ process' = "RECOVERING"
    /\ UNCHANGED <<store, disk, volatile, crashes>>

\* Mutant: only assessments that were executing are looked at.
BugPendingOfRunning ==
    {a \in Assessments : /\ record[a].state = "RUNNING"
                         /\ record[a].pendingCancellation # 0}

PendingCancellations ==
    {a \in Assessments : /\ record[a].state \notin Terminal
                         /\ record[a].pendingCancellation # 0}
\* Mutant: only attempts aborted by this process count as interrupted.
BugInterruptedInMemory == {a \in Assessments : runner[a].aborted}

Interrupted == {a \in Assessments : record[a].state = "RUNNING"}

\* First every accepted cancellation is completed, ...
RecoverCancellation(a) ==
    /\ process = "RECOVERING"
    /\ a \in PendingCancellations
    /\ CompleteCancellation(a, record[a].pendingCancellation)
    /\ UNCHANGED <<receipts, disk, process, volatile, crashes>>

\* Mutant: recovery re-queues the interrupted attempt.
BugRequeue(a) ==
    /\ process = "RECOVERING"
    /\ PendingCancellations = {}
    /\ a \in Interrupted
    /\ Commit(a, [record[a] EXCEPT !.state = "CREATED"], "assessment_blocked")
    /\ UNCHANGED <<receipts, disk, process, volatile, crashes>>

\* ... then every assessment still RUNNING is blocked, never re-run.
RecoverInterrupted(a) ==
    /\ process = "RECOVERING"
    /\ PendingCancellations = {}
    /\ a \in Interrupted
    /\ Block(a, record[a].revision, "HOST_RESTART_DURING_EVALUATION")
    /\ UNCHANGED <<receipts, disk, process, volatile, crashes>>

\* The store is ready and every CREATED assessment is launched in one stretch.
FinishRecovery ==
    /\ process = "RECOVERING"
    /\ PendingCancellations = {}
    /\ Interrupted = {}
    /\ process' = "ACTIVE"
    /\ turn' = {LaunchOf(a) : a \in {b \in Assessments : record[b].state = "CREATED"}}
    /\ UNCHANGED <<store, disk, admitted, runner, cancelling, finalizer, crashes>>

-----------------------------------------------------------------------------

ClientRequest(a) ==
    \/ AdmitStart(a) \/ AbandonStart(a) \/ ReplayStart(a)
    \/ AdmitDecision(a) \/ AbandonDecision(a)
    \/ \E k \in Keys :
         \/ record[a].revision < MaxRevision /\ ResumeAssessment(a, k)
         \/ ReplayResume(a, k)
         \/ RequestCancellation(a, k) \/ ReplayCancellation(a, k)
         \/ \E c \in Calls : RecordRiskDecision(a, k, c) \/ ReplayRiskDecision(a, k, c)

RunnerStep(a) ==
    \/ EvaluateAndPublishEvidence(a) \/ OpenRiskDecisionWindow(a)
    \/ PublishSealedArtifacts(a) \/ SealAssessment(a) \/ FailAssessment(a)

ServiceStep(a) ==
    \/ CreateAssessment(a) \/ Launch(a) \/ ReapTask(a)
    \/ CompleteCancellationNow(a) \/ CompleteCancellationAfterTask(a)

FinalizerStep(c) ==
    PublishFinalizedOutcome(c) \/ SealFinalizedOutcome(c) \/ FailFinalization(c)

Recovery ==
    \/ Boot \/ FinishRecovery
    \/ \E a \in Assessments : RecoverCancellation(a) \/ RecoverInterrupted(a)

Next ==
    \/ \E a \in Assessments : ClientRequest(a) \/ RunnerStep(a) \/ ServiceStep(a)
    \/ \E c \in Calls : FinalizerStep(c)
    \/ Recovery \/ Quiesce \/ CloseStore \/ Crash

Spec == Init /\ [][Next]_vars
-----------------------------------------------------------------------------
(* Properties. *)

\* Every variable holds a value of its kind.
TypeOK ==
    /\ record \in [Assessments -> Records]
    /\ journal \in [Assessments -> Seq(Events)]
    /\ receipts \subseteq Receipts
    /\ evidence \in [Assessments -> SUBSET Nat]
    /\ bundles \in [Assessments -> SUBSET SealIds]
    /\ process \in {"ACTIVE", "QUIESCING", "STOPPED", "RECOVERING"}
    /\ turn \subseteq TurnSteps
    /\ admitted \subseteq {"start", "decide"} \X Assessments
    /\ runner \in [Assessments -> Runners]
    /\ cancelling \subseteq [target: Assessments, revision: Nat]
    /\ finalizer \in [Calls -> Finalizers]
    /\ crashes \in 0 .. MaxCrashes

\* A SEALED record names a publication whose files are already in place: no
\* crash between publishSealedArtifacts and sealAssessment can leave a Seal
\* that getBundleManifest cannot verify.
SealedIsPublished ==
    \A a \in Assessments :
        record[a].state = "SEALED" => record[a].publication \in bundles[a]

\* The Evidence a Risk Decision Window refers to is published for as long as a
\* decision can still finalize from it.
WindowHasEvidence ==
    \A a \in Assessments :
        record[a].window # "null" => record[a].windowEvidence \in evidence[a]

\* While the store is open, an assessment left RUNNING with no cancellation
\* accepted is being evaluated by a task that still holds its exact revision:
\* no failure path of runAssessment forgets to block what it began.
RunningHasItsTask ==
    \A a \in Assessments :
        /\ process \in {"ACTIVE", "QUIESCING"}
        /\ record[a].state = "RUNNING"
        /\ record[a].pendingCancellation = 0
        => /\ runner[a].pc \in Live
           /\ runner[a].revision = record[a].revision

\* CANCELED is committed only once the evaluation task has stopped.
CanceledHasNoTask ==
    \A a \in Assessments :
        record[a].state = "CANCELED" => runner[a].pc \notin Live

\* Once a cancellation has been requested, the only later revision is the one
\* that cancels: admission of seals, windows, decisions and resumes is closed
\* across crashes, restarts and calls already under way.
CancellationClosesAdmission ==
    \A a \in Assessments : \A i \in DOMAIN journal[a] :
        journal[a][i] = "assessment_cancellation_requested"
        => \A j \in DOMAIN journal[a] :
              j > i => j = i + 1 /\ journal[a][j] = "assessment_canceled"

\* Recovery never silently repeats an attempt: between two beginnings of one
\* assessment lies a resume that an operator was granted.
EveryAttemptIsAuthorized ==
    \A a \in Assessments : \A i, j \in DOMAIN journal[a] :
        /\ i < j
        /\ journal[a][i] = "assessment_begun"
        /\ journal[a][j] = "assessment_begun"
        => \E h \in i .. j : journal[a][h] = "assessment_resume_admitted"

\* Every receipt is backed by the journal row its request committed, and no two
\* requests were granted the same revision: a replayed key never mutates twice.
EventOf(op) ==
    CASE op = "resume_assessment" -> "assessment_resume_admitted"
      [] op = "cancel_assessment" -> "assessment_cancellation_requested"
      [] op = "record_risk_decision" -> "risk_decision_recorded"

ReceiptsAreCommits ==
    /\ \A r \in receipts :
         /\ r.revision \in DOMAIN journal[r.target]
         /\ journal[r.target][r.revision] = EventOf(r.operation)
    /\ \A r, s \in receipts :
         \/ r = s
         \/ r.target # s.target
         \/ r.revision # s.revision /\ <<r.operation, r.key>> # <<s.operation, s.key>>

\* A terminal record never changes again, whatever was still in flight.
TerminalIsFinal ==
    [][\A a \in Assessments :
         record[a].state \in Terminal =>
            record'[a] = record[a] /\ journal'[a] = journal[a]]_vars

-----------------------------------------------------------------------------
(* What the repository's text says and the code does not do. *)

\* CANCELED commits only when nothing owned by the assessment can still publish:
\* neither the evaluation task nor a finalization under way.
CanceledIsQuiescent ==
    \A a \in Assessments :
        record[a].state = "CANCELED" =>
            /\ runner[a].pc \notin Live
            /\ \A c \in Calls : finalizer[c].target # a

\* A teardown closes command admission and records every interruption before
\* the store is unloaded: checked where no crash can stop the process.
TeardownRecordsInterruptions ==
    process = "STOPPED" => \A a \in Assessments : record[a].state # "RUNNING"

-----------------------------------------------------------------------------
(* Liveness.  Analyzers and file operations end and a stopped host is        *)
(* restarted.  Fairness is strong where the step waits for the event loop to *)
(* be free: its queues are first in, first out, so a continuation that is    *)
(* ready runs after finitely many calls of clients.  Nothing obliges clients *)
(* to call, nor the process to crash or to quiesce.                          *)

Fairness ==
    /\ \A a \in Assessments :
         /\ SF_vars(RunnerStep(a))
         /\ SF_vars(ReapTask(a))
         /\ SF_vars(CompleteCancellationAfterTask(a))
         /\ WF_vars(Launch(a))
         /\ WF_vars(CompleteCancellationNow(a))
    /\ WF_vars(Recovery)
    /\ WF_vars(CloseStore)

\* What the service has begun and not ended: an execution, an accepted
\* cancellation, or a teardown that waits for the tasks.
Owes(a) ==
    \/ record[a].state = "RUNNING"
    \/ record[a].pendingCancellation # 0 /\ record[a].state # "CANCELED"
    \/ process = "QUIESCING"

\* What has begun ends, also when one of them meets another or the process dies
\* in between: no assessment stays RUNNING, an accepted cancellation becomes
\* CANCELED, a teardown lets the store close, and a teardown that cuts an
\* execution or a cancellation short leaves them to the next start.
BegunWorkEnds == \A a \in Assessments : Owes(a) ~> ~Owes(a)

-----------------------------------------------------------------------------
(* What the service promises, and the states that stand for it. *)

phase == [a \in Assessments |->
            CASE record[a].state = "ABSENT" -> "absent"
              [] record[a].state = "SEALED" -> "sealed"
              [] record[a].state = "CANCELED" -> "canceled"
              [] OTHER -> "open"]
granted == [a \in Assessments |-> record[a].state = "CREATED"]
working == [a \in Assessments |-> record[a].state = "RUNNING"]
closing == [a \in Assessments |-> record[a].pendingCancellation # 0]

Lifecycle == INSTANCE AssessmentLifecycle
                WITH phase <- phase, granted <- granted,
                     working <- working, closing <- closing

\* The service, with its crashes, retries and races, implements the lifecycle.
ImplementsLifecycle == Lifecycle!Spec
=============================================================================
